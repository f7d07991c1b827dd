------------------------------ MODULE Autolock ------------------------------
(***************************************************************************)
(* The background lock (packages/wallet-ui/src/ui/autolock.ts): a          *)
(* remembered wallet out of sight for the chosen time closes to Unlock.    *)
(*                                                                         *)
(* It shares the session with the opens and closes of api.ts and waits for *)
(* the syncs, rescans and broadcasts that holdOpen counts.  Everything     *)
(* between two tasks of the page is one action: the microtasks that follow *)
(* a settled promise, in which whenIdle answers and a waiting lock goes on, *)
(* belong to the action that settles it.                                   *)
(*                                                                         *)
(* Work starts only from a press or from autoSync's timer, and neither     *)
(* runs while the page is hidden.  The races of opens are WalletSession's: *)
(* here one open is in flight at a time.                                   *)
(*                                                                         *)
(* AwaitedOnce, DeadlineMoved, TimerLeftRunning, LeftCounted and           *)
(* SavedAtOnce are faulty variants of the definition each stands before.   *)
(***************************************************************************)
EXTENDS Integers, Sequences, FiniteSets

CONSTANTS Wallets,    \* wallet ids
          Works,      \* syncs, rescans and broadcasts
          Limits,     \* the lock times offered, in ticks; Never is one of them
          Default,    \* the one used when the saved one cannot be read
          MaxClock,   \* bound on the clock
          MaxOpens,   \* bound on the opens
          MaxChoices, \* bound on the choices being saved at once
          None

Never == 0  \* the choice "never"

ASSUME LimitsAssumption == Limits \subseteq Nat /\ Never \in Limits /\ Default \in Limits
ASSUME BoundsAssumption == MaxClock \in Nat /\ MaxOpens \in Nat /\ MaxChoices \in Nat
ASSUME NoneAssumption ==
    /\ None \notin Wallets
    /\ None \notin [wallet : Nat, deadline : Nat]
    /\ None \notin [wallet : Nat, since : Nat, left : BOOLEAN]

VARIABLES hidden,      \* document.visibilityState
          clock,       \* Date.now()
          limit,       \* the choice in force
          stored,      \* the choice the platform keeps
          saving,      \* choices whose save has not settled, oldest first
          trouble,     \* "save": the latest choice's save failed; "read": boot's did
          away,        \* the wallet a hidden page has to lock, and when
          timers,      \* when the running timers go off
          locks,       \* lock calls waiting: their wallet, and what they await
          unfinished,  \* work running
          worked,      \* work that has been started
          handle,      \* session.handle: the number of the open, 0 for none
          opened,      \* opens so far
          wallet,      \* session.wallet
          remembered,  \* session.remembered
          opening,     \* the open in flight
          remembering, \* the open wallet's remember step, in flight
          absence,     \* history: the lockable wallet a `hidden` found first, and when
          overdue      \* history: the handles whose absence reached the limit

page == <<hidden, clock>>
choice == <<limit, stored, saving, trouble>>
open == <<handle, wallet>>
opens == <<opened, opening, remembering>>
work == <<unfinished, worked>>
history == <<absence, overdue>>
vars == <<page, choice, away, timers, locks, work, open, opens, remembered, history>>

-----------------------------------------------------------------------------
\* The open wallet's handle when Unlock can open it again, else 0.
Lockable == IF wallet # None /\ remembered = wallet THEN handle ELSE 0

Init ==
    /\ hidden = FALSE
    /\ clock = 0
    /\ stored \in Limits
    /\ \/ limit = stored /\ trouble = "none"
       \/ limit = Default /\ trouble = "read"
    /\ saving = <<>>
    /\ away = None
    /\ timers = {}
    /\ locks = {}
    /\ unfinished = {}
    /\ worked = {}
    /\ handle = 0
    /\ opened = 0
    /\ wallet = None
    /\ remembered \in Wallets \cup {None}
    /\ opening = None
    /\ remembering = None
    /\ absence = None
    /\ overdue = {}

\* The locks `ls` go on, now that the work they awaited has settled: whenIdle
\* has each wait again for the work there is by now, and lock closes its
\* wallet when there is none, unless it was closed or replaced meanwhile.
AwaitedOnce(ls, running) ==
    /\ locks' = {l \in ls : l.awaits \cap running # {}}
    /\ IF \E l \in ls : l.awaits \cap running = {} /\ l.wallet = Lockable
       THEN handle' = 0 /\ wallet' = None
       ELSE UNCHANGED open
LocksGoOn(ls, running) ==
    /\ locks' = {[l EXCEPT !.awaits = IF @ \cap running = {} THEN running ELSE @] :
                    l \in {m \in ls : running # {}}}
    /\ IF running = {} /\ \E l \in ls : l.wallet = Lockable
       THEN handle' = 0 /\ wallet' = None
       ELSE UNCHANGED open

\* expire: the lock is started for the wallet the page was left with.
Expire ==
    /\ away' = None
    /\ timers' = {}
    /\ LocksGoOn(IF away = None THEN locks
                 ELSE locks \cup {[wallet |-> away.wallet, awaits |-> unfinished]},
                 unfinished)

-----------------------------------------------------------------------------
(* The page.                                                               *)

OutOfSight(h, left) == IF h = 0 THEN None ELSE [wallet |-> h, since |-> clock, left |-> left]

DeadlineMoved == Lockable # 0 /\ limit # Never
ArmsLock == away = None /\ Lockable # 0 /\ limit # Never

\* `hidden`, which a page may be told more than once before it is back.
Hide ==
    /\ hidden' = TRUE
    /\ IF ArmsLock
       THEN /\ away' = [wallet |-> Lockable, deadline |-> clock + limit]
            /\ timers' = timers \cup {clock + limit}
       ELSE UNCHANGED <<away, timers>>
    /\ absence' = IF hidden THEN absence ELSE OutOfSight(handle, Lockable # 0)
    /\ UNCHANGED <<clock, choice, locks, work, open, opens, remembered, overdue>>

TimerLeftRunning == away' = None /\ UNCHANGED timers
StandDown == away' = None /\ timers' = {}

\* `visible`: past the deadline the lock starts, else the absence is over.
Show ==
    /\ hidden
    /\ hidden' = FALSE
    /\ absence' = None
    /\ IF away # None /\ clock >= away.deadline
       THEN Expire
       ELSE StandDown /\ UNCHANGED <<locks, open>>
    /\ UNCHANGED <<clock, choice, work, opens, remembered, overdue>>

\* A timer goes off.  A suspended page may never see it.
TimerFires ==
    /\ \E due \in timers : clock >= due
    /\ Expire
    /\ UNCHANGED <<page, choice, work, opens, remembered, history>>

Tick ==
    /\ clock < MaxClock
    /\ clock' = clock + 1
    /\ overdue' = IF absence # None /\ limit # Never /\ clock + 1 - absence.since >= limit
                  THEN overdue \cup {<<absence.wallet, absence.left>>} ELSE overdue
    /\ UNCHANGED <<hidden, choice, away, timers, locks, work, open, opens, remembered, absence>>

-----------------------------------------------------------------------------
(* holdOpen.                                                               *)

StartWork(j) ==
    /\ ~hidden
    /\ handle # 0
    /\ j \notin worked
    /\ worked' = worked \cup {j}
    /\ unfinished' = unfinished \cup {j}
    /\ UNCHANGED <<page, choice, away, timers, locks, open, opens, remembered, history>>

LeftCounted(j) == unfinished
StillRunning(j) == unfinished \ {j}

WorkSettles(j) ==
    /\ j \in unfinished
    /\ unfinished' = StillRunning(j)
    /\ LocksGoOn(locks, StillRunning(j))
    /\ UNCHANGED <<page, choice, away, timers, worked, opens, remembered, history>>

-----------------------------------------------------------------------------
(* The session under it.                                                   *)

StartOpen(w, remember) ==
    /\ ~hidden
    /\ opening = None
    /\ opened < MaxOpens
    /\ opening' = [wallet |-> w, remember |-> remember]
    /\ UNCHANGED <<page, choice, away, timers, locks, work, open, opened, remembering,
                   remembered, history>>

\* install commits, whether the page is in sight by then or not.
OpenCommits ==
    /\ opening # None
    /\ opened' = opened + 1
    /\ handle' = opened + 1
    /\ wallet' = opening.wallet
    /\ remembering' = IF opening.remember THEN opening.wallet ELSE remembering
    /\ opening' = None
    /\ absence' = IF hidden THEN OutOfSight(opened + 1, FALSE) ELSE absence
    /\ UNCHANGED <<page, choice, away, timers, locks, work, remembered, overdue>>

\* The remember step is through, and openAndEnter mirrors it in the session.
Remembered ==
    /\ remembering # None
    /\ remembered' = remembering
    /\ remembering' = None
    /\ UNCHANGED <<page, choice, away, timers, locks, work, open, opened, opening, history>>

\* Close wallet, or Forget, which drops the record too.
Close(forget) ==
    /\ ~hidden \/ forget
    /\ handle # 0 \/ forget
    /\ handle' = 0
    /\ wallet' = None
    /\ remembered' = IF forget THEN None ELSE remembered
    /\ UNCHANGED <<page, choice, away, timers, locks, work, opens, history>>

-----------------------------------------------------------------------------
(* Lock after.                                                             *)

\* chooseLockAfter: applied at once, saved after the saves before it.
Choose(l) ==
    /\ ~hidden
    /\ Len(saving) < MaxChoices
    /\ limit' = l
    /\ saving' = Append(saving, l)
    /\ trouble' = "none"
    /\ UNCHANGED <<page, stored, away, timers, locks, work, open, opens, remembered, history>>

SavedAtOnce(i) == i \in 1..Len(saving)
SavesNext(i) == saving # <<>> /\ i = 1

\* The platform answers a save.  saveLockAfter says so when the latest fails.
SaveSettles(i, failed) ==
    /\ SavesNext(i)
    /\ saving' = SubSeq(saving, 1, i - 1) \o SubSeq(saving, i + 1, Len(saving))
    /\ stored' = IF failed THEN stored ELSE saving[i]
    /\ trouble' = IF failed /\ i = Len(saving) THEN "save" ELSE trouble
    /\ UNCHANGED <<page, limit, away, timers, locks, work, open, opens, remembered, history>>

-----------------------------------------------------------------------------
Next ==
    \/ Hide \/ Show \/ TimerFires \/ Tick
    \/ \E j \in Works : StartWork(j) \/ WorkSettles(j)
    \/ \E w \in Wallets, remember \in BOOLEAN : StartOpen(w, remember)
    \/ OpenCommits \/ Remembered
    \/ \E forget \in BOOLEAN : Close(forget)
    \/ \E l \in Limits : Choose(l)
    \/ \E i \in 1..MaxChoices, failed \in BOOLEAN : SaveSettles(i, failed)

Spec == Init /\ [][Next]_vars

\* All work settles in the end, but a suspended page's timers may never go off.
FairSpec == Spec /\ \A j \in Works : WF_vars(WorkSettles(j))

\* A desktop window keeps its timers running, and time passes.
TimersRun == WF_vars(TimerFires) /\ WF_vars(Tick)

-----------------------------------------------------------------------------
(* Properties that hold.                                                   *)

Handles == 1..MaxOpens
Absences == [wallet : Handles, since : 0..MaxClock, left : BOOLEAN]

\* h was out of sight, in one absence, for the whole limit; Owed if moreover it
\* was lockable when the page was left.
Overdue(h) == \E left \in BOOLEAN : <<h, left>> \in overdue
Owed(h) == <<h, TRUE>> \in overdue

TypeOK ==
    /\ hidden \in BOOLEAN
    /\ clock \in 0..MaxClock
    /\ limit \in Limits /\ stored \in Limits
    /\ saving \in Seq(Limits) /\ Len(saving) <= MaxChoices
    /\ trouble \in {"none", "save", "read"}
    /\ away # None => away.wallet \in Handles /\ away.deadline \in Nat
    /\ timers \subseteq Nat
    /\ \A l \in locks : l.wallet \in Handles /\ l.awaits \subseteq Works
    /\ unfinished \subseteq worked /\ worked \subseteq Works
    /\ handle \in 0..opened /\ opened \in 0..MaxOpens
    /\ wallet \in Wallets \cup {None} /\ (wallet = None <=> handle = 0)
    /\ remembered \in Wallets \cup {None}
    /\ opening # None => opening.wallet \in Wallets /\ opening.remember \in BOOLEAN
    /\ remembering \in Wallets \cup {None}
    /\ absence # None => absence \in Absences
    /\ overdue \subseteq Handles \X BOOLEAN

\* The lock closed the wallet in this step: no press did, and none replaced it.
LockCloses == handle # 0 /\ handle' = 0 /\ (TimerFires \/ Show \/ \E j \in Works : WorkSettles(j))

\* The lock closes only a wallet that was out of sight, in one absence, for the
\* whole time chosen: not one that came back in time, not one opened since, and
\* not the same wallet opened again while a lock waited.
LocksOnlyOverdue == [][LockCloses => Overdue(handle)]_vars

\* No sync, rescan or broadcast is cut short by the lock, however many start
\* while it waits.
LockInterruptsNothing == [][LockCloses => unfinished' = {}]_vars

\* A wallet back in sight past its deadline is shut, or its lock waits for work
\* that still runs, whether its timer ran while it was away or not.
NeverBackUnlocked ==
    ~hidden /\ Owed(handle) /\ Lockable # 0 =>
        \E l \in locks : l.wallet = handle /\ l.awaits \cap unfinished # {}

\* A lock that waits gets its wallet closed in the end, unless the wallet is
\* forgotten or no longer the remembered one.
LocksComeThrough ==
    \A h \in Handles : (\E l \in locks : l.wallet = h) ~> Lockable # h

\* Where timers run, a wallet left in sight of nobody closes by itself.
ClosesUnattended ==
    TimersRun => \A h \in Handles : (Owed(h) /\ Lockable = h) ~> Lockable # h

\* The last choice is the one kept, in whatever order saves would answer,
\* unless its own save failed or boot could not read it.
LastChoiceIsKept == saving = <<>> => stored = limit \/ trouble # "none"

-----------------------------------------------------------------------------
\* "a remembered wallet that has been out of sight for the chosen time closes to
\* Unlock", and coming back checks the clock (autolock.ts): one opened, or
\* remembered, once the page was hidden is out of sight as long and stays open.
OutOfSightCloses ==
    ~hidden /\ Overdue(handle) /\ Lockable # 0 => \E l \in locks : l.wallet = handle
=============================================================================
