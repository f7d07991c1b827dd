--------------------------- MODULE AutolockProofs ---------------------------
(***************************************************************************)
(* Theorems about Autolock, for every set of wallets, works and lock times *)
(* and every bound: what a lock waits for was out of sight long enough,    *)
(* and a wallet that was is locked, waited for, or still armed.            *)
(* OutOfSightCloses, which fails, holds where nothing is in flight when    *)
(* the page is left.                                                       *)
(***************************************************************************)
EXTENDS Autolock, SequenceTheorems, TLAPS

\* The shapes of the records, and that handles are numbered by the opens.
Shapes ==
    /\ TypeOK
    /\ locks \subseteq [wallet : 1..opened, awaits : SUBSET Works]
    /\ away # None => away \in [wallet : 1..opened, deadline : Nat]
    /\ absence # None => absence.wallet <= opened /\ absence.since <= clock
    /\ \A o \in overdue : o[1] <= opened
    /\ opening # None => opened < MaxOpens

\* Only a hidden page is armed, and its one timer is the deadline's.
OneTimer ==
    /\ ~hidden => absence = None /\ away = None
    /\ timers = IF away = None THEN {} ELSE {away.deadline}
    /\ hidden /\ handle # 0 => absence # None /\ absence.wallet = handle

\* A deadline is that of the absence under way, unless its wallet is gone; and
\* an absence is counted as soon as it is long enough.
Armed ==
    /\ away # None =>
          /\ limit # Never
          /\ away.wallet = handle => absence.since + limit <= away.deadline
    /\ absence # None /\ limit # Never /\ absence.since + limit <= clock =>
          <<absence.wallet, absence.left>> \in overdue

\* What a waiting lock would close was out of sight long enough.
LocksAreOverdue == \A l \in locks : l.wallet = handle => Overdue(handle)

\* The open wallet was lockable when the page was left.
WasLockable ==
    /\ handle # 0
    /\ Owed(handle) \/ (absence # None /\ absence.left /\ absence.wallet = handle)

\* Once no longer lockable it is not going to be again under the same handle.
StaysUnlockable == WasLockable /\ Lockable = 0 => remembering # wallet

Waited == unfinished # {} /\ \E l \in locks : l.wallet = handle

\* A lockable wallet left out of sight is armed or waited for; past its deadline
\* it is so until the page is back.
Watched ==
    /\ hidden /\ absence # None /\ absence.left /\ absence.wallet = handle
          /\ limit # Never /\ Lockable # 0 =>
       Waited \/ (away # None /\ away.wallet = handle /\ away.deadline <= absence.since + limit)
    /\ Owed(handle) /\ Lockable # 0 =>
       Waited \/ (away # None /\ away.wallet = handle /\ away.deadline <= clock)

\* The saves in flight end with the choice in force.
Choices ==
    /\ saving # <<>> => saving[Len(saving)] = limit
    /\ LastChoiceIsKept

LockInv == OneTimer /\ Armed /\ LocksAreOverdue /\ StaysUnlockable /\ Watched
Inv == Shapes /\ LockInv /\ Choices


-----------------------------------------------------------------------------
LEMMA InitInv == Init => Inv
<1> SUFFICES ASSUME Init PROVE Inv
  OBVIOUS
<1> USE DEF Init
<1>1. saving \in Seq(Limits) /\ Len(saving) = 0
  OBVIOUS
<1>2. Shapes
  <2>1. TypeOK
    <3>1. hidden \in BOOLEAN
      OBVIOUS
    <3>2. clock \in 0..MaxClock
      BY BoundsAssumption
    <3>3. limit \in Limits /\ stored \in Limits
      BY LimitsAssumption
    <3>4. trouble \in {"none", "save", "read"}
      OBVIOUS
    <3>5. handle \in 0..opened /\ opened \in 0..MaxOpens
      BY BoundsAssumption
    <3>6. overdue \subseteq Handles \X BOOLEAN
      OBVIOUS
    <3>7. Len(saving) <= MaxChoices
      BY <1>1, BoundsAssumption
    <3> QED BY <3>1, <3>2, <3>3, <3>4, <3>5, <3>6, <3>7, <1>1 DEF TypeOK
  <2> QED BY <2>1 DEF Shapes
<1>3. LockInv
  BY DEF LockInv, OneTimer, Armed, LocksAreOverdue, StaysUnlockable, WasLockable, Watched,
         Overdue, Owed, Lockable
<1>4. Choices
  BY DEF Choices, LastChoiceIsKept
<1> QED BY <1>2, <1>3, <1>4 DEF Inv

-----------------------------------------------------------------------------
(* The locks that wait.                                                    *)

LockRecords == [wallet : 1..opened, awaits : SUBSET Works]

\* The lock closed the open wallet, which it could lock, while nothing ran.
Closed(ls) ==
    /\ handle' = 0 /\ wallet' = None
    /\ Lockable = handle
    /\ \E l \in ls : l.wallet = handle

\* What becomes of locks when the work they awaited has settled.
LEMMA GoOn ==
    ASSUME Shapes, NEW ls \in SUBSET LockRecords, NEW running \in SUBSET Works,
           LocksGoOn(ls, running)
    PROVE  /\ locks' \subseteq LockRecords
           /\ \A m \in locks' : \E l \in ls : l.wallet = m.wallet
           /\ running = {} =>
                 /\ locks' = {}
                 /\ UNCHANGED open \/ (handle # 0 /\ Closed(ls))
                 /\ Lockable # 0 /\ (\E l \in ls : l.wallet = handle) => handle' = 0
           /\ running # {} =>
                 /\ UNCHANGED open
                 /\ \A l \in ls : \E m \in locks' : m.wallet = l.wallet
<1> DEFINE next(l) == [l EXCEPT !.awaits = IF @ \cap running = {} THEN running ELSE @]
<1>1. ASSUME NEW l \in ls PROVE next(l) \in LockRecords /\ next(l).wallet = l.wallet
  BY DEF LockRecords
<1>2. locks' = {next(l) : l \in {m \in ls : running # {}}}
  BY DEF LocksGoOn
<1> HIDE DEF next
<1>3. locks' \subseteq LockRecords /\ \A m \in locks' : \E l \in ls : l.wallet = m.wallet
  BY <1>1, <1>2
<1>4. ASSUME running = {}
      PROVE  /\ locks' = {}
             /\ UNCHANGED open \/ (handle # 0 /\ Closed(ls))
             /\ Lockable # 0 /\ (\E l \in ls : l.wallet = handle) => handle' = 0
  <2>1. \A l \in ls : l.wallet # 0
    BY DEF LockRecords
  <2> QED BY <1>2, <1>4, <2>1 DEF LocksGoOn, Closed, Lockable, open
<1>5. ASSUME running # {}
      PROVE  UNCHANGED open /\ \A l \in ls : \E m \in locks' : m.wallet = l.wallet
  BY <1>1, <1>2, <1>5 DEF LocksGoOn
<1> QED BY <1>3, <1>4, <1>5

\* A timer that goes off, or a page that comes back late, starts the lock of the
\* wallet the page was left with.
Due == away # None /\ away.deadline <= clock
Starting == locks \cup {[wallet |-> away.wallet, awaits |-> unfinished]}

LEMMA Expires ==
    ASSUME Inv, Expire, Due
    PROVE  /\ Starting \in SUBSET LockRecords
           /\ LocksGoOn(Starting, unfinished)
           /\ \A l \in Starting : l.wallet = handle => Overdue(handle)
           /\ away' = None /\ timers' = {}
<1>1. Starting \in SUBSET LockRecords
  BY DEF Inv, Shapes, TypeOK, Due, Starting, LockRecords
<1>2. ASSUME away.wallet = handle PROVE Overdue(handle)
  <2>1. absence # None /\ absence.wallet = handle /\ absence.since + limit <= away.deadline
    BY <1>2 DEF Inv, Shapes, LockInv, OneTimer, Armed, Due
  <2>2. absence.since + limit <= clock
    BY <2>1, LimitsAssumption DEF Inv, Shapes, TypeOK, Due, Absences
  <2>3. <<absence.wallet, absence.left>> \in overdue /\ absence.left \in BOOLEAN
    BY <2>1, <2>2 DEF Inv, LockInv, Armed, Due, Shapes, TypeOK, Absences
  <2> QED BY <2>1, <2>3 DEF Overdue
<1> QED BY <1>1, <1>2 DEF Expire, Due, Starting, Inv, LockInv, LocksAreOverdue

\* However Expire comes about, it is due.
LEMMA ExpiresWhenDue ==
    ASSUME Inv, TimerFires \/ (Show /\ ~UNCHANGED open) PROVE Expire /\ Due
<1>1. CASE TimerFires
  BY <1>1 DEF TimerFires, Due, Inv, LockInv, OneTimer
<1>2. CASE Show /\ ~UNCHANGED open
  BY <1>2, BoundsAssumption DEF Show, Due, StandDown, Inv, Shapes, TypeOK, open
<1> QED BY <1>1, <1>2

\* Every close of the lock is one of a wallet that an overdue lock waited for.
LEMMA Closes ==
    ASSUME Inv, LockCloses PROVE Overdue(handle) /\ unfinished' = {}
<1>1. CASE TimerFires \/ Show
  <2>1. ~UNCHANGED open
    BY DEF LockCloses, open
  <2>2. Expire /\ Due /\ unfinished' = unfinished
    BY <1>1, <2>1, ExpiresWhenDue DEF TimerFires, Show, work
  <2>3. unfinished \in SUBSET Works /\ Shapes
    BY DEF Inv, Shapes, TypeOK
  <2> QED BY <2>1, <2>2, <2>3, Expires, GoOn DEF Closed
<1>2. CASE \E j \in Works : WorkSettles(j)
  <2>1. PICK j \in Works : WorkSettles(j)
    BY <1>2
  <2>2. /\ LocksGoOn(locks, unfinished') /\ unfinished' \in SUBSET Works
        /\ Shapes /\ locks \in SUBSET LockRecords
    BY <2>1 DEF WorkSettles, StillRunning, Inv, Shapes, TypeOK, LockRecords
  <2>3. ~UNCHANGED open
    BY DEF LockCloses, open
  <2> QED BY <2>2, <2>3, GoOn DEF Closed, Inv, LockInv, LocksAreOverdue
<1> QED BY <1>1, <1>2 DEF LockCloses

-----------------------------------------------------------------------------
(* Shapes.                                                                 *)

\* Wherever the locks go on, they and the session keep their shapes.
LEMMA GoOnShapes ==
    ASSUME Shapes, NEW ls \in SUBSET LockRecords, NEW running \in SUBSET Works,
           LocksGoOn(ls, running)
    PROVE  /\ locks' \subseteq LockRecords
           /\ \A l \in locks' : l.wallet \in Handles /\ l.awaits \subseteq Works
           /\ handle' \in 0..opened
           /\ wallet' \in Wallets \cup {None} /\ (wallet' = None <=> handle' = 0)
<1>1. locks' \subseteq LockRecords
  BY GoOn
<1>2. UNCHANGED open \/ (handle' = 0 /\ wallet' = None)
  BY GoOn DEF Closed
<1>3. opened \in 0..MaxOpens /\ handle \in 0..opened /\ wallet \in Wallets \cup {None}
      /\ (wallet = None <=> handle = 0)
  BY DEF Shapes, TypeOK
<1>4. \A l \in LockRecords : l.wallet \in 1..opened /\ l.awaits \subseteq Works
  BY DEF LockRecords
<1>5. \A l \in locks' : l.wallet \in Handles /\ l.awaits \subseteq Works
  BY <1>1, <1>3, <1>4, BoundsAssumption DEF Handles
<1> QED BY <1>1, <1>2, <1>3, <1>5 DEF open

LEMMA ChoiceShapes ==
    ASSUME TypeOK,
           \/ \E l \in Limits : Choose(l)
           \/ \E i \in 1..MaxChoices, failed \in BOOLEAN : SaveSettles(i, failed)
    PROVE  /\ saving' \in Seq(Limits) /\ Len(saving') <= MaxChoices
           /\ limit' \in Limits /\ stored' \in Limits
           /\ trouble' \in {"none", "save", "read"}
<1> USE BoundsAssumption DEF TypeOK
<1>1. CASE \E l \in Limits : Choose(l)
  BY <1>1 DEF Choose
<1>2. CASE \E i \in 1..MaxChoices, failed \in BOOLEAN : SaveSettles(i, failed)
  <2>1. PICK failed \in BOOLEAN : SaveSettles(1, failed) /\ saving # <<>>
    BY <1>2 DEF SaveSettles, SavesNext
  <2>2. saving' = Tail(saving) /\ saving[1] \in Limits
    BY <2>1 DEF SaveSettles
  <2> QED BY <2>1, <2>2 DEF SaveSettles
<1> QED BY <1>1, <1>2

LEMMA ExpireShapes ==
    ASSUME Shapes, Expire, UNCHANGED <<opened, opening, remembering, remembered, work>>
    PROVE  /\ away' = None /\ timers' = {}
           /\ locks' \subseteq LockRecords
           /\ \A l \in locks' : l.wallet \in Handles /\ l.awaits \subseteq Works
           /\ handle' \in 0..opened
           /\ wallet' \in Wallets \cup {None} /\ (wallet' = None <=> handle' = 0)
<1> DEFINE ls == IF away = None THEN locks ELSE Starting
<1>1. ls \in SUBSET LockRecords /\ unfinished \in SUBSET Works
  BY DEF Shapes, TypeOK, Starting, LockRecords
<1>2. LocksGoOn(ls, unfinished) /\ away' = None /\ timers' = {}
  BY DEF Expire, Starting
<1> HIDE DEF ls
<1> QED BY <1>1, <1>2, GoOnShapes

LEMMA ShapesKept == Shapes /\ OneTimer /\ [Next]_vars => Shapes'
<1> SUFFICES ASSUME Shapes, OneTimer, [Next]_vars PROVE Shapes'
  OBVIOUS
<1> USE BoundsAssumption, NoneAssumption
<1>0. TypeOK
  BY DEF Shapes
<1>1. CASE UNCHANGED vars
  BY <1>0, <1>1 DEF Shapes, TypeOK, vars, page, choice, open, opens, work, history
<1>2. CASE Hide
  <2>1. Lockable # 0 => Lockable = handle /\ handle \in 1..opened
    BY <1>0 DEF TypeOK, Lockable
  <2>2. away' # None => away' \in [wallet : 1..opened, deadline : Nat]
    BY <1>0, <1>2, <2>1, LimitsAssumption DEF Hide, ArmsLock, Shapes, TypeOK
  <2>3. timers' \subseteq Nat
    <3>1. clock + limit \in Nat /\ timers \subseteq Nat
      BY <1>0, LimitsAssumption DEF TypeOK
    <3> QED BY <3>1, <1>2 DEF Hide
  <2>4. absence' # None =>
            absence' \in Absences /\ absence'.wallet <= opened /\ absence'.since <= clock
    <3>1. CASE hidden
      BY <1>0, <1>2, <3>1 DEF Hide, Shapes, TypeOK
    <3>2. CASE ~hidden
      BY <1>0, <1>2, <3>2 DEF Hide, OutOfSight, TypeOK, Absences, Handles
    <3> QED BY <3>1, <3>2
  <2> QED BY <1>0, <1>2, <2>2, <2>3, <2>4
             DEF Hide, Shapes, TypeOK, choice, open, opens, work, Handles
<1>3. CASE Show
  <2>1. CASE away # None /\ clock >= away.deadline
    BY <1>0, <1>3, <2>1, ExpireShapes DEF Show, Shapes, TypeOK, choice, opens, work, LockRecords
  <2>2. CASE ~(away # None /\ clock >= away.deadline)
    BY <1>0, <1>3, <2>2 DEF Show, StandDown, Shapes, TypeOK, choice, open, opens, work
  <2> QED BY <2>1, <2>2
<1>4. CASE TimerFires
  BY <1>0, <1>4, ExpireShapes
     DEF TimerFires, Shapes, TypeOK, page, choice, opens, work, history, LockRecords
<1>5. CASE Tick
  BY <1>0, <1>5 DEF Shapes, TypeOK, Tick, choice, open, opens, work, Absences, Handles
<1>6. CASE \E j \in Works : StartWork(j)
  BY <1>0, <1>6 DEF Shapes, TypeOK, StartWork, page, choice, open, opens, history
<1>7. CASE \E j \in Works : WorkSettles(j)
  <2>1. PICK j \in Works : WorkSettles(j)
    BY <1>7
  <2>2. unfinished' \in SUBSET Works /\ LocksGoOn(locks, unfinished')
        /\ locks \in SUBSET LockRecords /\ unfinished' \subseteq worked
    BY <1>0, <2>1 DEF WorkSettles, StillRunning, TypeOK, Shapes, LockRecords
  <2>3. /\ locks' \subseteq LockRecords
        /\ \A l \in locks' : l.wallet \in Handles /\ l.awaits \subseteq Works
        /\ handle' \in 0..opened
        /\ wallet' \in Wallets \cup {None} /\ (wallet' = None <=> handle' = 0)
    BY <2>2, GoOnShapes
  <2> QED BY <1>0, <2>1, <2>2, <2>3
             DEF WorkSettles, Shapes, TypeOK, page, choice, opens, history, LockRecords
<1>8. CASE \E w \in Wallets, remember \in BOOLEAN : StartOpen(w, remember)
  BY <1>0, <1>8 DEF Shapes, TypeOK, StartOpen, page, choice, open, work, history
<1>9. CASE OpenCommits
  <2>1. opening.wallet \in Wallets /\ opened' = opened + 1 /\ opened' \in 1..MaxOpens
    BY <1>0, <1>9 DEF OpenCommits, Shapes, TypeOK
  <2>2. absence' # None =>
            absence' \in Absences /\ absence'.wallet <= opened' /\ absence'.since <= clock
    <3>1. CASE hidden
      BY <1>0, <1>9, <2>1, <3>1 DEF OpenCommits, OutOfSight, TypeOK, Absences, Handles
    <3>2. CASE ~hidden
      BY <1>9, <3>2 DEF OpenCommits, OneTimer
    <3> QED BY <3>1, <3>2
  <2>3. TypeOK'
    <3>1. handle' \in 0..opened' /\ opened' \in 0..MaxOpens
      BY <1>9, <2>1 DEF OpenCommits
    <3>2. wallet' \in Wallets \cup {None} /\ (wallet' = None <=> handle' = 0)
      BY <1>9, <2>1 DEF OpenCommits
    <3>3. remembering' \in Wallets \cup {None}
      BY <1>0, <1>9, <2>1 DEF OpenCommits, TypeOK
    <3> QED BY <1>0, <1>9, <3>1, <3>2, <3>3, <2>2 DEF OpenCommits, TypeOK, page, choice, work
  <2>4. opened \in Nat /\ opened < opened'
    BY <1>0, <2>1 DEF TypeOK
  <2>5. locks' \subseteq [wallet : 1..opened', awaits : SUBSET Works]
    <3>1. 1..opened \subseteq 1..opened'
      BY <2>1, <2>4
    <3> QED BY <3>1, <1>9 DEF Shapes, OpenCommits
  <2>6. away' # None => away' \in [wallet : 1..opened', deadline : Nat]
    BY <1>9, <2>1, <2>4 DEF Shapes, OpenCommits
  <2>7. \A o \in overdue' : o[1] <= opened'
    <3>1. \A o \in overdue : o[1] \in Nat
      BY <1>0 DEF TypeOK, Handles
    <3> QED BY <3>1, <1>9, <2>1, <2>4 DEF Shapes, OpenCommits
  <2>8. opening' = None /\ clock' = clock
    BY <1>9 DEF OpenCommits, page
  <2> QED BY <2>2, <2>3, <2>5, <2>6, <2>7, <2>8 DEF Shapes
<1>10. CASE Remembered
  BY <1>0, <1>10 DEF Shapes, TypeOK, Remembered, page, choice, open, work, history
<1>11. CASE \E forget \in BOOLEAN : Close(forget)
  BY <1>0, <1>11 DEF Shapes, TypeOK, Close, page, choice, opens, work, history
<1>12. CASE \/ \E l \in Limits : Choose(l)
            \/ \E i \in 1..MaxChoices, failed \in BOOLEAN : SaveSettles(i, failed)
  BY <1>0, <1>12, ChoiceShapes
     DEF Shapes, TypeOK, Choose, SaveSettles, page, opens, open, work, history
<1> QED BY <1>1, <1>2, <1>3, <1>4, <1>5, <1>6, <1>7, <1>8, <1>9, <1>10, <1>11, <1>12 DEF Next

-----------------------------------------------------------------------------
(* What is locked, waited for and armed.                                   *)

\* Locks that go on close their wallet, or still wait for it.
LEMMA GoOnWatches ==
    ASSUME Shapes, NEW ls \in SUBSET LockRecords, NEW running \in SUBSET Works,
           LocksGoOn(ls, running), unfinished' = running,
           \A l \in ls : l.wallet = handle => Overdue(handle),
           UNCHANGED <<overdue, remembered, remembering>>
    PROVE  /\ LocksAreOverdue'
           /\ handle' # 0 => UNCHANGED <<handle, wallet>> /\ Lockable' = Lockable
           /\ Lockable' # 0 /\ (\E l \in ls : l.wallet = handle) => Waited'
<1>1. handle' = 0 \/ UNCHANGED <<handle, wallet>>
  BY GoOn DEF Closed, open
<1>2. handle' # 0 => UNCHANGED <<handle, wallet>> /\ Lockable' = Lockable
  BY <1>1 DEF Lockable
<1>3. LocksAreOverdue'
  <2>1. \A m \in locks' : m.wallet # 0 /\ \E l \in ls : l.wallet = m.wallet
    BY GoOn DEF LockRecords
  <2> QED BY <1>2, <2>1 DEF LocksAreOverdue, Overdue
<1>4. ASSUME Lockable' # 0, NEW l \in ls, l.wallet = handle PROVE Waited'
  <2>1. handle' # 0
    BY <1>4 DEF Lockable, Shapes, TypeOK
  <2>2. UNCHANGED <<handle, wallet>> /\ Lockable # 0
    BY <1>2, <1>4, <2>1
  <2>3. running # {}
    BY GoOn, <2>1, <2>2, <1>4
  <2> QED BY GoOn, <2>2, <2>3, <1>4 DEF Waited
<1> QED BY <1>2, <1>3, <1>4

LEMMA ExpireKeepsLocks ==
    ASSUME Inv, Shapes', Expire, Due,
           UNCHANGED <<clock, limit, overdue, remembered, remembering, unfinished>>,
           hidden' => UNCHANGED <<hidden, absence>>, ~hidden' => absence' = None
    PROVE  LockInv'
<1> DEFINE ls == Starting
<1>1. ls \in SUBSET LockRecords /\ LocksGoOn(ls, unfinished)
      /\ (\A l \in ls : l.wallet = handle => Overdue(handle)) /\ away' = None /\ timers' = {}
  BY Expires
<1>2. unfinished \in SUBSET Works /\ Shapes
  BY DEF Inv, Shapes, TypeOK
<1>3. (away.wallet = handle => \E l \in ls : l.wallet = handle)
      /\ ((\E l \in locks : l.wallet = handle) => \E l \in ls : l.wallet = handle)
  <2> DEFINE new == [wallet |-> away.wallet, awaits |-> unfinished]
  <2>1. new.wallet = away.wallet /\ ls = locks \cup {new}
    BY DEF Starting
  <2> HIDE DEF new, ls
  <2> QED BY <2>1
<1> HIDE DEF ls
<1>4. /\ LocksAreOverdue'
      /\ handle' # 0 => UNCHANGED <<handle, wallet>> /\ Lockable' = Lockable
      /\ Lockable' # 0 /\ (\E l \in ls : l.wallet = handle) => Waited'
  BY <1>1, <1>2, GoOnWatches
<1>5. Lockable' # 0 => handle' # 0
  BY DEF Lockable, Shapes, TypeOK
<1>6. OneTimer'
  BY <1>1, <1>4 DEF OneTimer, Inv, LockInv
<1>7. Armed'
  BY <1>1 DEF Armed, Inv, LockInv
<1>8. StaysUnlockable'
  BY <1>4 DEF StaysUnlockable, WasLockable, Owed, Inv, LockInv
<1>9. Watched'
  <2>1. Waited => \E l \in locks : l.wallet = handle
    BY DEF Waited
  <2>2. ASSUME Lockable' # 0, Waited \/ away.wallet = handle PROVE Waited'
    BY <1>3, <1>4, <2>1, <2>2
  <2>3. ASSUME Lockable' # 0 PROVE handle' = handle /\ Lockable # 0
    BY <1>4, <1>5, <2>3
  <2>4. ASSUME hidden', absence' # None, absence'.left, absence'.wallet = handle',
               limit' # Never, Lockable' # 0
        PROVE  Waited'
    <3>1. hidden /\ absence' = absence
      BY <2>4
    <3> QED BY <2>2, <2>3, <2>4, <3>1 DEF Watched, Inv, LockInv
  <2>5. ASSUME Owed(handle)', Lockable' # 0 PROVE Waited'
    <3>1. Owed(handle)
      BY <2>3, <2>5 DEF Owed
    <3> QED BY <2>2, <2>3, <2>5, <3>1 DEF Watched, Inv, LockInv
  <2> QED BY <2>4, <2>5 DEF Watched
<1> QED BY <1>4, <1>6, <1>7, <1>8, <1>9 DEF LockInv

LEMMA HideKeepsWatch == ASSUME Inv, Shapes', Hide PROVE LockInv'
<1> USE DEF Inv, LockInv
<1>1. /\ hidden' = TRUE
      /\ UNCHANGED <<clock, limit, locks, unfinished, handle, wallet, remembering, remembered, overdue>>
      /\ absence' = IF hidden THEN absence ELSE OutOfSight(handle, Lockable # 0)
  BY DEF Hide, choice, work, open, opens
<1>2. Lockable' = Lockable /\ (Lockable # 0 => Lockable = handle)
  BY <1>1 DEF Lockable
<1>3. limit \in Nat /\ clock \in Nat /\ (limit # Never => limit > 0)
  BY LimitsAssumption DEF Shapes, TypeOK, Never
<1> DEFINE armed == [wallet |-> handle, deadline |-> clock + limit]
<1>4. armed.wallet = handle /\ armed.deadline = clock + limit
  OBVIOUS
<1>5. ASSUME ArmsLock
      PROVE  handle # 0 /\ away' = armed /\ timers' = timers \cup {clock + limit} /\ limit # Never
  BY <1>2, <1>5 DEF Hide, ArmsLock
<1>6. ASSUME ~ArmsLock PROVE UNCHANGED <<away, timers>>
  BY <1>6 DEF Hide
<1> DEFINE left == [wallet |-> handle, since |-> clock, left |-> (Lockable # 0)]
<1>7. left.wallet = handle /\ left.since = clock /\ left.left = (Lockable # 0)
  OBVIOUS
<1>8. ~hidden => absence = None /\ away = None
                 /\ absence' = IF handle = 0 THEN None ELSE left
  BY <1>1 DEF OutOfSight, OneTimer
<1>9. ASSUME ArmsLock PROVE armed # None
  <2>1. handle \in Nat
    BY DEF Shapes, TypeOK
  <2> QED BY <1>3, <2>1, NoneAssumption
<1>10. left # None
  <2>1. handle \in Nat
    BY DEF Shapes, TypeOK
  <2>2. (Lockable # 0) \in BOOLEAN
    OBVIOUS
  <2>3. left \in [wallet : Nat, since : Nat, left : BOOLEAN]
    BY <1>3, <2>1, <2>2, Zenon
  <2> QED BY <2>3, NoneAssumption
<1> HIDE DEF armed, left
<1>11. OneTimer'
  BY <1>1, <1>4, <1>5, <1>6, <1>7, <1>8, <1>9, <1>10 DEF OneTimer, ArmsLock
<1>12. hidden /\ absence # None => absence.since \in Nat /\ absence.since <= clock
  BY DEF Shapes, TypeOK, Absences
<1>13. Armed'
  <2>1. ASSUME absence' # None, absence'.since + limit <= clock, limit # Never
        PROVE  hidden /\ absence' = absence
    BY <1>1, <1>3, <1>7, <1>8, <2>1
  <2>2. ASSUME ArmsLock PROVE absence'.since + limit <= clock + limit
    BY <1>1, <1>3, <1>5, <1>7, <1>8, <1>12, <2>2 DEF OneTimer
  <2>3. ASSUME ~ArmsLock, away' # None PROVE absence' = absence
    BY <1>1, <1>6, <1>8, <2>3
  <2>4. away' # None => limit # Never /\ (away'.wallet = handle => absence'.since + limit <= away'.deadline)
    BY <1>4, <1>5, <1>6, <2>2, <2>3 DEF Armed
  <2> QED BY <1>1, <2>1, <2>4 DEF Armed
<1>14. LocksAreOverdue'
  BY <1>1 DEF LocksAreOverdue, Overdue
<1>15. StaysUnlockable'
  BY <1>1, <1>2, <1>7, <1>8 DEF StaysUnlockable, WasLockable, Owed
<1>16. Watched'
  <2>1. Waited' = Waited
    BY <1>1 DEF Waited
  <2>2. ASSUME absence' # None, absence'.left, absence'.wallet = handle, limit # Never, Lockable # 0
        PROVE  Waited \/ (away' # None /\ away'.wallet = handle /\ away'.deadline <= absence'.since + limit)
    <3>1. CASE hidden /\ ~ArmsLock
      BY <1>1, <1>6, <2>2, <3>1 DEF Watched
    <3>2. CASE hidden /\ ArmsLock
      BY <1>1, <2>2, <3>2 DEF Watched, ArmsLock
    <3>3. CASE ~hidden
      BY <1>2, <1>3, <1>4, <1>5, <1>7, <1>8, <1>9, <2>2, <3>3 DEF ArmsLock
    <3> QED BY <3>1, <3>2, <3>3
  <2>3. ASSUME Owed(handle), Lockable # 0
        PROVE  Waited \/ (away' # None /\ away'.wallet = handle /\ away'.deadline <= clock)
    BY <1>6, <2>3 DEF Watched, ArmsLock
  <2> QED BY <1>1, <1>2, <2>1, <2>2, <2>3 DEF Watched, Owed
<1> QED BY <1>11, <1>13, <1>14, <1>15, <1>16

LEMMA TickKeepsWatch == ASSUME Inv, Shapes', Tick PROVE LockInv'
<1> USE DEF Inv, LockInv
<1>1. /\ clock' = clock + 1
      /\ UNCHANGED <<hidden, limit, away, timers, locks, unfinished, handle, wallet, remembering,
                     remembered, absence>>
      /\ Lockable' = Lockable
  BY DEF Tick, choice, work, open, opens, Lockable
<1>2. clock \in Nat /\ limit \in Nat
  BY LimitsAssumption DEF Shapes, TypeOK
<1>3. overdue' = overdue \/ (/\ absence # None /\ limit # Never /\ clock + 1 >= absence.since + limit
                             /\ overdue' = overdue \cup {<<absence.wallet, absence.left>>})
  BY <1>2 DEF Tick, Shapes, TypeOK, Absences
<1>4. OneTimer'
  BY <1>1 DEF OneTimer
<1>5. Armed'
  BY <1>1, <1>2 DEF Armed, Tick, Shapes, TypeOK, Absences
<1>6. LocksAreOverdue'
  BY <1>1, <1>3 DEF LocksAreOverdue, Overdue
<1>7. ASSUME Owed(handle)', ~Owed(handle)
      PROVE  absence # None /\ limit # Never /\ absence.left /\ absence.wallet = handle
             /\ clock + 1 >= absence.since + limit
  BY <1>1, <1>3, <1>7 DEF Owed
<1>8. StaysUnlockable'
  BY <1>1, <1>7 DEF StaysUnlockable, WasLockable, Owed
<1>9. Watched'
  <2>1. Waited' = Waited
    BY <1>1 DEF Waited
  <2>2. ASSUME away # None, away.wallet = handle, away.deadline <= clock PROVE away.deadline <= clock + 1
    BY <1>2, <2>2 DEF Shapes
  <2>3. ASSUME Owed(handle)', Lockable # 0
        PROVE  Waited \/ (away # None /\ away.wallet = handle /\ away.deadline <= clock + 1)
    <3>1. CASE Owed(handle)
      BY <2>2, <2>3, <3>1 DEF Watched
    <3>2. CASE ~Owed(handle)
      <4>1. hidden
        BY <1>7, <2>3, <3>2 DEF OneTimer
      <4>2. absence.since + limit <= clock + 1 /\ absence.since \in Nat
        BY <1>2, <1>7, <2>3, <3>2 DEF Shapes, TypeOK, Absences
      <4> QED BY <1>2, <1>7, <2>3, <3>2, <4>1, <4>2 DEF Watched, Shapes
    <3> QED BY <3>1, <3>2
  <2> QED BY <1>1, <2>1, <2>3 DEF Watched
<1> QED BY <1>4, <1>5, <1>6, <1>8, <1>9

LEMMA OpensKeepWatch ==
    ASSUME Inv, Shapes',
           OpenCommits \/ Remembered \/ \E forget \in BOOLEAN : Close(forget)
    PROVE  LockInv'
<1> USE DEF Inv, LockInv
<1>1. CASE OpenCommits
  <2>1. /\ handle' = opened + 1
        /\ UNCHANGED <<hidden, clock, limit, away, timers, locks, unfinished, overdue>>
        /\ absence' = IF hidden THEN OutOfSight(opened + 1, FALSE) ELSE absence
    BY <1>1 DEF OpenCommits, page, choice, work
  <2>2. opened \in Nat /\ clock \in Nat /\ limit \in Nat /\ (limit # Never => limit > 0)
    BY BoundsAssumption, LimitsAssumption DEF Shapes, TypeOK, Never
  <2> DEFINE left == [wallet |-> opened + 1, since |-> clock, left |-> FALSE]
  <2>3. left.wallet = opened + 1 /\ left.since = clock /\ ~left.left
    OBVIOUS
  <2>4. left # None
    <3>1. left \in [wallet : Nat, since : Nat, left : BOOLEAN]
      <4>1. opened + 1 \in Nat /\ FALSE \in BOOLEAN
        BY <2>2
      <4> QED BY <2>2, <4>1, Zenon
    <3> QED BY <3>1, NoneAssumption
  <2>5. absence' = IF hidden THEN left ELSE None
    BY <2>1, <2>2 DEF OutOfSight, OneTimer
  <2> HIDE DEF left
  <2>6. away # None => away.wallet # handle'
    BY <2>1, <2>2 DEF Shapes
  <2>7. \A l \in locks : l.wallet # handle'
    BY <2>1, <2>2 DEF Shapes
  <2>8. ~Owed(handle)'
    <3>1. \A o \in overdue : o[1] # opened + 1
      BY <2>2 DEF Shapes, TypeOK, Handles
    <3> QED BY <2>1, <3>1 DEF Owed
  <2>9. OneTimer'
    BY <2>1, <2>3, <2>4, <2>5 DEF OneTimer
  <2>10. Armed'
    <3>1. absence' # None => absence'.since = clock
      BY <2>3, <2>5
    <3>2. limit # Never => ~(clock + limit <= clock)
      BY <2>2
    <3>3. away # None => limit # Never
      BY DEF Armed
    <3> QED BY <2>1, <2>6, <3>1, <3>2, <3>3 DEF Armed
  <2>11. LocksAreOverdue' /\ StaysUnlockable' /\ Watched'
    BY <2>1, <2>3, <2>4, <2>5, <2>7, <2>8
       DEF LocksAreOverdue, StaysUnlockable, WasLockable, Watched, Owed
  <2> QED BY <2>9, <2>10, <2>11
<1>2. CASE Remembered
  <2>1. /\ UNCHANGED <<hidden, clock, limit, away, timers, locks, unfinished, handle, wallet, absence, overdue>>
        /\ remembered' = remembering /\ remembering' = None /\ remembering # None
    BY <1>2 DEF Remembered, page, choice, work, open, history
  <2>2. wallet # None <=> handle # 0
    BY DEF Shapes, TypeOK
  <2>3. WasLockable' = WasLockable /\ Waited' = Waited
    BY <2>1 DEF WasLockable, Waited, Owed
  <2>4. ASSUME Lockable' # 0, WasLockable PROVE Lockable # 0
    BY <2>1, <2>2, <2>4 DEF StaysUnlockable, Lockable, WasLockable
  <2>5. OneTimer' /\ Armed' /\ LocksAreOverdue'
    BY <2>1 DEF OneTimer, Armed, LocksAreOverdue, Overdue
  <2>6. StaysUnlockable'
    BY <2>1, <2>2, <2>3 DEF StaysUnlockable, WasLockable
  <2>7. Watched'
    <3>1. Lockable' # 0 => handle # 0
      BY <2>1, <2>2 DEF Lockable
    <3> QED BY <2>1, <2>3, <2>4, <3>1 DEF Watched, WasLockable, Owed
  <2> QED BY <2>5, <2>6, <2>7
<1>3. CASE \E forget \in BOOLEAN : Close(forget)
  <2>1. /\ UNCHANGED <<hidden, clock, limit, away, timers, locks, unfinished, remembering, absence, overdue>>
        /\ handle' = 0 /\ Lockable' = 0
    BY <1>3 DEF Close, page, choice, work, opens, history, Lockable
  <2>2. (away # None => away.wallet # 0) /\ \A l \in locks : l.wallet # 0
    BY DEF Shapes
  <2> QED BY <2>1, <2>2
             DEF OneTimer, Armed, LocksAreOverdue, StaysUnlockable, WasLockable, Watched
<1> QED BY <1>1, <1>2, <1>3

LEMMA WorkKeepsWatch ==
    ASSUME Inv, Shapes', NEW j \in Works, StartWork(j) \/ WorkSettles(j)
    PROVE  LockInv'
<1> USE DEF Inv, LockInv
<1>1. /\ UNCHANGED <<hidden, clock, limit, away, timers, remembered, remembering, absence, overdue>>
  BY DEF StartWork, WorkSettles, page, choice, opens, history
<1>2. CASE StartWork(j)
  <2>1. UNCHANGED <<locks, handle, wallet>> /\ Lockable' = Lockable /\ unfinished' # {}
    BY <1>1, <1>2 DEF StartWork, open, Lockable
  <2>2. Waited => Waited'
    BY <2>1 DEF Waited
  <2> QED BY <1>1, <2>1, <2>2
             DEF OneTimer, Armed, LocksAreOverdue, Overdue, StaysUnlockable, WasLockable, Watched, Owed
<1>3. CASE WorkSettles(j)
  <2>1. LocksGoOn(locks, unfinished') /\ unfinished' \in SUBSET Works /\ locks \in SUBSET LockRecords
    BY <1>3 DEF WorkSettles, StillRunning, Shapes, TypeOK, LockRecords
  <2>2. /\ LocksAreOverdue'
        /\ handle' # 0 => UNCHANGED <<handle, wallet>> /\ Lockable' = Lockable
        /\ Lockable' # 0 /\ (\E l \in locks : l.wallet = handle) => Waited'
    BY <1>1, <2>1, GoOnWatches DEF LocksAreOverdue
  <2>3. Lockable' # 0 => handle' # 0
    BY DEF Lockable, Shapes, TypeOK
  <2>4. Lockable' # 0 /\ Waited => Waited'
    BY <2>2 DEF Waited
  <2>5. (away # None => away.wallet # 0)
    BY DEF Shapes
  <2>6. OneTimer' /\ Armed'
    BY <1>1, <2>2, <2>5 DEF OneTimer, Armed
  <2>7. StaysUnlockable'
    BY <1>1, <2>2 DEF StaysUnlockable, WasLockable, Owed
  <2>8. Watched'
    BY <1>1, <2>2, <2>3, <2>4 DEF Watched, Owed
  <2> QED BY <2>2, <2>6, <2>7, <2>8
<1> QED BY <1>2, <1>3

\* What only a page in sight does, and what changes nothing a lock looks at.
LEMMA OthersKeepWatch ==
    ASSUME Inv, Shapes',
           UNCHANGED <<hidden, clock, away, timers, locks, unfinished, open, remembered, remembering, history>>,
           hidden => limit' = limit
    PROVE  LockInv'
<1> USE DEF Inv, LockInv
<1>1. UNCHANGED <<handle, wallet, absence, overdue>> /\ Lockable' = Lockable
  BY DEF open, history, Lockable
<1>2. OneTimer' /\ LocksAreOverdue' /\ StaysUnlockable'
  BY <1>1 DEF OneTimer, LocksAreOverdue, Overdue, StaysUnlockable, WasLockable, Owed
<1>3. Armed'
  BY <1>1 DEF Armed, OneTimer
<1>4. Watched'
  BY <1>1 DEF Watched, Waited, Owed, OneTimer
<1> QED BY <1>2, <1>3, <1>4

LEMMA LockInvKept == Inv /\ Shapes' /\ [Next]_vars => LockInv'
<1> SUFFICES ASSUME Inv, Shapes', [Next]_vars PROVE LockInv'
  OBVIOUS
<1>1. CASE Hide
  BY <1>1, HideKeepsWatch
<1>2. CASE Show /\ away # None /\ clock >= away.deadline
  <2>1. Due
    BY <1>2, LimitsAssumption DEF Due, Inv, Shapes, TypeOK
  <2>2. Expire /\ ~hidden' /\ absence' = None
        /\ UNCHANGED <<clock, limit, overdue, remembered, remembering, unfinished>>
    BY <1>2 DEF Show, choice, work, opens
  <2> QED BY <2>1, <2>2, ExpireKeepsLocks
<1>3. CASE Show /\ ~(away # None /\ clock >= away.deadline)
  <2>1. /\ UNCHANGED <<clock, limit, locks, unfinished, handle, wallet, remembering, remembered, overdue>>
        /\ away' = None /\ timers' = {} /\ absence' = None /\ hidden' = FALSE /\ Lockable' = Lockable
    BY <1>3 DEF Show, StandDown, choice, work, open, opens, Lockable
  <2>2. Owed(handle) /\ Lockable # 0 => Waited
    BY <1>3, LimitsAssumption DEF Inv, LockInv, Watched, Shapes, TypeOK
  <2> QED BY <2>1, <2>2 DEF Inv, LockInv, OneTimer, Armed, LocksAreOverdue, Overdue, StaysUnlockable,
                            WasLockable, Watched, Waited, Owed
<1>4. CASE TimerFires
  <2>1. Expire /\ Due
    BY <1>4, ExpiresWhenDue
  <2>2. UNCHANGED <<hidden, clock, limit, overdue, absence, remembered, remembering, unfinished>>
    BY <1>4 DEF TimerFires, page, choice, work, opens, history
  <2>3. ~hidden' => absence' = None
    BY <2>2 DEF Inv, LockInv, OneTimer
  <2> QED BY <2>1, <2>2, <2>3, ExpireKeepsLocks
<1>5. CASE Tick
  BY <1>5, TickKeepsWatch
<1>6. CASE \E j \in Works : StartWork(j) \/ WorkSettles(j)
  BY <1>6, WorkKeepsWatch
<1>7. CASE OpenCommits \/ Remembered \/ \E forget \in BOOLEAN : Close(forget)
  BY <1>7, OpensKeepWatch
<1>8. CASE \/ \E w \in Wallets, remember \in BOOLEAN : StartOpen(w, remember)
           \/ \E l \in Limits : Choose(l)
           \/ \E i \in 1..MaxChoices, failed \in BOOLEAN : SaveSettles(i, failed)
           \/ UNCHANGED vars
  <2>1. UNCHANGED <<hidden, clock, away, timers, locks, unfinished, open, remembered, remembering, history>>
        /\ (hidden => limit' = limit)
    BY <1>8 DEF StartOpen, Choose, SaveSettles, vars, page, choice, work, opens
  <2> QED BY <2>1, OthersKeepWatch
<1> QED BY <1>1, <1>2, <1>3, <1>4, <1>5, <1>6, <1>7, <1>8 DEF Next

-----------------------------------------------------------------------------
(* The choices being saved.                                                *)

LEMMA ChoicesKept == Shapes /\ Choices /\ [Next]_vars => Choices'
<1> SUFFICES ASSUME Shapes, Choices, [Next]_vars PROVE Choices'
  OBVIOUS
<1>1. saving \in Seq(Limits)
  BY DEF Shapes, TypeOK
<1>2. ASSUME NEW l \in Limits, Choose(l) PROVE Choices'
  <2>1. saving' = Append(saving, l) /\ limit' = l
    BY <1>2 DEF Choose
  <2> HIDE DEF Choose
  <2>2. saving' # <<>> /\ saving'[Len(saving')] = l
    BY <1>1, <2>1, AppendProperties
  <2> QED BY <2>1, <2>2 DEF Choices, LastChoiceIsKept
<1>3. ASSUME NEW i \in 1..MaxChoices, NEW failed \in BOOLEAN, SaveSettles(i, failed) PROVE Choices'
  <2>1. i = 1 /\ saving # <<>> /\ limit' = limit
    BY <1>3 DEF SaveSettles, SavesNext
  <2>2. saving' = Tail(saving)
    BY <1>1, <1>3, <2>1 DEF SaveSettles
  <2>3. CASE Len(saving) = 1
    <3>1. saving[1] = limit
      BY <2>1, <2>3 DEF Choices
    <3>2. saving' = <<>>
      BY <1>1, <2>2, <2>3
    <3>3. stored' = limit \/ trouble' = "save"
      BY <1>3, <2>1, <2>3, <3>1 DEF SaveSettles
    <3> QED BY <2>1, <3>2, <3>3 DEF Choices, LastChoiceIsKept
  <2>4. CASE Len(saving) # 1
    <3>1. Len(saving) \in Nat /\ Len(saving) > 1
      <4>1. Len(saving) \in Nat \ {0}
        BY <1>1, <2>1, EmptySeq, Zenon
      <4>2. \A n \in Nat \ {0} : n # 1 => n > 1
        OBVIOUS
      <4> QED BY <4>1, <4>2, <2>4, Zenon
    <3>2. Len(saving') = Len(saving) - 1 /\ \A k \in 1..Len(saving') : saving'[k] = saving[k + 1]
      BY <1>1, <2>1, <2>2, HeadTailProperties, Zenon
    <3>3. saving' # <<>> /\ saving'[Len(saving')] = saving[Len(saving)]
      BY <3>1, <3>2
    <3> QED BY <2>1, <3>3 DEF Choices, LastChoiceIsKept
  <2> QED BY <2>3, <2>4
<1>4. ASSUME UNCHANGED choice PROVE Choices'
  BY <1>4 DEF choice, Choices, LastChoiceIsKept
<1>5. CASE UNCHANGED vars
  BY <1>4, <1>5 DEF vars
<1> QED BY <1>2, <1>3, <1>4, <1>5
           DEF Next, Hide, Show, TimerFires, Tick, StartWork, WorkSettles, StartOpen, OpenCommits,
               Remembered, Close

-----------------------------------------------------------------------------
LEMMA Invariance == Spec => []Inv
<1>1. Inv /\ [Next]_vars => Inv'
  BY ShapesKept, LockInvKept, ChoicesKept DEF Inv, LockInv
<1> QED BY InitInv, <1>1, PTL DEF Spec

\* The variables keep their types, for any wallets, works, lock times and bounds.
THEOREM TypeCorrect == Spec => []TypeOK
<1>1. Inv => TypeOK
  BY DEF Inv, Shapes
<1> QED BY Invariance, <1>1, PTL

\* No lock waits for work that has all settled: whatever settles the last of it
\* has the lock go on.
LocksWait == \A l \in locks : l.awaits \cap unfinished # {}

LEMMA GoOnWait ==
    ASSUME NEW ls \in SUBSET LockRecords, NEW running, LocksGoOn(ls, running)
    PROVE  \A l \in locks' : l.awaits \cap running # {}
<1> DEFINE next(l) == [l EXCEPT !.awaits = IF @ \cap running = {} THEN running ELSE @]
<1>1. locks' = {next(l) : l \in {m \in ls : running # {}}}
  BY DEF LocksGoOn
<1>2. ASSUME NEW l \in ls, running # {} PROVE next(l).awaits \cap running # {}
  BY <1>2 DEF LockRecords
<1> HIDE DEF next
<1> QED BY <1>1, <1>2

LEMMA LocksWaitKept == Inv /\ LocksWait /\ [Next]_vars => LocksWait'
<1> SUFFICES ASSUME Inv, LocksWait, [Next]_vars PROVE LocksWait'
  OBVIOUS
<1>1. locks \in SUBSET LockRecords /\ unfinished \in SUBSET Works
  BY DEF Inv, Shapes, TypeOK, LockRecords
<1>2. CASE TimerFires \/ (Show /\ away # None /\ clock >= away.deadline)
  <2>1. Expire /\ unfinished' = unfinished /\ away # None
    BY <1>2, ExpiresWhenDue DEF TimerFires, Show, work, Due
  <2>2. LocksGoOn(Starting, unfinished)
    BY <2>1 DEF Expire, Starting
  <2>3. Starting \in SUBSET LockRecords
    BY <1>1, <2>1 DEF Inv, Shapes, Starting, LockRecords
  <2> QED BY <2>1, <2>2, <2>3, GoOnWait DEF LocksWait
<1>3. CASE \E j \in Works : WorkSettles(j)
  BY <1>1, <1>3, GoOnWait DEF WorkSettles, LocksWait
<1>4. CASE \E j \in Works : StartWork(j)
  BY <1>4 DEF StartWork, LocksWait
<1> QED BY <1>2, <1>3, <1>4
           DEF LocksWait, Next, Hide, Show, StandDown, Tick, StartOpen, OpenCommits, Remembered,
               Close, Choose, SaveSettles, vars, work

\* A wallet back in sight past its deadline is shut, or its lock waits for work
\* that still runs, whether timers ran while it was away or not
\* (NeverBackUnlocked).
THEOREM ComesBackLocked == Spec => []NeverBackUnlocked
<1>1. Init => LocksWait
  BY DEF Init, LocksWait
<1>2. Inv /\ LocksWait => NeverBackUnlocked
  <2> SUFFICES ASSUME Inv, LocksWait, ~hidden, Owed(handle), Lockable # 0 PROVE Waited
    BY DEF NeverBackUnlocked, Waited, LocksWait
  <2> QED BY DEF Inv, LockInv, Watched, OneTimer
<1> QED BY Invariance, LocksWaitKept, <1>1, <1>2, PTL DEF Spec

\* No open and no remember step is in flight while the page is out of sight.
LeftAtRest == hidden => opening = None /\ remembering = None

\* The open wallet was not lockable when the page was left: it is not
\* remembered since.
LeftUnlockable ==
    /\ handle # 0
    /\ \/ <<handle, FALSE>> \in overdue
       \/ absence # None /\ ~absence.left /\ absence.wallet = handle
NeverLockable == LeftUnlockable => Lockable = 0 /\ remembering = None

LEMMA NeverLockableKept ==
    Inv /\ NeverLockable /\ LeftAtRest /\ LeftAtRest' /\ [Next]_vars => NeverLockable'
<1> SUFFICES ASSUME Inv, NeverLockable, LeftAtRest, LeftAtRest', [Next]_vars, LeftUnlockable'
             PROVE  Lockable' = 0 /\ remembering' = None
  BY DEF NeverLockable
<1>1. ASSUME UNCHANGED <<remembered, remembering>>, LeftUnlockable, UNCHANGED open \/ handle' = 0
      PROVE  Lockable' = 0 /\ remembering' = None
  BY <1>1 DEF NeverLockable, Lockable, open
<1>2. ASSUME UNCHANGED <<overdue, absence>> \/ (overdue' = overdue /\ absence' = None),
             UNCHANGED open
      PROVE  LeftUnlockable
  BY <1>2 DEF LeftUnlockable, open
<1>3. handle' # 0
  BY DEF LeftUnlockable
<1>4. CASE TimerFires \/ Show \/ \E j \in Works : WorkSettles(j)
  <2>1. UNCHANGED open
    BY <1>3, <1>4 DEF TimerFires, Show, WorkSettles, Expire, StandDown, LocksGoOn, open
  <2> QED BY <1>1, <1>2, <1>4, <2>1 DEF TimerFires, Show, WorkSettles, opens, history
<1>5. CASE Hide
  <2>1. CASE hidden
    BY <1>1, <1>2, <1>5, <2>1 DEF Hide, opens
  <2>2. CASE ~hidden
    <3>1. /\ overdue' = overdue /\ UNCHANGED <<open, opens, remembered>>
          /\ absence' = OutOfSight(handle, Lockable # 0) /\ remembering' = None
      BY <1>5, <2>2 DEF Hide, LeftAtRest
    <3>2. CASE <<handle, FALSE>> \in overdue
      BY <3>1, <3>2, <1>1, <1>3 DEF LeftUnlockable, open, opens
    <3>3. CASE <<handle, FALSE>> \notin overdue
      <4>1. ~absence'.left /\ handle # 0
        BY <3>1, <3>3 DEF LeftUnlockable, open
      <4>2. Lockable = 0
        BY <3>1, <4>1 DEF OutOfSight
      <4> QED BY <3>1, <4>2 DEF Lockable, open
    <3> QED BY <3>2, <3>3
  <2> QED BY <2>1, <2>2
<1>6. CASE Tick
  <2>1. /\ UNCHANGED <<open, opens, remembered, absence>>
        /\ overdue' = overdue \/ (absence # None /\ overdue' = overdue \cup {<<absence.wallet, absence.left>>})
    BY <1>6 DEF Tick
  <2>2. LeftUnlockable
    BY <2>1 DEF LeftUnlockable, open
  <2> QED BY <1>1, <2>1, <2>2 DEF opens
<1>7. CASE OpenCommits
  <2>1. ~hidden /\ handle' = opened + 1 /\ UNCHANGED <<absence, overdue>>
    BY <1>7 DEF OpenCommits, LeftAtRest
  <2>2. absence = None /\ \A o \in overdue : o[1] <= opened
    BY <2>1 DEF Inv, LockInv, OneTimer, Shapes
  <2>3. <<opened + 1, FALSE>> \notin overdue
    <3>1. opened \in Nat
      BY BoundsAssumption DEF Inv, Shapes, TypeOK
    <3> QED BY <2>2, <3>1
  <2> QED BY <2>1, <2>2, <2>3 DEF LeftUnlockable
<1>8. CASE Remembered
  <2>1. LeftUnlockable /\ remembering # None
    BY <1>2, <1>8 DEF Remembered, history
  <2> QED BY <2>1 DEF NeverLockable
<1>9. ASSUME NEW forget \in BOOLEAN, Close(forget) PROVE FALSE
  BY <1>3, <1>9 DEF Close
<1>10. CASE \/ \E j \in Works : StartWork(j)
            \/ \E w \in Wallets, remember \in BOOLEAN : StartOpen(w, remember)
            \/ \E l \in Limits : Choose(l)
            \/ \E i \in 1..MaxChoices, failed \in BOOLEAN : SaveSettles(i, failed)
            \/ UNCHANGED vars
  <2>1. UNCHANGED <<open, remembered, remembering, absence, overdue>>
    BY <1>10 DEF StartWork, StartOpen, Choose, SaveSettles, vars, opens, history
  <2> QED BY <1>1, <1>2, <2>1
<1> QED BY <1>4, <1>5, <1>6, <1>7, <1>8, <1>9, <1>10 DEF Next

\* With nothing in flight when the page is left, a remembered wallet out of sight
\* for the whole limit is shut when the page is back, or its lock waits for work:
\* opens and remember steps in flight are the only way past the lock
\* (OutOfSightCloses).
THEOREM ClosesOutOfSight == Spec /\ []LeftAtRest => []OutOfSightCloses
<1>1. Init => NeverLockable
  BY DEF Init, NeverLockable, LeftUnlockable
<1>2. NeverBackUnlocked /\ NeverLockable => OutOfSightCloses
  <2> SUFFICES ASSUME NeverBackUnlocked, NeverLockable, ~hidden, Overdue(handle), Lockable # 0
               PROVE  \E l \in locks : l.wallet = handle
    BY DEF OutOfSightCloses
  <2>1. handle # 0
    BY DEF Lockable
  <2>2. <<handle, FALSE>> \notin overdue
    BY <2>1 DEF NeverLockable, LeftUnlockable
  <2>3. Owed(handle)
    BY <2>2 DEF Overdue, Owed
  <2> QED BY <2>3 DEF NeverBackUnlocked
<1> QED BY Invariance, ComesBackLocked, NeverLockableKept, <1>1, <1>2, PTL DEF Spec

\* The last lock time chosen is the one kept, however many saves are in flight
\* (LastChoiceIsKept).
THEOREM LastChoiceKept == Spec => []LastChoiceIsKept
<1>1. Inv => LastChoiceIsKept
  BY DEF Inv, Choices
<1> QED BY Invariance, <1>1, PTL

\* The lock closes only what was out of sight for the whole limit, in one
\* absence (LocksOnlyOverdue).
THEOREM OnlyOverdueLocked == Spec => LocksOnlyOverdue
<1>1. Inv /\ [Next]_vars => [LockCloses => Overdue(handle)]_vars
  BY Closes
<1> QED BY Invariance, <1>1, PTL DEF Spec, LocksOnlyOverdue

\* The lock never closes a wallet over running work (LockInterruptsNothing).
THEOREM NothingInterrupted == Spec => LockInterruptsNothing
<1>1. Inv /\ [Next]_vars => [LockCloses => unfinished' = {}]_vars
  BY Closes
<1> QED BY Invariance, <1>1, PTL DEF Spec, LockInterruptsNothing
=============================================================================
