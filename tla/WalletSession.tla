--------------------------- MODULE WalletSession ---------------------------
(***************************************************************************)
(* The session of the shared front end: which wallet is open, which one    *)
(* the device remembers, and the calls of packages/wallet-ui/src/api.ts    *)
(* that change either.                                                     *)
(*                                                                         *)
(* JavaScript runs one task at a time, so everything between two awaits is *)
(* one atomic action; an await of the platform, of IndexedDB or of the     *)
(* wallet core ends one action, and its answer is another.  A call of the  *)
(* platform, IndexedDB or the core takes effect in the action that         *)
(* receives its answer.                                                    *)
(*                                                                         *)
(* setRemembered is two calls on native (writeStore): `set` or `delete`    *)
(* changes what getRemembered returns, and `save` writes the file.  One    *)
(* that rejects at `save` has changed the first.  The browser's is one     *)
(* write, whose save never fails and whose set may fail unsaid.            *)
(*                                                                         *)
(* A pressed button is a member of Calls (Create, Restore, Key, Unlock),   *)
(* Forgets or Jobs and is used once.  A call creates at most one wallet    *)
(* handle, so the handle is named by the call that opened it.              *)
(*                                                                         *)
(* AlwaysCurrent, NoTurns, SetQuietly, ReleaseWithoutFree, EnqueuedFirst   *)
(* and StuckAfterFailure are faulty variants of the definition each stands *)
(* before; they show which fault a property catches.                       *)
(***************************************************************************)
EXTENDS Naturals, Sequences, FiniteSets

CONSTANTS Keys,      \* what a user can type: words, passphrase, address type
          Networks,  \* chains; Settings' one server belongs to one of them
          Calls,     \* presses that open a wallet
          Forgets,   \* presses of Forget
          Jobs,      \* work started on an open wallet
          JobKinds,  \* which work: syncs and rescans, new addresses, builds
          SilentStore, \* whether writes of the record may fail unsaid, as the
                       \* browser's do (apps/web, write)
          None       \* JavaScript's null

Wallets == Keys \X Networks

ASSUME SilentStoreAssumption == SilentStore \in BOOLEAN

ASSUME JobKindsAssumption ==
    "sync" \in JobKinds /\ JobKinds \subseteq {"sync", "newAddress", "build"}

ASSUME NoneAssumption ==
    /\ None \notin Wallets
    /\ None \notin Networks
    /\ None \notin Calls

VARIABLES config,      \* network (and server) of session.config, None before Setup
          onSetup,     \* the Setup screen is up
          attempts,    \* openAttempt
          pc,          \* where each opening call stands
          call,        \* what each opening call knows
          queue,       \* rememberQueue: the calls waiting, the turn's holder first
          handle,      \* session.handle; session.wallet is the wallet it opened
          shown,       \* whose address session.wallet.address is
          pending,     \* wallets the unsigned PSBTs in `pending` were built by
          live,        \* handles created and not freed
          remembered,  \* session.remembered
          job,         \* syncs, rescans, address reveals and builds in flight
          forget,      \* where each forgetWallet call stands
          keystore,    \* wallets whose secret the key store keeps
          record,      \* the remembered-wallet record, as getRemembered reads it
          disk,        \* the remembered-wallet record in the file
          unreadable   \* wallets whose state record in IndexedDB cannot be read;
                       \* one that is missing opens as one that can

durable == <<keystore, record, disk, unreadable>>
vars == <<config, onSetup, attempts, pc, call, queue, handle, shown, pending,
          live, remembered, job, forget, durable>>

-----------------------------------------------------------------------------
Kinds == {"enter", "unlock"}

\* The states of a call whose remember step holds the queue's turn.
TurnStates == {"remembering", "unremembering", "recording", "saving"}
\* The states a call ends in.
Settled == {"done", "superseded", "failed", "stranded", "gone"}
PcStates == {"idle", "reading", "loading", "opening", "resetting",
             "addressing", "queued"} \cup TurnStates \cup Settled

CallRecord == [kind : Kinds, wallet : Wallets \cup {None},
               attempt : Nat, server : Networks \cup {None},
               remember : BOOLEAN, reset : BOOLEAN]

NoCall == [kind |-> "enter", wallet |-> None, attempt |-> 0, server |-> None,
           remember |-> FALSE, reset |-> FALSE]
NoJob == [state |-> "idle", kind |-> "sync", on |-> None]
JobOver == [NoJob EXCEPT !.state = "over"]
NoForget == [state |-> "idle", wallet |-> None]

WalletOf(c) == call[c].wallet
AlwaysCurrent(c) == TRUE
StillCurrent(c) == call[c].attempt = attempts
RequireConfig == config # None
NoTurns(c) == queue # <<>>
HoldsTurn(c) == queue # <<>> /\ Head(queue) = c
Busy(c) == \E j \in Jobs : job[j].state = "running" /\ job[j].on = c

Init ==
    /\ config \in Networks \cup {None}
    /\ onSetup = FALSE
    /\ attempts = 0
    /\ pc = [c \in Calls |-> "idle"]
    /\ call = [c \in Calls |-> NoCall]
    /\ queue = <<>>
    /\ handle = None
    /\ shown = None
    /\ pending = {}
    /\ live = {}
    /\ job = [j \in Jobs |-> NoJob]
    /\ forget = [f \in Forgets |-> NoForget]
    /\ record \in Wallets \cup {None}
    /\ disk = record
    /\ keystore = {w \in Wallets : w = record}
    /\ remembered = IF config = None THEN None ELSE record
    /\ unreadable \in SUBSET Wallets

\* setRemembered's first call answers: getRemembered now returns w, or, in a
\* store that does not say when a write fails, what it did.
SetQuietly(w) == record' \in {w, record}
SetRemembered(w) == record' = w \/ (SilentStore /\ record' = record)

-----------------------------------------------------------------------------
(* releaseWallet: the session lets go of the wallet first and frees the    *)
(* handle last.  Freeing a handle that some call is still running on may   *)
(* throw (`refused`), and the code after releaseWallet is then skipped.    *)

ReleaseWithoutFree(refused) ==
    /\ refused => handle # None /\ Busy(handle)
    /\ pending' = {}
    /\ live' = live

ReleaseWallet(refused) ==
    /\ refused => handle # None /\ Busy(handle)
    /\ pending' = {}
    /\ live' = live \ {handle}

\* closeWallet, pressed in Settings or on the Wallet page, or by the
\* background lock.  Whether free throws changes nothing of the session.
Close ==
    /\ handle # None
    /\ ReleaseWallet(FALSE)
    /\ handle' = None
    /\ shown' = None
    /\ UNCHANGED <<config, onSetup, attempts, pc, call, queue, remembered,
                   job, forget, durable>>

-----------------------------------------------------------------------------
(* Opening a wallet.                                                       *)

\* What install reads before its first real wait: a new attempt number, and
\* the settings' server, for wallet w.
BeginInstall(c, w, data) ==
    /\ attempts' = attempts + 1
    /\ pc' = [pc EXCEPT ![c] = "opening"]
    /\ call' = [call EXCEPT ![c] = [data EXCEPT !.wallet = w,
                                                !.attempt = attempts + 1,
                                                !.server = config]]

\* A call leaves with the result `state` and changes nothing else.
Leave(c, state) ==
    /\ pc' = [pc EXCEPT ![c] = state]
    /\ UNCHANGED <<config, onSetup, attempts, call, queue, handle, shown,
                   pending, live, remembered, job, forget, durable>>

\* openWallet, or resetHistoryAndOpen when `reset` is set.
Enter(c, key, remember, reset) ==
    /\ pc[c] = "idle"
    /\ RequireConfig
    /\ BeginInstall(c, <<key, config>>,
                    [NoCall EXCEPT !.remember = remember, !.reset = reset])
    /\ UNCHANGED <<config, onSetup, queue, handle, shown, pending, live,
                   remembered, job, forget, durable>>

\* canUnlockHere, which the Unlock screen is only reached under.
CanUnlockHere == remembered # None /\ config # None /\ remembered[2] = config

\* unlockWallet: the record is read first.
Unlock(c, reset) ==
    /\ pc[c] = "idle"
    /\ CanUnlockHere
    /\ pc' = [pc EXCEPT ![c] = "reading"]
    /\ call' = [call EXCEPT ![c] = [NoCall EXCEPT !.kind = "unlock", !.reset = reset]]
    /\ UNCHANGED <<config, onSetup, attempts, queue, handle, shown, pending,
                   live, remembered, job, forget, durable>>

\* The record is here: the network is checked against the settings', and the
\* key store asked for the secret.
RecordRead(c) ==
    /\ pc[c] = "reading"
    /\ record # None
    /\ record[2] = config
    /\ pc' = [pc EXCEPT ![c] = "loading"]
    /\ call' = [call EXCEPT ![c].wallet = record]
    /\ UNCHANGED <<config, onSetup, attempts, queue, handle, shown, pending,
                   live, remembered, job, forget, durable>>

\* not_remembered, wrong_network, or a record that cannot be read.
RecordRefused(c) == pc[c] = "reading" /\ Leave(c, "failed")

\* The secret is here: install starts, with the settings as they are now.
SecretLoaded(c) ==
    /\ pc[c] = "loading"
    /\ WalletOf(c) \in keystore
    /\ BeginInstall(c, WalletOf(c), call[c])
    /\ UNCHANGED <<config, onSetup, queue, handle, shown, pending, live,
                   remembered, job, forget, durable>>

\* No entry, a wrong app password, or a key store that fails.
SecretRefused(c) == pc[c] = "loading" /\ Leave(c, "failed")

\* WalletApi.open answers: the saved history was read, or a new one saved, and
\* there is none left to reset.
HandleCreated(c) ==
    /\ pc[c] = "opening"
    /\ WalletOf(c) \notin unreadable
    /\ live' = live \cup {c}
    /\ pc' = [pc EXCEPT ![c] = "addressing"]
    /\ call' = [call EXCEPT ![c].reset = FALSE]
    /\ UNCHANGED <<config, onSetup, attempts, queue, handle, shown,
                   pending, remembered, job, forget, durable>>

\* An open that fails for any reason a history reset does not fix, or that
\* was not asked to reset.
OpenRefused(c) ==
    /\ pc[c] = "opening"
    /\ WalletOf(c) \in unreadable => ~call[c].reset
    /\ Leave(c, "failed")

\* withHistoryReset: the history could not be read, so it is deleted.  The id
\* deleted is worked out now: for a typed key from the network in the settings
\* at this moment, for Unlock from the record read before.
StartReset(c) ==
    /\ pc[c] = "opening"
    /\ WalletOf(c) \in unreadable
    /\ call[c].reset
    /\ pc' = [pc EXCEPT ![c] = "resetting"]
    /\ call' = [call EXCEPT ![c].reset = FALSE,
                            ![c].wallet = IF call[c].kind = "unlock" THEN @
                                          ELSE <<@[1], config>>]
    /\ UNCHANGED <<config, onSetup, attempts, queue, handle, shown, pending,
                   live, remembered, job, forget, durable>>

\* The history is gone; the same open runs once more from its start.
HistoryReset(c) ==
    /\ pc[c] = "resetting"
    /\ unreadable' = unreadable \ {WalletOf(c)}
    /\ BeginInstall(c, IF call[c].kind = "unlock" THEN WalletOf(c)
                       ELSE <<WalletOf(c)[1], config>>, call[c])
    /\ UNCHANGED <<config, onSetup, queue, handle, shown, pending, live,
                   remembered, job, forget, keystore, record, disk>>

ResetRefused(c) == pc[c] = "resetting" /\ Leave(c, "failed")

\* The address is here and a newer attempt has started: this wallet is freed.
Superseded(c) ==
    /\ pc[c] = "addressing"
    /\ ~StillCurrent(c)
    /\ live' = live \ {c}
    /\ pc' = [pc EXCEPT ![c] = "superseded"]
    /\ UNCHANGED <<config, onSetup, attempts, call, queue, handle, shown,
                   pending, remembered, job, forget, durable>>

EnqueuedFirst(c) == <<c>> \o queue
Enqueued(c) == Append(queue, c)

\* The address is here and no newer attempt has started: the session is the
\* new wallet's, and its remember step, if asked for, joins the queue.
Commit(c) ==
    /\ pc[c] = "addressing"
    /\ StillCurrent(c)
    /\ ReleaseWallet(FALSE)
    /\ handle' = c
    /\ shown' = WalletOf(c)
    /\ pc' = [pc EXCEPT ![c] = IF call[c].remember THEN "queued" ELSE "done"]
    /\ queue' = IF call[c].remember THEN Enqueued(c) ELSE queue
    /\ UNCHANGED <<config, onSetup, attempts, call, remembered, job, forget,
                   durable>>

\* As Commit, but freeing the wallet it replaces throws: none is open, and the
\* handle just created is left to the garbage collector.
CommitRefused(c) ==
    /\ pc[c] = "addressing"
    /\ StillCurrent(c)
    /\ ReleaseWallet(TRUE)
    /\ handle' = None
    /\ shown' = None
    /\ pc' = [pc EXCEPT ![c] = "stranded"]
    /\ UNCHANGED <<config, onSetup, attempts, call, queue, remembered, job,
                   forget, durable>>

-----------------------------------------------------------------------------
(* The remember step, one call's turn at a time.                           *)

StuckAfterFailure(c, state) ==
    /\ pc' = [pc EXCEPT ![c] = state]
    /\ queue' = IF state = "failed" THEN queue ELSE Tail(queue)

\* The turn ends, whether it resolved or rejected.
EndTurn(c, state) ==
    /\ pc' = [pc EXCEPT ![c] = state]
    /\ queue' = Tail(queue)

TurnStart(c) ==
    /\ pc[c] = "queued"
    /\ HoldsTurn(c)
    /\ IF StillCurrent(c)
       THEN pc' = [pc EXCEPT ![c] = "remembering"] /\ UNCHANGED queue
       ELSE EndTurn(c, "superseded")
    /\ UNCHANGED <<config, onSetup, attempts, call, handle, shown, pending,
                   live, remembered, job, forget, durable>>

\* rememberSecret answers; a call superseded meanwhile takes the entry back.
SecretKept(c) ==
    /\ pc[c] = "remembering"
    /\ keystore' = keystore \cup {WalletOf(c)}
    /\ pc' = [pc EXCEPT ![c] = IF StillCurrent(c) THEN "recording" ELSE "unremembering"]
    /\ UNCHANGED <<config, onSetup, attempts, call, queue, handle, shown,
                   pending, live, remembered, job, forget, record, disk, unreadable>>

EntryTakenBack(c) ==
    /\ pc[c] = "unremembering"
    /\ keystore' = keystore \ {WalletOf(c)}
    /\ EndTurn(c, "superseded")
    /\ UNCHANGED <<config, onSetup, attempts, call, handle, shown, pending,
                   live, remembered, job, forget, record, disk, unreadable>>

\* store.set answers: the record names this wallet, whatever its save comes to.
RecordSet(c) ==
    /\ pc[c] = "recording"
    /\ SetRemembered(WalletOf(c))
    /\ pc' = [pc EXCEPT ![c] = "saving"]
    /\ UNCHANGED <<config, onSetup, attempts, call, queue, handle, shown,
                   pending, live, remembered, job, forget, keystore, disk, unreadable>>

\* setRemembered answers; openAndEnter then mirrors the record in the session.
Recorded(c) ==
    /\ pc[c] = "saving"
    /\ disk' = record
    /\ remembered' = WalletOf(c)
    /\ EndTurn(c, "done")
    /\ UNCHANGED <<config, onSetup, attempts, call, handle, shown, pending,
                   live, job, forget, keystore, record, unreadable>>

\* The platform call the turn waits for fails and changes nothing; what the
\* calls before it changed stays.
TurnFails(c) ==
    /\ pc[c] \in TurnStates
    /\ EndTurn(c, "failed")
    /\ UNCHANGED <<config, onSetup, attempts, call, handle, shown, pending,
                   live, remembered, job, forget, durable>>

-----------------------------------------------------------------------------
(* Forget: the secret, then the history, then the record, then the session. *)

SetForget(f, state) == forget' = [forget EXCEPT ![f].state = state]

\* forgetThisWallet, offered on Unlock and in the remembered wallet's
\* Settings; the record it follows is read first.
StartForget(f) ==
    /\ forget[f].state = "idle"
    /\ remembered # None
    /\ forget' = [forget EXCEPT ![f] =
                    [state |-> IF record = None THEN "clearing" ELSE "removing",
                     wallet |-> record]]
    /\ UNCHANGED <<config, onSetup, attempts, pc, call, queue, handle, shown,
                   pending, live, remembered, job, durable>>

SecretForgotten(f) ==
    /\ forget[f].state = "removing"
    /\ keystore' = keystore \ {forget[f].wallet}
    /\ SetForget(f, "deleting")
    /\ UNCHANGED <<config, onSetup, attempts, pc, call, queue, handle, shown,
                   pending, live, remembered, job, record, disk, unreadable>>

HistoryForgotten(f) ==
    /\ forget[f].state = "deleting"
    /\ unreadable' = unreadable \ {forget[f].wallet}
    /\ SetForget(f, "clearing")
    /\ UNCHANGED <<config, onSetup, attempts, pc, call, queue, handle, shown,
                   pending, live, remembered, job, keystore, record, disk>>

\* store.delete answers: no wallet is remembered, whatever its save comes to.
RecordDropped(f) ==
    /\ forget[f].state = "clearing"
    /\ SetRemembered(None)
    /\ SetForget(f, "saving")
    /\ UNCHANGED <<config, onSetup, attempts, pc, call, queue, handle, shown,
                   pending, live, remembered, job, keystore, disk, unreadable>>

\* setRemembered(null) answers; the open wallet is released, and the session's
\* record is dropped unless freeing the wallet threw.
RecordForgotten(f) ==
    /\ forget[f].state = "saving"
    /\ disk' = record
    /\ \E refused \in BOOLEAN :
         /\ ReleaseWallet(refused)
         /\ remembered' = IF refused THEN remembered ELSE None
         /\ SetForget(f, IF refused THEN "refused" ELSE "done")
    /\ handle' = None
    /\ shown' = None
    /\ UNCHANGED <<config, onSetup, attempts, pc, call, queue, job, keystore,
                   record, unreadable>>

\* The call the forget waits for fails; what the calls before it changed stays.
ForgetFails(f) ==
    /\ forget[f].state \in {"removing", "deleting", "clearing", "saving"}
    /\ SetForget(f, "failed")
    /\ UNCHANGED <<config, onSetup, attempts, pc, call, queue, handle, shown,
                   pending, live, remembered, job, durable>>

-----------------------------------------------------------------------------
(* Work on the open wallet.  It keeps the handle it started on, whatever   *)
(* the session holds by the time it answers.                               *)

StartJob(j, kind) ==
    /\ job[j].state = "idle"
    /\ handle # None
    /\ job' = [job EXCEPT ![j] = [state |-> "running", kind |-> kind, on |-> handle]]
    /\ UNCHANGED <<config, onSetup, attempts, pc, call, queue, handle, shown,
                   pending, live, remembered, forget, durable>>

\* The core saves what the work found or revealed; newAddress then rewrites
\* the open wallet's address, and buildPreview files the PSBT.
JobDone(j) ==
    LET w == WalletOf(job[j].on) IN
    /\ job[j].state = "running"
    /\ job' = [job EXCEPT ![j] = JobOver]
    /\ unreadable' = unreadable \ {w}
    /\ shown' = IF job[j].kind = "newAddress" /\ handle # None THEN w ELSE shown
    /\ pending' = IF job[j].kind = "build" THEN pending \cup {w} ELSE pending
    /\ UNCHANGED <<config, onSetup, attempts, pc, call, queue, handle, live,
                   remembered, forget, keystore, record, disk>>

\* It fails, or is lost with the handle it ran on.
JobLost(j) ==
    /\ job[j].state = "running"
    /\ job' = [job EXCEPT ![j] = JobOver]
    /\ UNCHANGED <<config, onSetup, attempts, pc, call, queue, handle, shown,
                   pending, live, remembered, forget, durable>>

-----------------------------------------------------------------------------
(* Setup, the file, and a restart.                                         *)

\* guardRoute sends Setup under an open wallet to Settings; nothing checks
\* again while the screen is up.
ShowSetup ==
    /\ ~onSetup
    /\ handle = None
    /\ onSetup' = TRUE
    /\ UNCHANGED <<config, attempts, pc, call, queue, handle, shown, pending,
                   live, remembered, job, forget, durable>>

SaveSetup(n) ==
    /\ onSetup
    /\ config' = n
    /\ onSetup' = FALSE
    /\ UNCHANGED <<attempts, pc, call, queue, handle, shown, pending, live,
                   remembered, job, forget, durable>>

\* The store writes its file by itself, some time after a change and on exit.
Autosave ==
    /\ disk # record
    /\ disk' = record
    /\ UNCHANGED <<config, onSetup, attempts, pc, call, queue, handle, shown,
                   pending, live, remembered, job, forget, keystore, record,
                   unreadable>>

\* What is in memory goes, and boot reads the record back, or fails to: from
\* the store when the page is reloaded, from its file when the app was killed.
Restart ==
    /\ attempts > 0
    /\ onSetup' = FALSE
    /\ attempts' = 0
    /\ pc' = [c \in Calls |-> IF pc[c] = "idle" THEN "idle" ELSE "gone"]
    /\ queue' = <<>>
    /\ handle' = None
    /\ shown' = None
    /\ pending' = {}
    /\ live' = {}
    /\ job' = [j \in Jobs |-> IF job[j].state = "idle" THEN NoJob ELSE JobOver]
    /\ forget' = [f \in Forgets |-> IF forget[f].state = "idle" THEN NoForget
                                    ELSE [forget[f] EXCEPT !.state = "gone"]]
    /\ record' \in {record, disk}
    /\ remembered' \in IF config = None THEN {None} ELSE {None, record'}
    /\ UNCHANGED <<config, call, keystore, disk, unreadable>>

-----------------------------------------------------------------------------
\* What the user or the environment may do.
Press ==
    \/ \E c \in Calls, k \in Keys, remember, reset \in BOOLEAN :
         Enter(c, k, remember, reset)
    \/ \E c \in Calls, reset \in BOOLEAN : Unlock(c, reset)
    \/ \E f \in Forgets : StartForget(f)
    \/ \E j \in Jobs, kind \in JobKinds : StartJob(j, kind)
    \/ Close
    \/ ShowSetup
    \/ \E n \in Networks : SaveSetup(n)
    \/ Autosave
    \/ Restart

\* What an opening call does when what it waits for answers.
CallStep(c) ==
    \/ RecordRead(c) \/ RecordRefused(c)
    \/ SecretLoaded(c) \/ SecretRefused(c)
    \/ HandleCreated(c) \/ OpenRefused(c)
    \/ StartReset(c) \/ HistoryReset(c) \/ ResetRefused(c)
    \/ Superseded(c) \/ Commit(c) \/ CommitRefused(c)
    \/ TurnStart(c)
    \/ SecretKept(c) \/ EntryTakenBack(c)
    \/ RecordSet(c) \/ Recorded(c) \/ TurnFails(c)

ForgetStep(f) ==
    \/ SecretForgotten(f) \/ HistoryForgotten(f)
    \/ RecordDropped(f) \/ RecordForgotten(f) \/ ForgetFails(f)

JobStep(j) == JobDone(j) \/ JobLost(j)

Next ==
    \/ Press
    \/ \E c \in Calls : CallStep(c)
    \/ \E f \in Forgets : ForgetStep(f)
    \/ \E j \in Jobs : JobStep(j)

Spec == Init /\ [][Next]_vars

\* Every platform call, IndexedDB request and core call is answered in the
\* end, one way or the other; no press is ever owed.
FairSpec ==
    /\ Spec
    /\ \A c \in Calls : WF_vars(CallStep(c))
    /\ \A f \in Forgets : WF_vars(ForgetStep(f))
    /\ \A j \in Jobs : WF_vars(JobStep(j))

-----------------------------------------------------------------------------
(* Properties that hold.                                                   *)

TypeOK ==
    /\ config \in Networks \cup {None}
    /\ onSetup \in BOOLEAN
    /\ attempts \in Nat
    /\ pc \in [Calls -> PcStates]
    /\ call \in [Calls -> CallRecord]
    /\ queue \in Seq(Calls)
    /\ handle \in Calls \cup {None}
    /\ shown \in Wallets \cup {None}
    /\ pending \subseteq Wallets
    /\ live \subseteq Calls
    /\ remembered \in Wallets \cup {None}
    /\ job \in [Jobs -> [state : {"idle", "running", "over"}, kind : JobKinds,
                         on : Calls \cup {None}]]
    /\ forget \in [Forgets -> [state : {"idle", "removing", "deleting", "clearing",
                                       "saving", "refused"} \cup Settled,
                               wallet : Wallets \cup {None}]]
    /\ keystore \subseteq Wallets
    /\ record \in Wallets \cup {None}
    /\ disk \in Wallets \cup {None}
    /\ unreadable \subseteq Wallets

\* A call that waits for the queue or holds its turn is in it.
InQueue(c) == \E i \in DOMAIN queue : queue[i] = c

\* serializeRemember: however opens, restarts and failures interleave, at most
\* one remember step is under way, and it is the one at the head of the queue.
TurnsAreExclusive == \A c \in Calls : pc[c] \in TurnStates => HoldsTurn(c)

\* serializeRemember: the queue is the calls that wait for a turn or have it,
\* each of them once, and only its head has one.  So whatever a turn comes to,
\* its end lets the next begin, and none waits behind a turn that is over.
QueueMovesOn ==
    /\ \A c \in Calls : InQueue(c) <=> pc[c] \in {"queued"} \cup TurnStates
    /\ \A i, j \in DOMAIN queue : queue[i] = queue[j] => i = j
    /\ TurnsAreExclusive

\* A wallet handle is created once and freed once: at any moment the handles
\* not yet freed are the session's, those of opens still waiting for their
\* address, and those whose commit was cut short by a free that threw.
HandlesAccountedFor ==
    live = {c \in Calls : pc[c] \in {"addressing", "stranded"} \/ c = handle}

\* c has finished its remember step.
Remembered(c) == call[c].remember /\ pc[c] = "done"

\* The record names the wallet of c, which finished its remember step or wrote
\* the record and was told, or is yet to be told, that saving it failed.
Recorder(c) ==
    /\ call[c].remember
    /\ pc[c] \in {"saving", "failed", "done"}
    /\ record = WalletOf(c)

\* However many remembers are in flight, fail or are superseded, the device
\* never ends with an older wallet than one it was asked later, and finished,
\* to remember: the record is that one's, or a later attempt's, which was
\* remembered over it or whose write showed and was not saved.  A forget drops
\* it.
LastRememberWins ==
    \A c \in Calls :
        Remembered(c) =>
            \/ \E d \in Calls : Recorder(d) /\ call[d].attempt >= call[c].attempt
            \/ \E f \in Forgets : forget[f].state # "idle"

\* The record is never written for a wallet whose secret is not in the key
\* store: another attempt that takes back its own entry cannot take this one.
\* Only a forget of that wallet can.
RecordingKeyIsKept ==
    \A c \in Calls :
        pc[c] \in {"recording", "saving"} =>
            \/ WalletOf(c) \in keystore
            \/ \E f \in Forgets : forget[f].wallet = WalletOf(c)

\* session.remembered mirrors the record, or is empty.  It can differ only while
\* a write of the record waits for its save or after that save failed, after a
\* forget whose release of the open wallet threw, and when a forget dropped the
\* record between the write and the save of a remember that then finished.
RememberedIsRecord ==
    \/ remembered \in {None, record}
    \/ \E c \in Calls : Recorder(c) /\ pc[c] # "done"
    \/ /\ record = None
       /\ \/ \E f \in Forgets : forget[f].state \in {"saving", "failed", "refused"}
          \/ /\ \E f \in Forgets : forget[f].state = "done"
             /\ \E c \in Calls : Remembered(c) /\ remembered = WalletOf(c)

\* Every press is answered: an open settles, behind any queue of remember
\* steps that may fail, and so does a forget.
EveryPressIsAnswered ==
    /\ \A c \in Calls : pc[c] # "idle" ~> pc[c] \in Settled
    /\ \A f \in Forgets : forget[f].state # "idle" ~>
                              forget[f].state \in Settled \cup {"refused"}

\* The attempt whose wallet is open, and the number of the newest attempt.
Newest == INSTANCE NewestWins WITH
              started <- attempts,
              open <- IF handle = None THEN 0 ELSE call[handle].attempt

\* openAttempt: what the session shows is the newest attempt there was when it
\* was committed, so a slow open never replaces a later one.
NewestWinsSpec == Newest!Spec

-----------------------------------------------------------------------------
(* What the comments of the code say and the code does not keep.           *)

\* "The entry just written is this attempt's own" (api.ts, openWallet), so
\* taking it back leaves every remembered wallet its key.
RememberedKeyIsKept ==
    record # None => \/ record \in keystore
                     \/ \E f \in Forgets : forget[f].wallet = record

\* canUnlockHere keeps a remembered wallet from being "opened against a server
\* for the wrong chain" (api.ts): the open wallet's server is on its network.
OpenOnItsOwnServer == handle # None => call[handle].server = WalletOf(handle)[2]
=============================================================================
