----------------------------- MODULE WalletCore -----------------------------
(***************************************************************************)
(* The wallet handle of crates/wallet-core (wallet.rs), and the record its *)
(* state is kept in.                                                       *)
(*                                                                         *)
(* BDK's wallet is a view of the chain plus what the user chose: the coins *)
(* and transactions it knows, the frozen coins, how many addresses it has  *)
(* revealed.  A change is staged, and persist writes it: JsPersister keeps *)
(* the aggregate and replaces the whole record, so a write leaves the      *)
(* writer's view.  An async mutex serialises the calls of one handle and   *)
(* is held across the write; the network is asked outside it.              *)
(*                                                                         *)
(* An action ends at each await of the network, the mutex or the store.    *)
(* What a sync finds is what the chain holds when it is applied: changes   *)
(* merge, so an answer that waited for the mutex only knows less.  Reorgs  *)
(* and evictions are BDK's and are left out, change outputs too, and the   *)
(* coins of a replaced transaction stay spent.  The wallet is a ranged one *)
(* (a single-key wallet has one address and reveals nothing).              *)
(*                                                                         *)
(* One record may have several handles: an open makes the new handle       *)
(* before the old one is freed, opens race, a second page is a second      *)
(* session, and a handle freed under its calls lives until they are over   *)
(* (each holds the Rc, and free throws).  None of them reads the record    *)
(* again, so a write of one undoes what the others wrote since it last     *)
(* read or wrote; known and behind keep the account.                       *)
(*                                                                         *)
(* A call is a member of Ops and used once; the transaction a build makes  *)
(* is named by its call.  Coin i sits at the address of index i.           *)
(*                                                                         *)
(* TakenFirst, UnlocksOnSuccess, NeverReported, FrozenToo, NotRecorded and *)
(* AlwaysPartial are faulty variants of the definition each stands before. *)
(***************************************************************************)
EXTENDS Naturals

CONSTANTS Handles,  \* the opens of this wallet, by one page or by several
          Ops,      \* calls on a handle
          Calls,    \* the kinds of call made, at most those of Kinds
          Foreign,  \* transactions made elsewhere that pay this wallet
          MaxIndex, \* bound on the addresses revealed
          None

Coins == 1..MaxIndex

ASSUME MaxIndexAssumption == MaxIndex \in Nat
ASSUME NamesAssumption == Ops \cap Foreign = {}

VARIABLES onchain,  \* coins paid to this wallet
          accepted, \* transactions the network has accepted
          record,   \* the stored changeset, None before the first write
          status,   \* where each handle stands; "freed": no new calls, those under way go on
          view,     \* the handle's wallet
          staged,   \* whether it holds a change not written
          lock,     \* the call that holds the handle's mutex
          op,       \* the calls
          inputs,   \* the coins a built transaction spends
          acked,    \* history: what the answers said of the record as it is now
          known,    \* history: and of each handle's wallet
          behind    \* history: handles that another one's write has left behind

ledger == <<onchain, accepted>>
handles == <<status, view, staged, lock>>
answers == <<acked, known, behind>>
vars == <<ledger, record, handles, op, inputs, answers>>

-----------------------------------------------------------------------------
Txs == Ops \cup Foreign
View == [coins : SUBSET Coins, txs : SUBSET Txs, frozen : SUBSET Coins,
         revealed : 0..MaxIndex, scanned : BOOLEAN]
Fresh == [coins |-> {}, txs |-> {}, frozen |-> {}, revealed |-> 0, scanned |-> FALSE]

\* What a wallet says of the addresses given out, the payments and the choices.
Pages == [revealed : 0..MaxIndex, txs : SUBSET Txs, frozen : SUBSET Coins]
Page(v) == [revealed |-> v.revealed, txs |-> v.txs, frozen |-> v.frozen]

\* What answers have promised: addresses given out, payments recorded, coins
\* frozen and let go, transactions built.
Promises == [addresses : SUBSET Coins, txs : SUBSET Txs, frozen : SUBSET Coins,
             free : SUBSET Coins, built : SUBSET Ops]
Nothing == [addresses |-> {}, txs |-> {}, frozen |-> {}, free |-> {}, built |-> {}]

ASSUME NoneAssumption == None \notin Ops \cup Handles \cup View \cup Pages

\* The wallet an open loads from the record, or creates.
Loaded == IF record = None THEN Fresh ELSE record

Builds == {"build", "bump"}
Kinds == {"none", "address", "newAddress", "freeze", "unfreeze", "broadcast",
          "full", "partial"} \cup Builds
\* Waiting for the network, for the mutex with the network's yes, or for the
\* store with the mutex held; or answered: "unsaved" is a broadcast's Ok with
\* a persist_error, "lost" a call that ended with its handle.
Answers == {"ok", "unsaved", "failed", "lost"}
Steps == {"idle", "network", "accepted", "persisting"} \cup Answers
NoOp == [kind |-> "none", on |-> None, step |-> "idle", arg |-> None]

\* r is the revealed index of a wallet that had revealed `revealed` and has now
\* found `coins`.
RevealedBy(r, revealed, coins) ==
    r \in {revealed} \cup coins /\ revealed <= r /\ coins \subseteq 1..r

\* The wallet of an earlier run that has just synced.
Synced(coins, r) == [Fresh EXCEPT !.coins = coins, !.revealed = r, !.scanned = TRUE]

Spends(ts) == UNION {inputs[t] : t \in ts \cap Ops}
Unspent(v) == v.coins \ Spends(v.txs)
HasHistory(v) == v.coins # {} \/ v.txs # {}

Init ==
    /\ onchain \in SUBSET Coins
    /\ accepted = {}
    /\ record = None \/ \E r \in 0..MaxIndex : RevealedBy(r, 0, onchain) /\ record = Synced(onchain, r)
    /\ status = [h \in Handles |-> "new"]
    /\ view = [h \in Handles |-> Fresh]
    /\ staged = [h \in Handles |-> FALSE]
    /\ lock = [h \in Handles |-> None]
    /\ op = [o \in Ops |-> NoOp]
    /\ inputs = [o \in Ops |-> {}]
    /\ acked = Nothing
    /\ known = [h \in Handles |-> Nothing]
    /\ behind = {}

-----------------------------------------------------------------------------
(* The mutex and the store.                                                *)

\* Call o does `kind` with `arg` on h and gets as far as `step`.
Call(o, h, kind, arg, step) ==
    /\ kind \in Calls
    /\ op' = [op EXCEPT ![o] = [kind |-> kind, on |-> h, step |-> step, arg |-> arg]]

\* Under the mutex, which o holds from here until its write is answered, the
\* wallet becomes v.  BDK stages what that changes, and may stage more: the
\* chain's tip, a change address.
Change(o, h, v) ==
    /\ lock[h] = None
    /\ lock' = [lock EXCEPT ![h] = o]
    /\ view' = [view EXCEPT ![h] = v]
    /\ \E more \in BOOLEAN : staged' = [staged EXCEPT ![h] = @ \/ v # view[h] \/ more]
    /\ UNCHANGED status

UnlocksOnSuccess(h, saved) == lock' = IF saved THEN [lock EXCEPT ![h] = None] ELSE lock
Unlock(h, saved) == lock' = [lock EXCEPT ![h] = None]

TakenFirst(h, saved) ==
    /\ saved \/ staged[h]
    /\ record' = IF staged[h] /\ saved THEN view[h] ELSE record
    /\ staged' = [staged EXCEPT ![h] = FALSE]
\* persist: the store answers, and the stage is let go only when it took it.
Persist(h, saved) ==
    /\ saved \/ staged[h]
    /\ record' = IF staged[h] /\ saved THEN view[h] ELSE record
    /\ staged' = [staged EXCEPT ![h] = @ /\ ~saved]

NeverReported(kind, saved) == "ok"
\* What a call answers when its write is over: address does not report a
\* failed one, broadcast reports it beside the txid, every other call fails.
AfterWrite(kind, saved) ==
    CASE saved \/ kind = "address" -> "ok"
      [] kind = "broadcast" /\ ~saved -> "unsaved"
      [] OTHER -> "failed"

Asked(os, kind) == {op[o].arg : o \in {u \in os : op[u].kind = kind}}

\* What p comes to once the calls of `ended` are over, those of `done` with
\* "ok".  A choice that failed leaves open which one the coin has.
Promised(p, ended, done) ==
    LET disputed == Asked(ended, "freeze") \cup Asked(ended, "unfreeze") IN
    [addresses |-> p.addresses \cup Asked(done, "newAddress"),
     txs |-> p.txs \cup Asked(done, "broadcast"),
     frozen |-> (p.frozen \ disputed) \cup Asked(done, "freeze"),
     free |-> (p.free \ disputed) \cup Asked(done, "unfreeze"),
     built |-> p.built \cup {o \in done : op[o].kind \in Builds}]

Alive == {"opening", "open", "freed"}

\* The history of calls of h that are over, with h's wallet `written` or not.
\* A write makes h's wallet the record, and leaves the other handles behind;
\* an Ok with nothing to write counts for the record unless h is behind it.
Account(h, ended, done, written) ==
    /\ known' = [known EXCEPT ![h] = Promised(@, ended, done)]
    /\ acked' = IF written THEN known'[h]
                ELSE IF h \in behind THEN acked ELSE Promised(acked, done, done)
    /\ behind' = IF written THEN {g \in Handles : g # h /\ status[g] \in Alive} ELSE behind

\* The store takes the write or refuses it, the mutex is let go, and the call
\* is answered.
Written(o, saved) ==
    LET h == op[o].on
        answer == AfterWrite(op[o].kind, saved)
    IN
    /\ op[o].step = "persisting"
    /\ Persist(h, saved)
    /\ Unlock(h, saved)
    /\ op' = [op EXCEPT ![o].step = answer]
    /\ Account(h, {o}, IF answer = "ok" THEN {o} ELSE {}, staged[h] /\ saved)
    /\ UNCHANGED <<ledger, status, view, inputs>>

-----------------------------------------------------------------------------
(* Opening, closing and leaving.                                           *)

\* open_with: a stored changeset is loaded, else a new wallet is created and
\* staged whole.  Nothing asks whether the record has another handle.
Open(h) ==
    /\ status[h] = "new"
    /\ status' = [status EXCEPT ![h] = "opening"]
    /\ view' = [view EXCEPT ![h] = Loaded]
    /\ staged' = [staged EXCEPT ![h] = record = None]
    /\ known' = [known EXCEPT ![h] = acked]
    /\ UNCHANGED <<ledger, record, lock, op, inputs, acked, behind>>

Opened(h, saved) ==
    /\ status[h] = "opening"
    /\ Persist(h, saved)
    /\ status' = [status EXCEPT ![h] = IF saved THEN "open" ELSE "gone"]
    /\ Account(h, {}, {}, staged[h] /\ saved)
    /\ UNCHANGED <<ledger, view, lock, op, inputs>>

\* releaseWallet, or a superseded open: no call is made on the handle any
\* more, and those under way go on, whether free throws or not.
Free(h) ==
    /\ status[h] = "open"
    /\ status' = [status EXCEPT ![h] = "freed"]
    /\ UNCHANGED <<ledger, record, view, staged, lock, op, inputs, answers>>

Running(h) == {o \in Ops : op[o].on = h /\ op[o].step \notin Answers}

\* The page is gone, and the handle's calls with it; of a freed handle only
\* those were left.  A write under way has reached the store or not.
Leave(h) ==
    /\ status[h] \in Alive
    /\ status[h] = "freed" => Running(h) # {}
    /\ status' = [status EXCEPT ![h] = "gone"]
    /\ lock' = [lock EXCEPT ![h] = None]
    /\ op' = [o \in Ops |-> IF o \in Running(h) THEN [op[o] EXCEPT !.step = "lost"] ELSE op[o]]
    /\ \E landed \in BOOLEAN :
         /\ landed => staged[h] /\ (status[h] = "opening" \/ lock[h] # None)
         /\ record' = IF landed THEN view[h] ELSE record
         /\ Account(h, Running(h), {}, landed)
    /\ UNCHANGED <<ledger, view, staged, inputs>>

-----------------------------------------------------------------------------
(* Addresses and frozen coins.                                             *)

Reveal(o, h, kind) ==
    LET v == view[h] IN
    /\ v.revealed < MaxIndex
    /\ Call(o, h, kind, v.revealed + 1, "persisting")
    /\ Change(o, h, [v EXCEPT !.revealed = @ + 1])
    /\ UNCHANGED <<ledger, record, inputs, answers>>

NewAddress(o, h) == Reveal(o, h, "newAddress")

\* address: the next unused one, revealed when every revealed one is used.
Address(o, h) ==
    \/ /\ 1..view[h].revealed \subseteq view[h].coins
       /\ Reveal(o, h, "address")
    \/ /\ ~(1..view[h].revealed \subseteq view[h].coins)
       /\ Call(o, h, "address", None, "persisting")
       /\ Change(o, h, view[h])
       /\ UNCHANGED <<ledger, record, inputs, answers>>

\* set_frozen: only an unspent coin can be frozen, any coin unfrozen.
SetFrozen(o, h, c, kind) ==
    LET frozen == view[h].frozen IN
    /\ Call(o, h, kind, c, "persisting")
    /\ kind = "freeze" => c \in Unspent(view[h])
    /\ Change(o, h, [view[h] EXCEPT !.frozen = IF kind = "freeze" THEN frozen \cup {c} ELSE frozen \ {c}])
    /\ UNCHANGED <<ledger, record, inputs, answers>>

-----------------------------------------------------------------------------
(* Spending.                                                               *)

FrozenToo(v) == Unspent(v)
\* The coins a build may spend, chosen by the user or by the wallet.
Spendable(v) == Unspent(v) \ v.frozen

Build(o, h, coins) ==
    /\ coins # {} /\ coins \subseteq Spendable(view[h])
    /\ Call(o, h, "build", None, "persisting")
    /\ Change(o, h, view[h])
    /\ inputs' = [inputs EXCEPT ![o] = coins]
    /\ UNCHANGED <<ledger, record, answers>>

\* A fee bump, or a cancel: a replacement of a transaction of ours in the
\* wallet.  It spends the coins that one does, and a fee bump may add others.
Bump(o, h, t, extra) ==
    /\ t \in view[h].txs \cap Ops
    /\ Call(o, h, "bump", t, "persisting")
    /\ extra \subseteq Spendable(view[h])
    /\ Change(o, h, view[h])
    /\ inputs' = [inputs EXCEPT ![o] = inputs[t] \cup extra]
    /\ UNCHANGED <<ledger, record, answers>>

\* A transaction that a build answered with, or that a PSBT from elsewhere holds.
Sendable == Foreign \cup {t \in Ops : op[t].kind \in Builds /\ op[t].step = "ok"}

StartBroadcast(o, h, t) ==
    /\ Call(o, h, "broadcast", t, "network")
    /\ t \in Sendable
    /\ UNCHANGED <<ledger, record, handles, inputs, answers>>

\* The network takes a transaction in place of those it conflicts with.
Accept(t) ==
    accepted' = {u \in accepted : Spends({u}) \cap Spends({t}) = {}} \cup {t}

\* The backend answers: accepted, or refused; or it accepts and the answer does
\* not come within the deadline.
NetworkAnswers(o, answer) ==
    /\ op[o].kind = "broadcast" /\ op[o].step = "network"
    /\ \/ answer = "accepted" /\ Accept(op[o].arg)
       \/ answer = "failed" /\ Accept(op[o].arg)
       \/ answer = "failed" /\ UNCHANGED accepted
    /\ op' = [op EXCEPT ![o].step = answer]
    /\ UNCHANGED <<onchain, record, handles, inputs, answers>>

NotRecorded(v, t) == v
Sent(v, t) == [v EXCEPT !.txs = @ \cup {t}]

\* apply_unconfirmed_txs, once the mutex is free.
RecordSent(o) ==
    LET h == op[o].on
        t == op[o].arg
    IN
    /\ op[o].step = "accepted"
    /\ Change(o, h, Sent(view[h], t))
    /\ op' = [op EXCEPT ![o].step = "persisting"]
    /\ UNCHANGED <<ledger, record, inputs, answers>>

-----------------------------------------------------------------------------
(* Syncing.                                                                *)

AlwaysPartial(v) == v.revealed > 0
PartialWillDo(v) == HasHistory(v)

\* sync: a full scan only while the wallet has no history.  rescan: always one.
StartSync(o, h, rescan) ==
    /\ lock[h] = None
    /\ IF ~rescan /\ PartialWillDo(view[h])
       THEN Call(o, h, "partial", 1..view[h].revealed, "network")
       ELSE Call(o, h, "full", Coins, "network")
    /\ UNCHANGED <<ledger, record, handles, inputs, answers>>

\* What the backend found at the addresses asked about merges into the wallet.
ApplyUpdate(o) ==
    LET h == op[o].on
        v == view[h]
        found == onchain \cap op[o].arg
        seen == {t \in accepted : t \in Foreign \/ Spends({t}) \cap (v.coins \cup found) # {}}
    IN
    /\ op[o].kind \in {"full", "partial"} /\ op[o].step = "network"
    /\ \E r \in 0..MaxIndex :
         /\ RevealedBy(r, v.revealed, found)
         /\ Change(o, h, [coins |-> v.coins \cup found, txs |-> v.txs \cup seen, frozen |-> v.frozen,
                          revealed |-> r, scanned |-> v.scanned \/ op[o].kind = "full"])
    /\ op' = [op EXCEPT ![o].step = "persisting"]
    /\ UNCHANGED <<ledger, record, inputs, answers>>

\* The backend fails or times out, or its answer does not connect.
SyncFails(o) ==
    /\ op[o].kind \in {"full", "partial"} /\ op[o].step = "network"
    /\ op' = [op EXCEPT ![o].step = "failed"]
    /\ UNCHANGED <<ledger, record, handles, inputs, answers>>

\* Someone pays an address of the wallet.
Receive(c) ==
    /\ c \notin onchain
    /\ onchain' = onchain \cup {c}
    /\ UNCHANGED <<accepted, record, handles, op, inputs, answers>>

-----------------------------------------------------------------------------
\* A call is made on an open handle.
Request(o, h) ==
    /\ status[h] = "open"
    /\ op[o].kind = "none"
    /\ \/ NewAddress(o, h) \/ Address(o, h)
       \/ \E c \in Coins, kind \in {"freeze", "unfreeze"} : SetFrozen(o, h, c, kind)
       \/ \E coins \in SUBSET Coins : Build(o, h, coins)
       \/ \E t \in Ops, extra \in SUBSET Coins : Bump(o, h, t, extra)
       \/ \E t \in Txs : StartBroadcast(o, h, t)
       \/ \E rescan \in BOOLEAN : StartSync(o, h, rescan)

Answer(o) ==
    \/ \E saved \in BOOLEAN : Written(o, saved)
    \/ \E answer \in {"accepted", "failed"} : NetworkAnswers(o, answer)
    \/ RecordSent(o)
    \/ ApplyUpdate(o) \/ SyncFails(o)

Next ==
    \/ \E h \in Handles : Open(h) \/ Free(h) \/ Leave(h) \/ \E saved \in BOOLEAN : Opened(h, saved)
    \/ \E o \in Ops, h \in Handles : Request(o, h)
    \/ \E o \in Ops : Answer(o)
    \/ \E c \in Coins : Receive(c)

Spec == Init /\ [][Next]_vars

\* The network and the store answer in the end, and the mutex is handed on.
FairSpec == Spec /\ \A o \in Ops : WF_vars(Answer(o))

-----------------------------------------------------------------------------
(* Properties that hold.                                                   *)

\* Every variable has its type, and only a call that waits for the store
\* holds a mutex: its handle's.
TypeOK ==
    /\ onchain \subseteq Coins
    /\ accepted \subseteq Txs
    /\ record \in View \cup {None}
    /\ status \in [Handles -> {"new", "gone"} \cup Alive]
    /\ view \in [Handles -> View]
    /\ staged \in [Handles -> BOOLEAN]
    /\ lock \in [Handles -> Ops \cup {None}]
    /\ \A h \in Handles : lock[h] # None => op[lock[h]].on = h /\ op[lock[h]].step = "persisting"
    /\ \A o \in Ops : /\ op[o].kind \in Kinds /\ op[o].step \in Steps
                      /\ op[o].on \in Handles \cup {None}
                      /\ op[o].step = "persisting" => lock[op[o].on] = o
    /\ inputs \in [Ops -> SUBSET Coins]
    /\ acked \in Promises
    /\ known \in [Handles -> Promises]
    /\ behind \subseteq Handles

\* A failed write loses nothing: what the wallet of a handle knows is in the
\* record or still staged for the next write, whichever calls failed before,
\* until another handle's write leaves it behind.
StagedUntilStored ==
    \A h \in Handles :
        status[h] \in {"open", "freed"} => staged[h] \/ h \in behind \/ view[h] = record

\* What was answered Ok is in the record, whatever fails or crashes after: the
\* address given out, the payment sent, the coin frozen or let go.  Several
\* handles at a time can undo no more than this: a write loses what others were
\* answered since its own handle last read or wrote the record.
AcknowledgedIsStored ==
    /\ \A i \in acked.addresses : i <= Loaded.revealed
    /\ acked.txs \subseteq Loaded.txs
    /\ acked.frozen \subseteq Loaded.frozen
    /\ acked.free \cap Loaded.frozen = {}

\* The coins call o picks in this step, those a replacement inherits aside.
Picks(o) ==
    CASE op'[o].kind = "build" -> inputs'[o]
      [] op'[o].kind = "bump" -> inputs'[o] \ inputs[op'[o].arg]
      [] OTHER -> {}

\* What the handle of the call o has been told, by its own answers or by the
\* record it read.
Told(o) == known[op'[o].on]

\* The coins of a payment answered Ok and saved are never picked for another
\* one, by a handle that was so answered or by any that reads its record, after
\* a crash or beside it.
SpentStaysSpent ==
    [][\A o \in Ops : op[o].kind = "none" /\ op'[o].kind # "none" =>
            Picks(o) \cap Spends(Told(o).txs) = {}]_vars

\* "A frozen coin stays out of every send ... and a fee bump's extra inputs
\* ... The choice is saved with the wallet" (wallet.rs, set_frozen): nothing
\* picks a coin whose freeze was answered Ok, whatever else failed to be
\* written since, and after a crash; unless by a handle that had read the
\* record before, or when such a one has written over the choice.
FrozenStaysOut ==
    [][\A o \in Ops : op[o].kind = "none" /\ op'[o].kind # "none" =>
            Picks(o) \cap Told(o).frozen = {}]_vars

\* "Reveal a fresh receiving address ... The revealed index is persisted before
\* returning" (wallet.rs, new_address): no answer is an address that the same
\* handle has answered, or any whose answers the record it read still had.
NewAddressesAreFresh ==
    [][\A o \in Ops :
            op[o].kind = "newAddress" /\ op[o].step = "persisting" /\ op'[o].step = "ok"
                => op[o].arg \notin known[op[o].on].addresses]_vars

\* The wallet of a handle is its draft, and a call under way has made its
\* change once it holds the mutex.
Drafts == [h \in Handles |-> IF status[h] \in Alive THEN Page(view[h]) ELSE None]

Stage(step) ==
    CASE step \in {"network", "accepted"} -> "asked"
      [] step = "persisting" -> "made"
      [] OTHER -> step

AsCalls == [o \in Ops |-> [kind |-> op[o].kind, on |-> op[o].on, arg |-> op[o].arg, stage |-> Stage(op[o].step)]]

Book == INSTANCE WalletBook WITH book <- Page(Loaded), drafts <- Drafts, calls <- AsCalls

\* The mutex held across the write, and the stage kept until the store has
\* taken it (wallet.rs, persist), make of a handle what WalletBook promises:
\* each call changes its handle's draft once, and is Ok only with the whole
\* draft in the record, through the failed writes of others, handles beside it,
\* handles freed under it, and crashes.
WalletBookSpec == Book!BSpec

\* Every call is answered: no failed write keeps the mutex.
EveryCallIsAnswered == \A o \in Ops : op[o].kind # "none" ~> op[o].step \in Answers

-----------------------------------------------------------------------------
(* What comments of wallet.rs say.  The first holds while every transaction *)
(* the wallet knows was found by a scan or spends what one found, and fails *)
(* for a wallet that first sends a PSBT made elsewhere: that is history     *)
(* enough.  The second holds of one handle, and fails of several.           *)

\* "The first pass is a full scan, which walks every keychain the wallet has"
\* (wallet.rs, sync): no partial pass runs on a wallet never scanned, unless
\* that wallet has sent what another handle built since it read the record.
FirstPassIsFull ==
    \A o \in Ops : op[o].kind = "partial" =>
        LET h == op[o].on IN
        h # None /\ (view[h].scanned \/ \E t \in view[h].txs \cap Ops : t \notin known[h].built)

\* "The revealed index is persisted before returning" (wallet.rs, new_address)
\* and a payment is recorded once it is sent: no write takes out of the record
\* an address or a payment that any handle answered.
NoneIsUndone ==
    \A h \in Handles :
        /\ \A i \in known[h].addresses : i <= Loaded.revealed
        /\ known[h].txs \subseteq Loaded.txs
=============================================================================
