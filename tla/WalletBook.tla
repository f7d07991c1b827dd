----------------------------- MODULE WalletBook -----------------------------
(***************************************************************************)
(* What the wallet handle of crates/wallet-core (wallet.rs) promises the   *)
(* callers of its methods, with no mutex, stage, network or chain: an open *)
(* handle is a draft of the wallet's record.                               *)
(*                                                                         *)
(*   - A call makes its change in its handle's draft, whole and at one     *)
(*     moment between being made and being answered, and only the change   *)
(*     asked for.                                                          *)
(*   - It is answered Ok once the record has the whole draft; address      *)
(*     alone is so answered whatever the record has.                       *)
(*   - A call that fails leaves draft and record as they are, and what it  *)
(*     changed goes with the next draft saved.                             *)
(*   - A handle freed takes no more calls, and those under way go on.  One *)
(*     whose page goes leaves the record as it was, or with its draft.     *)
(*   - What a transaction picks is neither frozen nor spent in the draft.  *)
(*                                                                         *)
(* Nothing is promised between handles: a draft is what the record was     *)
(* when the handle was opened, with its own changes, and one saved is the  *)
(* record, whatever others have saved meanwhile.  They are then behind,    *)
(* and an Ok of theirs that had nothing to write promises nothing of it.   *)
(***************************************************************************)
EXTENDS Naturals

CONSTANTS Handles,  \* the opens of the wallet
          Ops,      \* calls
          Foreign,  \* transactions made elsewhere
          MaxIndex, \* bound on the addresses revealed
          None

VARIABLES book,   \* what the record says, in the terms of a page
          status, \* where each handle stands, as in WalletCore
          drafts, \* each handle's page, None before it opens and when it is gone
          behind, \* handles that another one's draft has left behind
          calls,  \* what each call asks of which handle, and where it stands
          inputs  \* the coins a built transaction spends

shelf == <<book, status, behind>>
bookvars == <<shelf, drafts, calls, inputs>>

Coins == 1..MaxIndex
Txs == Ops \cup Foreign
Pages == [revealed : 0..MaxIndex, txs : SUBSET Txs, frozen : SUBSET Coins]

Asking(kind, h, arg, stage) == [kind |-> kind, on |-> h, arg |-> arg, stage |-> stage]
Stands(o, stage) == calls' = [calls EXCEPT ![o].stage = stage]
UnderWay == {"asked", "made"}
DraftOf(o) == drafts[calls[o].on]

\* The coins the transactions of page p spend.
SpentIn(p) == UNION {inputs[t] : t \in p.txs \cap Ops}

BInit ==
    /\ book \in {p \in Pages : p.txs = {} /\ p.frozen = {}}
    /\ status = [h \in Handles |-> "new"]
    /\ drafts = [h \in Handles |-> None]
    /\ behind = {}
    /\ calls = [o \in Ops |-> Asking("none", None, None, "idle")]
    /\ inputs = [o \in Ops |-> {}]

-----------------------------------------------------------------------------
(* Handles.                                                                *)

Stage(h, to) == status' = [status EXCEPT ![h] = to]

\* h's draft is the record, and every other draft is behind it.
Replaced(h) ==
    /\ book' = drafts[h]
    /\ behind' = {g \in Handles : g # h /\ drafts[g] # None}
Kept == UNCHANGED <<book, behind>>

Open(h) ==
    /\ status[h] = "new"
    /\ Stage(h, "opening")
    /\ drafts' = [drafts EXCEPT ![h] = book]
    /\ UNCHANGED <<book, behind, calls, inputs>>

\* The open is over.  A wallet just created writes itself first.
Opened(h) ==
    /\ status[h] = "opening"
    /\ Stage(h, "open")
    /\ Kept \/ Replaced(h)
    /\ UNCHANGED <<drafts, calls, inputs>>

Free(h) ==
    /\ status[h] = "open"
    /\ Stage(h, "freed")
    /\ UNCHANGED <<book, behind, drafts, calls, inputs>>

\* An open fails, or the page goes, with the handle's calls.
Shut(h) ==
    /\ status[h] \in {"opening", "open", "freed"}
    /\ Stage(h, "gone")
    /\ drafts' = [drafts EXCEPT ![h] = None]
    /\ Kept \/ Replaced(h)
    /\ calls' = [o \in Ops |-> IF calls[o].on = h /\ calls[o].stage \in UnderWay
                               THEN [calls[o] EXCEPT !.stage = "lost"] ELSE calls[o]]
    /\ UNCHANGED inputs

-----------------------------------------------------------------------------
(* Calls.                                                                  *)

\* A call that waits before it changes anything: a broadcast, a sync, a rescan.
Ask(o, h, kind, arg) ==
    /\ calls' = [calls EXCEPT ![o] = Asking(kind, h, arg, "asked")]
    /\ UNCHANGED <<drafts, inputs>>

GiveUp(o) ==
    /\ Stands(o, "failed")
    /\ UNCHANGED <<shelf, drafts, inputs>>

\* o is made on h and makes its change at once, or makes the change it waited
\* with: the handle's draft is the page p.
Make(o, h, kind, arg, p) ==
    /\ calls' = [calls EXCEPT ![o] = Asking(kind, h, arg, "made")]
    /\ drafts' = [drafts EXCEPT ![h] = p]
MakeAsked(o, p) ==
    /\ Stands(o, "made")
    /\ drafts' = [drafts EXCEPT ![calls[o].on] = p]
    /\ UNCHANGED <<shelf, inputs>>

\* The address after all those given out.
GiveOut(o, h, kind) ==
    /\ Make(o, h, kind, drafts[h].revealed + 1, [drafts[h] EXCEPT !.revealed = @ + 1])
    /\ UNCHANGED inputs

\* address: one given out and not used yet.
GiveAgain(o, h) == Make(o, h, "address", None, drafts[h]) /\ UNCHANGED inputs

Freeze(o, h, c) ==
    Make(o, h, "freeze", c, [drafts[h] EXCEPT !.frozen = @ \cup {c}]) /\ UNCHANGED inputs
Unfreeze(o, h, c) ==
    Make(o, h, "unfreeze", c, [drafts[h] EXCEPT !.frozen = @ \ {c}]) /\ UNCHANGED inputs

Unspoken(coins, p) == coins \cap (p.frozen \cup SpentIn(p)) = {}

\* A payment of coins, or the replacement of t, which keeps its inputs.
Pay(o, h, coins) ==
    /\ Make(o, h, "build", None, drafts[h])
    /\ coins \subseteq Coins /\ Unspoken(coins, drafts[h])
    /\ inputs' = [inputs EXCEPT ![o] = coins]
Replace(o, h, t, extra) ==
    /\ Make(o, h, "bump", t, drafts[h])
    /\ t \in drafts[h].txs /\ Unspoken(extra, drafts[h])
    /\ inputs' = [inputs EXCEPT ![o] = inputs[t] \cup extra]

\* The network took the transaction o broadcasts.
Send(o) ==
    /\ calls[o].kind = "broadcast"
    /\ MakeAsked(o, [DraftOf(o) EXCEPT !.txs = @ \cup {calls[o].arg}])

\* A sync or a rescan adds what the chain has, and forgets nothing.
Learn(o) ==
    LET page == drafts'[calls[o].on] IN
    /\ calls[o].kind \in {"full", "partial"}
    /\ MakeAsked(o, page)
    /\ page \in Pages
    /\ page.revealed >= DraftOf(o).revealed
    /\ DraftOf(o).txs \subseteq page.txs
    /\ page.frozen = DraftOf(o).frozen

\* The record takes the draft, or has it already: of a handle left behind, it
\* had it once.
Save(o) ==
    LET h == calls[o].on IN
    /\ Stands(o, "ok")
    /\ \/ Replaced(h)
       \/ (h \in behind \/ book = drafts[h]) /\ Kept
    /\ UNCHANGED <<status, drafts, inputs>>

Unsaved(kind) ==
    CASE kind = "address" -> "ok" [] kind = "broadcast" -> "unsaved" [] OTHER -> "failed"

\* It does not: the call says so, address aside, and the draft stays.
Refuse(o) ==
    /\ Stands(o, Unsaved(calls[o].kind))
    /\ UNCHANGED <<shelf, drafts, inputs>>

-----------------------------------------------------------------------------
\* A call is made on an open handle.
Request(o, h) ==
    LET made == calls'[o] IN
    /\ status[h] = "open"
    /\ calls[o].stage = "idle" /\ made.on = h
    /\ UNCHANGED shelf
    /\ \/ made.kind = "broadcast" /\ made.arg \in Txs /\ Ask(o, h, "broadcast", made.arg)
       \/ /\ made.kind \in {"full", "partial"}
          /\ made.arg \subseteq Coins
          /\ Ask(o, h, made.kind, made.arg)
       \/ made.kind \in {"newAddress", "address"} /\ GiveOut(o, h, made.kind)
       \/ made.kind = "address" /\ GiveAgain(o, h)
       \/ made.kind = "freeze" /\ made.arg \in Coins /\ Freeze(o, h, made.arg)
       \/ made.kind = "unfreeze" /\ made.arg \in Coins /\ Unfreeze(o, h, made.arg)
       \/ made.kind = "build" /\ Pay(o, h, inputs'[o])
       \/ /\ made.kind = "bump" /\ made.arg \in Ops
          /\ \E extra \in SUBSET Coins : Replace(o, h, made.arg, extra)

\* A call under way goes on.
Answer(o) ==
    \/ calls[o].stage = "asked" /\ (GiveUp(o) \/ Send(o) \/ Learn(o))
    \/ calls[o].stage = "made" /\ (Save(o) \/ Refuse(o))

BNext ==
    \/ \E h \in Handles : Open(h) \/ Opened(h) \/ Free(h) \/ Shut(h)
    \/ \E o \in Ops : Answer(o)
    \/ \E o \in Ops, h \in Handles : Request(o, h)

BSpec == BInit /\ [][BNext]_bookvars
=============================================================================
