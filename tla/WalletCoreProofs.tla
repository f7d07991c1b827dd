-------------------------- MODULE WalletCoreProofs --------------------------
(***************************************************************************)
(* Theorems about WalletCore, for every set of handles, calls and foreign  *)
(* transactions and every number of addresses.  The mutex carries the      *)
(* induction, handle by handle: while a call waits for the store, its      *)
(* handle's wallet is its own, and what it will promise is already there   *)
(* (ShownWhilePersisting); a handle's wallet has all that it was told, but *)
(* for a choice being changed (KnownShown).  A write makes that wallet the *)
(* record and its account the record's, whatever other handles have done;  *)
(* until then a handle not left behind has its changes staged (Kept).  On  *)
(* the same invariant rests that handles are drafts of one record, as      *)
(* WalletBook describes.                                                   *)
(***************************************************************************)
EXTENDS WalletCore, TLAPS

Active(h) == status[h] \in Alive
UnderWay == {"network", "accepted", "persisting"}

\* A handle that takes calls, and a call not made yet.
New(o, h) == status[h] = "open" /\ op[o].kind = "none"

Args == Coins \cup Txs \cup {None} \cup SUBSET Coins
CallType == [kind : Kinds, on : Handles \cup {None}, step : Steps, arg : Args]

\* What call c must be to be at its step.
WellFormed(c) ==
    /\ c.kind = "none" <=> c.step = "idle"
    /\ IF c.kind = "none" THEN c.on = None ELSE c.on \in Handles
    /\ c.kind \in {"newAddress", "freeze", "unfreeze"} => c.arg \in Coins
    /\ c.kind = "broadcast" => c.arg \in Txs
    /\ c.kind \in {"full", "partial"} => c.arg \in SUBSET Coins
    /\ c.step = "accepted" => c.kind = "broadcast"

CallsWellFormed ==
    /\ op \in [Ops -> CallType]
    /\ \A o \in Ops : WellFormed(op[o])
    /\ \A o \in Ops : op[o].step \in UnderWay => status[op[o].on] \in {"open", "freed"}

TypeInv == TypeOK /\ CallsWellFormed

Kept == \A h \in Handles : Active(h) => staged[h] \/ h \in behind \/ view[h] = record

\* What a successful write of call c makes true is so in the wallet v.
Shows(v, c) ==
    /\ c.kind = "newAddress" => c.arg <= v.revealed
    /\ c.kind = "broadcast" => c.arg \in v.txs
    /\ c.kind = "freeze" => c.arg \in v.frozen
    /\ c.kind = "unfreeze" => c.arg \notin v.frozen

ShownWhilePersisting ==
    \A o \in Ops : op[o].step = "persisting" => Shows(view[op[o].on], op[o])

\* The call that holds h's mutex is changing the choice of coin c by `kind`.
Choosing(h, kind, c) ==
    lock[h] # None /\ op[lock[h]].kind = kind /\ op[lock[h]].arg = c

KnownShown ==
    \A h \in Handles : Active(h) =>
        /\ \A i \in known[h].addresses : i <= view[h].revealed
        /\ known[h].txs \subseteq view[h].txs
        /\ \A c \in known[h].frozen : c \in view[h].frozen \/ Choosing(h, "unfreeze", c)
        /\ \A c \in known[h].free : c \notin view[h].frozen \/ Choosing(h, "freeze", c)

StoreInv == Kept /\ ShownWhilePersisting /\ KnownShown /\ AcknowledgedIsStored

\* A new address that waits for the store has not been answered before.
GivenOutOnce ==
    \A o \in Ops : op[o].kind = "newAddress" /\ op[o].step = "persisting"
                        => op[o].arg \notin known[op[o].on].addresses

Inv == TypeInv /\ StoreInv /\ GivenOutOnce

-----------------------------------------------------------------------------
LEMMA LoadedIsView ==
    ASSUME TypeOK
    PROVE  Loaded \in View
  BY MaxIndexAssumption DEF TypeOK, Loaded, View, Fresh

LEMMA LoadedRecord ==
    ASSUME record \in View
    PROVE  Loaded = record
  BY NoneAssumption DEF Loaded

\* A call that holds no mutex moves on, and nothing else but the ledger changes.
LEMMA CallMoves ==
    ASSUME Inv,
           NEW o \in Ops, NEW c \in CallType,
           op[o].step # "persisting",
           op' = [op EXCEPT ![o] = c],
           WellFormed(c),
           c.step \in {"network", "accepted", "failed"},
           c.step \in UnderWay => status[c.on] \in {"open", "freed"},
           onchain' \subseteq Coins, accepted' \subseteq Txs,
           UNCHANGED <<record, handles, inputs, answers>>
    PROVE  Inv'
<1> USE DEF Inv, TypeInv, StoreInv, handles, answers
<1> HIDE DEF CallType
<1>1. op \in [Ops -> CallType] /\ op' \in [Ops -> CallType]
  BY DEF CallsWellFormed
<1>2. op'[o] = c /\ \A u \in Ops \ {o} : op'[u] = op[u]
  BY <1>1
<1>3. Loaded' = Loaded
  BY DEF Loaded
<1>4. \A h \in Handles : lock[h] # None => lock[h] \in Ops \ {o}
  BY DEF TypeOK
<1>5. TypeOK'
  <2>1. \A h \in Handles : lock'[h] # None
            => op'[lock'[h]].on = h /\ op'[lock'[h]].step = "persisting"
    BY <1>2, <1>4 DEF TypeOK
  <2>2. \A u \in Ops : /\ op'[u].kind \in Kinds /\ op'[u].step \in Steps
                       /\ op'[u].on \in Handles \cup {None}
                       /\ op'[u].step = "persisting" => lock'[op'[u].on] = u
    BY <1>2 DEF TypeOK, CallType
  <2> QED BY <2>1, <2>2 DEF TypeOK
<1>6. CallsWellFormed'
  BY <1>1, <1>2 DEF CallsWellFormed
<1>7. Kept' /\ AcknowledgedIsStored'
  BY <1>3 DEF Active, Kept, AcknowledgedIsStored
<1>8. ShownWhilePersisting'
  BY <1>2 DEF ShownWhilePersisting, Shows
<1>9. KnownShown'
  BY <1>2, <1>4 DEF KnownShown, Choosing, Active
<1>10. GivenOutOnce'
  BY <1>2 DEF GivenOutOnce
<1> QED BY <1>5, <1>6, <1>7, <1>8, <1>9, <1>10

\* A call takes the mutex of its open handle and makes the wallet v, which has
\* all the old one had but for the choice the call is about.
LEMMA CallTakesMutex ==
    ASSUME Inv,
           NEW o \in Ops, NEW h \in Handles, NEW v \in View, NEW c \in CallType,
           status[h] \in {"open", "freed"},
           op[o].step \in {"idle", "network", "accepted"},
           op' = [op EXCEPT ![o] = c],
           WellFormed(c), c.on = h, c.step = "persisting",
           Change(o, h, v),
           Shows(v, c),
           view[h].revealed <= v.revealed,
           view[h].txs \subseteq v.txs,
           \A i \in view[h].frozen : i \in v.frozen \/ (c.kind = "unfreeze" /\ c.arg = i),
           \A i \in v.frozen : i \in view[h].frozen \/ (c.kind = "freeze" /\ c.arg = i),
           c.kind = "newAddress" => c.arg = view[h].revealed + 1,
           inputs' \in [Ops -> SUBSET Coins],
           UNCHANGED <<ledger, record, answers>>
    PROVE  Inv'
<1> USE DEF Inv, TypeInv, StoreInv, ledger, answers
<1>1. op \in [Ops -> CallType] /\ op' \in [Ops -> CallType]
  BY DEF CallsWellFormed
<1>2. op'[o] = c /\ \A u \in Ops \ {o} : op'[u] = op[u]
  BY <1>1
<1>3. Loaded' = Loaded
  BY DEF Loaded
<1>4. /\ lock \in [Handles -> Ops \cup {None}] /\ view \in [Handles -> View]
      /\ staged \in [Handles -> BOOLEAN]
  BY DEF TypeOK
<1>5. /\ lock[h] = None /\ status' = status
      /\ lock' = [lock EXCEPT ![h] = o]
      /\ view' = [view EXCEPT ![h] = v]
      /\ \E more \in BOOLEAN : staged' = [staged EXCEPT ![h] = @ \/ v # view[h] \/ more]
  BY DEF Change
<1>6. lock'[h] = o /\ \A g \in Handles \ {h} : lock'[g] = lock[g]
  BY <1>4, <1>5
<1>7. view'[h] = v /\ \A g \in Handles \ {h} : view'[g] = view[g]
  BY <1>4, <1>5
<1>8. /\ staged' \in [Handles -> BOOLEAN]
      /\ staged'[h] \/ (~staged[h] /\ v = view[h])
      /\ \A g \in Handles \ {h} : staged'[g] = staged[g]
  BY <1>4, <1>5, Zenon
<1>9. \A g \in Handles \ {h} : lock[g] # None => lock[g] \in Ops \ {o}
  BY DEF TypeOK
<1>10. \A u \in Ops \ {o} : op[u].step = "persisting" => op[u].on # h
  BY <1>5, NoneAssumption DEF TypeOK
<1>11. Active(h)
  BY DEF Active, Alive
<1>12. \A g \in Handles : Active(g)' <=> Active(g)
  BY <1>5 DEF Active
<1>13. TypeOK'
  <2>1. \A g \in Handles : lock'[g] # None
            => op'[lock'[g]].on = g /\ op'[lock'[g]].step = "persisting"
    BY <1>2, <1>6, <1>9 DEF TypeOK
  <2>2. \A u \in Ops : /\ op'[u].kind \in Kinds /\ op'[u].step \in Steps
                       /\ op'[u].on \in Handles \cup {None}
    BY <1>1 DEF CallType
  <2>3. \A u \in Ops : op'[u].step = "persisting" => lock'[op'[u].on] = u
    <3> SUFFICES ASSUME NEW u \in Ops, op'[u].step = "persisting" PROVE lock'[op'[u].on] = u
      OBVIOUS
    <3>1. CASE u = o
      BY <3>1, <1>2, <1>6
    <3>2. CASE u # o
      <4>1. op'[u] = op[u] /\ lock[op[u].on] = u /\ op[u].on # h
        BY <3>2, <1>2, <1>10 DEF TypeOK
      <4>2. op[u].on \in Handles
        BY <4>1, <3>2 DEF CallsWellFormed, WellFormed
      <4> QED BY <4>1, <4>2, <1>6
    <3> QED BY <3>1, <3>2
  <2>4. lock' \in [Handles -> Ops \cup {None}] /\ view' \in [Handles -> View]
    BY <1>4, <1>5
  <2> QED BY <2>1, <2>2, <2>3, <2>4, <1>5, <1>8 DEF TypeOK
<1>14. CallsWellFormed'
  BY <1>1, <1>2, <1>5 DEF CallsWellFormed
<1>16. Kept'
  BY <1>7, <1>8, <1>12 DEF Kept
<1>18. ShownWhilePersisting'
  <2> SUFFICES ASSUME NEW u \in Ops, op'[u].step = "persisting"
               PROVE  Shows(view'[op'[u].on], op'[u])
    BY DEF ShownWhilePersisting, Shows
  <2>1. CASE u = o
    BY <2>1, <1>2, <1>7
  <2>2. CASE u # o
    <3>1. op'[u] = op[u] /\ op[u].on \in Handles \ {h}
      BY <2>2, <1>2, <1>10 DEF CallsWellFormed, WellFormed
    <3> QED BY <3>1, <1>7 DEF ShownWhilePersisting
  <2> QED BY <2>1, <2>2
<1>19. /\ \A i \in known[h].addresses : i <= view[h].revealed
       /\ known[h].txs \subseteq view[h].txs
       /\ \A i \in known[h].frozen : i \in view[h].frozen
       /\ \A i \in known[h].free : i \notin view[h].frozen
  BY <1>5, <1>11 DEF KnownShown, Choosing
<1>20. /\ view[h].revealed \in Nat /\ v.revealed \in Nat /\ known[h].addresses \subseteq Nat
  BY <1>4, MaxIndexAssumption DEF View, TypeOK, Promises, Coins
<1>21. KnownShown'
  <2> SUFFICES ASSUME NEW g \in Handles, Active(g)
               PROVE  /\ \A i \in known[g].addresses : i <= view'[g].revealed
                      /\ known[g].txs \subseteq view'[g].txs
                      /\ \A i \in known[g].frozen : i \in view'[g].frozen \/ Choosing(g, "unfreeze", i)'
                      /\ \A i \in known[g].free : i \notin view'[g].frozen \/ Choosing(g, "freeze", i)'
    BY <1>12 DEF KnownShown
  <2>1. CASE g = h
    <3>1. \A i \in known[h].addresses : i <= v.revealed
      BY <1>19, <1>20
    <3>2. /\ \A i \in known[h].frozen : i \in v.frozen \/ Choosing(h, "unfreeze", i)'
          /\ \A i \in known[h].free : i \notin v.frozen \/ Choosing(h, "freeze", i)'
      BY <1>19, <1>2, <1>6, NoneAssumption DEF Choosing
    <3> QED BY <2>1, <3>1, <3>2, <1>7, <1>19
  <2>2. CASE g # h
    <3>1. view'[g] = view[g] /\ \A kind, i : Choosing(g, kind, i)' <=> Choosing(g, kind, i)
      BY <2>2, <1>2, <1>6, <1>7, <1>9 DEF Choosing
    <3> QED BY <3>1 DEF KnownShown
  <2> QED BY <2>1, <2>2
<1>22. AcknowledgedIsStored'
  BY <1>3 DEF AcknowledgedIsStored
<1>23. GivenOutOnce'
  <2> SUFFICES ASSUME NEW u \in Ops, op'[u].kind = "newAddress", op'[u].step = "persisting"
               PROVE  op'[u].arg \notin known[op'[u].on].addresses
    BY DEF GivenOutOnce
  <2>1. CASE u = o
    BY <2>1, <1>2, <1>19, <1>20
  <2>2. CASE u # o
    BY <2>2, <1>2 DEF GivenOutOnce
  <2> QED BY <2>1, <2>2
<1> QED BY <1>13, <1>14, <1>16, <1>18, <1>21, <1>22, <1>23

-----------------------------------------------------------------------------
(* The actions, as moves of one call or as calls that take the mutex.      *)

LEMMA CallIsNew ==
    ASSUME Inv, NEW o \in Ops, NEW h \in Handles,
           NEW kind \in Kinds, NEW arg \in Args, NEW step \in Steps,
           New(o, h), Call(o, h, kind, arg, step)
    PROVE  /\ op[o].step = "idle" /\ op[o].kind = "none" /\ status[h] = "open"
           /\ [kind |-> kind, on |-> h, step |-> step, arg |-> arg] \in CallType
           /\ op' = [op EXCEPT ![o] = [kind |-> kind, on |-> h, step |-> step, arg |-> arg]]
  BY DEF Inv, TypeInv, CallsWellFormed, WellFormed, New, Call, CallType

LEMMA ViewType ==
    ASSUME Inv, NEW h \in Handles
    PROVE  /\ view[h] \in View
           /\ view[h].coins \subseteq Coins /\ view[h].txs \subseteq Txs
           /\ view[h].frozen \subseteq Coins /\ view[h].revealed \in 0..MaxIndex
           /\ view[h].scanned \in BOOLEAN
<1>1. view[h] \in View
  BY DEF Inv, TypeInv, TypeOK
<1> QED BY <1>1 DEF View

LEMMA RevealInv ==
    ASSUME Inv, NEW o \in Ops, NEW h \in Handles,
           NEW kind \in {"newAddress", "address"},
           New(o, h), Reveal(o, h, kind)
    PROVE  Inv'
<1> DEFINE n == view[h].revealed + 1
           v == [view[h] EXCEPT !.revealed = @ + 1]
           c == [kind |-> kind, on |-> h, step |-> "persisting", arg |-> n]
<1>1. n \in Coins /\ n \in Args
  BY ViewType, MaxIndexAssumption DEF Reveal, Coins, Args
<1>2. v \in View /\ v.revealed = n /\ v.txs = view[h].txs /\ v.frozen = view[h].frozen
  BY <1>1, ViewType DEF View, Coins
<1>3. /\ op[o].step = "idle" /\ status[h] = "open"
      /\ c \in CallType /\ op' = [op EXCEPT ![o] = c]
  <2>1. Call(o, h, kind, n, "persisting") /\ kind \in Kinds /\ "persisting" \in Steps
    BY DEF Reveal, Kinds, Steps
  <2> QED BY <2>1, <1>1, CallIsNew
<1>4. Change(o, h, v) /\ UNCHANGED <<ledger, record, inputs, answers>>
  BY DEF Reveal
<1>5. /\ c.on = h /\ c.step = "persisting" /\ c.arg = n /\ c.kind = kind
      /\ view[h].revealed <= v.revealed
  BY <1>2, ViewType, MaxIndexAssumption
<1>6. inputs' \in [Ops -> SUBSET Coins]
  BY <1>4 DEF Inv, TypeInv, TypeOK
<1> HIDE DEF v, c
<1>7. Shows(v, c) /\ WellFormed(c)
  BY <1>1, <1>2, <1>5, ViewType, MaxIndexAssumption DEF Shows, WellFormed
<1> QED BY <1>1, <1>2, <1>3, <1>4, <1>5, <1>6, <1>7, CallTakesMutex

\* A call that changes nothing of the wallet but takes the mutex.
LEMMA QuietInv ==
    ASSUME Inv, NEW o \in Ops, NEW h \in Handles,
           NEW kind \in {"address", "build", "bump"}, NEW arg \in Args,
           New(o, h), Call(o, h, kind, arg, "persisting"),
           Change(o, h, view[h]),
           inputs' \in [Ops -> SUBSET Coins],
           UNCHANGED <<ledger, record, answers>>
    PROVE  Inv'
<1> DEFINE c == [kind |-> kind, on |-> h, step |-> "persisting", arg |-> arg]
<1>1. /\ op[o].step = "idle" /\ status[h] = "open"
      /\ c \in CallType /\ op' = [op EXCEPT ![o] = c]
  <2>1. kind \in Kinds /\ "persisting" \in Steps
    BY DEF Kinds, Builds, Steps
  <2> QED BY <2>1, CallIsNew
<1>2. c.on = h /\ c.step = "persisting" /\ c.kind = kind
  OBVIOUS
<1> HIDE DEF c
<1>3. Shows(view[h], c) /\ WellFormed(c)
  BY <1>2 DEF Shows, WellFormed
<1>4. view[h] \in View /\ view[h].revealed <= view[h].revealed
  BY ViewType, MaxIndexAssumption
<1> QED BY <1>1, <1>2, <1>3, <1>4, CallTakesMutex

LEMMA AddressInv ==
    ASSUME Inv, NEW o \in Ops, NEW h \in Handles,
           New(o, h), Address(o, h)
    PROVE  Inv'
<1>1. CASE Reveal(o, h, "address")
  BY <1>1, RevealInv
<1>2. CASE ~Reveal(o, h, "address")
  <2>1. /\ Call(o, h, "address", None, "persisting") /\ Change(o, h, view[h])
        /\ UNCHANGED <<ledger, record, inputs, answers>>
    BY <1>2 DEF Address
  <2>2. None \in Args /\ inputs' \in [Ops -> SUBSET Coins]
    BY <2>1 DEF Args, Inv, TypeInv, TypeOK
  <2> QED BY <2>1, <2>2, QuietInv
<1> QED BY <1>1, <1>2

LEMMA SetFrozenInv ==
    ASSUME Inv, NEW o \in Ops, NEW h \in Handles, NEW i \in Coins,
           NEW kind \in {"freeze", "unfreeze"},
           New(o, h), SetFrozen(o, h, i, kind)
    PROVE  Inv'
<1> DEFINE f == IF kind = "freeze" THEN view[h].frozen \cup {i} ELSE view[h].frozen \ {i}
           v == [view[h] EXCEPT !.frozen = f]
           c == [kind |-> kind, on |-> h, step |-> "persisting", arg |-> i]
<1>1. i \in Args /\ f \subseteq Coins
  BY ViewType DEF Args
<1>2. v \in View /\ v.revealed = view[h].revealed /\ v.txs = view[h].txs /\ v.frozen = f
  BY <1>1, ViewType DEF View
<1>3. /\ op[o].step = "idle" /\ status[h] = "open"
      /\ c \in CallType /\ op' = [op EXCEPT ![o] = c]
  <2>1. Call(o, h, kind, i, "persisting") /\ kind \in Kinds /\ "persisting" \in Steps
    BY DEF SetFrozen, Kinds, Steps
  <2> QED BY <2>1, <1>1, CallIsNew
<1>4. Change(o, h, v) /\ UNCHANGED <<ledger, record, inputs, answers>>
  BY DEF SetFrozen
<1>5. /\ c.on = h /\ c.step = "persisting" /\ c.arg = i /\ c.kind = kind
      /\ view[h].revealed <= v.revealed
  BY <1>2, ViewType, MaxIndexAssumption
<1>6. inputs' \in [Ops -> SUBSET Coins]
  BY <1>4 DEF Inv, TypeInv, TypeOK
<1> HIDE DEF v, c
<1>7. Shows(v, c) /\ WellFormed(c)
  BY <1>2, <1>5 DEF Shows, WellFormed
<1>8. /\ \A j \in view[h].frozen : j \in v.frozen \/ (c.kind = "unfreeze" /\ c.arg = j)
      /\ \A j \in v.frozen : j \in view[h].frozen \/ (c.kind = "freeze" /\ c.arg = j)
  BY <1>2, <1>5
<1> QED BY <1>2, <1>3, <1>4, <1>5, <1>6, <1>7, <1>8, CallTakesMutex

LEMMA BuildInv ==
    ASSUME Inv, NEW o \in Ops, NEW h \in Handles, NEW coins \in SUBSET Coins,
           New(o, h), Build(o, h, coins)
    PROVE  Inv'
<1>1. inputs' \in [Ops -> SUBSET Coins] /\ None \in Args
  BY DEF Build, Inv, TypeInv, TypeOK, Args
<1> QED BY <1>1, QuietInv DEF Build

LEMMA BumpInv ==
    ASSUME Inv, NEW o \in Ops, NEW h \in Handles, NEW t \in Ops, NEW extra \in SUBSET Coins,
           New(o, h), Bump(o, h, t, extra)
    PROVE  Inv'
<1>1. inputs' \in [Ops -> SUBSET Coins] /\ t \in Args
  BY DEF Bump, Inv, TypeInv, TypeOK, Args, Txs
<1> QED BY <1>1, QuietInv DEF Bump

LEMMA RecordSentInv ==
    ASSUME Inv, NEW o \in Ops, RecordSent(o)
    PROVE  Inv'
<1> DEFINE h == op[o].on
           t == op[o].arg
           v == [view[h] EXCEPT !.txs = @ \cup {t}]
           c == [op[o] EXCEPT !.step = "persisting"]
<1>1. op[o].step = "accepted" /\ op[o] \in CallType /\ WellFormed(op[o]) /\ op \in [Ops -> CallType]
  BY DEF RecordSent, Inv, TypeInv, CallsWellFormed
<1>2. op[o].kind = "broadcast" /\ h \in Handles /\ t \in Txs /\ status[h] \in {"open", "freed"}
  BY <1>1 DEF WellFormed, Inv, TypeInv, CallsWellFormed, UnderWay
<1>3. /\ v \in View /\ v.revealed = view[h].revealed /\ v.frozen = view[h].frozen
      /\ v.txs = view[h].txs \cup {t}
  BY <1>2, ViewType DEF View
<1>4. /\ c \in CallType /\ c.on = h /\ c.step = "persisting" /\ c.arg = t /\ c.kind = "broadcast"
      /\ op' = [op EXCEPT ![o] = c]
  BY <1>1, <1>2 DEF RecordSent, CallType, Steps
<1>5. Change(o, h, v) /\ UNCHANGED <<ledger, record, inputs, answers>>
  BY DEF RecordSent, Sent
<1>6. inputs' \in [Ops -> SUBSET Coins]
  BY <1>5 DEF Inv, TypeInv, TypeOK
<1>7. view[h].revealed <= v.revealed
  BY <1>2, <1>3, ViewType, MaxIndexAssumption
<1> HIDE DEF v, c, h, t
<1>8. Shows(v, c) /\ WellFormed(c)
  BY <1>2, <1>3, <1>4 DEF Shows, WellFormed
<1> QED BY <1>1, <1>2, <1>3, <1>4, <1>5, <1>6, <1>7, <1>8, CallTakesMutex

LEMMA ApplyUpdateInv ==
    ASSUME Inv, NEW o \in Ops, ApplyUpdate(o)
    PROVE  Inv'
<1> DEFINE h == op[o].on
           found == onchain \cap op[o].arg
           seen == {t \in accepted : t \in Foreign \/ Spends({t}) \cap (view[h].coins \cup found) # {}}
           V(r) == [coins |-> view[h].coins \cup found, txs |-> view[h].txs \cup seen,
                    frozen |-> view[h].frozen, revealed |-> r,
                    scanned |-> view[h].scanned \/ op[o].kind = "full"]
           c == [op[o] EXCEPT !.step = "persisting"]
<1>1. /\ op[o].step = "network" /\ op[o].kind \in {"full", "partial"}
      /\ op[o] \in CallType /\ WellFormed(op[o]) /\ op \in [Ops -> CallType]
  BY DEF ApplyUpdate, Inv, TypeInv, CallsWellFormed
<1>2. h \in Handles /\ status[h] \in {"open", "freed"}
  BY <1>1 DEF WellFormed, Inv, TypeInv, CallsWellFormed, UnderWay
<1>3. PICK r \in 0..MaxIndex : RevealedBy(r, view[h].revealed, found) /\ Change(o, h, V(r))
  BY DEF ApplyUpdate
<1>4. found \subseteq Coins /\ seen \subseteq Txs
  BY DEF Inv, TypeInv, TypeOK
<1> HIDE DEF found, seen
<1>5. /\ view[h].coins \cup found \subseteq Coins /\ view[h].txs \cup seen \subseteq Txs
      /\ (view[h].scanned \/ op[o].kind = "full") \in BOOLEAN
  BY <1>2, <1>4, ViewType
<1>6. V(r) \in View
  BY <1>2, <1>5, ViewType DEF View
<1>7. /\ V(r).revealed = r /\ V(r).frozen = view[h].frozen /\ view[h].txs \subseteq V(r).txs
      /\ view[h].revealed <= V(r).revealed
  BY <1>3 DEF RevealedBy
<1>8. /\ c \in CallType /\ c.on = h /\ c.step = "persisting" /\ c.kind = op[o].kind
      /\ c.arg = op[o].arg /\ op' = [op EXCEPT ![o] = c]
  BY <1>1, <1>2 DEF ApplyUpdate, CallType, Steps
<1>9. UNCHANGED <<ledger, record, inputs, answers>> /\ inputs' \in [Ops -> SUBSET Coins]
  BY DEF ApplyUpdate, Inv, TypeInv, TypeOK
<1> HIDE DEF V, c, h
<1>10. Shows(V(r), c) /\ WellFormed(c)
  BY <1>1, <1>2, <1>8 DEF Shows, WellFormed
<1> QED BY <1>1, <1>2, <1>3, <1>6, <1>7, <1>8, <1>9, <1>10, CallTakesMutex

LEMMA StartBroadcastInv ==
    ASSUME Inv, NEW o \in Ops, NEW h \in Handles, NEW t \in Txs,
           New(o, h), StartBroadcast(o, h, t)
    PROVE  Inv'
<1> DEFINE c == [kind |-> "broadcast", on |-> h, step |-> "network", arg |-> t]
<1>1. Call(o, h, "broadcast", t, "network") /\ UNCHANGED <<ledger, record, handles, inputs, answers>>
  BY DEF StartBroadcast
<1>2. /\ op[o].step = "idle" /\ status[h] = "open"
      /\ c \in CallType /\ op' = [op EXCEPT ![o] = c]
  <2>1. "broadcast" \in Kinds /\ "network" \in Steps /\ t \in Args
    BY DEF Kinds, Steps, Args
  <2> QED BY <1>1, <2>1, CallIsNew
<1>3. WellFormed(c)
  BY DEF WellFormed
<1>4. onchain' \subseteq Coins /\ accepted' \subseteq Txs
  BY <1>1 DEF ledger, Inv, TypeInv, TypeOK
<1>5. c.step = "network" /\ c.on = h
  OBVIOUS
<1> HIDE DEF c
<1> QED BY <1>1, <1>2, <1>3, <1>4, <1>5, CallMoves

LEMMA StartSyncInv ==
    ASSUME Inv, NEW o \in Ops, NEW h \in Handles, NEW rescan \in BOOLEAN,
           New(o, h), StartSync(o, h, rescan)
    PROVE  Inv'
<1>1. PICK kind \in {"full", "partial"}, arg \in SUBSET Coins :
            Call(o, h, kind, arg, "network")
  BY ViewType, MaxIndexAssumption DEF StartSync, Coins
<1> DEFINE c == [kind |-> kind, on |-> h, step |-> "network", arg |-> arg]
<1>2. /\ op[o].step = "idle" /\ status[h] = "open"
      /\ c \in CallType /\ op' = [op EXCEPT ![o] = c]
  <2>1. kind \in Kinds /\ "network" \in Steps /\ arg \in Args
    BY DEF Kinds, Steps, Args
  <2> QED BY <1>1, <2>1, CallIsNew
<1>3. WellFormed(c)
  BY DEF WellFormed
<1>4. /\ onchain' \subseteq Coins /\ accepted' \subseteq Txs
      /\ UNCHANGED <<record, handles, inputs, answers>>
  BY DEF StartSync, ledger, Inv, TypeInv, TypeOK
<1>5. c.step = "network" /\ c.on = h
  OBVIOUS
<1> HIDE DEF c
<1> QED BY <1>2, <1>3, <1>4, <1>5, CallMoves

LEMMA NetworkAnswersInv ==
    ASSUME Inv, NEW o \in Ops, NEW answer \in {"accepted", "failed"}, NetworkAnswers(o, answer)
    PROVE  Inv'
<1> DEFINE c == [op[o] EXCEPT !.step = answer]
<1>1. /\ op[o].kind = "broadcast" /\ op[o].step = "network"
      /\ op[o] \in CallType /\ WellFormed(op[o]) /\ op \in [Ops -> CallType]
      /\ status[op[o].on] \in {"open", "freed"}
  BY DEF NetworkAnswers, Inv, TypeInv, CallsWellFormed, UnderWay
<1>2. c \in CallType /\ op' = [op EXCEPT ![o] = c]
  BY <1>1 DEF NetworkAnswers, CallType, Steps, Answers
<1>3. c.step = answer /\ c.on = op[o].on /\ c.kind = "broadcast" /\ c.arg = op[o].arg
  BY <1>1 DEF CallType
<1>4. accepted' \subseteq Txs
  <2>1. accepted \subseteq Txs /\ op[o].arg \in Txs
    BY <1>1 DEF WellFormed, Inv, TypeInv, TypeOK
  <2>2. accepted' \subseteq accepted \cup {op[o].arg}
    BY DEF NetworkAnswers, Accept
  <2> QED BY <2>1, <2>2
<1>5. onchain' \subseteq Coins /\ UNCHANGED <<record, handles, inputs, answers>>
  BY DEF NetworkAnswers, Inv, TypeInv, TypeOK
<1> HIDE DEF c
<1>6. WellFormed(c)
  BY <1>1, <1>3 DEF WellFormed
<1> QED BY <1>1, <1>2, <1>3, <1>4, <1>5, <1>6, CallMoves

LEMMA SyncFailsInv ==
    ASSUME Inv, NEW o \in Ops, SyncFails(o)
    PROVE  Inv'
<1> DEFINE c == [op[o] EXCEPT !.step = "failed"]
<1>1. /\ op[o].kind \in {"full", "partial"} /\ op[o].step = "network"
      /\ op[o] \in CallType /\ WellFormed(op[o]) /\ op \in [Ops -> CallType]
  BY DEF SyncFails, Inv, TypeInv, CallsWellFormed
<1>2. c \in CallType /\ op' = [op EXCEPT ![o] = c]
  BY <1>1 DEF SyncFails, CallType, Steps, Answers
<1>3. c.step = "failed" /\ c.on = op[o].on /\ c.kind = op[o].kind /\ c.arg = op[o].arg
  BY <1>1 DEF CallType
<1>4. /\ onchain' \subseteq Coins /\ accepted' \subseteq Txs
      /\ UNCHANGED <<record, handles, inputs, answers>>
  BY DEF SyncFails, ledger, Inv, TypeInv, TypeOK
<1> HIDE DEF c
<1>5. WellFormed(c) /\ c.step \notin UnderWay
  BY <1>1, <1>3 DEF WellFormed, UnderWay
<1> QED BY <1>1, <1>2, <1>3, <1>4, <1>5, CallMoves

-----------------------------------------------------------------------------
(* The store answers, a handle opens or goes.                              *)

\* The promises of the calls that end, added to a handle's account.
LEMMA PromisedType ==
    ASSUME Inv, NEW ended \in SUBSET Ops, NEW done \in SUBSET Ops, NEW p \in Promises
    PROVE  LET q == Promised(p, ended, done)
               disputed == Asked(ended, "freeze") \cup Asked(ended, "unfreeze")
           IN /\ q \in Promises
              /\ q.addresses = p.addresses \cup Asked(done, "newAddress")
              /\ q.txs = p.txs \cup Asked(done, "broadcast")
              /\ q.frozen = (p.frozen \ disputed) \cup Asked(done, "freeze")
              /\ q.free = (p.free \ disputed) \cup Asked(done, "unfreeze")
              /\ q.built = p.built \cup {o \in done : op[o].kind \in Builds}
<1>1. /\ Asked(done, "newAddress") \subseteq Coins /\ Asked(done, "broadcast") \subseteq Txs
      /\ Asked(done, "freeze") \subseteq Coins /\ Asked(done, "unfreeze") \subseteq Coins
  BY DEF Asked, Inv, TypeInv, CallsWellFormed, WellFormed
<1>2. {o \in done : op[o].kind \in Builds} \subseteq Ops
  OBVIOUS
<1> HIDE DEF Asked
<1> QED BY <1>1, <1>2 DEF Promised, Promises

\* What the answers in p promise is so in the wallet v.
Shown(p, v) ==
    /\ \A i \in p.addresses : i <= v.revealed
    /\ p.txs \subseteq v.txs
    /\ p.frozen \subseteq v.frozen
    /\ p.free \cap v.frozen = {}

LEMMA PromisedShown ==
    ASSUME Inv, NEW ended \in SUBSET Ops, NEW done \in SUBSET Ops, NEW p \in Promises, NEW v,
           \A o \in done : Shows(v, op[o]),
           \A i \in p.addresses : i <= v.revealed,
           p.txs \subseteq v.txs,
           \A c \in p.frozen : c \in v.frozen \/ c \in Asked(ended, "unfreeze"),
           \A c \in p.free : c \notin v.frozen \/ c \in Asked(ended, "freeze")
    PROVE  Shown(Promised(p, ended, done), v)
<1>1. /\ \A i \in Asked(done, "newAddress") : i <= v.revealed
      /\ Asked(done, "broadcast") \subseteq v.txs
      /\ Asked(done, "freeze") \subseteq v.frozen
      /\ \A i \in Asked(done, "unfreeze") : i \notin v.frozen
  BY DEF Asked, Shows
<1> HIDE DEF Asked
<1> QED BY <1>1, PromisedType DEF Shown

\* Calls of h end, and its wallet is written or not.  What the handle was told
\* is in its wallet, and what the record owes is in the record.
LEMMA AccountKept ==
    ASSUME Inv, NEW h \in Handles, NEW ended, NEW done, NEW written,
           Account(h, ended, done, written),
           Active(h), ended \subseteq Ops, done \subseteq Ops, written \in BOOLEAN,
           lock[h] # None => lock[h] \in ended,
           \A o \in done : Shows(view[h], op[o]),
           ~written /\ h \notin behind => \A o \in done : Shows(Loaded, op[o]),
           record' = IF written THEN view[h] ELSE record
    PROVE  /\ known' \in [Handles -> Promises] /\ acked' \in Promises /\ behind' \subseteq Handles
           /\ \A g \in Handles \ {h} : known'[g] = known[g]
           /\ known'[h] = Promised(known[h], ended, done)
           /\ Shown(known'[h], view[h])
           /\ AcknowledgedIsStored'
           /\ \A g \in Handles \ {h} :
                Active(g) => staged[g] \/ g \in behind' \/ view[g] = record'
           /\ record' \in View \cup {None}
<1>1. /\ known \in [Handles -> Promises] /\ acked \in Promises /\ behind \subseteq Handles
      /\ record \in View \cup {None} /\ view[h] \in View
  BY ViewType DEF Inv, TypeInv, TypeOK
<1> DEFINE mine == Promised(known[h], ended, done)
           theirs == Promised(acked, done, done)
<1>2. mine \in Promises /\ theirs \in Promises
  BY <1>1, PromisedType
<1>3. Shown(mine, view[h])
  <2>1. \A kind, i : Choosing(h, kind, i) => i \in Asked(ended, kind)
    BY DEF Choosing, Asked
  <2>2. /\ \A i \in known[h].addresses : i <= view[h].revealed
        /\ known[h].txs \subseteq view[h].txs
        /\ \A i \in known[h].frozen : i \in view[h].frozen \/ i \in Asked(ended, "unfreeze")
        /\ \A i \in known[h].free : i \notin view[h].frozen \/ i \in Asked(ended, "freeze")
    BY <2>1 DEF Inv, StoreInv, KnownShown
  <2> QED BY <1>1, <2>2, PromisedShown
<1>4. ~written /\ h \notin behind => Shown(theirs, Loaded)
  <2>1. /\ \A i \in acked.addresses : i <= Loaded.revealed
        /\ acked.txs \subseteq Loaded.txs
        /\ \A i \in acked.frozen : i \in Loaded.frozen
        /\ \A i \in acked.free : i \notin Loaded.frozen
    BY DEF Inv, StoreInv, AcknowledgedIsStored
  <2> QED BY <1>1, <2>1, PromisedShown
<1>5. /\ known' = [known EXCEPT ![h] = mine]
      /\ acked' = IF written THEN known'[h] ELSE IF h \in behind THEN acked ELSE theirs
      /\ behind' = IF written THEN {g \in Handles : g # h /\ status[g] \in Alive} ELSE behind
  BY DEF Account
<1> HIDE DEF mine, theirs
<1>6. known' \in [Handles -> Promises] /\ known'[h] = mine /\ \A g \in Handles \ {h} : known'[g] = known[g]
  BY <1>1, <1>2, <1>5
<1>7. acked' \in Promises /\ behind' \subseteq Handles /\ record' \in View \cup {None}
  BY <1>1, <1>2, <1>5, <1>6
<1>8. Shown(acked', Loaded')
  <2>1. CASE written
    <3>1. Loaded' = view[h]
      BY <2>1, <1>1, NoneAssumption DEF Loaded
    <3> QED BY <2>1, <3>1, <1>3, <1>5, <1>6
  <2>2. CASE ~written
    <3>1. Loaded' = Loaded
      BY <2>2 DEF Loaded
    <3>2. Shown(acked, Loaded)
      BY DEF Inv, StoreInv, AcknowledgedIsStored, Shown
    <3> QED BY <2>2, <3>1, <3>2, <1>4, <1>5
  <2> QED BY <2>1, <2>2
<1>9. AcknowledgedIsStored'
  BY <1>8 DEF Shown, AcknowledgedIsStored
<1>10. \A g \in Handles \ {h} : Active(g) => staged[g] \/ g \in behind' \/ view[g] = record'
  BY <1>5 DEF Active, Inv, StoreInv, Kept
<1>11. known'[h] = Promised(known[h], ended, done)
  BY <1>6 DEF mine
<1> QED BY <1>3, <1>6, <1>7, <1>9, <1>10, <1>11

LEMMA PersistLeavesView ==
    ASSUME Inv, NEW h \in Handles, NEW saved \in BOOLEAN, Active(h), Persist(h, saved)
    PROVE  /\ record' = IF staged[h] /\ saved THEN view[h] ELSE record
           /\ staged' \in [Handles -> BOOLEAN]
           /\ staged'[h] <=> staged[h] /\ ~saved
           /\ \A g \in Handles \ {h} : staged'[g] = staged[g]
           /\ saved /\ ~staged[h] /\ h \notin behind => Loaded = view[h]
<1>1. staged \in [Handles -> BOOLEAN] /\ view[h] \in View
  BY ViewType DEF Inv, TypeInv, TypeOK
<1>2. /\ record' = IF staged[h] /\ saved THEN view[h] ELSE record
      /\ staged' = [staged EXCEPT ![h] = @ /\ ~saved]
  BY DEF Persist
<1>3. staged' \in [Handles -> BOOLEAN] /\ \A g \in Handles \ {h} : staged'[g] = staged[g]
  BY <1>1, <1>2, Zenon
<1>4. staged'[h] <=> (staged[h] /\ ~saved)
  BY <1>1, <1>2, Zenon
<1>5. ~staged[h] /\ h \notin behind => Loaded = view[h]
  BY <1>1, LoadedRecord DEF Inv, StoreInv, Kept
<1> QED BY <1>2, <1>3, <1>4, <1>5

LEMMA WrittenInv ==
    ASSUME Inv, NEW o \in Ops, NEW saved \in BOOLEAN, Written(o, saved)
    PROVE  Inv'
<1> USE DEF Inv, TypeInv, StoreInv
<1> DEFINE h == op[o].on
           answer == AfterWrite(op[o].kind, saved)
           done == IF answer = "ok" THEN {o} ELSE {}
           written == staged[h] /\ saved
<1>1. /\ op[o].step = "persisting" /\ op[o] \in CallType /\ WellFormed(op[o])
      /\ op \in [Ops -> CallType] /\ status[h] \in {"open", "freed"} /\ h \in Handles /\ lock[h] = o
  BY DEF Written, CallsWellFormed, WellFormed, UnderWay, TypeOK
<1>2. /\ answer \in {"ok", "unsaved", "failed"}
      /\ ~saved /\ answer = "ok" => op[o].kind = "address"
  BY DEF AfterWrite
<1>3. op' \in [Ops -> CallType] /\ op'[o] = [op[o] EXCEPT !.step = answer]
      /\ \A u \in Ops \ {o} : op'[u] = op[u]
  BY <1>1, <1>2 DEF Written, CallType, Steps, Answers
<1>4. /\ op'[o].step = answer /\ op'[o].kind = op[o].kind
      /\ op'[o].arg = op[o].arg /\ op'[o].on = h
  BY <1>1, <1>3 DEF CallType
<1>5. /\ lock \in [Handles -> Ops \cup {None}] /\ lock' = [lock EXCEPT ![h] = None]
      /\ UNCHANGED <<ledger, status, view, inputs>>
      /\ Account(h, {o}, done, written) /\ Persist(h, saved)
  BY DEF Written, Unlock, TypeOK
<1>6. /\ lock' \in [Handles -> Ops \cup {None}] /\ lock'[h] = None
      /\ \A g \in Handles \ {h} : lock'[g] = lock[g]
  BY <1>1, <1>5
<1>7. Active(h) /\ \A g \in Handles : Active(g)' <=> Active(g)
  BY <1>1, <1>5 DEF Active, Alive
<1>8. /\ record' = IF written THEN view[h] ELSE record
      /\ staged' \in [Handles -> BOOLEAN] /\ (staged'[h] <=> staged[h] /\ ~saved)
      /\ \A g \in Handles \ {h} : staged'[g] = staged[g]
      /\ saved /\ ~staged[h] /\ h \notin behind => Loaded = view[h]
  BY <1>1, <1>5, <1>7, PersistLeavesView
<1>9. /\ known' \in [Handles -> Promises] /\ acked' \in Promises /\ behind' \subseteq Handles
      /\ \A g \in Handles \ {h} : known'[g] = known[g]
      /\ Shown(known'[h], view[h])
      /\ AcknowledgedIsStored'
      /\ \A g \in Handles \ {h} : Active(g) => staged[g] \/ g \in behind' \/ view[g] = record'
      /\ record' \in View \cup {None}
  <2>1. {o} \in SUBSET Ops /\ done \in SUBSET Ops /\ (lock[h] # None => lock[h] \in {o})
    BY <1>1
  <2>2. Shows(view[h], op[o])
    BY <1>1 DEF ShownWhilePersisting
  <2>3. \A u \in done : Shows(view[h], op[u])
    BY <2>2
  <2>4. ~written /\ h \notin behind => \A u \in done : Shows(Loaded, op[u])
    <3>1. CASE saved
      BY <3>1, <2>3, <1>8
    <3>2. CASE ~saved
      BY <3>2, <1>2 DEF Shows
    <3> QED BY <3>1, <3>2
  <2>5. written \in BOOLEAN
    BY <1>1 DEF TypeOK
  <2> HIDE DEF done, written, Inv
  <2> QED BY <1>1, <1>5, <1>7, <1>8, <2>1, <2>3, <2>4, <2>5, AccountKept
<1>10. \A u \in Ops \ {o} : op[u].step = "persisting" => op[u].on # h
  BY <1>1 DEF TypeOK
<1>11. TypeOK'
  <2>1. \A g \in Handles : lock'[g] # None
            => op'[lock'[g]].on = g /\ op'[lock'[g]].step = "persisting"
    <3> SUFFICES ASSUME NEW g \in Handles, lock'[g] # None
                 PROVE  op'[lock'[g]].on = g /\ op'[lock'[g]].step = "persisting"
      OBVIOUS
    <3>1. g # h /\ lock'[g] = lock[g] /\ lock[g] \in Ops /\ op[lock[g]].on = g
          /\ op[lock[g]].step = "persisting"
      BY <1>5, <1>6 DEF TypeOK
    <3> QED BY <3>1, <1>3
  <2>2. \A u \in Ops : /\ op'[u].kind \in Kinds /\ op'[u].step \in Steps
                       /\ op'[u].on \in Handles \cup {None}
    BY <1>3 DEF CallType
  <2>3. \A u \in Ops : op'[u].step = "persisting" => lock'[op'[u].on] = u
    <3> SUFFICES ASSUME NEW u \in Ops, op'[u].step = "persisting" PROVE lock'[op'[u].on] = u
      OBVIOUS
    <3>1. u # o /\ op'[u] = op[u]
      BY <1>2, <1>3, <1>4
    <3>2. op[u].on \in Handles \ {h} /\ lock[op[u].on] = u
      BY <3>1, <1>10 DEF TypeOK, CallsWellFormed, WellFormed
    <3> QED BY <3>1, <3>2, <1>6
  <2> QED BY <2>1, <2>2, <2>3, <1>5, <1>6, <1>8, <1>9 DEF TypeOK, ledger
<1>12. CallsWellFormed'
  <2>1. WellFormed(op[o])' /\ op'[o].step \notin UnderWay
    BY <1>1, <1>2, <1>4 DEF WellFormed, UnderWay
  <2> QED BY <2>1, <1>3, <1>5 DEF CallsWellFormed
<1>13. Kept'
  <2> SUFFICES ASSUME NEW g \in Handles, Active(g)
               PROVE  staged'[g] \/ g \in behind' \/ view[g] = record'
    BY <1>5, <1>7 DEF Kept
  <2>1. CASE g # h
    BY <2>1, <1>8, <1>9
  <2>2. CASE g = h
    <3>1. CASE written
      BY <2>2, <3>1, <1>8
    <3>2. CASE ~written
      <4>1. behind' = behind /\ record' = record /\ (staged[h] => staged'[h])
        BY <3>2, <1>5, <1>8 DEF Account
      <4> QED BY <2>2, <4>1, <1>7 DEF Kept
    <3> QED BY <3>1, <3>2
  <2> QED BY <2>1, <2>2
<1>17. ShownWhilePersisting'
  BY <1>2, <1>3, <1>4, <1>5 DEF ShownWhilePersisting, Shows
<1>18. KnownShown'
  <2> SUFFICES ASSUME NEW g \in Handles, Active(g)
               PROVE  /\ \A i \in known'[g].addresses : i <= view[g].revealed
                      /\ known'[g].txs \subseteq view[g].txs
                      /\ \A i \in known'[g].frozen : i \in view[g].frozen \/ Choosing(g, "unfreeze", i)'
                      /\ \A i \in known'[g].free : i \notin view[g].frozen \/ Choosing(g, "freeze", i)'
    BY <1>5, <1>7 DEF KnownShown
  <2>1. CASE g = h
    BY <2>1, <1>9 DEF Shown
  <2>2. CASE g # h
    <3>1. lock'[g] = lock[g] /\ known'[g] = known[g]
          /\ (lock[g] # None => lock[g] \in Ops /\ lock[g] # o)
      BY <2>2, <1>1, <1>6, <1>9 DEF TypeOK
    <3>2. \A kind, i : Choosing(g, kind, i) => Choosing(g, kind, i)'
      BY <3>1, <1>3 DEF Choosing
    <3> QED BY <3>1, <3>2 DEF KnownShown
  <2> QED BY <2>1, <2>2
<1>19. GivenOutOnce'
  <2> SUFFICES ASSUME NEW u \in Ops, op'[u].kind = "newAddress", op'[u].step = "persisting"
               PROVE  op'[u].arg \notin known'[op'[u].on].addresses
    BY DEF GivenOutOnce
  <2>1. u # o /\ op'[u] = op[u]
    BY <1>2, <1>3, <1>4
  <2>2. op[u].on \in Handles \ {h}
    BY <2>1, <1>10 DEF CallsWellFormed, WellFormed
  <2> QED BY <2>1, <2>2, <1>9 DEF GivenOutOnce
<1> QED BY <1>9, <1>11, <1>12, <1>13, <1>17, <1>18, <1>19

\* A handle that is opening has no calls.
LEMMA NoCallsYet ==
    ASSUME Inv, NEW h \in Handles, status[h] \notin {"open", "freed"}
    PROVE  /\ \A o \in Ops : op[o].step \in UnderWay => op[o].on # h
           /\ lock[h] = None
<1>1. \A o \in Ops : op[o].step \in UnderWay => op[o].on # h
  BY DEF Inv, TypeInv, CallsWellFormed
<1>2. lock[h] \in Ops \cup {None} /\ (lock[h] # None => op[lock[h]].on = h /\ op[lock[h]].step = "persisting")
  BY DEF Inv, TypeInv, TypeOK
<1> QED BY <1>1, <1>2 DEF UnderWay

LEMMA OpenInv ==
    ASSUME Inv, NEW h \in Handles, Open(h)
    PROVE  Inv'
<1> USE DEF Inv, TypeInv, StoreInv
<1>1. /\ status[h] = "new"
      /\ status' = [status EXCEPT ![h] = "opening"]
      /\ view' = [view EXCEPT ![h] = Loaded]
      /\ staged' = [staged EXCEPT ![h] = record = None]
      /\ known' = [known EXCEPT ![h] = acked]
      /\ UNCHANGED <<ledger, record, lock, op, inputs, acked, behind>>
  BY DEF Open
<1>2. Loaded \in View /\ Loaded' = Loaded
  BY <1>1, LoadedIsView DEF Loaded
<1>3. /\ status \in [Handles -> {"new", "gone"} \cup Alive] /\ acked \in Promises
      /\ view \in [Handles -> View] /\ staged \in [Handles -> BOOLEAN]
      /\ known \in [Handles -> Promises]
  BY DEF TypeOK
<1>4. /\ view' \in [Handles -> View] /\ view'[h] = Loaded
      /\ \A g \in Handles \ {h} : view'[g] = view[g]
  BY <1>1, <1>2, <1>3
<1>5. /\ status' \in [Handles -> {"new", "gone"} \cup Alive]
      /\ \A g \in Handles \ {h} : status'[g] = status[g]
  BY <1>1, <1>3 DEF Alive
<1>6. /\ staged' \in [Handles -> BOOLEAN] /\ (staged'[h] <=> record = None)
      /\ \A g \in Handles \ {h} : staged'[g] = staged[g]
  BY <1>1, <1>3, Zenon
<1>7. /\ known' \in [Handles -> Promises] /\ known'[h] = acked
      /\ \A g \in Handles \ {h} : known'[g] = known[g]
  BY <1>1, <1>3
<1>8. \A o \in Ops : op[o].step \in UnderWay => op[o].on \in Handles \ {h}
  BY <1>1, NoCallsYet DEF CallsWellFormed, WellFormed, UnderWay
<1>9. TypeOK'
  BY <1>1, <1>4, <1>5, <1>6, <1>7 DEF TypeOK, ledger
<1>10. CallsWellFormed'
  BY <1>1, <1>5, <1>8 DEF CallsWellFormed
<1>11. Kept'
  BY <1>1, <1>4, <1>5, <1>6 DEF Kept, Loaded, Active
<1>12. ShownWhilePersisting' /\ GivenOutOnce'
  BY <1>1, <1>4, <1>7, <1>8 DEF ShownWhilePersisting, Shows, GivenOutOnce, UnderWay
<1>13. AcknowledgedIsStored'
  BY <1>1, <1>2 DEF AcknowledgedIsStored
<1>14. KnownShown'
  <2> SUFFICES ASSUME NEW g \in Handles, Active(g)'
               PROVE  /\ \A i \in known'[g].addresses : i <= view'[g].revealed
                      /\ known'[g].txs \subseteq view'[g].txs
                      /\ \A i \in known'[g].frozen : i \in view'[g].frozen \/ Choosing(g, "unfreeze", i)'
                      /\ \A i \in known'[g].free : i \notin view'[g].frozen \/ Choosing(g, "freeze", i)'
    BY DEF KnownShown
  <2>1. CASE g = h
    BY <2>1, <1>4, <1>7 DEF AcknowledgedIsStored
  <2>2. CASE g # h
    <3>1. Active(g) /\ \A kind, i : Choosing(g, kind, i)' <=> Choosing(g, kind, i)
      BY <2>2, <1>1, <1>5 DEF Active, Choosing
    <3> QED BY <2>2, <3>1, <1>4, <1>7 DEF KnownShown
  <2> QED BY <2>1, <2>2
<1> QED BY <1>9, <1>10, <1>11, <1>12, <1>13, <1>14

LEMMA OpenedInv ==
    ASSUME Inv, NEW h \in Handles, NEW saved \in BOOLEAN, Opened(h, saved)
    PROVE  Inv'
<1> USE DEF Inv, TypeInv, StoreInv
<1> DEFINE written == staged[h] /\ saved
<1>1. /\ status[h] = "opening" /\ Active(h) /\ Persist(h, saved)
      /\ status' = [status EXCEPT ![h] = IF saved THEN "open" ELSE "gone"]
      /\ Account(h, {}, {}, written)
      /\ UNCHANGED <<ledger, view, lock, op, inputs>>
  BY DEF Opened, Active, Alive
<1>2. /\ record' = IF written THEN view[h] ELSE record
      /\ staged' \in [Handles -> BOOLEAN] /\ (staged'[h] <=> staged[h] /\ ~saved)
      /\ \A g \in Handles \ {h} : staged'[g] = staged[g]
  BY <1>1, PersistLeavesView
<1>3. status \in [Handles -> {"new", "gone"} \cup Alive]
  BY DEF TypeOK
<1>4. /\ status' \in [Handles -> {"new", "gone"} \cup Alive]
      /\ \A g \in Handles \ {h} : status'[g] = status[g]
      /\ status'[h] = IF saved THEN "open" ELSE "gone"
  BY <1>1, <1>3 DEF Alive
<1>5. lock[h] = None /\ \A o \in Ops : op[o].step \in UnderWay => op[o].on \in Handles \ {h}
  BY <1>1, NoCallsYet DEF CallsWellFormed, WellFormed, UnderWay
<1>6. /\ known' \in [Handles -> Promises] /\ acked' \in Promises /\ behind' \subseteq Handles
      /\ \A g \in Handles \ {h} : known'[g] = known[g]
      /\ Shown(known'[h], view[h])
      /\ AcknowledgedIsStored'
      /\ \A g \in Handles \ {h} : Active(g) => staged[g] \/ g \in behind' \/ view[g] = record'
      /\ record' \in View \cup {None}
  <2>1. {} \in SUBSET Ops /\ written \in BOOLEAN
    BY DEF TypeOK
  <2> HIDE DEF written, Inv
  <2> QED BY <1>1, <1>2, <1>5, <2>1, AccountKept
<1>7. \A g \in Handles : Active(g)' => Active(g)
  BY <1>1, <1>4 DEF Active
<1>8. TypeOK'
  BY <1>1, <1>2, <1>4, <1>6 DEF TypeOK, ledger
<1>9. CallsWellFormed'
  BY <1>1, <1>4, <1>5 DEF CallsWellFormed
<1>10. Kept'
  <2> SUFFICES ASSUME NEW g \in Handles, Active(g), Active(g)'
               PROVE  staged'[g] \/ g \in behind' \/ view[g] = record'
    BY <1>1, <1>7 DEF Kept
  <2>1. CASE g # h
    BY <2>1, <1>2, <1>6
  <2>2. CASE g = h
    <3>1. CASE written
      BY <2>2, <3>1, <1>2
    <3>2. CASE ~written
      <4>1. behind' = behind /\ record' = record /\ (staged[h] => staged'[h])
        BY <3>2, <1>1, <1>2 DEF Account
      <4> QED BY <2>2, <4>1 DEF Kept
    <3> QED BY <3>1, <3>2
  <2> QED BY <2>1, <2>2
<1>11. ShownWhilePersisting' /\ GivenOutOnce'
  BY <1>1, <1>5, <1>6 DEF ShownWhilePersisting, Shows, GivenOutOnce, UnderWay
<1>12. KnownShown'
  <2> SUFFICES ASSUME NEW g \in Handles, Active(g)
               PROVE  /\ \A i \in known'[g].addresses : i <= view[g].revealed
                      /\ known'[g].txs \subseteq view[g].txs
                      /\ \A i \in known'[g].frozen : i \in view[g].frozen \/ Choosing(g, "unfreeze", i)
                      /\ \A i \in known'[g].free : i \notin view[g].frozen \/ Choosing(g, "freeze", i)
    BY <1>1, <1>7 DEF KnownShown, Choosing
  <2>1. CASE g = h
    BY <2>1, <1>6 DEF Shown
  <2>2. CASE g # h
    BY <2>2, <1>6 DEF KnownShown
  <2> QED BY <2>1, <2>2
<1> QED BY <1>6, <1>8, <1>9, <1>10, <1>11, <1>12

LEMMA FreeInv ==
    ASSUME Inv, NEW h \in Handles, Free(h)
    PROVE  Inv'
<1> USE DEF Inv, TypeInv, StoreInv
<1>1. /\ status[h] = "open" /\ status' = [status EXCEPT ![h] = "freed"]
      /\ UNCHANGED <<ledger, record, view, staged, lock, op, inputs, acked, known, behind>>
  BY DEF Free, answers
<1>2. status \in [Handles -> {"new", "gone"} \cup Alive]
  BY DEF TypeOK
<1>3. /\ status' \in [Handles -> {"new", "gone"} \cup Alive]
      /\ status'[h] = "freed" /\ \A g \in Handles \ {h} : status'[g] = status[g]
  BY <1>1, <1>2 DEF Alive
<1>4. \A g \in Handles : Active(g)' <=> Active(g)
  BY <1>1, <1>3 DEF Active, Alive
<1>5. TypeOK'
  BY <1>1, <1>3 DEF TypeOK, ledger
<1>6. CallsWellFormed'
  BY <1>1, <1>3 DEF CallsWellFormed
<1>7. Kept' /\ KnownShown'
  BY <1>1, <1>4 DEF Kept, KnownShown, Choosing
<1>8. ShownWhilePersisting' /\ GivenOutOnce' /\ AcknowledgedIsStored'
  BY <1>1 DEF ShownWhilePersisting, Shows, GivenOutOnce, AcknowledgedIsStored, Loaded
<1> QED BY <1>5, <1>6, <1>7, <1>8

\* What a handle that goes leaves of its calls.
LEMMA CallsLost ==
    ASSUME Inv, NEW h \in Handles,
           op' = [o \in Ops |-> IF o \in Running(h) THEN [op[o] EXCEPT !.step = "lost"] ELSE op[o]]
    PROVE  /\ op' \in [Ops -> CallType]
           /\ \A o \in Ops : /\ WellFormed(op[o])'
                             /\ op'[o].on = op[o].on /\ op'[o].kind = op[o].kind /\ op'[o].arg = op[o].arg
                             /\ op[o].on # h => op'[o] = op[o]
                             /\ op'[o] = op[o] \/ op'[o].step = "lost"
                             /\ op[o].on = h => op'[o].step \notin UnderWay
<1>1. \A o \in Ops : op[o] \in CallType /\ WellFormed(op[o]) /\ op[o].step \in Steps
  BY DEF Inv, TypeInv, CallsWellFormed, CallType
<1>2. ASSUME NEW o \in Ops
      PROVE  /\ op'[o] \in CallType /\ WellFormed(op[o])'
             /\ op'[o].on = op[o].on /\ op'[o].kind = op[o].kind /\ op'[o].arg = op[o].arg
             /\ op[o].on # h => op'[o] = op[o]
             /\ op'[o] = op[o] \/ op'[o].step = "lost"
             /\ op[o].on = h => op'[o].step \notin UnderWay
  <2>1. CASE o \in Running(h)
    <3>1. /\ op'[o] \in CallType /\ op'[o].step = "lost" /\ op'[o].on = op[o].on
          /\ op'[o].kind = op[o].kind /\ op'[o].arg = op[o].arg
      BY <2>1, <1>1 DEF CallType, Steps, Answers
    <3>2. op[o].on = h /\ op[o].step # "idle"
      BY <2>1, <1>1, NoneAssumption DEF WellFormed, Running
    <3> QED BY <3>1, <3>2, <1>1 DEF WellFormed, UnderWay
  <2>2. CASE o \notin Running(h)
    BY <2>2, <1>1 DEF WellFormed, UnderWay, Running, Answers
  <2> QED BY <2>1, <2>2
<1>3. op' \in [Ops -> CallType]
  <2>1. op' = [o \in Ops |-> op'[o]]
    OBVIOUS
  <2> QED BY <2>1, <1>2
<1> QED BY <1>2, <1>3

LEMMA LeaveInv ==
    ASSUME Inv, NEW h \in Handles, Leave(h)
    PROVE  Inv'
<1> USE DEF Inv, TypeInv, StoreInv
<1>1. PICK landed \in BOOLEAN :
         /\ record' = IF landed THEN view[h] ELSE record
         /\ Account(h, Running(h), {}, landed)
  BY DEF Leave
<1>2. /\ Active(h)
      /\ status' = [status EXCEPT ![h] = "gone"]
      /\ lock' = [lock EXCEPT ![h] = None]
      /\ op' = [o \in Ops |-> IF o \in Running(h) THEN [op[o] EXCEPT !.step = "lost"] ELSE op[o]]
      /\ UNCHANGED <<ledger, view, staged, inputs>>
  BY DEF Leave, Active
<1>3. /\ status \in [Handles -> {"new", "gone"} \cup Alive]
      /\ lock \in [Handles -> Ops \cup {None}]
  BY DEF TypeOK
<1>4. /\ status' \in [Handles -> {"new", "gone"} \cup Alive]
      /\ status'[h] = "gone" /\ \A g \in Handles \ {h} : status'[g] = status[g]
  BY <1>2, <1>3
<1>5. /\ lock' \in [Handles -> Ops \cup {None}] /\ lock'[h] = None
      /\ \A g \in Handles \ {h} : lock'[g] = lock[g]
  BY <1>2, <1>3
<1>6. \A g \in Handles : Active(g)' => g # h /\ Active(g)
  BY <1>4 DEF Active, Alive
<1>7. /\ op' \in [Ops -> CallType]
      /\ \A o \in Ops : /\ WellFormed(op[o])'
                        /\ op'[o].on = op[o].on /\ op'[o].kind = op[o].kind /\ op'[o].arg = op[o].arg
                        /\ op[o].on # h => op'[o] = op[o]
                        /\ op'[o] = op[o] \/ op'[o].step = "lost"
                        /\ op[o].on = h => op'[o].step \notin UnderWay
  <2> HIDE DEF Inv
  <2> QED BY <1>2, CallsLost
<1>8. /\ known' \in [Handles -> Promises] /\ acked' \in Promises /\ behind' \subseteq Handles
      /\ \A g \in Handles \ {h} : known'[g] = known[g]
      /\ AcknowledgedIsStored'
      /\ \A g \in Handles \ {h} : Active(g) => staged[g] \/ g \in behind' \/ view[g] = record'
      /\ record' \in View \cup {None}
  <2>1. Running(h) \in SUBSET Ops /\ {} \in SUBSET Ops
    BY DEF Running
  <2>2. lock[h] # None => lock[h] \in Running(h)
    BY <1>3 DEF TypeOK, Running, Answers
  <2> HIDE DEF Inv
  <2> QED BY <1>1, <1>2, <2>1, <2>2, AccountKept
<1>9. \A o \in Ops : op'[o].step \in UnderWay => op'[o] = op[o] /\ op[o].on \in Handles \ {h}
  BY <1>7 DEF UnderWay, CallsWellFormed, WellFormed
<1>10. \A g \in Handles \ {h} : lock[g] # None
            => lock[g] \in Ops /\ op'[lock[g]] = op[lock[g]] /\ op[lock[g]].on = g
  BY <1>3, <1>7 DEF TypeOK
<1>11. TypeOK'
  <2>1. \A g \in Handles : lock'[g] # None => op'[lock'[g]].on = g /\ op'[lock'[g]].step = "persisting"
    BY <1>5, <1>10 DEF TypeOK
  <2>2. \A o \in Ops : /\ op'[o].kind \in Kinds /\ op'[o].step \in Steps
                       /\ op'[o].on \in Handles \cup {None}
                       /\ op'[o].step = "persisting" => lock'[op'[o].on] = o
    BY <1>5, <1>7, <1>9 DEF CallType, UnderWay, TypeOK
  <2> QED BY <2>1, <2>2, <1>2, <1>4, <1>5, <1>8 DEF TypeOK, ledger
<1>12. CallsWellFormed'
  BY <1>4, <1>7, <1>9 DEF CallsWellFormed
<1>13. Kept'
  BY <1>2, <1>6, <1>8 DEF Kept
<1>14. ShownWhilePersisting' /\ GivenOutOnce'
  <2>1. \A o \in Ops : op'[o].step = "persisting" => op'[o] = op[o] /\ op[o].on \in Handles \ {h}
    BY <1>9 DEF UnderWay
  <2>2. ShownWhilePersisting'
    BY <2>1, <1>2 DEF ShownWhilePersisting, Shows
  <2>3. GivenOutOnce'
    BY <2>1, <1>8 DEF GivenOutOnce
  <2> QED BY <2>2, <2>3
<1>15. KnownShown'
  <2> SUFFICES ASSUME NEW g \in Handles \ {h}, Active(g)
               PROVE  /\ \A i \in known'[g].addresses : i <= view[g].revealed
                      /\ known'[g].txs \subseteq view[g].txs
                      /\ \A i \in known'[g].frozen : i \in view[g].frozen \/ Choosing(g, "unfreeze", i)'
                      /\ \A i \in known'[g].free : i \notin view[g].frozen \/ Choosing(g, "freeze", i)'
    BY <1>2, <1>6 DEF KnownShown
  <2>1. \A kind, i : Choosing(g, kind, i) => Choosing(g, kind, i)'
    BY <1>5, <1>10 DEF Choosing
  <2> QED BY <2>1, <1>8 DEF KnownShown
<1> QED BY <1>8, <1>11, <1>12, <1>13, <1>14, <1>15

-----------------------------------------------------------------------------
LEMMA InitInv == Init => Inv
<1> SUFFICES ASSUME Init PROVE Inv
  OBVIOUS
<1> USE DEF Init
<1>1. Fresh \in View /\ Nothing \in Promises
  BY MaxIndexAssumption DEF Fresh, View, Nothing, Promises
<1>2. record \in View \cup {None}
  BY <1>1 DEF Synced, Fresh, View
<1>3. \A o \in Ops : op[o] = NoOp
  OBVIOUS
<1>4. NoOp \in CallType /\ WellFormed(NoOp)
  BY DEF NoOp, CallType, WellFormed, Kinds, Steps, Args
<1>5. TypeOK
  <2>1. \A o \in Ops : /\ op[o].kind \in Kinds /\ op[o].step \in Steps
                       /\ op[o].on \in Handles \cup {None}
                       /\ op[o].step # "persisting"
    BY <1>3 DEF NoOp, Kinds, Steps
  <2> QED BY <2>1, <1>1, <1>2 DEF TypeOK
<1>6. CallsWellFormed
  BY <1>3, <1>4 DEF CallsWellFormed, NoOp, UnderWay
<1>7. Kept /\ KnownShown
  BY DEF Kept, KnownShown, Active, Alive
<1>8. ShownWhilePersisting /\ GivenOutOnce
  BY <1>3 DEF ShownWhilePersisting, GivenOutOnce, NoOp
<1>9. AcknowledgedIsStored
  BY DEF AcknowledgedIsStored, Nothing
<1> QED BY <1>5, <1>6, <1>7, <1>8, <1>9 DEF Inv, TypeInv, StoreInv

LEMMA ReceiveInv ==
    ASSUME Inv, NEW i \in Coins, Receive(i)
    PROVE  Inv'
<1>1. onchain' \subseteq Coins /\ UNCHANGED <<accepted, record, handles, op, inputs, answers>>
  BY DEF Receive, Inv, TypeInv, TypeOK
<1>2. TypeOK'
  BY <1>1 DEF handles, answers, Inv, TypeInv, TypeOK
<1>3. CallsWellFormed' /\ Kept' /\ KnownShown'
  BY <1>1 DEF handles, answers, Inv, TypeInv, StoreInv, CallsWellFormed, Kept, KnownShown, Active, Choosing
<1>4. ShownWhilePersisting' /\ GivenOutOnce' /\ AcknowledgedIsStored'
  BY <1>1 DEF handles, answers, Inv, StoreInv, ShownWhilePersisting, Shows, GivenOutOnce,
              AcknowledgedIsStored, Loaded
<1> QED BY <1>2, <1>3, <1>4 DEF Inv, TypeInv, StoreInv

LEMMA StutterInv == Inv /\ UNCHANGED vars => Inv'
<1> SUFFICES ASSUME Inv, UNCHANGED vars PROVE Inv'
  OBVIOUS
<1>1. UNCHANGED <<onchain, accepted, record, handles, op, inputs, answers>>
  BY DEF vars, ledger
<1>2. TypeOK'
  BY <1>1 DEF handles, answers, Inv, TypeInv, TypeOK
<1>3. CallsWellFormed' /\ Kept' /\ KnownShown'
  BY <1>1 DEF handles, answers, Inv, TypeInv, StoreInv, CallsWellFormed, Kept, KnownShown, Active, Choosing
<1>4. ShownWhilePersisting' /\ GivenOutOnce' /\ AcknowledgedIsStored'
  BY <1>1 DEF handles, answers, Inv, StoreInv, ShownWhilePersisting, Shows, GivenOutOnce,
              AcknowledgedIsStored, Loaded
<1> QED BY <1>2, <1>3, <1>4 DEF Inv, TypeInv, StoreInv

LEMMA NextInv == Inv /\ [Next]_vars => Inv'
<1> SUFFICES ASSUME Inv, [Next]_vars PROVE Inv'
  OBVIOUS
<1>1. ASSUME NEW h \in Handles, Open(h) PROVE Inv'
  BY <1>1, OpenInv
<1>2. ASSUME NEW h \in Handles, Leave(h) PROVE Inv'
  BY <1>2, LeaveInv
<1>3. ASSUME NEW h \in Handles, NEW saved \in BOOLEAN, Opened(h, saved) PROVE Inv'
  BY <1>3, OpenedInv
<1>4. ASSUME NEW o \in Ops, NEW h \in Handles, Request(o, h) PROVE Inv'
  <2> USE <1>4 DEF Request, New
  <2>1. CASE NewAddress(o, h)
    BY <2>1, RevealInv DEF NewAddress
  <2>2. CASE Address(o, h)
    BY <2>2, AddressInv
  <2>3. CASE \E i \in Coins, kind \in {"freeze", "unfreeze"} : SetFrozen(o, h, i, kind)
    BY <2>3, SetFrozenInv
  <2>4. CASE \E coins \in SUBSET Coins : Build(o, h, coins)
    BY <2>4, BuildInv
  <2>5. CASE \E t \in Ops, extra \in SUBSET Coins : Bump(o, h, t, extra)
    BY <2>5, BumpInv
  <2>6. CASE \E t \in Txs : StartBroadcast(o, h, t)
    BY <2>6, StartBroadcastInv
  <2>7. CASE \E rescan \in BOOLEAN : StartSync(o, h, rescan)
    BY <2>7, StartSyncInv
  <2> QED BY <2>1, <2>2, <2>3, <2>4, <2>5, <2>6, <2>7
<1>5. ASSUME NEW o \in Ops, Answer(o) PROVE Inv'
  <2>1. CASE \E saved \in BOOLEAN : Written(o, saved)
    BY <2>1, WrittenInv
  <2>2. CASE \E answer \in {"accepted", "failed"} : NetworkAnswers(o, answer)
    BY <2>2, NetworkAnswersInv
  <2>3. CASE RecordSent(o)
    BY <2>3, RecordSentInv
  <2>4. CASE ApplyUpdate(o)
    BY <2>4, ApplyUpdateInv
  <2>5. CASE SyncFails(o)
    BY <2>5, SyncFailsInv
  <2> QED BY <1>5, <2>1, <2>2, <2>3, <2>4, <2>5 DEF Answer
<1>6. ASSUME NEW i \in Coins, Receive(i) PROVE Inv'
  BY <1>6, ReceiveInv
<1>7. CASE UNCHANGED vars
  BY <1>7, StutterInv
<1>8. ASSUME NEW h \in Handles, Free(h) PROVE Inv'
  BY <1>8, FreeInv
<1> QED BY <1>1, <1>2, <1>3, <1>4, <1>5, <1>6, <1>7, <1>8 DEF Next

THEOREM Invariance == Spec => []Inv
<1>1. Init => Inv
  BY InitInv
<1>2. Inv /\ [Next]_vars => Inv'
  BY NextInv
<1> QED BY <1>1, <1>2, PTL DEF Spec

-----------------------------------------------------------------------------
\* The wallet's variables keep their types, and a mutex is held only by a call
\* that waits for the store, however many handles, calls and addresses.
THEOREM TypeCorrect == Spec => []TypeOK
<1>1. Inv => TypeOK
  BY DEF Inv, TypeInv
<1> QED BY <1>1, Invariance, PTL

\* A failed write loses nothing: a wallet that is not what the record holds has
\* its change still staged, or another handle's write has left it behind.
THEOREM ChangesAreKept == Spec => []StagedUntilStored
<1>1. Inv => StagedUntilStored
  BY DEF Inv, StoreInv, Kept, Active, Alive, StagedUntilStored
<1> QED BY <1>1, Invariance, PTL

\* What was answered Ok is in the record, whatever fails or crashes after, but
\* for what a write of a handle that had not read it undoes.
THEOREM AnswersAreStored == Spec => []AcknowledgedIsStored
<1>1. Inv => AcknowledgedIsStored
  BY DEF Inv, StoreInv
<1> QED BY <1>1, Invariance, PTL

\* No handle answers with a new address that it, or the record it read, has
\* answered before.
THEOREM AddressesAreFresh == Spec => NewAddressesAreFresh
<1>1. Inv /\ [Next]_vars
        => [\A o \in Ops :
                op[o].kind = "newAddress" /\ op[o].step = "persisting" /\ op'[o].step = "ok"
                    => op[o].arg \notin known[op[o].on].addresses]_vars
  BY DEF Inv, GivenOutOnce
<1> QED BY <1>1, Invariance, PTL DEF Spec, NewAddressesAreFresh

-----------------------------------------------------------------------------
\* A build or a fee bump picks from what its handle may spend, and at that
\* moment nothing of the handle's is being written.
LEMMA PicksAreSpendable ==
    ASSUME Inv, Next, NEW o \in Ops, op[o].kind = "none"
    PROVE  \/ Picks(o) = {}
           \/ \E h \in Handles : /\ op'[o].on = h /\ status[h] = "open" /\ lock[h] = None
                                 /\ Picks(o) \subseteq Spendable(view[h])
<1> DEFINE Goal == \/ Picks(o) = {}
                   \/ \E h \in Handles : /\ op'[o].on = h /\ status[h] = "open" /\ lock[h] = None
                                         /\ Picks(o) \subseteq Spendable(view[h])
<1> SUFFICES Goal
  OBVIOUS
<1>1. op \in [Ops -> CallType] /\ inputs \in [Ops -> SUBSET Coins] /\ op[o].step = "idle"
  BY DEF Inv, TypeInv, CallsWellFormed, WellFormed, TypeOK
<1>2. op'[o].kind \notin Builds => Picks(o) = {}
  BY DEF Picks, Builds
<1>3. op'[o] = op[o] => op'[o].kind \notin Builds
  BY DEF Builds
<1>4. ASSUME NEW h \in Handles, NEW u \in Ops, NEW kind \in Kinds \ Builds, NEW arg, NEW step,
             Call(u, h, kind, arg, step)
      PROVE  Goal
  <2>1. op'[o] = op[o] \/ op'[o].kind = kind
    BY <1>1, <1>4 DEF Call
  <2> QED BY <2>1, <1>2, <1>3
<1>5. ASSUME NEW u \in Ops, Answer(u) PROVE Goal
  <2>1. u # o
    BY <1>1, <1>5 DEF Answer, Written, NetworkAnswers, RecordSent, ApplyUpdate, SyncFails
  <2>2. op'[o] = op[o]
    <3>1. \E step : op' = [op EXCEPT ![u].step = step]
      BY <1>5 DEF Answer, Written, NetworkAnswers, RecordSent, ApplyUpdate, SyncFails
    <3> QED BY <3>1, <2>1, <1>1
  <2> QED BY <2>2, <1>2, <1>3
<1>6. ASSUME NEW h \in Handles, NEW u \in Ops, Request(u, h) PROVE Goal
  <2>0. status[h] = "open"
    BY <1>6 DEF Request
  <2>1. CASE NewAddress(u, h) \/ Address(u, h)
    <3>1. PICK kind \in {"newAddress", "address"} : \E arg : Call(u, h, kind, arg, "persisting")
      BY <2>1 DEF NewAddress, Address, Reveal
    <3>2. kind \in Kinds \ Builds
      BY DEF Kinds, Builds
    <3> QED BY <3>1, <3>2, <1>4
  <2>2. CASE \E i \in Coins, kind \in {"freeze", "unfreeze"} : SetFrozen(u, h, i, kind)
    <3>1. PICK kind \in {"freeze", "unfreeze"} : \E i : Call(u, h, kind, i, "persisting")
      BY <2>2 DEF SetFrozen
    <3>2. kind \in Kinds \ Builds
      BY DEF Kinds, Builds
    <3> QED BY <3>1, <3>2, <1>4
  <2>3. CASE \E coins \in SUBSET Coins : Build(u, h, coins)
    <3>1. PICK coins \in SUBSET Coins : Build(u, h, coins)
      BY <2>3
    <3>2. /\ status[h] = "open" /\ lock[h] = None /\ coins \subseteq Spendable(view[h])
          /\ op' = [op EXCEPT ![u] = [kind |-> "build", on |-> h, step |-> "persisting", arg |-> None]]
          /\ inputs' = [inputs EXCEPT ![u] = coins]
      BY <3>1, <2>0 DEF Build, Call, Change
    <3>3. CASE u = o
      <4>1. Picks(o) = coins /\ op'[o].on = h
        BY <3>2, <3>3, <1>1 DEF Picks
      <4> QED BY <4>1, <3>2
    <3>4. CASE u # o
      BY <3>2, <3>4, <1>1, <1>2, <1>3
    <3> QED BY <3>3, <3>4
  <2>4. CASE \E t \in Ops, extra \in SUBSET Coins : Bump(u, h, t, extra)
    <3>1. PICK t \in Ops, extra \in SUBSET Coins : Bump(u, h, t, extra)
      BY <2>4
    <3>2. /\ status[h] = "open" /\ lock[h] = None /\ extra \subseteq Spendable(view[h])
          /\ op' = [op EXCEPT ![u] = [kind |-> "bump", on |-> h, step |-> "persisting", arg |-> t]]
          /\ inputs' = [inputs EXCEPT ![u] = inputs[t] \cup extra]
      BY <3>1, <2>0 DEF Bump, Call, Change
    <3>3. CASE u = o
      <4>1. Picks(o) \subseteq extra /\ op'[o].on = h
        BY <3>2, <3>3, <1>1 DEF Picks
      <4> QED BY <4>1, <3>2
    <3>4. CASE u # o
      BY <3>2, <3>4, <1>1, <1>2, <1>3
    <3> QED BY <3>3, <3>4
  <2>5. CASE \E t \in Txs : StartBroadcast(u, h, t)
    <3>1. PICK t : Call(u, h, "broadcast", t, "network")
      BY <2>5 DEF StartBroadcast
    <3>2. "broadcast" \in Kinds \ Builds
      BY DEF Kinds, Builds
    <3> QED BY <3>1, <3>2, <1>4
  <2>6. CASE \E rescan \in BOOLEAN : StartSync(u, h, rescan)
    <3>1. PICK kind \in {"full", "partial"} : \E arg : Call(u, h, kind, arg, "network")
      BY <2>6 DEF StartSync
    <3>2. kind \in Kinds \ Builds
      BY DEF Kinds, Builds
    <3> QED BY <3>1, <3>2, <1>4
  <2> QED BY <1>6, <2>1, <2>2, <2>3, <2>4, <2>5, <2>6 DEF Request
<1>7. ASSUME NEW h \in Handles, Leave(h) PROVE Goal
  <2>1. op'[o].kind = op[o].kind
    BY <1>1, <1>7 DEF Leave, CallType
  <2> QED BY <2>1, <1>2 DEF Builds
<1>8. ASSUME op' = op PROVE Goal
  BY <1>8, <1>2, <1>3
<1>9. ASSUME NEW h \in Handles, NEW saved \in BOOLEAN, Open(h) \/ Free(h) \/ Opened(h, saved) PROVE op' = op
  BY <1>9 DEF Open, Free, Opened
<1>10. ASSUME NEW i \in Coins, Receive(i) PROVE op' = op
  BY <1>10 DEF Receive
<1> HIDE DEF Goal
<1> QED BY <1>5, <1>6, <1>7, <1>8, <1>9, <1>10 DEF Next

\* What a handle has been told is in its wallet while nothing of it is being
\* written.
LEMMA ToldIsShown ==
    ASSUME Inv, NEW h \in Handles, status[h] = "open", lock[h] = None
    PROVE  known[h].txs \subseteq view[h].txs /\ known[h].frozen \subseteq view[h].frozen
  BY DEF Inv, StoreInv, KnownShown, Choosing, Active, Alive

\* The coins of a payment answered Ok are never picked for another one by a
\* handle that was told of it.
THEOREM SpentIsSpent == Spec => SpentStaysSpent
<1>1. Inv /\ [Next]_vars
        => [\A o \in Ops : op[o].kind = "none" /\ op'[o].kind # "none"
                => Picks(o) \cap Spends(Told(o).txs) = {}]_vars
  <2> SUFFICES ASSUME Inv, Next, NEW o \in Ops, op[o].kind = "none"
               PROVE  Picks(o) \cap Spends(Told(o).txs) = {}
    OBVIOUS
  <2>1. ASSUME NEW h \in Handles, op'[o].on = h, status[h] = "open", lock[h] = None,
               Picks(o) \subseteq Spendable(view[h])
        PROVE  Picks(o) \cap Spends(Told(o).txs) = {}
    <3>1. Told(o).txs \subseteq view[h].txs
      BY <2>1, ToldIsShown DEF Told
    <3>2. Spends(Told(o).txs) \subseteq Spends(view[h].txs)
      BY <3>1 DEF Spends
    <3> QED BY <2>1, <3>2 DEF Spendable, Unspent
  <2> QED BY <2>1, PicksAreSpendable
<1> QED BY <1>1, Invariance, PTL DEF Spec, SpentStaysSpent

\* A coin whose freeze was answered Ok is picked by no handle that was told so.
THEOREM FrozenIsOut == Spec => FrozenStaysOut
<1>1. Inv /\ [Next]_vars
        => [\A o \in Ops : op[o].kind = "none" /\ op'[o].kind # "none"
                => Picks(o) \cap Told(o).frozen = {}]_vars
  <2> SUFFICES ASSUME Inv, Next, NEW o \in Ops, op[o].kind = "none"
               PROVE  Picks(o) \cap Told(o).frozen = {}
    OBVIOUS
  <2>1. ASSUME NEW h \in Handles, op'[o].on = h, status[h] = "open", lock[h] = None,
               Picks(o) \subseteq Spendable(view[h])
        PROVE  Picks(o) \cap Told(o).frozen = {}
    <3>1. Told(o).frozen \subseteq view[h].frozen
      BY <2>1, ToldIsShown DEF Told
    <3> QED BY <2>1, <3>1 DEF Spendable
  <2> QED BY <2>1, PicksAreSpendable
<1> QED BY <1>1, Invariance, PTL DEF Spec, FrozenStaysOut

-----------------------------------------------------------------------------
(* Handles are drafts of their record: WalletCore implements WalletBook.   *)

\* The draft of a handle in use is its wallet.
LEMMA DraftIs ==
    ASSUME Inv
    PROVE  /\ Drafts \in [Handles -> Pages \cup {None}]
           /\ \A h \in Handles : /\ Active(h) => /\ Drafts[h] = Page(view[h])
                                                 /\ Page(view[h]) \in Pages
                                 /\ Active(h) <=> Drafts[h] # None
<1>1. \A h \in Handles : Page(view[h]) \in Pages /\ Page(view[h]) # None
  <2>1. \A h \in Handles : Page(view[h]) \in Pages
    BY ViewType DEF Page, Pages
  <2> HIDE DEF Page
  <2> QED BY <2>1, NoneAssumption
<1> HIDE DEF Page
<1> QED BY <1>1 DEF Drafts, Active

\* A step that changes the wallet of the active h changes its draft alone.
LEMMA DraftBecomes ==
    ASSUME Inv, NEW h \in Handles, NEW v, Active(h), UNCHANGED status,
           view' = [view EXCEPT ![h] = v]
    PROVE  Drafts' = [Drafts EXCEPT ![h] = Page(v)]
<1>1. view'[h] = v /\ \A g \in Handles \ {h} : view'[g] = view[g]
  BY DEF Inv, TypeInv, TypeOK
<1>2. \A g \in Handles : Drafts'[g] = [Drafts EXCEPT ![h] = Page(v)][g]
  BY <1>1 DEF Drafts, Active
<1> QED BY <1>2 DEF Drafts

LEMMA DraftsStay ==
    ASSUME UNCHANGED <<status, view>>
    PROVE  Drafts' = Drafts
  BY DEF Drafts

\* A step that writes nothing keeps the record, one that writes replaces it.
LEMMA RecordKept ==
    ASSUME UNCHANGED <<record, behind>>
    PROVE  Book!Kept
  BY DEF Book!Kept, Loaded, Page

LEMMA RecordReplaced ==
    ASSUME Inv, NEW h \in Handles, Active(h), record' = view[h],
           behind' = {g \in Handles : g # h /\ status[g] \in Alive}
    PROVE  Book!Replaced(h)
<1>1. Loaded' = view[h]
  BY ViewType, NoneAssumption DEF Loaded
<1>2. Page(Loaded)' = Drafts[h]
  BY <1>1, DraftIs DEF Page
<1>3. behind' = {g \in Handles : g # h /\ Drafts[g] # None}
  BY DraftIs DEF Active
<1> QED BY <1>2, <1>3 DEF Book!Replaced

\* What becomes of a call, as WalletBook sees it.
LEMMA SeenMove ==
    ASSUME Inv, NEW o \in Ops, NEW c, op' = [op EXCEPT ![o] = c]
    PROVE  AsCalls' = [AsCalls EXCEPT ![o] = Book!Asking(c.kind, c.on, c.arg, Stage(c.step))]
<1> HIDE DEF CallType
<1>1. op \in [Ops -> CallType]
  BY DEF Inv, TypeInv, CallsWellFormed
<1>2. op'[o] = c /\ \A u \in Ops \ {o} : op'[u] = op[u]
  BY <1>1
<1> DEFINE Seen(d) == [kind |-> d.kind, on |-> d.on, arg |-> d.arg, stage |-> Stage(d.step)]
<1>3. AsCalls = [u \in Ops |-> Seen(op[u])] /\ AsCalls' = [u \in Ops |-> Seen(op'[u])]
  BY DEF AsCalls
<1>4. Book!Asking(c.kind, c.on, c.arg, Stage(c.step)) = Seen(c)
  BY DEF Book!Asking
<1> HIDE DEF Seen
<1> QED BY <1>2, <1>3, <1>4

LEMMA SeenStep ==
    ASSUME Inv, NEW o \in Ops, NEW step \in Steps, op' = [op EXCEPT ![o].step = step]
    PROVE  /\ AsCalls[o].stage = Stage(op[o].step) /\ AsCalls[o].kind = op[o].kind
           /\ AsCalls[o].arg = op[o].arg /\ AsCalls[o].on = op[o].on
           /\ AsCalls' = [AsCalls EXCEPT ![o].stage = Stage(step)]
           /\ Stage(step) = Stage(op[o].step) => AsCalls' = AsCalls
<1>1. op \in [Ops -> CallType]
  BY DEF Inv, TypeInv, CallsWellFormed
<1> DEFINE Seen(d) == [kind |-> d.kind, on |-> d.on, arg |-> d.arg, stage |-> Stage(d.step)]
<1>2. AsCalls = [u \in Ops |-> Seen(op[u])] /\ AsCalls' = [u \in Ops |-> Seen(op'[u])]
  BY DEF AsCalls
<1>3. Seen(op'[o]) = [Seen(op[o]) EXCEPT !.stage = Stage(step)] /\ \A u \in Ops \ {o} : op'[u] = op[u]
  BY <1>1 DEF CallType
<1>4. /\ Seen(op[o]).stage = Stage(op[o].step) /\ Seen(op[o]).kind = op[o].kind
      /\ Seen(op[o]).arg = op[o].arg /\ Seen(op[o]).on = op[o].on
  OBVIOUS
<1>5. Stage(step) = Stage(op[o].step) => Seen(op'[o]) = Seen(op[o])
  BY <1>1 DEF CallType
<1> HIDE DEF Seen
<1> QED BY <1>2, <1>3, <1>4, <1>5

\* A call is under way while WalletBook's is.
LEMMA SeenUnderWay ==
    ASSUME Inv, NEW o \in Ops
    PROVE  /\ AsCalls[o].stage \in Book!UnderWay <=> op[o].step \in UnderWay
           /\ op[o].kind = "none" => AsCalls[o].stage = "idle"
           /\ AsCalls[o].on = op[o].on
           /\ op[o].step \in UnderWay => op[o].on \in Handles /\ Active(op[o].on)
<1>1. op[o] \in CallType /\ WellFormed(op[o]) /\ (op[o].step \in UnderWay => Active(op[o].on))
  BY DEF Inv, TypeInv, CallsWellFormed, Active, Alive
<1>2. AsCalls[o].stage = Stage(op[o].step) /\ AsCalls[o].on = op[o].on
  BY DEF AsCalls
<1>3. op[o].step \in UnderWay => op[o].kind # "none"
  BY <1>1 DEF WellFormed, UnderWay
<1> QED BY <1>1, <1>2, <1>3 DEF CallType, WellFormed, Stage, Steps, Answers, UnderWay, Book!UnderWay

\* A call is made on the open h, and nothing is written.
Begins(o, h, kind, arg) ==
    /\ status[h] = "open" /\ AsCalls[o].stage = "idle"
    /\ AsCalls'[o].on = h /\ AsCalls'[o].kind = kind /\ AsCalls'[o].arg = arg
    /\ UNCHANGED Book!shelf

\* A call that takes the mutex of the open h makes its change in the draft.
LEMMA CallMakes ==
    ASSUME Inv, NEW o \in Ops, NEW h \in Handles, NEW kind, NEW arg, NEW v,
           New(o, h), Call(o, h, kind, arg, "persisting"), Change(o, h, v),
           UNCHANGED <<record, answers>>
    PROVE  /\ Drafts[h] = Page(view[h]) /\ Drafts[h] \in Pages /\ Begins(o, h, kind, arg)
           /\ view[h] \in View
           /\ Book!Make(o, h, kind, arg, Page(v))
<1> DEFINE c == [kind |-> kind, on |-> h, step |-> "persisting", arg |-> arg]
<1>1. /\ status[h] = "open" /\ op[o].kind = "none" /\ op' = [op EXCEPT ![o] = c]
      /\ view' = [view EXCEPT ![h] = v] /\ UNCHANGED status
  BY DEF New, Call, Change
<1>2. Active(h) /\ view[h] \in View
  BY <1>1, ViewType DEF Active, Alive
<1>3. Drafts[h] = Page(view[h]) /\ Drafts[h] \in Pages /\ Drafts' = [Drafts EXCEPT ![h] = Page(v)]
  BY <1>1, <1>2, DraftIs, DraftBecomes
<1>4. AsCalls[o].stage = "idle"
  BY <1>1, SeenUnderWay
<1>5. c.kind = kind /\ c.arg = arg /\ c.on = h /\ Stage(c.step) = "made"
  BY DEF Stage
<1> HIDE DEF c
<1>6. AsCalls' = [AsCalls EXCEPT ![o] = Book!Asking(kind, h, arg, "made")]
  BY <1>1, <1>5, SeenMove
<1>7. Page(Loaded)' = Page(Loaded) /\ UNCHANGED <<status, behind>>
  BY <1>1 DEF Loaded, Page, answers
<1>8. Begins(o, h, kind, arg)
  BY <1>1, <1>4, <1>6, <1>7 DEF Begins, AsCalls, Book!Asking, Book!shelf
<1> QED BY <1>2, <1>3, <1>6, <1>8 DEF Book!Make

\* A call on the open h that waits for the network asks.
LEMMA CallAsks ==
    ASSUME Inv, NEW o \in Ops, NEW h \in Handles, NEW kind, NEW arg,
           New(o, h), Call(o, h, kind, arg, "network"), UNCHANGED <<record, handles, inputs, answers>>
    PROVE  Book!Ask(o, h, kind, arg) /\ Begins(o, h, kind, arg)
<1> DEFINE c == [kind |-> kind, on |-> h, step |-> "network", arg |-> arg]
<1>1. status[h] = "open" /\ op[o].kind = "none" /\ op' = [op EXCEPT ![o] = c]
  BY DEF New, Call
<1>2. c.kind = kind /\ c.arg = arg /\ c.on = h /\ Stage(c.step) = "asked"
  BY DEF Stage
<1> HIDE DEF c
<1>3. AsCalls' = [AsCalls EXCEPT ![o] = Book!Asking(kind, h, arg, "asked")]
  BY <1>1, <1>2, SeenMove
<1>4. AsCalls[o].stage = "idle"
  BY <1>1, SeenUnderWay
<1>5. UNCHANGED <<Page(Loaded), status, behind, Drafts, inputs>>
  BY DraftsStay DEF Loaded, Page, handles, answers
<1>6. Begins(o, h, kind, arg)
  BY <1>1, <1>3, <1>4, <1>5 DEF Begins, AsCalls, Book!Asking, Book!shelf
<1> QED BY <1>3, <1>5, <1>6 DEF Book!Ask

\* What the network answered is made in the draft once the mutex is free.
Merges(o, v) ==
    /\ op[o].step \in {"network", "accepted"}
    /\ Change(o, op[o].on, v)
    /\ op' = [op EXCEPT ![o].step = "persisting"]
    /\ UNCHANGED <<record, inputs, answers>>

LEMMA AnswerMakes ==
    ASSUME Inv, Inv', NEW o \in Ops, NEW v, Merges(o, v)
    PROVE  /\ Drafts[op[o].on] = Page(view[op[o].on]) /\ Drafts'[op[o].on] = Page(v)
           /\ view[op[o].on] \in View /\ v \in View
           /\ AsCalls[o].stage = "asked" /\ AsCalls[o].kind = op[o].kind
           /\ AsCalls[o].arg = op[o].arg /\ AsCalls[o].on = op[o].on
           /\ Book!MakeAsked(o, Page(v))
<1>1. PICK h \in Handles : h = op[o].on /\ Active(h)
  BY SeenUnderWay DEF Merges, UnderWay
<1>2. view' = [view EXCEPT ![h] = v] /\ UNCHANGED status
  BY <1>1 DEF Merges, Change
<1>3. view[h] \in View /\ v \in View
  <2>1. view \in [Handles -> View] /\ view' \in [Handles -> View]
    BY DEF Inv, TypeInv, TypeOK
  <2> QED BY <2>1, <1>2
<1>4. /\ Drafts[h] = Page(view[h]) /\ Drafts' = [Drafts EXCEPT ![h] = Page(v)]
      /\ Drafts'[h] = Page(v)
  <2>1. Drafts[h] = Page(view[h]) /\ Drafts \in [Handles -> Pages \cup {None}]
    BY <1>1, DraftIs
  <2>2. Drafts' = [Drafts EXCEPT ![h] = Page(v)]
    BY <1>1, <1>2, DraftBecomes
  <2> QED BY <2>1, <2>2
<1>5. Stage(op[o].step) = "asked" /\ Stage("persisting") = "made" /\ "persisting" \in Steps
  BY DEF Merges, Stage, Steps
<1>6. /\ AsCalls[o].stage = Stage(op[o].step) /\ AsCalls[o].kind = op[o].kind
      /\ AsCalls[o].arg = op[o].arg /\ AsCalls[o].on = op[o].on
      /\ AsCalls' = [AsCalls EXCEPT ![o].stage = Stage("persisting")]
  BY <1>5, SeenStep DEF Merges
<1>7. UNCHANGED <<Page(Loaded), status, behind, inputs>>
  BY <1>2 DEF Merges, Loaded, Page, answers
<1> QED BY <1>1, <1>3, <1>4, <1>5, <1>6, <1>7 DEF Book!MakeAsked, Book!Stands, Book!shelf

LEMMA RequestBooked ==
    ASSUME Inv, NEW o \in Ops, NEW h \in Handles, Request(o, h)
    PROVE  Book!BNext
<1>0. New(o, h)
  BY DEF Request, New
<1>1. Book!Request(o, h) => Book!BNext
  BY DEF Book!BNext
<1>2. ASSUME NEW kind \in {"newAddress", "address"}, Reveal(o, h, kind) PROVE Book!BNext
  <2> DEFINE v == view[h]
  <2>1. /\ Call(o, h, kind, v.revealed + 1, "persisting") /\ UNCHANGED <<record, inputs, answers>>
        /\ Change(o, h, [v EXCEPT !.revealed = @ + 1])
    BY <1>2 DEF Reveal
  <2>2. /\ Drafts[h] = Page(v) /\ Begins(o, h, kind, v.revealed + 1) /\ v \in View
        /\ Book!Make(o, h, kind, v.revealed + 1, Page([v EXCEPT !.revealed = @ + 1]))
    BY <1>0, <2>1, CallMakes
  <2>3. Page([v EXCEPT !.revealed = @ + 1]) = [Drafts[h] EXCEPT !.revealed = @ + 1]
        /\ Drafts[h].revealed = v.revealed
    BY <2>2 DEF Page, View
  <2>4. Book!GiveOut(o, h, kind)
    BY <2>1, <2>2, <2>3 DEF Book!GiveOut
  <2> QED BY <1>1, <2>2, <2>4 DEF Begins, Book!Request
<1>3. CASE Address(o, h) /\ ~Reveal(o, h, "address")
  <2>1. /\ Call(o, h, "address", None, "persisting") /\ Change(o, h, view[h])
        /\ UNCHANGED <<record, inputs, answers>>
    BY <1>3 DEF Address
  <2>2. /\ Drafts[h] = Page(view[h]) /\ Begins(o, h, "address", None)
        /\ Book!Make(o, h, "address", None, Page(view[h]))
    BY <1>0, <2>1, CallMakes
  <2> QED BY <1>1, <2>1, <2>2 DEF Book!GiveAgain, Begins, Book!Request
<1>4. ASSUME NEW i \in Coins, NEW kind \in {"freeze", "unfreeze"}, SetFrozen(o, h, i, kind)
      PROVE  Book!BNext
  <2> DEFINE v == view[h]
             f == IF kind = "freeze" THEN v.frozen \cup {i} ELSE v.frozen \ {i}
  <2>1. /\ Call(o, h, kind, i, "persisting") /\ UNCHANGED <<record, inputs, answers>>
        /\ Change(o, h, [v EXCEPT !.frozen = f])
    BY <1>4 DEF SetFrozen
  <2>2. /\ Drafts[h] = Page(v) /\ Begins(o, h, kind, i) /\ v \in View
        /\ Book!Make(o, h, kind, i, Page([v EXCEPT !.frozen = f]))
    BY <1>0, <2>1, CallMakes
  <2>3. Page([v EXCEPT !.frozen = f]) = [Drafts[h] EXCEPT !.frozen = f] /\ Drafts[h].frozen = v.frozen
    <3> HIDE DEF f
    <3> QED BY <2>2 DEF Page, View
  <2>4. i \in Book!Coins
    BY DEF Coins, Book!Coins
  <2>5. CASE kind = "freeze"
    BY <1>1, <2>1, <2>2, <2>3, <2>4, <2>5 DEF Book!Freeze, Begins, Book!Request
  <2>6. CASE kind = "unfreeze"
    BY <1>1, <2>1, <2>2, <2>3, <2>4, <2>6 DEF Book!Unfreeze, Begins, Book!Request
  <2> QED BY <2>5, <2>6
<1>5. ASSUME NEW coins \in SUBSET Coins, coins \subseteq Spendable(view[h]), Drafts[h] = Page(view[h])
      PROVE  Book!Unspoken(coins, Drafts[h]) /\ coins \subseteq Book!Coins
  <2>1. Drafts[h].frozen = view[h].frozen /\ Drafts[h].txs = view[h].txs
    BY <1>5 DEF Page
  <2>2. Book!SpentIn(Drafts[h]) = Spends(view[h].txs)
    BY <2>1 DEF Book!SpentIn, Spends
  <2> QED BY <1>5, <2>1, <2>2 DEF Book!Unspoken, Spendable, Unspent, Coins, Book!Coins
<1>6. ASSUME NEW coins \in SUBSET Coins, Build(o, h, coins) PROVE Book!BNext
  <2>1. /\ Call(o, h, "build", None, "persisting") /\ Change(o, h, view[h])
        /\ UNCHANGED <<record, answers>>
        /\ coins \subseteq Spendable(view[h]) /\ inputs' = [inputs EXCEPT ![o] = coins]
    BY <1>6 DEF Build
  <2>2. /\ Drafts[h] = Page(view[h]) /\ Begins(o, h, "build", None)
        /\ Book!Make(o, h, "build", None, Page(view[h]))
    BY <1>0, <2>1, CallMakes
  <2>3. Book!Unspoken(coins, Drafts[h]) /\ coins \subseteq Book!Coins
    BY <2>1, <2>2, <1>5
  <2>4. inputs'[o] = coins
    BY <2>1 DEF Inv, TypeInv, TypeOK
  <2> QED BY <1>1, <2>1, <2>2, <2>3, <2>4 DEF Book!Pay, Begins, Book!Request
<1>7. ASSUME NEW t \in Ops, NEW extra \in SUBSET Coins, Bump(o, h, t, extra) PROVE Book!BNext
  <2>1. /\ Call(o, h, "bump", t, "persisting") /\ Change(o, h, view[h])
        /\ UNCHANGED <<record, answers>>
        /\ t \in view[h].txs /\ extra \subseteq Spendable(view[h])
        /\ inputs' = [inputs EXCEPT ![o] = inputs[t] \cup extra]
    BY <1>7 DEF Bump
  <2>2. /\ Drafts[h] = Page(view[h]) /\ Begins(o, h, "bump", t)
        /\ Book!Make(o, h, "bump", t, Page(view[h]))
    BY <1>0, <2>1, CallMakes
  <2>3. Book!Unspoken(extra, Drafts[h]) /\ extra \in SUBSET Book!Coins
    BY <2>1, <2>2, <1>5
  <2>4. t \in Drafts[h].txs
    BY <2>1, <2>2 DEF Page
  <2>5. Book!Replace(o, h, t, extra)
    BY <2>1, <2>2, <2>3, <2>4 DEF Book!Replace
  <2> QED BY <1>1, <2>2, <2>3, <2>5 DEF Begins, Book!Request
<1>8. ASSUME NEW t \in Txs, StartBroadcast(o, h, t) PROVE Book!BNext
  <2>1. Book!Ask(o, h, "broadcast", t) /\ Begins(o, h, "broadcast", t)
    BY <1>0, <1>8, CallAsks DEF StartBroadcast
  <2> QED BY <1>1, <2>1 DEF Begins, Book!Request, Txs, Book!Txs
<1>9. ASSUME NEW rescan \in BOOLEAN, StartSync(o, h, rescan) PROVE Book!BNext
  <2>1. view[h].revealed \in 0..MaxIndex
    BY ViewType
  <2>2. PICK kind \in {"full", "partial"}, addresses \in SUBSET Book!Coins :
            Call(o, h, kind, addresses, "network") /\ UNCHANGED <<record, handles, inputs, answers>>
    BY <1>9, <2>1, MaxIndexAssumption DEF StartSync, Coins, Book!Coins
  <2>3. Book!Ask(o, h, kind, addresses) /\ Begins(o, h, kind, addresses)
    BY <1>0, <2>2, CallAsks
  <2> QED BY <1>1, <2>3 DEF Begins, Book!Request
<1> QED BY <1>2, <1>3, <1>4, <1>6, <1>7, <1>8, <1>9 DEF Request, NewAddress, Address

LEMMA WrittenBooked ==
    ASSUME Inv, NEW o \in Ops, NEW saved \in BOOLEAN, Written(o, saved)
    PROVE  Book!BNext
<1> DEFINE h == op[o].on
           answer == AfterWrite(op[o].kind, saved)
           done == IF answer = "ok" THEN {o} ELSE {}
<1>1. /\ op[o].step = "persisting" /\ Persist(h, saved) /\ UNCHANGED <<status, view, inputs>>
      /\ op' = [op EXCEPT ![o].step = answer] /\ Account(h, {o}, done, staged[h] /\ saved)
  BY DEF Written
<1>2. h \in Handles /\ Active(h)
  BY <1>1, SeenUnderWay DEF UnderWay
<1>3. answer \in {"ok", "unsaved", "failed"} /\ Stage(answer) = answer /\ answer \in Steps
  BY DEF AfterWrite, Stage, Steps, Answers
<1>4. /\ AsCalls[o].stage = "made" /\ AsCalls[o].kind = op[o].kind /\ AsCalls[o].on = h
      /\ AsCalls' = [AsCalls EXCEPT ![o].stage = answer]
  <2> HIDE DEF answer
  <2>1. Stage(op[o].step) = "made"
    BY <1>1 DEF Stage
  <2> QED BY <1>1, <1>3, <2>1, SeenStep
<1>5. Drafts[h] = Page(view[h]) /\ UNCHANGED <<status, Drafts, inputs>>
  BY <1>1, <1>2, DraftIs, DraftsStay
<1>6. /\ record' = IF staged[h] /\ saved THEN view[h] ELSE record
      /\ saved /\ ~staged[h] /\ h \notin behind => Loaded = view[h]
  BY <1>1, <1>2, PersistLeavesView
<1>7. behind' = IF staged[h] /\ saved THEN {g \in Handles : g # h /\ status[g] \in Alive} ELSE behind
  BY <1>1 DEF Account
<1>8. CASE saved
  <2>1. Book!Stands(o, "ok")
    BY <1>4, <1>8 DEF Book!Stands, AfterWrite
  <2>2. CASE staged[h]
    <3>1. Book!Replaced(h)
      BY <1>2, <1>6, <1>7, <1>8, <2>2, RecordReplaced
    <3>2. Book!Save(o)
      BY <3>1, <2>1, <1>4, <1>5 DEF Book!Save
    <3> QED BY <3>2, <1>4 DEF Book!Answer, Book!BNext
  <2>3. CASE ~staged[h]
    <3>1. Book!Kept
      BY <1>6, <1>7, <2>3, RecordKept
    <3>2. h \in behind \/ Page(Loaded) = Drafts[h]
      BY <1>5, <1>6, <1>8, <2>3
    <3>3. Book!Save(o)
      BY <3>1, <3>2, <2>1, <1>4, <1>5 DEF Book!Save
    <3> QED BY <3>3, <1>4 DEF Book!Answer, Book!BNext
  <2> QED BY <2>2, <2>3
<1>9. CASE ~saved
  <2>1. Page(Loaded)' = Page(Loaded) /\ behind' = behind
    BY <1>6, <1>7, <1>9 DEF Loaded, Page
  <2>2. answer = Book!Unsaved(AsCalls[o].kind)
    BY <1>4, <1>9 DEF AfterWrite, Book!Unsaved
  <2>3. Book!Refuse(o)
    BY <2>1, <2>2, <1>4, <1>5 DEF Book!Refuse, Book!Stands, Book!shelf
  <2> QED BY <2>3, <1>4 DEF Book!Answer, Book!BNext
<1> QED BY <1>8, <1>9

LEMMA AnswerBooked ==
    ASSUME Inv, Inv', NEW o \in Ops, Answer(o)
    PROVE  Book!BNext \/ UNCHANGED Book!bookvars
<1>1. Book!Answer(o) => Book!BNext
  BY DEF Book!BNext
<1>2. CASE UNCHANGED <<record, handles, inputs, answers>> /\ op' = [op EXCEPT ![o].step = "failed"]
           /\ op[o].step = "network"
  <2>1. UNCHANGED <<Page(Loaded), status, behind, Drafts, inputs>>
    BY <1>2, DraftsStay DEF Loaded, Page, handles, answers
  <2>2. "failed" \in Steps /\ Stage("failed") = "failed" /\ Stage("network") = "asked"
    BY DEF Stage, Steps, Answers
  <2>3. AsCalls[o].stage = "asked" /\ AsCalls' = [AsCalls EXCEPT ![o].stage = "failed"]
    BY <1>2, <2>2, SeenStep
  <2>4. Book!GiveUp(o)
    BY <2>1, <2>3 DEF Book!GiveUp, Book!Stands, Book!shelf
  <2> QED BY <1>1, <2>3, <2>4 DEF Book!Answer
<1>3. ASSUME NEW saved \in BOOLEAN, Written(o, saved) PROVE Book!BNext
  BY <1>3, WrittenBooked
<1>4. ASSUME NEW answer \in {"accepted", "failed"}, NetworkAnswers(o, answer)
      PROVE  Book!BNext \/ UNCHANGED Book!bookvars
  <2>1. CASE answer = "failed"
    BY <1>2, <1>4, <2>1 DEF NetworkAnswers
  <2>2. CASE answer = "accepted"
    <3>1. /\ op[o].step = "network" /\ op' = [op EXCEPT ![o].step = "accepted"]
          /\ UNCHANGED <<record, handles, inputs, answers>>
      BY <1>4, <2>2 DEF NetworkAnswers
    <3>2. UNCHANGED <<Page(Loaded), status, behind, Drafts, inputs>>
      BY <3>1, DraftsStay DEF Loaded, Page, handles, answers
    <3>3. "accepted" \in Steps /\ Stage("accepted") = Stage("network")
      BY DEF Steps, Stage
    <3>4. AsCalls' = AsCalls
      BY <3>1, <3>3, SeenStep
    <3> QED BY <3>2, <3>4 DEF Book!bookvars, Book!shelf
  <2> QED BY <2>1, <2>2
<1>5. CASE RecordSent(o)
  <2> DEFINE h == op[o].on
             v == Sent(view[h], op[o].arg)
  <2>1. /\ op[o].step = "accepted" /\ Change(o, h, v) /\ op' = [op EXCEPT ![o].step = "persisting"]
        /\ UNCHANGED <<record, inputs, answers>>
    BY <1>5 DEF RecordSent
  <2>2. /\ Drafts[h] = Page(view[h]) /\ view[h] \in View
        /\ AsCalls[o].stage = "asked" /\ AsCalls[o].kind = op[o].kind
        /\ AsCalls[o].arg = op[o].arg /\ AsCalls[o].on = h
        /\ Book!MakeAsked(o, Page(v))
    <3>1. PICK w : w = v
      OBVIOUS
    <3>2. Merges(o, w)
      BY <2>1, <3>1 DEF Merges
    <3> HIDE DEF v
    <3>3. /\ Drafts[h] = Page(view[h]) /\ view[h] \in View
          /\ AsCalls[o].stage = "asked" /\ AsCalls[o].kind = op[o].kind
          /\ AsCalls[o].arg = op[o].arg /\ AsCalls[o].on = h
          /\ Book!MakeAsked(o, Page(w))
      BY <3>2, AnswerMakes
    <3> QED BY <3>1, <3>3
  <2>3. op[o].kind = "broadcast"
    BY <2>1 DEF Inv, TypeInv, CallsWellFormed, WellFormed
  <2>4. Page(v) = [Drafts[h] EXCEPT !.txs = @ \cup {op[o].arg}]
    <3> HIDE DEF h
    <3>1. view[h] \in View /\ Drafts[h] = Page(view[h]) /\ v = [view[h] EXCEPT !.txs = @ \cup {op[o].arg}]
      BY <2>2 DEF Sent
    <3> HIDE DEF v
    <3> QED BY <3>1 DEF Page, View
  <2>5. Book!Send(o)
    BY <2>2, <2>3, <2>4 DEF Book!Send, Book!DraftOf
  <2> QED BY <1>1, <2>2, <2>5 DEF Book!Answer
<1>6. CASE ApplyUpdate(o)
  <2> DEFINE h == op[o].on
  <2>0. PICK r \in 0..MaxIndex : \E coins, ts, scanned :
            /\ r >= view[h].revealed
            /\ Change(o, h, [coins |-> coins, txs |-> view[h].txs \cup ts, frozen |-> view[h].frozen,
                             revealed |-> r, scanned |-> scanned])
    BY <1>6, ViewType DEF ApplyUpdate, RevealedBy
  <2>1. PICK coins, ts, scanned :
            /\ r >= view[h].revealed
            /\ Change(o, h, [coins |-> coins, txs |-> view[h].txs \cup ts, frozen |-> view[h].frozen,
                             revealed |-> r, scanned |-> scanned])
    BY <2>0
  <2> DEFINE v == [coins |-> coins, txs |-> view[h].txs \cup ts, frozen |-> view[h].frozen,
                   revealed |-> r, scanned |-> scanned]
  <2>2. /\ op[o].step = "network" /\ op[o].kind \in {"full", "partial"}
        /\ op' = [op EXCEPT ![o].step = "persisting"] /\ UNCHANGED <<record, inputs, answers>>
    BY <1>6 DEF ApplyUpdate
  <2>3. /\ Drafts[h] = Page(view[h]) /\ Drafts'[h] = Page(v) /\ view[h] \in View /\ v \in View
        /\ AsCalls[o].stage = "asked" /\ AsCalls[o].kind = op[o].kind /\ AsCalls[o].on = h
        /\ Book!MakeAsked(o, Page(v))
    <3>1. PICK w : w = v
      OBVIOUS
    <3>2. Merges(o, w)
      BY <2>1, <2>2, <3>1 DEF Merges
    <3> HIDE DEF v
    <3>3. /\ Drafts[h] = Page(view[h]) /\ Drafts'[h] = Page(w) /\ view[h] \in View /\ w \in View
          /\ AsCalls[o].stage = "asked" /\ AsCalls[o].kind = op[o].kind /\ AsCalls[o].on = h
          /\ Book!MakeAsked(o, Page(w))
      BY <2>2, <3>2, AnswerMakes
    <3> QED BY <3>1, <3>3
  <2>4. Page(v) \in Book!Pages
    BY <2>3 DEF View, Page, Book!Pages, Book!Txs, Book!Coins, Txs, Coins
  <2>5. /\ Page(v).revealed >= Drafts[h].revealed /\ Drafts[h].txs \subseteq Page(v).txs
        /\ Page(v).frozen = Drafts[h].frozen
    BY <2>1, <2>3 DEF Page
  <2> HIDE DEF v
  <2>6. Book!Learn(o)
    BY <2>2, <2>3, <2>4, <2>5 DEF Book!Learn, Book!DraftOf
  <2> QED BY <1>1, <2>3, <2>6 DEF Book!Answer
<1>7. CASE SyncFails(o)
  BY <1>2, <1>7 DEF SyncFails
<1> QED BY <1>3, <1>4, <1>5, <1>6, <1>7 DEF Answer

\* The calls of a handle that goes are lost.
LEMMA SeenLost ==
    ASSUME Inv, NEW h \in Handles,
           op' = [o \in Ops |-> IF o \in Running(h) THEN [op[o] EXCEPT !.step = "lost"] ELSE op[o]]
    PROVE  AsCalls' = [o \in Ops |-> IF AsCalls[o].on = h /\ AsCalls[o].stage \in Book!UnderWay
                                     THEN [AsCalls[o] EXCEPT !.stage = "lost"] ELSE AsCalls[o]]
<1> DEFINE Lost(o) == IF AsCalls[o].on = h /\ AsCalls[o].stage \in Book!UnderWay
                      THEN [AsCalls[o] EXCEPT !.stage = "lost"] ELSE AsCalls[o]
<1>0. op \in [Ops -> CallType]
  BY DEF Inv, TypeInv, CallsWellFormed
<1>1. ASSUME NEW o \in Ops PROVE AsCalls'[o] = Lost(o)
  <2>1. o \in Running(h) <=> op[o].on = h /\ op[o].step \in UnderWay
    <3>1. op[o].step = "idle" => op[o].on # h
      BY NoneAssumption DEF Inv, TypeInv, CallsWellFormed, WellFormed
    <3> QED BY <3>1, <1>0 DEF Running, CallType, Steps, Answers, UnderWay
  <2>2. AsCalls[o] = [kind |-> op[o].kind, on |-> op[o].on, arg |-> op[o].arg, stage |-> Stage(op[o].step)]
    BY DEF AsCalls
  <2>3. AsCalls'[o] = [kind |-> op'[o].kind, on |-> op'[o].on, arg |-> op'[o].arg, stage |-> Stage(op'[o].step)]
    BY DEF AsCalls
  <2>4. CASE o \in Running(h)
    <3>1. /\ op'[o].kind = op[o].kind /\ op'[o].arg = op[o].arg /\ op'[o].on = op[o].on
          /\ Stage(op'[o].step) = "lost"
      BY <2>4, <1>0 DEF CallType, Stage
    <3> QED BY <3>1, <2>1, <2>2, <2>3, <2>4, SeenUnderWay
  <2>5. CASE o \notin Running(h)
    <3>1. op'[o] = op[o]
      BY <2>5
    <3> QED BY <3>1, <2>1, <2>2, <2>3, <2>5, SeenUnderWay
  <2> QED BY <2>4, <2>5
<1> HIDE DEF Lost
<1>2. AsCalls' = [o \in Ops |-> Lost(o)]
  BY <1>1 DEF AsCalls
<1> QED BY <1>2 DEF Lost

\* Opening, freeing and leaving.
LEMMA HandleBooked ==
    ASSUME Inv, NEW h \in Handles
    PROVE  /\ Open(h) => Book!BNext
           /\ Free(h) => Book!BNext
           /\ Leave(h) => Book!BNext
           /\ \A saved \in BOOLEAN : Opened(h, saved) => Book!BNext
<1>0. /\ status \in [Handles -> {"new", "gone"} \cup Alive] /\ view \in [Handles -> View]
      /\ op \in [Ops -> CallType] /\ staged \in [Handles -> BOOLEAN]
  BY DEF Inv, TypeInv, TypeOK, CallsWellFormed
<1>1. CASE Open(h)
  <2>1. /\ status' = [status EXCEPT ![h] = "opening"] /\ view' = [view EXCEPT ![h] = Loaded]
        /\ status[h] = "new" /\ UNCHANGED <<record, op, inputs, behind>>
    BY <1>1 DEF Open
  <2>2. Drafts' = [Drafts EXCEPT ![h] = Page(Loaded)]
    BY <1>0, <2>1 DEF Drafts, Alive
  <2>3. UNCHANGED <<Page(Loaded), AsCalls, behind, inputs>>
    BY <2>1 DEF Loaded, Page, AsCalls
  <2> QED BY <2>1, <2>2, <2>3 DEF Book!Open, Book!Stage, Book!BNext
<1>2. CASE Free(h)
  <2>1. /\ status[h] = "open" /\ status' = [status EXCEPT ![h] = "freed"]
        /\ UNCHANGED <<record, view, op, inputs, behind>>
    BY <1>2 DEF Free, answers
  <2>2. Drafts' = Drafts
    BY <1>0, <2>1 DEF Drafts, Alive
  <2>3. UNCHANGED <<Page(Loaded), AsCalls, behind, inputs>>
    BY <2>1 DEF Loaded, Page, AsCalls
  <2> QED BY <2>1, <2>2, <2>3 DEF Book!Free, Book!Stage, Book!BNext
<1>3. ASSUME Active(h), status' = [status EXCEPT ![h] = "gone"], UNCHANGED <<view, inputs>>,
             op' = [o \in Ops |-> IF o \in Running(h) THEN [op[o] EXCEPT !.step = "lost"] ELSE op[o]],
             Book!Kept \/ Book!Replaced(h)
      PROVE  Book!BNext
  <2>1. Drafts' = [Drafts EXCEPT ![h] = None]
    BY <1>0, <1>3 DEF Drafts, Alive
  <2>2. status[h] \in {"opening", "open", "freed"}
    BY <1>3 DEF Active, Alive
  <2> QED BY <2>1, <2>2, <1>3, SeenLost DEF Book!Shut, Book!Stage, Book!BNext
<1>4. CASE Leave(h)
  <2>1. /\ Active(h) /\ status' = [status EXCEPT ![h] = "gone"] /\ UNCHANGED <<view, inputs>>
        /\ op' = [o \in Ops |-> IF o \in Running(h) THEN [op[o] EXCEPT !.step = "lost"] ELSE op[o]]
    BY <1>4 DEF Leave, Active
  <2>2. PICK landed \in BOOLEAN :
          /\ record' = IF landed THEN view[h] ELSE record
          /\ behind' = IF landed THEN {g \in Handles : g # h /\ status[g] \in Alive} ELSE behind
    BY <1>4 DEF Leave, Account
  <2>3. Book!Kept \/ Book!Replaced(h)
    <3>1. CASE landed
      BY <2>1, <2>2, <3>1, RecordReplaced
    <3>2. CASE ~landed
      BY <2>2, <3>2, RecordKept
    <3> QED BY <3>1, <3>2
  <2> QED BY <2>1, <2>3, <1>3
<1>5. ASSUME NEW saved \in BOOLEAN, Opened(h, saved) PROVE Book!BNext
  <2>1. /\ status[h] = "opening" /\ Persist(h, saved) /\ UNCHANGED <<view, op, inputs>>
        /\ status' = [status EXCEPT ![h] = IF saved THEN "open" ELSE "gone"]
        /\ behind' = IF staged[h] /\ saved THEN {g \in Handles : g # h /\ status[g] \in Alive} ELSE behind
    BY <1>5 DEF Opened, Account
  <2>2. Active(h)
    BY <2>1 DEF Active, Alive
  <2>3. record' = IF staged[h] /\ saved THEN view[h] ELSE record
    BY <2>1, <2>2, PersistLeavesView
  <2>4. Book!Kept \/ Book!Replaced(h)
    <3>1. CASE staged[h] /\ saved
      BY <2>1, <2>2, <2>3, <3>1, RecordReplaced
    <3>2. CASE ~(staged[h] /\ saved)
      BY <2>1, <2>3, <3>2, RecordKept
    <3> QED BY <3>1, <3>2
  <2>5. CASE saved
    <3>1. Drafts' = Drafts
      BY <1>0, <2>1, <2>5 DEF Drafts, Alive
    <3>2. UNCHANGED <<AsCalls, inputs>>
      BY <2>1 DEF AsCalls
    <3> QED BY <2>1, <2>4, <2>5, <3>1, <3>2 DEF Book!Opened, Book!Stage, Book!BNext
  <2>6. CASE ~saved
    <3>1. \A o \in Ops : o \notin Running(h)
      <4>1. \A o \in Ops : op[o].step \in UnderWay => op[o].on # h
        BY <2>1, NoCallsYet
      <4>2. \A o \in Ops : op[o].step = "idle" => op[o].on # h
        BY NoneAssumption DEF Inv, TypeInv, CallsWellFormed, WellFormed
      <4> QED BY <4>1, <4>2, <1>0 DEF Running, CallType, Steps, Answers, UnderWay
    <3>2. op' = [o \in Ops |-> IF o \in Running(h) THEN [op[o] EXCEPT !.step = "lost"] ELSE op[o]]
      BY <2>1, <3>1, <1>0
    <3> QED BY <2>1, <2>2, <2>4, <2>6, <3>2, <1>3
  <2> QED BY <2>5, <2>6
<1> QED BY <1>1, <1>2, <1>4, <1>5

LEMMA InitBooked == Init => Book!BInit
<1> SUFFICES ASSUME Init PROVE Book!BInit
  OBVIOUS
<1>1. /\ record = None \/ \E r \in 0..MaxIndex : RevealedBy(r, 0, onchain) /\ record = Synced(onchain, r)
      /\ status = [h \in Handles |-> "new"] /\ op = [o \in Ops |-> NoOp]
      /\ inputs = [o \in Ops |-> {}] /\ behind = {}
  BY DEF Init
<1>2. Page(Loaded) \in {p \in Book!Pages : p.txs = {} /\ p.frozen = {}}
  <2>1. CASE record = None
    BY <2>1, MaxIndexAssumption DEF Loaded, Page, Fresh, Book!Pages
  <2>2. CASE record # None
    <3>1. PICK r \in 0..MaxIndex : record = Synced(onchain, r)
      BY <1>1, <2>2
    <3> QED BY <2>2, <3>1 DEF Loaded, Page, Synced, Fresh, Book!Pages
  <2> QED BY <2>1, <2>2
<1>3. Drafts = [h \in Handles |-> None]
  BY <1>1 DEF Drafts, Alive
<1>4. AsCalls = [o \in Ops |-> Book!Asking("none", None, None, "idle")]
  BY <1>1 DEF AsCalls, NoOp, Stage, Book!Asking
<1> QED BY <1>1, <1>2, <1>3, <1>4 DEF Book!BInit

\* Every step of a handle is one WalletBook allows, or none: each call changes
\* its handle's draft once, whole, and is answered Ok only with the draft in
\* the record, beside other handles and freed ones.
THEOREM ImplementsWalletBook == Spec => WalletBookSpec
<1>1. Inv /\ Inv' /\ [Next]_vars => Book!BNext \/ UNCHANGED Book!bookvars
  <2> SUFFICES ASSUME Inv, Inv', [Next]_vars
               PROVE  Book!BNext \/ UNCHANGED Book!bookvars
    OBVIOUS
  <2>1. ASSUME UNCHANGED <<record, handles, op, inputs, answers>> PROVE UNCHANGED Book!bookvars
    BY <2>1, DraftsStay DEF Book!bookvars, Book!shelf, Loaded, Page, handles, answers, AsCalls
  <2>2. ASSUME NEW i \in Coins, Receive(i) PROVE UNCHANGED Book!bookvars
    BY <2>1, <2>2 DEF Receive
  <2>3. CASE UNCHANGED vars
    BY <2>1, <2>3 DEF vars
  <2> QED BY <2>2, <2>3, HandleBooked, RequestBooked, AnswerBooked DEF Next
<1> QED BY <1>1, InitBooked, Invariance, PTL DEF Spec, WalletBookSpec, Book!BSpec

-----------------------------------------------------------------------------
(* The first pass.                                                         *)

\* The wallet v has been scanned, or has sent what was built elsewhere than p
\* tells of.
Grounded(v, p) == v.scanned \/ \E t \in v.txs \cap Ops : t \notin p.built
Grounds(v, p) == HasHistory(v) \/ p.built # {} => Grounded(v, p)

\* A build has answered with each of these.
Built(ts) == \A t \in ts \cap Ops : op[t].step = "ok"

\* A handle whose calls go on.
Serving(h) == status[h] \in {"open", "freed"}

\* Without foreign transactions all that a wallet knows follows from a full
\* scan, or from what another handle that made one has built.
ScannedFirst ==
    /\ \A h \in Handles : Grounds(view[h], known[h])
    /\ Grounds(Loaded, acked)
    /\ \A o \in Ops : op[o].kind = "partial" \/ (op[o].kind \in Builds /\ op[o].step = "persisting")
                        => Grounded(view[op[o].on], known[op[o].on])
    /\ Built(accepted) /\ Built(Loaded.txs) /\ \A h \in Handles : Built(view[h].txs)
    /\ \A o \in Ops : op[o].kind = "broadcast" => Built({op[o].arg})
    /\ \A o \in Ops : op[o].kind # "none" => status[op[o].on] \in {"open", "freed", "gone"}

\* A call moves on at h, whose wallet becomes v.
LEMMA ScannedStep ==
    ASSUME Inv, ScannedFirst,
           NEW o \in Ops, NEW h \in Handles, NEW v \in View, NEW c,
           Serving(h), op[o].step # "ok",
           op' = [op EXCEPT ![o] = c], c.on = h, c.step \in UnderWay \cup {"failed"},
           view' = [view EXCEPT ![h] = v],
           view[h].txs \subseteq v.txs, view[h].scanned => v.scanned,
           Grounds(v, known[h]), Built(v.txs), Built(accepted'),
           c.kind \in Builds \cup {"partial"} => Grounded(v, known[h]),
           c.kind = "broadcast" => Built({c.arg}),
           UNCHANGED <<status, record, answers>>
    PROVE  ScannedFirst'
<1>1. op \in [Ops -> CallType] /\ view \in [Handles -> View]
  BY DEF Inv, TypeInv, CallsWellFormed, TypeOK
<1>2. op'[o] = c /\ \A u \in Ops \ {o} : op'[u] = op[u]
  BY <1>1
<1>3. view'[h] = v /\ \A g \in Handles \ {h} : view'[g] = view[g]
  BY <1>1
<1>4. Loaded' = Loaded /\ acked' = acked /\ known' = known
  BY DEF Loaded, answers
<1>5. \A t \in Ops : op[t].step = "ok" => op'[t].step = "ok"
  BY <1>2
<1>6. \A u \in Ops : op[u].kind # "none" => op[u].on \in Handles
  BY DEF Inv, TypeInv, CallsWellFormed, WellFormed
<1>7. \A g \in Handles : Grounds(view'[g], known'[g])
  BY <1>3, <1>4 DEF ScannedFirst
<1>8. Grounds(Loaded', acked')
  BY <1>4 DEF ScannedFirst
<1>9. \A g \in Handles : Grounded(view[g], known[g]) => Grounded(view'[g], known'[g])
  BY <1>3, <1>4 DEF Grounded
<1>10. \A u \in Ops : op'[u].kind = "partial" \/ (op'[u].kind \in Builds /\ op'[u].step = "persisting")
            => Grounded(view'[op'[u].on], known'[op'[u].on])
  BY <1>2, <1>3, <1>4, <1>6, <1>9 DEF ScannedFirst, Builds
<1>11. Built(accepted)' /\ Built(Loaded.txs)' /\ \A g \in Handles : Built(view[g].txs)'
  BY <1>3, <1>4, <1>5 DEF ScannedFirst, Built
<1>12. \A u \in Ops : op'[u].kind = "broadcast" => Built({op[u].arg})'
  BY <1>2, <1>5 DEF ScannedFirst, Built
<1>13. \A u \in Ops : op'[u].kind # "none" => status'[op'[u].on] \in {"open", "freed", "gone"}
  BY <1>2 DEF ScannedFirst, Serving
<1>14. \A g \in Handles : Grounds(view[g], known[g])'
  BY <1>7 DEF Grounds, Grounded
<1>15. Grounds(Loaded, acked)'
  BY <1>8 DEF Grounds, Grounded
<1>16. \A u \in Ops : op'[u].kind = "partial" \/ (op'[u].kind \in Builds /\ op'[u].step = "persisting")
            => Grounded(view[op[u].on], known[op[u].on])'
  BY <1>10 DEF Grounded
<1> QED BY <1>11, <1>12, <1>13, <1>14, <1>15, <1>16 DEF ScannedFirst

\* The same, the wallet unchanged.
LEMMA ScannedMove ==
    ASSUME Inv, ScannedFirst,
           NEW o \in Ops, NEW h \in Handles, NEW c,
           Serving(h), op[o].step # "ok",
           op' = [op EXCEPT ![o] = c], c.on = h, c.step \in UnderWay \cup {"failed"},
           c.kind \in Builds \cup {"partial"} => Grounded(view[h], known[h]),
           c.kind = "broadcast" => Built({c.arg}),
           Built(accepted'),
           UNCHANGED <<status, record, view, answers>>
    PROVE  ScannedFirst'
<1>1. view' = [view EXCEPT ![h] = view[h]] /\ view[h] \in View
  BY ViewType DEF Inv, TypeInv, TypeOK
<1>2. Grounds(view[h], known[h]) /\ Built(view[h].txs)
  BY DEF ScannedFirst
<1> QED BY <1>1, <1>2, ScannedStep

LEMMA RequestScanned ==
    ASSUME Inv, ScannedFirst, NEW o \in Ops, NEW h \in Handles, Request(o, h)
    PROVE  ScannedFirst'
<1>0. /\ New(o, h) /\ Serving(h) /\ op[o].step # "ok"
      /\ accepted' = accepted /\ Built(accepted) /\ Built(view[h].txs)
  <2>1. status[h] = "open" /\ op[o].kind = "none"
    BY DEF Request
  <2>2. op[o].step = "idle"
    BY <2>1 DEF Inv, TypeInv, CallsWellFormed, WellFormed
  <2>3. accepted' = accepted
    BY DEF Request, NewAddress, Address, Reveal, SetFrozen, Build, Bump, StartBroadcast, StartSync, ledger
  <2> QED BY <2>1, <2>2, <2>3 DEF New, Serving, ScannedFirst
<1>1. HasHistory(view[h]) => Grounded(view[h], known[h])
  BY DEF ScannedFirst, Grounds
<1>2. ASSUME NEW kind \in {"newAddress", "address"}, Reveal(o, h, kind) PROVE ScannedFirst'
  <2> DEFINE v == [view[h] EXCEPT !.revealed = @ + 1]
             c == [kind |-> kind, on |-> h, step |-> "persisting", arg |-> view[h].revealed + 1]
  <2>1. v \in View /\ v.coins = view[h].coins /\ v.txs = view[h].txs /\ v.scanned = view[h].scanned
    BY <1>2, ViewType, MaxIndexAssumption DEF Reveal, View
  <2>2. /\ op' = [op EXCEPT ![o] = c] /\ view' = [view EXCEPT ![h] = v]
        /\ UNCHANGED <<status, record, answers>>
    BY <1>2 DEF Reveal, Call, Change
  <2>3. c.on = h /\ c.step \in UnderWay /\ c.kind \notin Builds \cup {"partial", "broadcast"}
    BY DEF UnderWay, Builds
  <2> HIDE DEF v, c
  <2>4. Grounds(v, known[h]) /\ Built(v.txs)
    BY <2>1, <1>0 DEF ScannedFirst, Grounds, Grounded, HasHistory
  <2> QED BY <1>0, <2>1, <2>2, <2>3, <2>4, ScannedStep
<1>3. ASSUME NEW kind, NEW arg, NEW step \in UnderWay,
             Call(o, h, kind, arg, step), UNCHANGED <<status, record, view, answers>>,
             kind \in Builds \cup {"partial"} => HasHistory(view[h]),
             kind = "broadcast" => Built({arg})
      PROVE  ScannedFirst'
  <2> DEFINE c == [kind |-> kind, on |-> h, step |-> step, arg |-> arg]
  <2>1. op' = [op EXCEPT ![o] = c] /\ c.on = h /\ c.step \in UnderWay /\ c.kind = kind /\ c.arg = arg
    BY <1>3 DEF Call
  <2> HIDE DEF c
  <2> QED BY <2>1, <1>0, <1>1, <1>3, ScannedMove
<1>4. Change(o, h, view[h]) => UNCHANGED <<status, view>>
  BY DEF Change, Inv, TypeInv, TypeOK
<1>5. CASE NewAddress(o, h)
  BY <1>5, <1>2 DEF NewAddress
<1>6. CASE Address(o, h)
  <2>1. CASE Reveal(o, h, "address")
    BY <2>1, <1>2
  <2>2. CASE ~Reveal(o, h, "address")
    <3>1. Call(o, h, "address", None, "persisting") /\ UNCHANGED <<status, record, view, answers>>
      BY <2>2, <1>4, <1>6 DEF Address
    <3>2. "address" \notin Builds \cup {"partial", "broadcast"} /\ "persisting" \in UnderWay
      BY DEF Builds, UnderWay
    <3> QED BY <3>1, <3>2, <1>3
  <2> QED BY <2>1, <2>2
<1>7. ASSUME NEW i \in Coins, NEW kind \in {"freeze", "unfreeze"}, SetFrozen(o, h, i, kind)
      PROVE  ScannedFirst'
  <2> DEFINE f == IF kind = "freeze" THEN view[h].frozen \cup {i} ELSE view[h].frozen \ {i}
             v == [view[h] EXCEPT !.frozen = f]
             c == [kind |-> kind, on |-> h, step |-> "persisting", arg |-> i]
  <2>1. f \subseteq Coins
    BY ViewType
  <2>2. v \in View /\ v.coins = view[h].coins /\ v.txs = view[h].txs /\ v.scanned = view[h].scanned
    BY <2>1, ViewType DEF View
  <2>3. /\ op' = [op EXCEPT ![o] = c] /\ view' = [view EXCEPT ![h] = v]
        /\ UNCHANGED <<status, record, answers>>
    BY <1>7 DEF SetFrozen, Call, Change
  <2>4. c.on = h /\ c.step \in UnderWay /\ c.kind \notin Builds \cup {"partial", "broadcast"}
    BY DEF UnderWay, Builds
  <2> HIDE DEF v, c
  <2>5. Grounds(v, known[h]) /\ Built(v.txs)
    BY <2>2, <1>0 DEF ScannedFirst, Grounds, Grounded, HasHistory
  <2> QED BY <1>0, <2>2, <2>3, <2>4, <2>5, ScannedStep
<1>8. ASSUME NEW coins \in SUBSET Coins, Build(o, h, coins) PROVE ScannedFirst'
  <2>1. HasHistory(view[h]) /\ "persisting" \in UnderWay
    BY <1>8 DEF Build, Spendable, Unspent, UnderWay, HasHistory
  <2>2. Call(o, h, "build", None, "persisting") /\ UNCHANGED <<status, record, view, answers>>
    BY <1>8, <1>4 DEF Build
  <2> QED BY <2>1, <2>2, <1>3
<1>9. ASSUME NEW t \in Ops, NEW extra \in SUBSET Coins, Bump(o, h, t, extra) PROVE ScannedFirst'
  <2>1. HasHistory(view[h]) /\ "persisting" \in UnderWay
    BY <1>9 DEF Bump, UnderWay, HasHistory
  <2>2. Call(o, h, "bump", t, "persisting") /\ UNCHANGED <<status, record, view, answers>>
    BY <1>9, <1>4 DEF Bump
  <2> QED BY <2>1, <2>2, <1>3
<1>10. ASSUME NEW t \in Txs, StartBroadcast(o, h, t) PROVE ScannedFirst'
  <2>1. /\ Call(o, h, "broadcast", t, "network") /\ UNCHANGED <<status, record, view, answers>>
        /\ "network" \in UnderWay /\ "broadcast" \notin Builds \cup {"partial"}
    BY <1>10 DEF StartBroadcast, handles, UnderWay, Builds
  <2>2. Built({t})
    BY <1>10, NamesAssumption DEF StartBroadcast, Sendable, Built
  <2> QED BY <2>1, <2>2, <1>3
<1>11. ASSUME NEW rescan \in BOOLEAN, StartSync(o, h, rescan) PROVE ScannedFirst'
  <2>1. UNCHANGED <<status, record, view, answers>> /\ "network" \in UnderWay
    BY <1>11 DEF StartSync, handles, UnderWay
  <2>2. CASE ~rescan /\ PartialWillDo(view[h])
    <3>1. Call(o, h, "partial", 1..view[h].revealed, "network") /\ HasHistory(view[h])
      BY <1>11, <2>2 DEF StartSync, PartialWillDo
    <3> QED BY <3>1, <2>1, <1>3
  <2>3. CASE ~(~rescan /\ PartialWillDo(view[h]))
    <3>1. Call(o, h, "full", Coins, "network") /\ "full" \notin Builds \cup {"partial", "broadcast"}
      BY <1>11, <2>3 DEF StartSync, Builds
    <3> QED BY <3>1, <2>1, <1>3
  <2> QED BY <2>2, <2>3
<1> QED BY <1>5, <1>6, <1>7, <1>8, <1>9, <1>10, <1>11 DEF Request

\* The history of calls of h that are over: what is built is of no wallet yet.
LEMMA ScannedAccount ==
    ASSUME Inv, ScannedFirst, NEW h \in Handles, NEW ended, NEW done, NEW written \in BOOLEAN,
           Account(h, ended, done, written),
           \A u \in done : u \in Ops /\ op[u].step # "ok"
                            /\ (op[u].kind \in Builds => Grounded(view[h], known[h])),
           UNCHANGED view,
           record' = IF written THEN view[h] ELSE record,
           ~written /\ h \notin behind /\ done # {} => Loaded = view[h] \/ \A u \in done : op[u].kind \notin Builds
    PROVE  /\ \A g \in Handles : Grounds(view[g], known[g])'
           /\ Grounds(Loaded, acked)'
           /\ Loaded' \in {Loaded, view[h]}
           /\ \A g \in Handles : Grounded(view[g], known[g]) => Grounded(view[g], known[g])'
<1> DEFINE new == {u \in done : op[u].kind \in Builds}
<1>1. /\ known'[h].built = known[h].built \cup new
      /\ \A g \in Handles \ {h} : known'[g] = known[g]
      /\ acked' = IF written THEN known'[h] ELSE IF h \in behind THEN acked ELSE Promised(acked, done, done)
      /\ Promised(acked, done, done).built = acked.built \cup new
  BY DEF Account, Promised, Inv, TypeInv, TypeOK
<1>2. \A u \in new : u \notin Loaded.txs /\ \A g \in Handles : u \notin view[g].txs
  BY DEF ScannedFirst, Built
<1>3. new # {} => Grounded(view[h], known[h])
  OBVIOUS
<1> HIDE DEF new
<1>4. \A g \in Handles : Grounded(view[g], known[g]) => Grounded(view[g], known[g])'
  BY <1>1, <1>2 DEF Grounded
<1>5. \A g \in Handles : Grounds(view[g], known[g])'
  <2> SUFFICES ASSUME NEW g \in Handles, HasHistory(view[g]) \/ known'[g].built # {}
               PROVE  Grounded(view[g], known[g])'
    BY DEF Grounds, HasHistory
  <2>1. Grounded(view[g], known[g])
    BY <1>1, <1>3 DEF ScannedFirst, Grounds
  <2> QED BY <2>1, <1>4
<1>6. CASE written
  <2>1. Loaded' = view[h] /\ acked' = known'[h]
    BY <1>1, <1>6, ViewType, NoneAssumption DEF Loaded
  <2> QED BY <2>1, <1>4, <1>5 DEF Grounds, Grounded, HasHistory
<1>7. CASE ~written
  <2>1. Loaded' = Loaded
    BY <1>7 DEF Loaded
  <2>2. CASE acked' = acked
    BY <2>1, <2>2, <1>4, <1>5 DEF ScannedFirst, Grounds, Grounded, HasHistory
  <2>3. CASE acked' # acked
    <3>1. acked'.built = acked.built \cup new /\ h \notin behind
      BY <1>1, <1>7, <2>3
    <3>2. HasHistory(Loaded) \/ acked'.built # {} => Grounded(Loaded, acked)
      <4>1. CASE HasHistory(Loaded) \/ acked.built # {}
        BY <4>1 DEF ScannedFirst, Grounds
      <4>2. CASE ~HasHistory(Loaded) /\ acked.built = {} /\ new # {}
        <5>1. Loaded = view[h]
          BY <3>1, <4>2, <1>7 DEF new
        <5> QED BY <5>1, <4>2, <1>3 DEF Grounded, HasHistory
      <4> QED BY <4>1, <4>2, <3>1
    <3>3. Grounded(Loaded, acked) => Grounded(Loaded, acked)'
      BY <2>1, <3>1, <1>2 DEF Grounded
    <3>4. Grounds(Loaded, acked)'
      BY <2>1, <3>2, <3>3 DEF Grounds, HasHistory
    <3> QED BY <2>1, <3>4, <1>4, <1>5
  <2> QED BY <2>2, <2>3
<1> QED BY <1>6, <1>7

LEMMA WrittenScanned ==
    ASSUME Inv, ScannedFirst, NEW o \in Ops, NEW saved \in BOOLEAN, Written(o, saved)
    PROVE  ScannedFirst'
<1> DEFINE h == op[o].on
           answer == AfterWrite(op[o].kind, saved)
           done == IF answer = "ok" THEN {o} ELSE {}
           written == staged[h] /\ saved
<1>1. /\ op[o].step = "persisting" /\ h \in Handles /\ Active(h)
      /\ op \in [Ops -> CallType] /\ op' = [op EXCEPT ![o].step = answer]
      /\ Persist(h, saved) /\ UNCHANGED <<status, view>> /\ accepted' = accepted
      /\ Account(h, {o}, done, written)
  BY DEF Written, Inv, TypeInv, CallsWellFormed, WellFormed, UnderWay, Active, Alive, ledger
<1>2. answer \in {"ok", "unsaved", "failed"} /\ (answer = "ok" => saved \/ op[o].kind = "address")
  BY DEF AfterWrite
<1>3. /\ op'[o].kind = op[o].kind /\ op'[o].on = h /\ op'[o].arg = op[o].arg /\ op'[o].step = answer
      /\ \A u \in Ops \ {o} : op'[u] = op[u]
  BY <1>1 DEF CallType
<1>4. /\ record' = IF written THEN view[h] ELSE record
      /\ saved /\ ~staged[h] /\ h \notin behind => Loaded = view[h]
  BY <1>1, PersistLeavesView
<1>5. /\ \A g \in Handles : Grounds(view[g], known[g])'
      /\ Grounds(Loaded, acked)'
      /\ Loaded' \in {Loaded, view[h]}
      /\ \A g \in Handles : Grounded(view[g], known[g]) => Grounded(view[g], known[g])'
  <2>1. \A u \in done : u \in Ops /\ op[u].step # "ok"
                        /\ (op[u].kind \in Builds => Grounded(view[h], known[h]))
    BY <1>1 DEF ScannedFirst
  <2>2. ~written /\ h \notin behind /\ done # {}
            => Loaded = view[h] \/ \A u \in done : op[u].kind \notin Builds
    BY <1>2, <1>4 DEF Builds
  <2>3. written \in BOOLEAN
    BY <1>1 DEF Inv, TypeInv, TypeOK
  <2> HIDE DEF done, written
  <2> QED BY <1>1, <1>4, <2>1, <2>2, <2>3, ScannedAccount
<1>6. \A t \in Ops : op[t].step = "ok" => op'[t].step = "ok"
  BY <1>1, <1>3
<1>7. \A u \in Ops : op[u].kind # "none" => op[u].on \in Handles
  BY DEF Inv, TypeInv, CallsWellFormed, WellFormed
<1>8. \A u \in Ops : op'[u].kind = "partial" \/ (op'[u].kind \in Builds /\ op'[u].step = "persisting")
            => Grounded(view[op[u].on], known[op[u].on])'
  <2> SUFFICES ASSUME NEW u \in Ops,
                      op'[u].kind = "partial" \/ (op'[u].kind \in Builds /\ op'[u].step = "persisting")
               PROVE  Grounded(view[op[u].on], known[op[u].on])'
    OBVIOUS
  <2>1. op'[u].on = op[u].on /\ op[u].on \in Handles /\ Grounded(view[op[u].on], known[op[u].on])
    BY <1>1, <1>2, <1>3, <1>7 DEF ScannedFirst, Builds
  <2>2. Grounded(view'[op[u].on], known'[op[u].on])
    BY <2>1, <1>5 DEF Grounded
  <2> QED BY <2>1, <2>2 DEF Grounded
<1>9. Built(accepted)' /\ Built(Loaded.txs)' /\ \A g \in Handles : Built(view[g].txs)'
  BY <1>1, <1>5, <1>6 DEF ScannedFirst, Built
<1>10. \A u \in Ops : op'[u].kind = "broadcast" => Built({op[u].arg})'
  BY <1>3, <1>6 DEF ScannedFirst, Built
<1>11. \A u \in Ops : op'[u].kind # "none" => status'[op'[u].on] \in {"open", "freed", "gone"}
  BY <1>1, <1>3 DEF ScannedFirst
<1> QED BY <1>5, <1>8, <1>9, <1>10, <1>11 DEF ScannedFirst

LEMMA AnswerScanned ==
    ASSUME Foreign = {}, Inv, ScannedFirst, NEW o \in Ops, Answer(o)
    PROVE  ScannedFirst'
<1> DEFINE h == op[o].on
<1>1. op[o] \in CallType /\ WellFormed(op[o]) /\ op \in [Ops -> CallType]
  BY DEF Inv, TypeInv, CallsWellFormed
<1>2. op[o].step \in UnderWay => h \in Handles /\ Serving(h)
  BY DEF Inv, TypeInv, CallsWellFormed, WellFormed, UnderWay, Serving
<1>3. ASSUME NEW answer \in {"accepted", "failed"},
             op[o].kind \in {"broadcast", "full", "partial"}, op[o].step = "network",
             op' = [op EXCEPT ![o].step = answer],
             accepted' \subseteq accepted \cup {t \in Ops : op[o].kind = "broadcast" /\ t = op[o].arg},
             UNCHANGED <<status, record, view, answers>>
      PROVE  ScannedFirst'
  <2> DEFINE c == [op[o] EXCEPT !.step = answer]
  <2>1. /\ op' = [op EXCEPT ![o] = c] /\ c.on = h /\ c.kind = op[o].kind /\ c.arg = op[o].arg
        /\ c.step \in UnderWay \cup {"failed"}
    BY <1>1, <1>3 DEF CallType, UnderWay
  <2>2. h \in Handles /\ Serving(h)
    BY <1>2, <1>3 DEF UnderWay
  <2>3. c.kind \in Builds \cup {"partial"} => Grounded(view[h], known[h])
    BY <1>3, <2>1 DEF ScannedFirst, Builds
  <2>4. Built(accepted') /\ (c.kind = "broadcast" => Built({c.arg}))
    BY <1>3, <2>1 DEF ScannedFirst, Built
  <2> HIDE DEF c, h
  <2> QED BY <2>1, <2>2, <2>3, <2>4, <1>3, ScannedMove
<1>4. CASE \E saved \in BOOLEAN : Written(o, saved)
  BY <1>4, WrittenScanned
<1>5. ASSUME NEW answer \in {"accepted", "failed"}, NetworkAnswers(o, answer) PROVE ScannedFirst'
  <2>1. op[o].kind = "broadcast" /\ op[o].arg \in Ops
    BY <1>1, <1>5 DEF NetworkAnswers, WellFormed, Txs
  <2>2. accepted' \subseteq accepted \cup {t \in Ops : op[o].kind = "broadcast" /\ t = op[o].arg}
    BY <1>5, <2>1 DEF NetworkAnswers, Accept
  <2> QED BY <1>3, <1>5, <2>2 DEF NetworkAnswers, handles
<1>6. CASE SyncFails(o)
  BY <1>3, <1>6 DEF SyncFails, handles, ledger
<1>7. CASE RecordSent(o)
  <2> DEFINE t == op[o].arg
             v == [view[h] EXCEPT !.txs = @ \cup {t}]
             c == [op[o] EXCEPT !.step = "persisting"]
  <2>1. op[o].step = "accepted" /\ op[o].kind = "broadcast" /\ t \in Ops
    BY <1>1, <1>7 DEF RecordSent, WellFormed, Txs
  <2>2. h \in Handles /\ Serving(h) /\ Built({t})
    BY <1>2, <2>1 DEF ScannedFirst, UnderWay
  <2>3. v \in View /\ v.scanned = view[h].scanned /\ v.txs = view[h].txs \cup {t}
    BY <2>1, <2>2, ViewType DEF View, Txs
  <2>4. /\ op' = [op EXCEPT ![o] = c] /\ c.on = h /\ c.step \in UnderWay
        /\ c.kind = "broadcast" /\ c.arg = t
        /\ view' = [view EXCEPT ![h] = v] /\ UNCHANGED <<status, record, answers, accepted>>
    BY <1>1, <1>7, <2>1 DEF RecordSent, Sent, Change, CallType, UnderWay, ledger
  <2> HIDE DEF v, c, h, t
  <2>5. Grounded(v, known[h])
    <3>1. CASE t \in known[h].built
      BY <2>2, <2>3, <3>1 DEF ScannedFirst, Grounds, Grounded
    <3>2. CASE t \notin known[h].built
      BY <2>1, <2>3, <3>2 DEF Grounded
    <3> QED BY <3>1, <3>2
  <2>6. Built(v.txs) /\ Built(accepted)
    BY <2>2, <2>3 DEF ScannedFirst, Built
  <2>7. c.kind \notin Builds \cup {"partial"} /\ Grounds(v, known[h])
    BY <2>4, <2>5 DEF Builds, Grounds
  <2> QED BY <2>1, <2>2, <2>3, <2>4, <2>6, <2>7, ScannedStep
<1>8. CASE ApplyUpdate(o)
  <2> DEFINE c == [op[o] EXCEPT !.step = "persisting"]
  <2>1. /\ op[o].step = "network" /\ op[o].kind \in {"full", "partial"}
        /\ UNCHANGED <<record, answers, accepted>>
    BY <1>8 DEF ApplyUpdate, ledger
  <2>2. h \in Handles /\ Serving(h)
    BY <1>2, <2>1 DEF UnderWay
  <2>3. PICK v : /\ Change(o, h, v) /\ v.scanned = (view[h].scanned \/ op[o].kind = "full")
                 /\ view[h].txs \subseteq v.txs /\ v.txs \subseteq view[h].txs \cup accepted
    <3> DEFINE found == onchain \cap op[o].arg
               seen == {t \in accepted : t \in Foreign \/ Spends({t}) \cap (view[h].coins \cup found) # {}}
    <3>1. PICK r : Change(o, h, [coins |-> view[h].coins \cup found, txs |-> view[h].txs \cup seen,
                                 frozen |-> view[h].frozen, revealed |-> r,
                                 scanned |-> view[h].scanned \/ op[o].kind = "full"])
      BY <1>8 DEF ApplyUpdate
    <3>2. seen \subseteq accepted
      OBVIOUS
    <3> HIDE DEF found, seen
    <3> QED BY <3>1, <3>2
  <2>4. Grounded(v, known[h])
    BY <2>1, <2>3 DEF ScannedFirst, Grounded
  <2>5. view' = [view EXCEPT ![h] = v] /\ UNCHANGED status
    BY <2>3 DEF Change
  <2>6. v \in View
    <3>1. Inv'
      BY <1>8, ApplyUpdateInv
    <3>2. view'[h] = v
      BY <2>2, <2>5 DEF Inv, TypeInv, TypeOK
    <3> QED BY <3>1, <3>2, <2>2 DEF Inv, TypeInv, TypeOK
  <2>7. /\ op' = [op EXCEPT ![o] = c] /\ c.on = h /\ c.step \in UnderWay /\ c.kind = op[o].kind
    BY <1>1, <1>8 DEF ApplyUpdate, CallType, UnderWay
  <2>8. Built(v.txs) /\ Built(accepted)
    BY <2>2, <2>3 DEF ScannedFirst, Built
  <2> HIDE DEF c, h
  <2>9. Grounds(v, known[h]) /\ c.kind # "broadcast"
    BY <2>1, <2>4, <2>7 DEF Grounds
  <2> QED BY <2>1, <2>2, <2>3, <2>4, <2>5, <2>6, <2>7, <2>8, <2>9, ScannedStep
<1> HIDE DEF h
<1> QED BY <1>4, <1>5, <1>6, <1>7, <1>8 DEF Answer

LEMMA HandleScanned ==
    ASSUME Inv, ScannedFirst, NEW h \in Handles, NEW saved \in BOOLEAN,
           Open(h) \/ Opened(h, saved) \/ Free(h) \/ Leave(h)
    PROVE  ScannedFirst'
<1>1. /\ op \in [Ops -> CallType] /\ view \in [Handles -> View] /\ staged \in [Handles -> BOOLEAN]
      /\ status \in [Handles -> {"new", "gone"} \cup Alive] /\ known \in [Handles -> Promises]
  BY DEF Inv, TypeInv, CallsWellFormed, TypeOK
<1>2. \A u \in Ops : op[u].kind # "none" => op[u].on \in Handles
  BY DEF Inv, TypeInv, CallsWellFormed, WellFormed
<1>3. CASE Open(h)
  <2>1. /\ status[h] = "new" /\ view' = [view EXCEPT ![h] = Loaded] /\ known' = [known EXCEPT ![h] = acked]
        /\ UNCHANGED <<record, op, acked, accepted>>
        /\ \A g \in Handles \ {h} : status'[g] = status[g]
    BY <1>1, <1>3 DEF Open, ledger
  <2>2. /\ Loaded' = Loaded /\ view'[h] = Loaded /\ \A g \in Handles \ {h} : view'[g] = view[g]
        /\ known'[h] = acked /\ \A g \in Handles \ {h} : known'[g] = known[g]
    BY <1>1, <2>1 DEF Loaded
  <2>3. \A u \in Ops : op[u].kind # "none" => op[u].on \in Handles \ {h}
    BY <1>2, <2>1 DEF ScannedFirst
  <2>4. \A g \in Handles : Grounds(view'[g], known'[g])
    BY <2>2 DEF ScannedFirst
  <2>5. \A g \in Handles : Grounds(view[g], known[g])'
    BY <2>4 DEF Grounds, Grounded
  <2>6. Grounds(Loaded, acked)'
    BY <2>1, <2>2 DEF ScannedFirst, Grounds, Grounded
  <2>7. \A u \in Ops : op'[u].kind = "partial" \/ (op'[u].kind \in Builds /\ op'[u].step = "persisting")
            => Grounded(view[op[u].on], known[op[u].on])'
    BY <2>1, <2>2, <2>3 DEF ScannedFirst, Grounded, Builds
  <2>8. Built(accepted)' /\ Built(Loaded.txs)' /\ \A g \in Handles : Built(view[g].txs)'
    BY <2>1, <2>2 DEF ScannedFirst, Built
  <2>9. \A u \in Ops : op'[u].kind = "broadcast" => Built({op[u].arg})'
    BY <2>1 DEF ScannedFirst, Built
  <2>10. \A u \in Ops : op'[u].kind # "none" => status'[op'[u].on] \in {"open", "freed", "gone"}
    BY <2>1, <2>3 DEF ScannedFirst
  <2> QED BY <2>5, <2>6, <2>7, <2>8, <2>9, <2>10 DEF ScannedFirst
<1>4. ASSUME NEW ended, NEW written \in BOOLEAN, Account(h, ended, {}, written),
             UNCHANGED view, record' = IF written THEN view[h] ELSE record, accepted' = accepted,
             \A u \in Ops : /\ op'[u].kind = op[u].kind /\ op'[u].on = op[u].on /\ op'[u].arg = op[u].arg
                            /\ op'[u].step = op[u].step \/ (op[u].step # "ok" /\ op'[u].step = "lost"),
             \A u \in Ops : op[u].kind # "none" => status'[op[u].on] \in {"open", "freed", "gone"}
      PROVE  ScannedFirst'
  <2>1. /\ \A g \in Handles : Grounds(view[g], known[g])'
        /\ Grounds(Loaded, acked)'
        /\ Loaded' \in {Loaded, view[h]}
        /\ \A g \in Handles : Grounded(view[g], known[g]) => Grounded(view[g], known[g])'
    BY <1>4, ScannedAccount
  <2>2. \A t \in Ops : op[t].step = "ok" => op'[t].step = "ok"
    BY <1>4
  <2>3. \A u \in Ops : op'[u].kind = "partial" \/ (op'[u].kind \in Builds /\ op'[u].step = "persisting")
            => Grounded(view[op[u].on], known[op[u].on])'
    <3> SUFFICES ASSUME NEW u \in Ops,
                        op'[u].kind = "partial" \/ (op'[u].kind \in Builds /\ op'[u].step = "persisting")
                 PROVE  Grounded(view[op[u].on], known[op[u].on])'
      OBVIOUS
    <3>1. op'[u].on = op[u].on /\ op[u].on \in Handles /\ Grounded(view[op[u].on], known[op[u].on])
      BY <1>2, <1>4 DEF ScannedFirst, Builds
    <3>2. Grounded(view'[op[u].on], known'[op[u].on])
      BY <2>1, <3>1 DEF Grounded
    <3> QED BY <3>1, <3>2 DEF Grounded
  <2>4. Built(accepted)' /\ Built(Loaded.txs)' /\ \A g \in Handles : Built(view[g].txs)'
    BY <1>4, <2>1, <2>2 DEF ScannedFirst, Built
  <2>5. \A u \in Ops : op'[u].kind = "broadcast" => Built({op[u].arg})'
    BY <1>4, <2>2 DEF ScannedFirst, Built
  <2> QED BY <1>4, <2>1, <2>3, <2>4, <2>5 DEF ScannedFirst
<1>5. CASE Opened(h, saved)
  <2>1. /\ status[h] = "opening" /\ Active(h) /\ Persist(h, saved) /\ UNCHANGED <<view, op>>
        /\ Account(h, {}, {}, staged[h] /\ saved) /\ accepted' = accepted
        /\ \A g \in Handles \ {h} : status'[g] = status[g]
    BY <1>1, <1>5 DEF Opened, Active, Alive, ledger
  <2>2. record' = IF staged[h] /\ saved THEN view[h] ELSE record
    BY <2>1, PersistLeavesView
  <2>3. (staged[h] /\ saved) \in BOOLEAN
    BY <1>1
  <2>4. \A u \in Ops : op[u].kind # "none" => op[u].on \in Handles \ {h}
    BY <1>2, <2>1 DEF ScannedFirst
  <2>5. \A u \in Ops : op[u].kind # "none" => status'[op[u].on] \in {"open", "freed", "gone"}
    BY <2>1, <2>4 DEF ScannedFirst
  <2> QED BY <2>1, <2>2, <2>3, <2>5, <1>4
<1>6. CASE Free(h)
  <2>1. /\ status[h] = "open" /\ status' = [status EXCEPT ![h] = "freed"]
        /\ UNCHANGED <<record, view, op, known, acked, accepted>>
    BY <1>6 DEF Free, answers, ledger
  <2>2. \A u \in Ops : op[u].kind # "none" => status'[op[u].on] \in {"open", "freed", "gone"}
    BY <1>1, <1>2, <2>1 DEF ScannedFirst
  <2> QED BY <2>1, <2>2 DEF ScannedFirst, Grounds, Grounded, HasHistory, Built, Loaded
<1>7. CASE Leave(h)
  <2>1. PICK landed \in BOOLEAN : /\ record' = IF landed THEN view[h] ELSE record
                                  /\ Account(h, Running(h), {}, landed)
    BY <1>7 DEF Leave
  <2>2. /\ UNCHANGED view /\ status' = [status EXCEPT ![h] = "gone"] /\ accepted' = accepted
        /\ op' = [o \in Ops |-> IF o \in Running(h) THEN [op[o] EXCEPT !.step = "lost"] ELSE op[o]]
    BY <1>7 DEF Leave, ledger
  <2>3. \A u \in Ops : /\ op'[u].kind = op[u].kind /\ op'[u].on = op[u].on /\ op'[u].arg = op[u].arg
                       /\ op'[u].step = op[u].step \/ (op[u].step # "ok" /\ op'[u].step = "lost")
    BY <1>1, <2>2 DEF Running, Answers, CallType
  <2>4. \A u \in Ops : op[u].kind # "none" => status'[op[u].on] \in {"open", "freed", "gone"}
    BY <1>1, <1>2, <2>2 DEF ScannedFirst
  <2> QED BY <2>1, <2>2, <2>3, <2>4, <1>4
<1> QED BY <1>3, <1>5, <1>6, <1>7

LEMMA InitScanned == Init => ScannedFirst
<1> SUFFICES ASSUME Init PROVE ScannedFirst
  OBVIOUS
<1>1. \A o \in Ops : op[o].kind = "none"
  BY DEF Init, NoOp
<1>2. /\ \A h \in Handles : view[h] = Fresh /\ known[h] = Nothing
      /\ acked = Nothing /\ accepted = {}
  BY DEF Init
<1>3. ~HasHistory(Fresh) /\ Fresh.txs = {} /\ Nothing.built = {}
  BY DEF HasHistory, Fresh, Nothing
<1>4. Loaded = Fresh \/ (Loaded.scanned /\ Loaded.txs = {})
  BY DEF Init, Loaded, Synced, Fresh
<1> QED BY <1>1, <1>2, <1>3, <1>4 DEF ScannedFirst, Grounds, Grounded, Built, Builds

\* Without transactions made elsewhere a wallet's first pass is a full scan: a
\* partial pass runs only on a wallet a full scan has been applied to, in this
\* open or in an earlier one whose write it read, or on one that has sent what
\* another handle on the same record built.
THEOREM FirstPassFull ==
    ASSUME Foreign = {}
    PROVE  Spec => []FirstPassIsFull
<1>1. Init => ScannedFirst
  BY InitScanned
<1>2. Inv /\ ScannedFirst /\ [Next]_vars => ScannedFirst'
  <2> SUFFICES ASSUME Inv, ScannedFirst, [Next]_vars PROVE ScannedFirst'
    OBVIOUS
  <2>1. ASSUME UNCHANGED <<record, status, view, op, answers, accepted>> PROVE ScannedFirst'
    BY <2>1 DEF ScannedFirst, Loaded, Grounds, Grounded, HasHistory, Built, answers
  <2>2. ASSUME NEW i \in Coins, Receive(i) PROVE ScannedFirst'
    BY <2>1, <2>2 DEF Receive, handles
  <2>3. CASE UNCHANGED vars
    BY <2>1, <2>3 DEF vars, handles, ledger
  <2>4. ASSUME NEW h \in Handles, Open(h) \/ Free(h) \/ Leave(h) PROVE ScannedFirst'
    BY <2>4, HandleScanned
  <2>5. ASSUME NEW h \in Handles, NEW saved \in BOOLEAN, Opened(h, saved) PROVE ScannedFirst'
    BY <2>5, HandleScanned
  <2> QED BY <2>2, <2>3, <2>4, <2>5, RequestScanned, AnswerScanned DEF Next
<1>3. Inv /\ ScannedFirst => FirstPassIsFull
  <2> SUFFICES ASSUME Inv, ScannedFirst, NEW o \in Ops, op[o].kind = "partial"
               PROVE  LET h == op[o].on IN
                      h # None /\ (view[h].scanned \/ \E t \in view[h].txs \cap Ops : t \notin known[h].built)
    BY DEF FirstPassIsFull
  <2> QED BY NoneAssumption DEF ScannedFirst, Grounded, Inv, TypeInv, CallsWellFormed, WellFormed
<1> QED BY <1>1, <1>2, <1>3, Invariance, PTL DEF Spec
=============================================================================
