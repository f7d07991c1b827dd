------------------------ MODULE WalletSessionProofs ------------------------
(***************************************************************************)
(* Theorems about WalletSession, for every set of keys, networks, presses  *)
(* and jobs.  The inductive invariant is layered: what the calls and jobs  *)
(* know of their wallet (Known), on which the types rest; then the turns;  *)
(* then the attempt numbers, and the order they give the queue.  The last  *)
(* two theorems say when the two properties that fail hold.                *)
(***************************************************************************)
EXTENDS WalletSession, TLAPS

\* A call in one of these states has passed its commit.
Committed == {"queued", "done", "superseded", "failed"} \cup TurnStates
\* In one of these a call acts for a wallet it knows.
Acting == {"loading", "opening", "resetting", "addressing", "queued"} \cup TurnStates

\* c has committed and its wallet is known.
Owns(c) == pc[c] \in Committed /\ call[c].wallet \in Wallets

Known ==
    /\ \A c \in Calls : pc[c] # "idle" => config \in Networks
    /\ \A c \in Calls : pc[c] \in Acting => call[c].wallet \in Wallets
    /\ handle # None => Owns(handle)
    /\ \A f \in Forgets : forget[f].state \in {"removing", "deleting"}
                              => forget[f].wallet \in Wallets
    /\ \A j \in Jobs : job[j].state = "running" => job[j].on \in Calls /\ Owns(job[j].on)

TypeInv == TypeOK /\ Known /\ TurnsAreExclusive

-----------------------------------------------------------------------------
LEMMA PairIsWallet ==
    ASSUME NEW w \in Wallets, NEW n \in Networks
    PROVE  /\ <<w[1], n>> \in Wallets
           /\ w[1] \in Keys
           /\ w[2] \in Networks
  BY DEF Wallets

LEMMA InitTypeInv == Init => TypeInv
<1> SUFFICES ASSUME Init PROVE TypeInv
  OBVIOUS
<1> USE NoneAssumption DEF Init
<1>1. pc \in [Calls -> PcStates]
  BY DEF PcStates
<1>2. call \in [Calls -> CallRecord]
  BY DEF CallRecord, NoCall, Kinds
<1>3. job \in [Jobs -> [state : {"idle", "running", "over"}, kind : JobKinds,
                       on : Calls \cup {None}]]
  BY JobKindsAssumption DEF NoJob
<1>4. forget \in [Forgets -> [state : {"idle", "removing", "deleting", "clearing", "saving",
                                      "refused"} \cup Settled,
                             wallet : Wallets \cup {None}]]
  BY DEF NoForget
<1>5. queue \in Seq(Calls) /\ attempts \in Nat
  OBVIOUS
<1>6. TypeOK
  BY <1>1, <1>2, <1>3, <1>4, <1>5 DEF TypeOK
<1>7. Known
  BY DEF Known, Acting, TurnStates, NoJob, NoForget
<1>8. TurnsAreExclusive
  BY DEF TurnsAreExclusive, TurnStates
<1> QED BY <1>6, <1>7, <1>8 DEF TypeInv

\* The two updates of a call's record keep it one.
LEMMA RecordUpdates ==
    ASSUME NEW data \in CallRecord, NEW w \in Wallets
    PROVE  /\ LET new == [data EXCEPT !.wallet = w] IN new \in CallRecord /\ new.wallet = w
           /\ LET new == [data EXCEPT !.reset = FALSE, !.wallet = w]
              IN new \in CallRecord /\ new.wallet = w
  BY Zenon DEF CallRecord

\* An open that got its wallet has nothing left to reset.
LEMMA CreatedRecord ==
    ASSUME TypeOK, NEW c \in Calls, HandleCreated(c)
    PROVE  /\ call' \in [Calls -> CallRecord]
           /\ pc' \in [Calls -> PcStates]
           /\ pc[c] = "opening" /\ pc'[c] = "addressing"
           /\ call'[c].wallet = call[c].wallet
           /\ call'[c].attempt = call[c].attempt
           /\ call'[c].server = call[c].server
           /\ \A d \in Calls : d # c => call'[d] = call[d] /\ pc'[d] = pc[d]
<1> DEFINE new == [call[c] EXCEPT !.reset = FALSE]
<1>1. call[c] \in CallRecord
  BY DEF TypeOK
<1>2. /\ new \in CallRecord
      /\ new.wallet = call[c].wallet
      /\ new.attempt = call[c].attempt
      /\ new.server = call[c].server
  BY <1>1, Zenon DEF CallRecord
<1>3. call' = [call EXCEPT ![c] = new] /\ pc' = [pc EXCEPT ![c] = "addressing"] /\ pc[c] = "opening"
  BY DEF HandleCreated
<1> HIDE DEF new
<1> QED
  BY <1>2, <1>3 DEF TypeOK, PcStates

\* What install's first step makes of a call's record.
LEMMA InstallRecord ==
    ASSUME TypeOK, NEW c \in Calls, NEW w \in Wallets, NEW data \in CallRecord,
           BeginInstall(c, w, data)
    PROVE  /\ call' \in [Calls -> CallRecord]
           /\ pc' \in [Calls -> PcStates]
           /\ attempts' \in Nat
           /\ call'[c].wallet = w
           /\ pc'[c] = "opening"
           /\ \A d \in Calls : d # c => call'[d] = call[d] /\ pc'[d] = pc[d]
<1>2. pc' = [pc EXCEPT ![c] = "opening"] /\ "opening" \in PcStates
  BY DEF BeginInstall, PcStates
<1> DEFINE new == [data EXCEPT !.wallet = w, !.attempt = attempts + 1, !.server = config]
<1>3. new \in CallRecord /\ new.wallet = w
  <2> DEFINE n == attempts + 1
  <2>1. n \in Nat /\ config \in Networks \cup {None}
    BY DEF TypeOK
  <2> HIDE DEF n
  <2>2. LET r == [data EXCEPT !.wallet = w, !.attempt = n, !.server = config]
        IN r \in CallRecord /\ r.wallet = w
    BY <2>1, Zenon DEF CallRecord
  <2> QED BY <2>2 DEF n
<1>4. call' = [call EXCEPT ![c] = new] /\ attempts' = attempts + 1
  BY DEF BeginInstall
<1> HIDE DEF new
<1> QED
  BY <1>2, <1>3, <1>4 DEF TypeOK

\* The ways an opening call gives up leave everything else alone.
LEMMA Refusals ==
    ASSUME NEW c \in Calls,
           RecordRefused(c) \/ SecretRefused(c) \/ OpenRefused(c) \/ ResetRefused(c)
    PROVE  /\ Leave(c, "failed")
           /\ pc[c] \in {"reading", "loading", "opening", "resetting"}
  BY DEF RecordRefused, SecretRefused, OpenRefused, ResetRefused

\* What an action that changes a call's record makes of it.
LEMMA CallRecords ==
    ASSUME TypeInv, NEW c \in Calls,
           RecordRead(c) \/ SecretLoaded(c) \/ StartReset(c) \/ HistoryReset(c)
    PROVE  /\ call' \in [Calls -> CallRecord]
           /\ pc' \in [Calls -> PcStates]
           /\ attempts' \in Nat
           /\ call'[c].wallet \in Wallets
           /\ pc'[c] \in {"loading", "opening", "resetting"}
           /\ \A d \in Calls : d # c => call'[d] = call[d] /\ pc'[d] = pc[d]
<1>0. TypeOK /\ call[c] \in CallRecord
  BY DEF TypeInv, TypeOK
<1>1. CASE RecordRead(c)
  <2> DEFINE new == [call[c] EXCEPT !.wallet = record]
  <2>1. record \in Wallets
    BY <1>0, <1>1 DEF RecordRead, TypeOK
  <2>2. new \in CallRecord /\ new.wallet = record
    BY <1>0, <2>1, RecordUpdates
  <2>3. call' = [call EXCEPT ![c] = new]
    BY <1>1 DEF RecordRead
  <2> HIDE DEF new
  <2> QED BY <1>0, <1>1, <2>1, <2>2, <2>3 DEF RecordRead, TypeOK, PcStates
<1>2. CASE SecretLoaded(c)
  <2>1. BeginInstall(c, call[c].wallet, call[c])
    BY <1>2 DEF SecretLoaded, WalletOf
  <2>2. call[c].wallet \in Wallets
    BY <1>2, <1>0 DEF SecretLoaded, TypeOK, WalletOf
  <2> QED BY <1>0, <2>1, <2>2, InstallRecord
<1>3. CASE StartReset(c)
  <2> DEFINE w == IF call[c].kind = "unlock" THEN call[c].wallet ELSE <<call[c].wallet[1], config>>
             new == [call[c] EXCEPT !.reset = FALSE, !.wallet = w]
  <2>1. call[c].wallet \in Wallets /\ config \in Networks
    BY <1>3 DEF StartReset, TypeInv, Known, Acting
  <2>2. w \in Wallets
    BY <2>1, PairIsWallet
  <2>3. call' = [call EXCEPT ![c] = new]
    BY <1>3 DEF StartReset
  <2> HIDE DEF w
  <2>4. new \in CallRecord /\ new.wallet = w
    BY <1>0, <2>2, RecordUpdates
  <2> HIDE DEF new
  <2> QED BY <1>0, <1>3, <2>2, <2>3, <2>4 DEF StartReset, TypeOK, PcStates
<1>4. CASE HistoryReset(c)
  <2>1. call[c].wallet \in Wallets /\ config \in Networks
    BY <1>4 DEF HistoryReset, TypeInv, Known, Acting
  <2>2. PICK w \in Wallets : BeginInstall(c, w, call[c])
    BY <1>4, <2>1, PairIsWallet DEF HistoryReset, WalletOf
  <2> QED BY <1>0, <2>2, InstallRecord
<1> QED BY <1>1, <1>2, <1>3, <1>4

\* As CallRecords, for the presses that open.
LEMMA PressRecords ==
    ASSUME TypeInv, NEW c \in Calls,
           \/ \E k \in Keys, remember, reset \in BOOLEAN : Enter(c, k, remember, reset)
           \/ \E reset \in BOOLEAN : Unlock(c, reset)
    PROVE  /\ call' \in [Calls -> CallRecord]
           /\ pc' \in [Calls -> PcStates]
           /\ attempts' \in Nat
           /\ config \in Networks
           /\ pc[c] = "idle"
           /\ \/ pc'[c] = "opening" /\ call'[c].wallet \in Wallets
              \/ pc'[c] = "reading"
           /\ \A d \in Calls : d # c => call'[d] = call[d] /\ pc'[d] = pc[d]
           /\ UNCHANGED <<config, onSetup, queue, handle, shown, pending, live,
                          remembered, job, forget, durable>>
<1>0. TypeOK
  BY DEF TypeInv
<1>1. ASSUME NEW k \in Keys, NEW remember \in BOOLEAN, NEW reset \in BOOLEAN,
             Enter(c, k, remember, reset)
      PROVE  /\ call' \in [Calls -> CallRecord]
             /\ pc' \in [Calls -> PcStates]
             /\ attempts' \in Nat
             /\ config \in Networks
             /\ pc'[c] = "opening" /\ call'[c].wallet \in Wallets
             /\ \A d \in Calls : d # c => call'[d] = call[d] /\ pc'[d] = pc[d]
  <2> DEFINE data == [NoCall EXCEPT !.remember = remember, !.reset = reset]
  <2>1. <<k, config>> \in Wallets /\ config \in Networks
    BY <1>0, <1>1 DEF Enter, RequireConfig, Wallets, TypeOK
  <2>2. data \in CallRecord
    BY DEF NoCall, CallRecord, Kinds
  <2>3. BeginInstall(c, <<k, config>>, data)
    BY <1>1 DEF Enter
  <2> HIDE DEF data
  <2> QED BY <1>0, <2>1, <2>2, <2>3, InstallRecord
<1>2. ASSUME NEW reset \in BOOLEAN, Unlock(c, reset)
      PROVE  /\ call' \in [Calls -> CallRecord]
             /\ pc' \in [Calls -> PcStates]
             /\ attempts' \in Nat
             /\ config \in Networks
             /\ pc'[c] = "reading"
             /\ \A d \in Calls : d # c => call'[d] = call[d] /\ pc'[d] = pc[d]
  <2> DEFINE data == [NoCall EXCEPT !.kind = "unlock", !.reset = reset]
  <2>1. data \in CallRecord
    BY DEF NoCall, CallRecord, Kinds
  <2>2. call' = [call EXCEPT ![c] = data]
    BY <1>2 DEF Unlock
  <2> HIDE DEF data
  <2>3. pc' = [pc EXCEPT ![c] = "reading"] /\ attempts' = attempts
    BY <1>2 DEF Unlock
  <2>4. config \in Networks
    BY <1>0, <1>2 DEF Unlock, CanUnlockHere, TypeOK
  <2> QED BY <1>0, <2>1, <2>2, <2>3, <2>4 DEF TypeOK, PcStates
<1> QED
  BY <1>1, <1>2 DEF Enter, Unlock

-----------------------------------------------------------------------------
LEMMA TypeStep ==
    ASSUME TypeInv, [Next]_vars
    PROVE  TypeOK'
<1> USE NoneAssumption DEF TypeOK, TypeInv
<1>1. ASSUME NEW c \in Calls, CallStep(c)
      PROVE  TypeOK'
  <2>1. CASE RecordRead(c)
    BY <2>1, CallRecords DEF RecordRead, durable
  <2>2. CASE SecretLoaded(c)
    BY <2>2, CallRecords DEF SecretLoaded, durable
  <2>3. CASE HandleCreated(c)
    BY <2>3, CreatedRecord DEF HandleCreated, durable
  <2>4. CASE StartReset(c)
    BY <2>4, CallRecords DEF StartReset, durable
  <2>5. CASE HistoryReset(c)
    BY <2>5, CallRecords DEF HistoryReset
  <2>6. CASE Superseded(c)
    BY <2>6 DEF Superseded, durable, PcStates, Settled
  <2>7. CASE Commit(c)
    BY <2>7 DEF Commit, ReleaseWallet, Enqueued, WalletOf, durable, PcStates, Settled, Known, Acting
  <2>8. CASE CommitRefused(c)
    BY <2>8 DEF CommitRefused, ReleaseWallet, durable, PcStates, Settled
  <2>9. CASE TurnStart(c)
    <3>1. pc' \in [Calls -> PcStates]
      BY <2>9 DEF TurnStart, EndTurn, PcStates, Settled, TurnStates
    <3>2. queue \in Seq(Calls) /\ queue # <<>>
      BY <2>9 DEF TurnStart, HoldsTurn
    <3>3. queue' = queue \/ queue' = Tail(queue)
      BY <2>9 DEF TurnStart, EndTurn
    <3>4. Tail(queue) \in Seq(Calls)
      BY <3>2
    <3>5. queue' \in Seq(Calls)
      BY <3>2, <3>3, <3>4, Zenon
    <3> QED BY <2>9, <3>1, <3>5 DEF TurnStart, durable
  <2>10. CASE SecretKept(c)
    BY <2>10 DEF SecretKept, WalletOf, PcStates, TurnStates, Known, Acting
  <2>15. CASE RecordSet(c)
    BY <2>15 DEF RecordSet, SetRemembered, WalletOf, PcStates, TurnStates, Known, Acting
  <2>11. CASE EntryTakenBack(c)
    BY <2>11 DEF EntryTakenBack, EndTurn, PcStates, Settled, TurnStates, TurnsAreExclusive,
                 HoldsTurn
  <2>12. CASE Recorded(c)
    BY <2>12 DEF Recorded, EndTurn, SetRemembered, WalletOf, PcStates, Settled, TurnStates,
                 TurnsAreExclusive, HoldsTurn, Known, Acting
  <2>13. CASE TurnFails(c)
    BY <2>13 DEF TurnFails, EndTurn, durable, PcStates, Settled, TurnStates, TurnsAreExclusive,
                 HoldsTurn
  <2>14. CASE RecordRefused(c) \/ SecretRefused(c) \/ OpenRefused(c) \/ ResetRefused(c)
    BY <2>14, Refusals DEF Leave, durable, PcStates, Settled
  <2> QED
    BY <1>1, <2>1, <2>2, <2>3, <2>4, <2>5, <2>6, <2>7, <2>8, <2>9, <2>10, <2>11, <2>12,
       <2>13, <2>14, <2>15 DEF CallStep
<1>2. ASSUME NEW f \in Forgets, ForgetStep(f) \/ StartForget(f)
      PROVE  TypeOK'
  <2>1. CASE SecretForgotten(f)
    BY <2>1 DEF SecretForgotten, SetForget
  <2>2. CASE HistoryForgotten(f)
    BY <2>2 DEF HistoryForgotten, SetForget, Known
  <2>3. CASE RecordForgotten(f)
    BY <2>3 DEF RecordForgotten, ReleaseWallet, SetRemembered, SetForget, Settled
  <2>4. CASE ForgetFails(f)
    <3>1. forget' \in [Forgets -> [state : {"idle", "removing", "deleting", "clearing", "saving",
                                            "refused"} \cup Settled,
                                   wallet : Wallets \cup {None}]]
      BY <2>4 DEF ForgetFails, SetForget, Settled
    <3> QED BY <2>4, <3>1 DEF ForgetFails, durable
  <2>5. CASE StartForget(f)
    BY <2>5 DEF StartForget, durable
  <2>6. CASE RecordDropped(f)
    BY <2>6 DEF RecordDropped, SetRemembered, SetForget
  <2> QED BY <1>2, <2>1, <2>2, <2>3, <2>4, <2>5, <2>6 DEF ForgetStep
<1>3. ASSUME NEW j \in Jobs, JobStep(j)
      PROVE  TypeOK'
  <2>1. CASE JobDone(j)
    BY <2>1, JobKindsAssumption DEF JobDone, JobOver, NoJob, WalletOf, Known, Owns
  <2>2. CASE JobLost(j)
    BY <2>2, JobKindsAssumption DEF JobLost, JobOver, NoJob, durable
  <2> QED BY <1>3, <2>1, <2>2 DEF JobStep
<1>4. ASSUME NEW j \in Jobs, NEW kind \in JobKinds, StartJob(j, kind)
      PROVE  TypeOK'
  BY <1>4 DEF StartJob, durable
<1>5. ASSUME NEW c \in Calls,
             \/ \E k \in Keys, remember, reset \in BOOLEAN : Enter(c, k, remember, reset)
             \/ \E reset \in BOOLEAN : Unlock(c, reset)
      PROVE  TypeOK'
  BY <1>5, PressRecords DEF durable
<1>6. CASE Close
  BY <1>6 DEF Close, ReleaseWallet, durable
<1>7. CASE ShowSetup \/ Autosave \/ \E n \in Networks : SaveSetup(n)
  BY <1>7 DEF ShowSetup, SaveSetup, Autosave, durable
<1>8. CASE Restart
  <2>1. pc' \in [Calls -> PcStates]
    BY <1>8 DEF Restart, PcStates, Settled
  <2>2. job' \in [Jobs -> [state : {"idle", "running", "over"}, kind : JobKinds,
                          on : Calls \cup {None}]]
    BY <1>8, JobKindsAssumption DEF Restart, NoJob, JobOver
  <2>3. forget' \in [Forgets -> [state : {"idle", "removing", "deleting", "clearing", "saving",
                                         "refused"} \cup Settled,
                                wallet : Wallets \cup {None}]]
    <3>1. \A f \in Forgets : forget[f].wallet \in Wallets \cup {None}
      OBVIOUS
    <3>2. \A f \in Forgets :
             \/ forget'[f] = NoForget
             \/ forget'[f] = [state |-> "gone", wallet |-> forget[f].wallet]
      BY <1>8 DEF Restart
    <3>3. forget' = [f \in Forgets |-> forget'[f]]
      BY <1>8 DEF Restart
    <3> HIDE DEF TypeOK
    <3> QED BY <3>1, <3>2, <3>3 DEF NoForget, Settled
  <2>4. attempts' \in Nat /\ queue' \in Seq(Calls)
    BY <1>8 DEF Restart
  <2>5. remembered' \in Wallets \cup {None}
    BY <1>8 DEF Restart
  <2> QED BY <1>8, <2>1, <2>2, <2>3, <2>4, <2>5 DEF Restart, durable
<1>9. CASE UNCHANGED vars
  BY <1>9 DEF vars, durable
<1> QED
  BY <1>1, <1>2, <1>3, <1>4, <1>5, <1>6, <1>7, <1>8, <1>9 DEF Next, Press

LEMMA KnownStep ==
    ASSUME TypeInv, TypeOK', [Next]_vars
    PROVE  Known'
<1> USE NoneAssumption DEF Known, Owns, Acting, Committed, TurnStates
<1>0. TypeOK /\ Known /\ TurnsAreExclusive
  BY DEF TypeInv
<1>1. ASSUME NEW c \in Calls, CallStep(c)
      PROVE  Known'
  <2>1. CASE RecordRead(c) \/ SecretLoaded(c) \/ StartReset(c) \/ HistoryReset(c)
    <3>1. UNCHANGED <<config, handle, job, forget>>
      BY <2>1 DEF RecordRead, SecretLoaded, StartReset, HistoryReset
    <3>2. pc[c] \in {"reading", "loading", "opening", "resetting"}
      BY <2>1 DEF RecordRead, SecretLoaded, StartReset, HistoryReset
    <3>3. /\ call'[c].wallet \in Wallets
          /\ \A d \in Calls : d # c => call'[d] = call[d] /\ pc'[d] = pc[d]
      BY <2>1, CallRecords
    <3>4. \A d \in Calls : Owns(d) => Owns(d)'
      BY <3>2, <3>3
    <3> QED BY <1>0, <3>1, <3>2, <3>3, <3>4 DEF TypeOK
  <2>2. CASE Commit(c)
    BY <1>0, <2>2 DEF Commit, TypeOK
  <2>3. CASE CommitRefused(c)
    BY <1>0, <2>3 DEF CommitRefused, TypeOK
  <2>4. CASE HandleCreated(c)
    BY <1>0, <2>4, CreatedRecord DEF HandleCreated
  <2>10. CASE Superseded(c)
    BY <1>0, <2>10 DEF Superseded, TypeOK
  <2>5. CASE TurnStart(c)
    BY <1>0, <2>5 DEF TurnStart, EndTurn, TypeOK
  <2>6. CASE SecretKept(c) \/ RecordSet(c)
    BY <1>0, <2>6 DEF SecretKept, RecordSet, TypeOK
  <2>7. CASE EntryTakenBack(c)
    BY <1>0, <2>7 DEF EntryTakenBack, EndTurn, TypeOK
  <2>11. CASE TurnFails(c)
    BY <1>0, <2>11 DEF TurnFails, EndTurn, TypeOK
  <2>8. CASE Recorded(c)
    BY <1>0, <2>8 DEF Recorded, EndTurn, TypeOK
  <2>9. CASE RecordRefused(c) \/ SecretRefused(c) \/ OpenRefused(c) \/ ResetRefused(c)
    BY <1>0, <2>9, Refusals DEF Leave, TypeOK
  <2> QED
    BY <1>1, <2>1, <2>2, <2>3, <2>4, <2>5, <2>6, <2>7, <2>8, <2>9, <2>10, <2>11 DEF CallStep
<1>2. ASSUME NEW f \in Forgets, ForgetStep(f) \/ StartForget(f)
      PROVE  Known'
  <2>1. UNCHANGED <<config, pc, call, job>> /\ (handle' = handle \/ handle' = None)
    BY <1>2 DEF ForgetStep, SecretForgotten, HistoryForgotten, RecordDropped, RecordForgotten,
                ForgetFails, StartForget
  <2>2. \A g \in Forgets : forget'[g].state \in {"removing", "deleting"}
                              => forget'[g].wallet \in Wallets
    <3>1. CASE StartForget(f)
      BY <1>0, <3>1 DEF StartForget, TypeOK
    <3>2. CASE ForgetStep(f)
      BY <1>0, <3>2 DEF ForgetStep, SecretForgotten, HistoryForgotten, RecordDropped,
                        RecordForgotten, ForgetFails, SetForget, TypeOK
    <3> QED BY <1>2, <3>1, <3>2
  <2> QED BY <1>0, <2>1, <2>2
<1>3. ASSUME NEW j \in Jobs, JobStep(j)
      PROVE  Known'
  <2>1. UNCHANGED <<config, pc, call, handle, forget>> /\ job' = [job EXCEPT ![j] = JobOver]
    BY <1>3 DEF JobStep, JobDone, JobLost
  <2>2. JobOver.state = "over"
    BY DEF JobOver, NoJob
  <2> QED BY <1>0, <2>1, <2>2 DEF TypeOK
<1>4. ASSUME NEW j \in Jobs, NEW kind \in JobKinds, StartJob(j, kind)
      PROVE  Known'
  BY <1>0, <1>4 DEF StartJob, TypeOK
<1>5. ASSUME NEW c \in Calls,
             \/ \E k \in Keys, remember, reset \in BOOLEAN : Enter(c, k, remember, reset)
             \/ \E reset \in BOOLEAN : Unlock(c, reset)
      PROVE  Known'
  BY <1>0, <1>5, PressRecords DEF TypeOK
<1>6. CASE Close \/ ShowSetup \/ Autosave \/ \E n \in Networks : SaveSetup(n)
  BY <1>0, <1>6 DEF Close, ShowSetup, SaveSetup, Autosave
<1>7. CASE Restart
  BY <1>0, <1>7 DEF Restart, JobOver, NoJob, NoForget, TypeOK
<1>8. CASE UNCHANGED vars
  BY <1>0, <1>8 DEF vars
<1> QED
  BY <1>1, <1>2, <1>3, <1>4, <1>5, <1>6, <1>7, <1>8 DEF Next, Press

LEMMA TurnsStep ==
    ASSUME TypeInv, TypeOK', [Next]_vars
    PROVE  TurnsAreExclusive'
<1> USE DEF TurnsAreExclusive, HoldsTurn, TurnStates
<1>0. TypeOK /\ TurnsAreExclusive
  BY DEF TypeInv
<1>1. ASSUME NEW c \in Calls, CallStep(c)
      PROVE  TurnsAreExclusive'
  <2>1. CASE RecordRead(c) \/ SecretLoaded(c) \/ StartReset(c) \/ HistoryReset(c)
    <3>1. UNCHANGED queue
      BY <2>1 DEF RecordRead, SecretLoaded, StartReset, HistoryReset
    <3> QED BY <1>0, <2>1, <3>1, CallRecords
  <2>2. CASE Commit(c)
    BY <1>0, <2>2 DEF Commit, Enqueued, TypeOK
  <2>3. CASE CommitRefused(c) \/ HandleCreated(c) \/ Superseded(c)
    BY <1>0, <2>3 DEF CommitRefused, HandleCreated, Superseded, TypeOK
  <2>4. CASE TurnStart(c)
    BY <1>0, <2>4 DEF TurnStart, EndTurn, TypeOK
  <2>5. CASE SecretKept(c) \/ RecordSet(c)
    BY <1>0, <2>5 DEF SecretKept, RecordSet, TypeOK
  <2>6. CASE EntryTakenBack(c) \/ TurnFails(c) \/ Recorded(c)
    BY <1>0, <2>6 DEF EntryTakenBack, TurnFails, Recorded, EndTurn, TypeOK
  <2>7. CASE RecordRefused(c) \/ SecretRefused(c) \/ OpenRefused(c) \/ ResetRefused(c)
    BY <1>0, <2>7, Refusals DEF Leave, TypeOK
  <2> QED
    BY <1>1, <2>1, <2>2, <2>3, <2>4, <2>5, <2>6, <2>7 DEF CallStep
<1>2. ASSUME NEW f \in Forgets, ForgetStep(f) \/ StartForget(f)
      PROVE  UNCHANGED <<pc, queue>>
  BY <1>2 DEF ForgetStep, SecretForgotten, HistoryForgotten, RecordDropped, RecordForgotten,
              ForgetFails, StartForget
<1>3. ASSUME NEW j \in Jobs, JobStep(j) \/ \E kind \in JobKinds : StartJob(j, kind)
      PROVE  UNCHANGED <<pc, queue>>
  BY <1>3 DEF JobStep, JobDone, JobLost, StartJob
<1>4. ASSUME NEW c \in Calls,
             \/ \E k \in Keys, remember, reset \in BOOLEAN : Enter(c, k, remember, reset)
             \/ \E reset \in BOOLEAN : Unlock(c, reset)
      PROVE  TurnsAreExclusive'
  BY <1>0, <1>4, PressRecords
<1>5. CASE Close \/ ShowSetup \/ Autosave \/ \E n \in Networks : SaveSetup(n)
  BY <1>0, <1>5 DEF Close, ShowSetup, SaveSetup, Autosave
<1>6. CASE Restart
  BY <1>6 DEF Restart
<1>7. CASE UNCHANGED vars
  BY <1>0, <1>7 DEF vars
<1>8. ASSUME UNCHANGED <<pc, queue>> PROVE TurnsAreExclusive'
  BY <1>0, <1>8
<1> QED
  BY <1>1, <1>2, <1>3, <1>4, <1>5, <1>6, <1>7, <1>8 DEF Next, Press

\* The types, what every call and job knows of its wallet, and the exclusive
\* turn, hold in every state of the session.
THEOREM TypeInvariant == Spec => []TypeInv
<1>1. ASSUME TypeInv, [Next]_vars PROVE TypeInv'
  BY <1>1, TypeStep, KnownStep, TurnsStep DEF TypeInv
<1> QED
  BY <1>1, InitTypeInv, PTL DEF Spec

\* serializeRemember keeps the remember steps apart: TurnsAreExclusive holds
\* for any number of opens, whichever are superseded, fail or are cut short.
THEOREM TurnsExclusive == Spec => []TurnsAreExclusive
  BY TypeInvariant, PTL DEF TypeInv

THEOREM TypeCorrect == Spec => []TypeOK
  BY TypeInvariant, PTL DEF TypeInv
-----------------------------------------------------------------------------
(* The attempt numbers: the session refines NewestWins.                    *)

\* A call that has begun install has its attempt's number.
Numbered ==
    \A c \in Calls : pc[c] \in {"opening", "resetting", "addressing"} => call[c].attempt > 0

LEMMA InitNumbered == Init => Numbered
  BY DEF Init, Numbered

LEMMA NumberedStep ==
    ASSUME TypeInv, Numbered, TypeOK', [Next]_vars
    PROVE  Numbered'
<1> USE DEF Numbered
<1>0. TypeOK
  BY DEF TypeInv
<1>1. ASSUME NEW c \in Calls, NEW w, NEW data \in CallRecord, BeginInstall(c, w, data)
      PROVE  Numbered'
  <2>1. call'[c].attempt = attempts + 1
    BY <1>0, <1>1 DEF BeginInstall, TypeOK, CallRecord
  <2>2. attempts + 1 > 0
    BY <1>0 DEF TypeOK
  <2>3. \A d \in Calls : d # c => call'[d] = call[d] /\ pc'[d] = pc[d]
    BY <1>0, <1>1 DEF BeginInstall, TypeOK
  <2> QED BY <2>1, <2>2, <2>3
<1>2. ASSUME NEW c \in Calls, CallStep(c)
      PROVE  Numbered'
  <2>0. call[c] \in CallRecord
    BY <1>0 DEF TypeOK
  <2>1. CASE SecretLoaded(c) \/ HistoryReset(c)
    BY <1>1, <2>0, <2>1 DEF SecretLoaded, HistoryReset
  <2>2. CASE RecordRead(c)
    BY <1>0, <2>2 DEF RecordRead, TypeOK
  <2>3. CASE StartReset(c)
    <3>1. call'[c].attempt = call[c].attempt /\ pc[c] = "opening"
      BY <1>0, <2>0, <2>3 DEF StartReset, TypeOK, CallRecord
    <3>2. \A d \in Calls : d # c => call'[d] = call[d] /\ pc'[d] = pc[d]
      BY <1>0, <2>3 DEF StartReset, TypeOK
    <3> QED BY <3>1, <3>2
  <2>4. CASE Superseded(c)
    BY <1>0, <2>4 DEF Superseded, TypeOK
  <2>9. CASE HandleCreated(c)
    BY <1>0, <2>9, CreatedRecord
  <2>5. CASE Commit(c) \/ CommitRefused(c)
    BY <1>0, <2>5 DEF Commit, CommitRefused, TypeOK
  <2>6. CASE TurnStart(c) \/ SecretKept(c) \/ RecordSet(c)
    BY <1>0, <2>6 DEF TurnStart, SecretKept, RecordSet, EndTurn, TypeOK
  <2>7. CASE EntryTakenBack(c) \/ Recorded(c) \/ TurnFails(c)
    BY <1>0, <2>7 DEF EntryTakenBack, Recorded, TurnFails, EndTurn, TypeOK
  <2>8. CASE RecordRefused(c) \/ SecretRefused(c) \/ OpenRefused(c) \/ ResetRefused(c)
    BY <1>0, <2>8, Refusals DEF Leave, TypeOK
  <2> QED
    BY <1>2, <2>1, <2>2, <2>3, <2>4, <2>5, <2>6, <2>7, <2>8, <2>9 DEF CallStep
<1>3. ASSUME NEW c \in Calls, NEW k \in Keys, NEW remember \in BOOLEAN,
             NEW reset \in BOOLEAN, Enter(c, k, remember, reset)
      PROVE  Numbered'
  <2> DEFINE data == [NoCall EXCEPT !.remember = remember, !.reset = reset]
  <2>1. data \in CallRecord
    BY NoneAssumption DEF NoCall, CallRecord, Kinds
  <2>2. BeginInstall(c, <<k, config>>, data)
    BY <1>3 DEF Enter
  <2> HIDE DEF data
  <2> QED BY <1>1, <2>1, <2>2
<1>4. ASSUME NEW c \in Calls, NEW reset \in BOOLEAN, Unlock(c, reset)
      PROVE  Numbered'
  BY <1>0, <1>4 DEF Unlock, TypeOK
<1>5. CASE Restart
  BY <1>0, <1>5 DEF Restart, TypeOK
<1>6. ASSUME UNCHANGED <<pc, call>> PROVE Numbered'
  BY <1>6
<1>7. ASSUME NEW f \in Forgets, ForgetStep(f) \/ StartForget(f)
      PROVE  UNCHANGED <<pc, call>>
  BY <1>7 DEF ForgetStep, SecretForgotten, HistoryForgotten, RecordDropped, RecordForgotten,
              ForgetFails, StartForget
<1>8. ASSUME NEW j \in Jobs, JobStep(j) \/ \E kind \in JobKinds : StartJob(j, kind)
      PROVE  UNCHANGED <<pc, call>>
  BY <1>8 DEF JobStep, JobDone, JobLost, StartJob
<1>9. ASSUME \/ Close \/ ShowSetup \/ (\E n \in Networks : SaveSetup(n))
             \/ Autosave \/ UNCHANGED vars
      PROVE  UNCHANGED <<pc, call>>
  BY <1>9 DEF Close, ShowSetup, SaveSetup, Autosave, vars
<1> QED
  BY <1>2, <1>3, <1>4, <1>5, <1>6, <1>7, <1>8, <1>9 DEF Next, Press

LEMMA InitNewest == Init => Newest!Init
  BY DEF Init, Newest!Init

\* Each step of the session starts an attempt, shows the newest, hides what
\* was open, restarts, or does nothing NewestWins sees.
LEMMA NewestStep ==
    ASSUME TypeInv, Numbered, [Next]_vars
    PROVE  [Newest!Next]_(Newest!vars)
<1> DEFINE open == IF handle = None THEN 0 ELSE call[handle].attempt
<1> USE NoneAssumption DEF Newest!Next, Newest!vars
<1>0. /\ TypeOK
      /\ handle # None => handle \in Calls /\ pc[handle] \in Committed
  BY DEF TypeInv, TypeOK, Known, Owns
<1>1. ASSUME UNCHANGED <<attempts, handle>>,
             handle # None => call'[handle].attempt = call[handle].attempt
      PROVE  UNCHANGED Newest!vars
  BY <1>1
<1>2. ASSUME NEW c \in Calls, pc[c] \notin Committed, UNCHANGED <<handle>>,
             \A d \in Calls : d # c => call'[d] = call[d]
      PROVE  open' = open
  BY <1>0, <1>2
<1>3. ASSUME NEW c \in Calls, NEW w, NEW data, pc[c] \notin Committed,
             BeginInstall(c, w, data), UNCHANGED handle
      PROVE  Newest!Start
  <2>1. attempts' = attempts + 1 /\ \A d \in Calls : d # c => call'[d] = call[d]
    BY <1>0, <1>3 DEF BeginInstall, TypeOK
  <2>2. open' = open
    BY <1>2, <1>3, <2>1
  <2> QED BY <2>1, <2>2 DEF Newest!Start
<1>4. ASSUME NEW c \in Calls, CallStep(c)
      PROVE  [Newest!Next]_(Newest!vars)
  <2>1. CASE SecretLoaded(c) \/ HistoryReset(c)
    <3>1. PICK w : BeginInstall(c, w, call[c])
      BY <2>1 DEF SecretLoaded, HistoryReset
    <3>2. pc[c] \notin Committed /\ UNCHANGED handle
      BY <2>1 DEF SecretLoaded, HistoryReset, Committed, TurnStates
    <3> QED BY <1>3, <3>1, <3>2
  <2>2. CASE RecordRead(c) \/ StartReset(c)
    <3>1. pc[c] \notin Committed /\ UNCHANGED <<attempts, handle>>
      BY <2>2 DEF RecordRead, StartReset, Committed, TurnStates
    <3>2. \A d \in Calls : d # c => call'[d] = call[d]
      BY <1>0, <2>2 DEF RecordRead, StartReset, TypeOK
    <3>3. open' = open
      BY <1>2, <3>1, <3>2
    <3> QED BY <3>1, <3>3
  <2>3. CASE Commit(c)
    <3>1. /\ handle' = c /\ UNCHANGED <<attempts, call>>
          /\ call[c].attempt = attempts
          /\ attempts > 0
      BY <2>3 DEF Commit, StillCurrent, Numbered
    <3> QED BY <3>1 DEF Newest!Show
  <2>4. CASE CommitRefused(c)
    BY <2>4 DEF CommitRefused, Newest!Hide
  <2>5. CASE Superseded(c) \/ TurnStart(c) \/ SecretKept(c) \/ RecordSet(c)
    BY <1>1, <2>5 DEF Superseded, TurnStart, SecretKept, RecordSet
  <2>8. CASE HandleCreated(c)
    <3>1. pc[c] \notin Committed /\ UNCHANGED <<attempts, handle>>
      BY <2>8 DEF HandleCreated, Committed, TurnStates
    <3>2. \A d \in Calls : d # c => call'[d] = call[d]
      BY <1>0, <2>8, CreatedRecord
    <3>3. open' = open
      BY <1>2, <3>1, <3>2
    <3> QED BY <3>1, <3>3
  <2>6. CASE EntryTakenBack(c) \/ Recorded(c) \/ TurnFails(c)
    BY <1>1, <2>6 DEF EntryTakenBack, Recorded, TurnFails
  <2>7. CASE RecordRefused(c) \/ SecretRefused(c) \/ OpenRefused(c) \/ ResetRefused(c)
    BY <1>1, <2>7, Refusals DEF Leave
  <2> QED
    BY <1>4, <2>1, <2>2, <2>3, <2>4, <2>5, <2>6, <2>7, <2>8 DEF CallStep
<1>5. ASSUME NEW c \in Calls, NEW k \in Keys, NEW remember \in BOOLEAN,
             NEW reset \in BOOLEAN, Enter(c, k, remember, reset)
      PROVE  [Newest!Next]_(Newest!vars)
  BY <1>3, <1>5 DEF Enter, Committed, TurnStates
<1>6. ASSUME NEW c \in Calls, NEW reset \in BOOLEAN, Unlock(c, reset)
      PROVE  [Newest!Next]_(Newest!vars)
  <2>1. pc[c] \notin Committed /\ UNCHANGED <<attempts, handle>>
    BY <1>6 DEF Unlock, Committed, TurnStates
  <2>2. \A d \in Calls : d # c => call'[d] = call[d]
    BY <1>0, <1>6 DEF Unlock, TypeOK
  <2>3. open' = open
    BY <1>2, <2>1, <2>2
  <2> QED BY <2>1, <2>3
<1>7. CASE Restart
  BY <1>7 DEF Restart, Newest!Restart
<1>8. CASE Close
  BY <1>8 DEF Close, Newest!Hide
<1>9. ASSUME NEW f \in Forgets, ForgetStep(f) \/ StartForget(f)
      PROVE  [Newest!Next]_(Newest!vars)
  <2>1. CASE RecordForgotten(f)
    BY <2>1 DEF RecordForgotten, Newest!Hide
  <2>2. CASE ~RecordForgotten(f)
    BY <1>1, <1>9, <2>2 DEF ForgetStep, SecretForgotten, HistoryForgotten, RecordDropped,
                            ForgetFails, StartForget
  <2> QED BY <2>1, <2>2
<1>10. ASSUME NEW j \in Jobs, JobStep(j) \/ \E kind \in JobKinds : StartJob(j, kind)
       PROVE  [Newest!Next]_(Newest!vars)
  BY <1>1, <1>10 DEF JobStep, JobDone, JobLost, StartJob
<1>11. ASSUME ShowSetup \/ (\E n \in Networks : SaveSetup(n)) \/ Autosave
             \/ UNCHANGED vars
       PROVE  [Newest!Next]_(Newest!vars)
  BY <1>1, <1>11 DEF ShowSetup, SaveSetup, Autosave, vars
<1> QED
  BY <1>4, <1>5, <1>6, <1>7, <1>8, <1>9, <1>10, <1>11 DEF Next, Press

\* The session implements NewestWins: whatever opens, closes, forgets and
\* restarts interleave, a wallet is shown only by the newest attempt there is,
\* and an open that finishes late replaces nothing.
THEOREM ImplementsNewestWins == Spec => NewestWinsSpec
<1>1. ASSUME TypeInv, Numbered, [Next]_vars
      PROVE  TypeInv' /\ Numbered'
  <2>1. TypeInv'
    BY <1>1, TypeStep, KnownStep, TurnsStep DEF TypeInv
  <2> QED BY <1>1, <2>1, NumberedStep DEF TypeInv
<1>2. ASSUME TypeInv, Numbered, [Next]_vars
      PROVE  [Newest!Next]_(Newest!vars)
  BY <1>2, NewestStep
<1> QED
  BY <1>1, <1>2, InitTypeInv, InitNumbered, InitNewest, PTL
     DEF Spec, NewestWinsSpec, Newest!Spec
-----------------------------------------------------------------------------
(* The handles.                                                            *)

LEMMA HandlesStep ==
    ASSUME TypeInv, HandlesAccountedFor, TypeOK', [Next]_vars
    PROVE  HandlesAccountedFor'
<1> DEFINE Waiting == {"addressing", "stranded"}
<1> USE NoneAssumption DEF HandlesAccountedFor, Committed, TurnStates
<1>0. /\ TypeOK
      /\ handle # None => handle \in Calls /\ pc[handle] \in Committed
  BY DEF TypeInv, TypeOK, Known, Owns
\* A step that creates and frees nothing, and moves no call to or from a wait.
<1>1. ASSUME UNCHANGED <<live, handle>>,
             \A d \in Calls : pc'[d] \in Waiting <=> pc[d] \in Waiting
      PROVE  HandlesAccountedFor'
  BY <1>1
<1>2. ASSUME NEW c \in Calls, CallStep(c)
      PROVE  HandlesAccountedFor'
  <2>1. CASE RecordRead(c) \/ SecretLoaded(c) \/ StartReset(c) \/ HistoryReset(c)
    <3>1. UNCHANGED <<live, handle>> /\ pc[c] \notin Waiting
      BY <2>1 DEF RecordRead, SecretLoaded, StartReset, HistoryReset
    <3>2. /\ pc'[c] \notin Waiting
          /\ \A d \in Calls : d # c => pc'[d] = pc[d]
      BY <2>1, CallRecords
    <3> QED BY <1>1, <3>1, <3>2
  <2>2. CASE HandleCreated(c)
    BY <1>0, <2>2 DEF HandleCreated, TypeOK
  <2>3. CASE Superseded(c)
    BY <1>0, <2>3 DEF Superseded, TypeOK
  <2>4. CASE Commit(c)
    BY <1>0, <2>4 DEF Commit, ReleaseWallet, TypeOK
  <2>5. CASE CommitRefused(c)
    BY <1>0, <2>5 DEF CommitRefused, ReleaseWallet, TypeOK
  <2>6. CASE TurnStart(c) \/ SecretKept(c) \/ RecordSet(c)
    BY <1>0, <1>1, <2>6 DEF TurnStart, SecretKept, RecordSet, EndTurn, TypeOK
  <2>7. CASE EntryTakenBack(c) \/ Recorded(c) \/ TurnFails(c)
    BY <1>0, <1>1, <2>7 DEF EntryTakenBack, Recorded, TurnFails, EndTurn, TypeOK
  <2>8. CASE RecordRefused(c) \/ SecretRefused(c) \/ OpenRefused(c) \/ ResetRefused(c)
    BY <1>0, <1>1, <2>8, Refusals DEF Leave, TypeOK
  <2> QED
    BY <1>2, <2>1, <2>2, <2>3, <2>4, <2>5, <2>6, <2>7, <2>8 DEF CallStep
<1>3. ASSUME NEW c \in Calls,
             \/ \E k \in Keys, remember, reset \in BOOLEAN : Enter(c, k, remember, reset)
             \/ \E reset \in BOOLEAN : Unlock(c, reset)
      PROVE  HandlesAccountedFor'
  BY <1>1, <1>3, PressRecords
<1>4. ASSUME UNCHANGED pc, handle' = None, live' = live \ {handle}
      PROVE  HandlesAccountedFor'
  BY <1>0, <1>4 DEF TypeOK
<1>5. CASE Close
  BY <1>4, <1>5 DEF Close, ReleaseWallet
<1>6. ASSUME NEW f \in Forgets, ForgetStep(f) \/ StartForget(f)
      PROVE  HandlesAccountedFor'
  <2>1. CASE RecordForgotten(f)
    BY <1>4, <2>1 DEF RecordForgotten, ReleaseWallet
  <2>2. CASE ~RecordForgotten(f)
    BY <1>1, <1>6, <2>2 DEF ForgetStep, SecretForgotten, HistoryForgotten, RecordDropped,
                            ForgetFails, StartForget
  <2> QED BY <2>1, <2>2
<1>7. ASSUME NEW j \in Jobs, JobStep(j) \/ \E kind \in JobKinds : StartJob(j, kind)
      PROVE  HandlesAccountedFor'
  BY <1>1, <1>7 DEF JobStep, JobDone, JobLost, StartJob
<1>8. ASSUME ShowSetup \/ (\E n \in Networks : SaveSetup(n)) \/ Autosave
             \/ UNCHANGED vars
      PROVE  HandlesAccountedFor'
  BY <1>1, <1>8 DEF ShowSetup, SaveSetup, Autosave, vars
<1>9. CASE Restart
  BY <1>9 DEF Restart
<1> QED
  BY <1>2, <1>3, <1>5, <1>6, <1>7, <1>8, <1>9 DEF Next, Press

\* releaseWallet and the supersede path free every handle exactly once: the
\* handles not yet freed are the session's, those of opens still waiting for
\* their address, and those a throwing free stranded, for any number of opens.
THEOREM HandlesCounted == Spec => []HandlesAccountedFor
<1>1. Init => HandlesAccountedFor
  BY NoneAssumption DEF Init, HandlesAccountedFor
<1>2. ASSUME TypeInv, TypeOK', HandlesAccountedFor, [Next]_vars
      PROVE  HandlesAccountedFor'
  BY <1>2, HandlesStep
<1> QED
  BY <1>1, <1>2, TypeCorrect, TypeInvariant, PTL DEF Spec
-----------------------------------------------------------------------------
(* The secret of the wallet being recorded.                                *)

\* A forget not begun names no wallet.
ForgetsBegin == \A f \in Forgets : forget[f].state = "idle" => forget[f].wallet = None

KeyInv == RecordingKeyIsKept /\ ForgetsBegin

LEMMA ForgetsBeginStep ==
    ASSUME TypeInv, ForgetsBegin, [Next]_vars
    PROVE  ForgetsBegin'
<1> USE DEF ForgetsBegin
<1>0. TypeOK
  BY DEF TypeInv
<1>1. ASSUME NEW f \in Forgets, ForgetStep(f) \/ StartForget(f)
      PROVE  ForgetsBegin'
  <2>1. /\ forget'[f].state # "idle"
        /\ \A g \in Forgets : g # f => forget'[g] = forget[g]
    <3>1. CASE StartForget(f)
      BY <1>0, <3>1 DEF StartForget, TypeOK
    <3>2. CASE SecretForgotten(f) \/ HistoryForgotten(f)
      BY <1>0, <3>2 DEF SecretForgotten, HistoryForgotten, SetForget, TypeOK
    <3>3. CASE RecordDropped(f) \/ RecordForgotten(f) \/ ForgetFails(f)
      BY <1>0, <3>3 DEF RecordDropped, RecordForgotten, ForgetFails, SetForget, TypeOK
    <3> QED BY <1>1, <3>1, <3>2, <3>3 DEF ForgetStep
  <2> QED BY <2>1
<1>2. CASE Restart
  <2>1. \A f \in Forgets : forget'[f] = IF forget[f].state = "idle" THEN NoForget
                                        ELSE [forget[f] EXCEPT !.state = "gone"]
    BY <1>2 DEF Restart
  <2>2. \A f \in Forgets : forget[f].state # "idle" => forget'[f].state = "gone"
    BY <1>0, <2>1 DEF TypeOK
  <2>3. \A f \in Forgets : forget[f].state = "idle" => forget'[f].wallet = None
    <3>1. \A f \in Forgets : forget[f].state = "idle" => forget'[f] = NoForget
      BY <2>1, Zenon
    <3> QED BY <3>1 DEF NoForget
  <2> QED BY <2>2, <2>3
<1>3. ASSUME NEW c \in Calls, CallStep(c)
      PROVE  UNCHANGED forget
  BY <1>3, Refusals
     DEF CallStep, RecordRead, SecretLoaded, HandleCreated, StartReset, HistoryReset, Superseded,
         Commit, CommitRefused, TurnStart, SecretKept, RecordSet, EntryTakenBack, Recorded, TurnFails, Leave
<1>4. ASSUME NEW c \in Calls,
             \/ \E k \in Keys, remember, reset \in BOOLEAN : Enter(c, k, remember, reset)
             \/ \E reset \in BOOLEAN : Unlock(c, reset)
      PROVE  UNCHANGED forget
  BY <1>4, PressRecords
<1>5. ASSUME NEW j \in Jobs, JobStep(j) \/ \E kind \in JobKinds : StartJob(j, kind)
      PROVE  UNCHANGED forget
  BY <1>5 DEF JobStep, JobDone, JobLost, StartJob
<1>6. ASSUME Close \/ ShowSetup \/ (\E n \in Networks : SaveSetup(n)) \/ Autosave
             \/ UNCHANGED vars
      PROVE  UNCHANGED forget
  BY <1>6 DEF Close, ShowSetup, SaveSetup, Autosave, vars
<1> QED
  BY <1>1, <1>2, <1>3, <1>4, <1>5, <1>6 DEF Next, Press

LEMMA RecordingKeyStep ==
    ASSUME TypeInv, TurnsAreExclusive', TypeOK', KeyInv, [Next]_vars
    PROVE  RecordingKeyIsKept'
<1> USE DEF RecordingKeyIsKept, KeyInv
<1>0. TypeOK /\ TurnsAreExclusive /\ ForgetsBegin
  BY DEF TypeInv
\* A step that keeps the key store, the forgets and every recording call.
<1>1. ASSUME UNCHANGED <<keystore, forget>>,
             \A d \in Calls : pc'[d] \in {"recording", "saving"} =>
                 pc[d] \in {"recording", "saving"} /\ call'[d] = call[d]
      PROVE  RecordingKeyIsKept'
  BY <1>1 DEF WalletOf
<1>2. ASSUME NEW c \in Calls, CallStep(c)
      PROVE  RecordingKeyIsKept'
  <2>1. CASE RecordRead(c) \/ SecretLoaded(c) \/ StartReset(c) \/ HistoryReset(c)
    <3>1. UNCHANGED <<keystore, forget>>
      BY <2>1 DEF RecordRead, SecretLoaded, StartReset, HistoryReset, durable
    <3> QED BY <1>1, <2>1, <3>1, CallRecords
  <2>2. CASE HandleCreated(c) \/ Superseded(c)
    BY <1>0, <1>1, <2>2, CreatedRecord DEF HandleCreated, Superseded, durable, TypeOK
  <2>3. CASE Commit(c) \/ CommitRefused(c)
    BY <1>0, <1>1, <2>3 DEF Commit, CommitRefused, durable, TypeOK
  <2>4. CASE TurnStart(c)
    BY <1>0, <1>1, <2>4 DEF TurnStart, EndTurn, durable, TypeOK
  <2>5. CASE SecretKept(c)
    BY <1>0, <2>5 DEF SecretKept, WalletOf, TypeOK
  <2>9. CASE RecordSet(c)
    BY <1>0, <1>1, <2>9 DEF RecordSet, TypeOK
  <2>6. CASE EntryTakenBack(c)
    <3>1. \A d \in Calls : d # c => pc[d] \notin {"recording", "saving"}
      BY <1>0, <2>6 DEF EntryTakenBack, TurnsAreExclusive, TurnStates, HoldsTurn
    <3> QED BY <1>0, <2>6, <3>1 DEF EntryTakenBack, EndTurn, TypeOK
  <2>7. CASE Recorded(c) \/ TurnFails(c)
    BY <1>0, <1>1, <2>7 DEF Recorded, TurnFails, EndTurn, durable, TypeOK
  <2>8. CASE RecordRefused(c) \/ SecretRefused(c) \/ OpenRefused(c) \/ ResetRefused(c)
    BY <1>0, <1>1, <2>8, Refusals DEF Leave, durable, TypeOK
  <2> QED
    BY <1>2, <2>1, <2>2, <2>3, <2>4, <2>5, <2>6, <2>7, <2>8, <2>9 DEF CallStep
<1>3. ASSUME NEW c \in Calls,
             \/ \E k \in Keys, remember, reset \in BOOLEAN : Enter(c, k, remember, reset)
             \/ \E reset \in BOOLEAN : Unlock(c, reset)
      PROVE  RecordingKeyIsKept'
  BY <1>1, <1>3, PressRecords DEF durable
<1>4. ASSUME NEW f \in Forgets, ForgetStep(f) \/ StartForget(f)
      PROVE  RecordingKeyIsKept'
  <2>1. UNCHANGED <<pc, call>>
    BY <1>4 DEF ForgetStep, SecretForgotten, HistoryForgotten, RecordDropped, RecordForgotten,
                ForgetFails, StartForget
  <2>2. \A g \in Forgets : g # f => forget'[g] = forget[g]
    BY <1>0, <1>4 DEF ForgetStep, SecretForgotten, HistoryForgotten, RecordDropped, RecordForgotten,
                      ForgetFails, StartForget, SetForget, TypeOK
  <2>3. CASE StartForget(f)
    <3>1. forget[f].wallet = None /\ UNCHANGED keystore
      BY <1>0, <2>3 DEF StartForget, ForgetsBegin, durable
    <3>2. \A c \in Calls : pc[c] \in {"recording", "saving"} => WalletOf(c) # None
      BY NoneAssumption DEF TypeInv, Known, Acting, TurnStates, WalletOf
    <3> QED BY <2>1, <2>2, <3>1, <3>2 DEF WalletOf
  <2>4. CASE ForgetStep(f)
    <3>1. /\ forget'[f].wallet = forget[f].wallet
          /\ keystore \ {forget[f].wallet} \subseteq keystore'
      BY <1>0, <2>4 DEF ForgetStep, SecretForgotten, HistoryForgotten, RecordDropped,
                        RecordForgotten, ForgetFails, SetForget, durable, TypeOK
    <3> QED BY <2>1, <2>2, <3>1 DEF WalletOf
  <2> QED BY <1>4, <2>3, <2>4
<1>5. ASSUME NEW j \in Jobs, JobStep(j) \/ \E kind \in JobKinds : StartJob(j, kind)
      PROVE  RecordingKeyIsKept'
  BY <1>1, <1>5 DEF JobStep, JobDone, JobLost, StartJob, durable
<1>6. ASSUME Close \/ ShowSetup \/ (\E n \in Networks : SaveSetup(n)) \/ Autosave
             \/ UNCHANGED vars
      PROVE  RecordingKeyIsKept'
  BY <1>1, <1>6 DEF Close, ShowSetup, SaveSetup, Autosave, vars, durable
<1>7. CASE Restart
  BY <1>7 DEF Restart
<1> QED
  BY <1>2, <1>3, <1>4, <1>5, <1>6, <1>7 DEF Next, Press

\* The turn keeps the secret in place while its record is written: no other
\* open can take the entry back meanwhile, only a forget of that wallet.
THEOREM RecordingKeyKept == Spec => []RecordingKeyIsKept
<1>1. Init => KeyInv
  BY DEF Init, KeyInv, RecordingKeyIsKept, ForgetsBegin, NoForget
<1>2. ASSUME TypeInv, TypeInv', KeyInv, [Next]_vars
      PROVE  KeyInv'
  BY <1>2, ForgetsBeginStep, RecordingKeyStep DEF KeyInv, TypeInv
<1>3. KeyInv => RecordingKeyIsKept
  BY DEF KeyInv
<1> QED
  BY <1>1, <1>2, <1>3, TypeInvariant, PTL DEF Spec
-----------------------------------------------------------------------------
(* The order of the remember queue.                                        *)

\* A call that waits for its turn or has it.
Waits(c) == pc[c] \in {"queued"} \cup TurnStates
\* A call whose attempt number was given since the page was loaded.
Counts(c) == pc[c] \in {"opening", "resetting", "addressing", "queued", "done"} \cup TurnStates

\* Attempt numbers are given once, and the queue is in their order: whoever
\* waits comes after every wallet recorded so far.
Order ==
    /\ \A c \in Calls : Counts(c) => call[c].attempt <= attempts
    /\ \A c, d \in Calls : Counts(c) /\ Counts(d) /\ c # d => call[c].attempt # call[d].attempt
    /\ \A c \in Calls : Waits(c) => call[c].remember
    /\ \A i \in 1..Len(queue) : Waits(queue[i])
    /\ \A i, j \in 1..Len(queue) : i < j => call[queue[i]].attempt < call[queue[j]].attempt
    /\ \A c \in Calls : Waits(c) => \E i \in 1..Len(queue) : queue[i] = c
    /\ \A c, d \in Calls : Remembered(c) /\ Waits(d) => call[c].attempt < call[d].attempt

\* Waits in the next state, of a call named by the next state's queue.
InLine(c) == pc'[c] \in {"queued"} \cup TurnStates

LEMMA InLineIs ==
    (\A i \in 1..Len(queue') : InLine(queue'[i])) <=> (\A i \in 1..Len(queue) : Waits(queue[i]))'
  BY DEF InLine, Waits

\* Numbers, kept wallets and the queue stay; calls may stop counting.
LEMMA OrderUnmoved ==
    ASSUME TypeOK, Order, UNCHANGED <<attempts, queue>>,
           \A c \in Calls : (Counts(c)' => Counts(c) /\ call'[c].attempt = call[c].attempt)
                            /\ (Waits(c)' <=> Waits(c)) /\ (Remembered(c)' => Remembered(c))
                            /\ (Waits(c)' => call'[c] = call[c])
    PROVE  Order'
<1>1. \A i \in 1..Len(queue) : queue[i] \in Calls
  BY DEF TypeOK
<1>2. \A c \in Calls : Waits(c)' \/ Remembered(c)' => call'[c].attempt = call[c].attempt
  BY DEF Waits, Remembered, Counts
<1> QED
  BY <1>1, <1>2 DEF Order

\* An open begins: it has the next number.
LEMMA OrderBegins ==
    ASSUME TypeOK, Order, NEW c \in Calls, NEW w, NEW data \in CallRecord,
           BeginInstall(c, w, data), ~Waits(c), UNCHANGED queue
    PROVE  Order'
<1>1. call'[c].attempt = attempts + 1 /\ attempts' = attempts + 1 /\ pc'[c] = "opening"
  BY DEF BeginInstall, TypeOK, CallRecord
<1>2. \A d \in Calls : d # c => call'[d] = call[d] /\ pc'[d] = pc[d]
  BY DEF BeginInstall, TypeOK
<1>3. /\ attempts \in Nat /\ (\A d \in Calls : call[d].attempt \in Nat)
      /\ \A i \in 1..Len(queue) : queue[i] \in Calls
  BY DEF TypeOK, CallRecord
<1>4. Counts(c)' /\ ~Waits(c)' /\ ~Remembered(c)'
  BY <1>1 DEF Counts, Waits, Remembered, TurnStates
<1>5. \A d \in Calls : d # c => (Counts(d)' <=> Counts(d)) /\ (Waits(d)' <=> Waits(d))
                                 /\ (Remembered(d)' <=> Remembered(d))
  BY <1>2 DEF Counts, Waits, Remembered
<1>6. \A i \in 1..Len(queue) : queue[i] # c
  BY DEF Order
<1>7. \A d \in Calls : Counts(d)' => call'[d].attempt <= attempts'
  BY <1>1, <1>2, <1>3, <1>5 DEF Order
<1>8. \A d, e \in Calls : Counts(d)' /\ Counts(e)' /\ d # e => call'[d].attempt # call'[e].attempt
  <2>1. \A d \in Calls : Counts(d)' /\ d # c => call'[d].attempt < attempts + 1
    BY <1>2, <1>3, <1>5 DEF Order
  <2>2. \A d, e \in Calls : /\ d # c /\ e # c /\ d # e
                            /\ Counts(d)' /\ Counts(e)'
                            => call'[d].attempt # call'[e].attempt
    BY <1>2, <1>5 DEF Order
  <2> QED BY <1>1, <1>3, <2>1, <2>2
<1>9. \A i \in 1..Len(queue') : InLine(queue'[i])
  BY <1>3, <1>5, <1>6 DEF Order, InLine, Waits
<1>10. \A i, j \in 1..Len(queue') : i < j => call'[queue'[i]].attempt < call'[queue'[j]].attempt
  BY <1>2, <1>3, <1>6 DEF Order
<1>11. \A d \in Calls : Waits(d)' => \E i \in 1..Len(queue') : queue'[i] = d
  BY <1>4, <1>5 DEF Order
<1>12. \A d, e \in Calls : Remembered(d)' /\ Waits(e)' => call'[d].attempt < call'[e].attempt
  BY <1>2, <1>4, <1>5 DEF Order
<1> QED
  BY <1>2, <1>4, <1>5, <1>7, <1>8, <1>9, <1>10, <1>11, <1>12, InLineIs DEF Order

\* The newest joins the end of the queue.
LEMMA OrderCommits ==
    ASSUME TypeOK, Order, NEW c \in Calls, Commit(c)
    PROVE  Order'
<1>1. /\ pc' = [pc EXCEPT ![c] = IF call[c].remember THEN "queued" ELSE "done"]
      /\ pc[c] = "addressing" /\ call[c].attempt = attempts
      /\ UNCHANGED <<attempts, call>>
      /\ queue' = IF call[c].remember THEN Append(queue, c) ELSE queue
  BY DEF Commit, StillCurrent, Enqueued
<1>2. Counts(c) /\ ~Waits(c) /\ ~Remembered(c) /\ Counts(c)'
  BY <1>1 DEF TypeOK, Counts, Waits, Remembered, TurnStates
<1>3. \A d \in Calls : d # c => (Counts(d)' <=> Counts(d)) /\ (Waits(d)' <=> Waits(d))
                                 /\ (Remembered(d)' <=> Remembered(d))
  BY <1>1 DEF TypeOK, Counts, Waits, Remembered
<1>4. \A d \in Calls : Counts(d) /\ d # c => call[d].attempt < attempts
  BY <1>1, <1>2 DEF Order, TypeOK, CallRecord
<1>5. CASE ~call[c].remember
  <2>1. ~Waits(c)' /\ ~Remembered(c)' /\ UNCHANGED queue
    BY <1>1, <1>5 DEF TypeOK, Waits, Remembered, TurnStates
  <2> QED
    BY <1>1, <1>2, <1>3, <2>1, OrderUnmoved
<1>6. CASE call[c].remember
  <2>1. Waits(c)' /\ ~Remembered(c)'
    BY <1>1, <1>6 DEF TypeOK, Waits, Remembered
  <2>2. /\ Len(queue') = Len(queue) + 1 /\ Len(queue) \in Nat
        /\ queue'[Len(queue) + 1] = c
        /\ \A i \in 1..Len(queue) : queue'[i] = queue[i] /\ queue[i] \in Calls
    BY <1>1, <1>6 DEF TypeOK
  <2>3. \A i \in 1..Len(queue) : Waits(queue[i]) /\ queue[i] # c
    BY <1>2 DEF Order
  <2>4. \A d \in Calls : Waits(d) \/ Remembered(d) => Counts(d)
    BY DEF Waits, Remembered, Counts
  <2>5. \A i \in 1..Len(queue) : call[queue[i]].attempt < attempts
    BY <1>4, <2>2, <2>3, <2>4
  <2>6. \A i \in 1..Len(queue') : InLine(queue'[i])
    BY <1>3, <2>1, <2>2, <2>3 DEF InLine, Waits
  <2>7. \A i, j \in 1..Len(queue') : i < j => call'[queue'[i]].attempt < call'[queue'[j]].attempt
    BY <1>1, <2>2, <2>5 DEF Order
  <2>8. \A d \in Calls : Waits(d)' => \E i \in 1..Len(queue') : queue'[i] = d
    BY <1>3, <2>2 DEF Order
  <2>9. \A d, e \in Calls : Remembered(d)' /\ Waits(e)' => call'[d].attempt < call'[e].attempt
    BY <1>1, <1>3, <1>4, <2>1, <2>4 DEF Order
  <2>10. \A d \in Calls : Counts(d)' => Counts(d)
    BY <1>2, <1>3
  <2>11. /\ \A d \in Calls : Counts(d)' => call'[d].attempt <= attempts'
         /\ \A d, e \in Calls : Counts(d)' /\ Counts(e)' /\ d # e
                                => call'[d].attempt # call'[e].attempt
    BY <1>1, <2>10 DEF Order
  <2> QED
    BY <1>1, <1>3, <1>6, <2>6, <2>7, <2>8, <2>9, <2>11, InLineIs DEF Order
<1> QED
  BY <1>5, <1>6

\* A turn ends: its call leaves the head of the queue, and if it was recorded
\* it comes before all that wait.
LEMMA OrderTurnEnds ==
    ASSUME TypeOK, Order, NEW c \in Calls, NEW state, EndTurn(c, state), HoldsTurn(c), Waits(c),
           state \in {"done", "superseded", "failed"}, UNCHANGED <<attempts, call>>
    PROVE  Order'
<1>1. pc' = [pc EXCEPT ![c] = state] /\ queue' = Tail(queue)
  BY DEF EndTurn
<1>2. /\ Len(queue) \in Nat \ {0} /\ queue[1] = c
      /\ Len(queue') = Len(queue) - 1
      /\ \A i \in 1..Len(queue') : queue'[i] = queue[i + 1] /\ i + 1 \in 1..Len(queue)
      /\ \A i \in 1..Len(queue) : queue[i] \in Calls
  BY <1>1 DEF HoldsTurn, TypeOK
<1>3. Counts(c) /\ ~Waits(c)'
  BY <1>1 DEF TypeOK, Waits, Counts, TurnStates
<1>4. \A d \in Calls : d # c => (Counts(d)' <=> Counts(d)) /\ (Waits(d)' <=> Waits(d))
                                 /\ (Remembered(d)' <=> Remembered(d))
  BY <1>1 DEF TypeOK, Counts, Waits, Remembered
<1>5. \A i \in 1..Len(queue') : call[c].attempt < call[queue'[i]].attempt
  BY <1>2 DEF Order
<1>6. \A i \in 1..Len(queue') : queue'[i] # c /\ queue'[i] \in Calls
  <2>1. ~(call[c].attempt < call[c].attempt)
    BY DEF TypeOK, CallRecord
  <2> QED BY <1>2, <1>5, <2>1
<1>7. \A i \in 1..Len(queue') : InLine(queue'[i])
  BY <1>2, <1>4, <1>6 DEF Order, InLine, Waits
<1>8. ASSUME NEW i \in 1..Len(queue'), NEW j \in 1..Len(queue'), i < j
      PROVE  call'[queue'[i]].attempt < call'[queue'[j]].attempt
  <2>1. i + 1 \in 1..Len(queue) /\ j + 1 \in 1..Len(queue) /\ i + 1 < j + 1
    BY <1>2, <1>8
  <2>2. call[queue[i + 1]].attempt < call[queue[j + 1]].attempt
    BY <2>1 DEF Order
  <2> QED BY <1>2, <2>2
<1>9. ASSUME NEW d \in Calls, Waits(d)'
      PROVE  \E i \in 1..Len(queue') : queue'[i] = d
  <2>1. d # c /\ Waits(d)
    BY <1>3, <1>4, <1>9
  <2>2. PICK i \in 1..Len(queue) : queue[i] = d
    BY <2>1 DEF Order
  <2>3. i # 1 /\ i - 1 \in 1..Len(queue') /\ (i - 1) + 1 = i
    BY <1>2, <2>1, <2>2
  <2> QED BY <1>2, <2>2, <2>3
<1>10. ASSUME NEW d \in Calls, NEW e \in Calls, Remembered(d)', Waits(e)'
       PROVE  call'[d].attempt < call'[e].attempt
  <2>1. CASE d = c
    BY <1>5, <1>9, <1>10, <2>1
  <2>2. CASE d # c
    BY <1>3, <1>4, <1>10, <2>2 DEF Order
  <2> QED BY <2>1, <2>2
<1>11. \A d \in Calls : Counts(d)' => Counts(d)
  BY <1>3, <1>4
<1>12. /\ \A d \in Calls : Counts(d)' => call'[d].attempt <= attempts'
       /\ \A d, e \in Calls : Counts(d)' /\ Counts(e)' /\ d # e
                              => call'[d].attempt # call'[e].attempt
  BY <1>11 DEF Order
<1> QED
  BY <1>3, <1>4, <1>7, <1>8, <1>9, <1>10, <1>12, InLineIs DEF Order

LEMMA OrderStep ==
    ASSUME TypeInv, Order, [Next]_vars
    PROVE  Order'
<1>0. TypeOK /\ TurnsAreExclusive
  BY DEF TypeInv
<1> DEFINE stays(d) == pc'[d] = pc[d] /\ call'[d] = call[d]
\* A step of one call that neither joins nor leaves the queue.
<1>1. ASSUME NEW c \in Calls, UNCHANGED <<attempts, queue>>,
             \A d \in Calls : d # c => stays(d),
             Counts(c)' => Counts(c) /\ call'[c].attempt = call[c].attempt,
             Waits(c)' <=> Waits(c),
             Waits(c)' => call'[c] = call[c],
             Remembered(c)' => Remembered(c)
      PROVE  Order'
  <2>1. \A d \in Calls : d # c => (Counts(d)' <=> Counts(d)) /\ (Waits(d)' <=> Waits(d))
                                  /\ (Remembered(d)' <=> Remembered(d))
    BY <1>1 DEF Counts, Waits, Remembered
  <2> QED BY <1>0, <1>1, <2>1, OrderUnmoved
<1>2. ASSUME NEW c \in Calls, CallStep(c)
      PROVE  Order'
  <2>0. call[c] \in CallRecord
    BY <1>0 DEF TypeOK
  <2>1. CASE SecretLoaded(c) \/ HistoryReset(c)
    <3>1. PICK w : BeginInstall(c, w, call[c])
      BY <2>1 DEF SecretLoaded, HistoryReset
    <3>2. ~Waits(c) /\ UNCHANGED queue
      BY <2>1 DEF SecretLoaded, HistoryReset, Waits, TurnStates
    <3> QED BY <1>0, <2>0, <3>1, <3>2, OrderBegins
  <2>2. CASE RecordRead(c) \/ StartReset(c)
    <3>1. /\ UNCHANGED <<attempts, queue>> /\ \A d \in Calls : d # c => stays(d)
          /\ pc'[c] \in {"loading", "resetting"} /\ pc[c] \in {"reading", "opening"}
      BY <1>0, <2>2 DEF RecordRead, StartReset, TypeOK
    <3>2. pc'[c] = "resetting" => Counts(c) /\ call'[c].attempt = call[c].attempt
      BY <1>0, <2>0, <2>2 DEF RecordRead, StartReset, TypeOK, CallRecord, Counts
    <3>3. (Counts(c)' => pc'[c] = "resetting") /\ ~Waits(c)' /\ ~Waits(c) /\ ~Remembered(c)'
      BY <3>1 DEF Counts, Waits, Remembered, TurnStates
    <3> QED BY <1>1, <3>1, <3>2, <3>3
  <2>3. CASE Commit(c)
    BY <1>0, <2>3, OrderCommits
  <2>4. CASE HandleCreated(c) \/ Superseded(c) \/ CommitRefused(c)
    <3>1. /\ UNCHANGED <<attempts, queue>> /\ \A d \in Calls : d # c => stays(d)
          /\ call'[c].attempt = call[c].attempt
          /\ pc[c] \in {"opening", "addressing"} /\ pc'[c] \in {"addressing", "superseded", "stranded"}
      BY <1>0, <2>4, CreatedRecord DEF HandleCreated, Superseded, CommitRefused, TypeOK
    <3>2. Counts(c) /\ ~Waits(c)' /\ ~Waits(c) /\ ~Remembered(c)'
      BY <3>1 DEF Counts, Waits, Remembered, TurnStates
    <3> QED BY <1>1, <3>1, <3>2
  <2>5. CASE TurnStart(c)
    <3>1. CASE StillCurrent(c)
      <4>1. /\ UNCHANGED <<attempts, queue, call>> /\ \A d \in Calls : d # c => stays(d)
            /\ pc[c] = "queued" /\ pc'[c] = "remembering"
        BY <1>0, <2>5, <3>1 DEF TurnStart, TypeOK
      <4>2. Counts(c) /\ Waits(c)' /\ Waits(c) /\ ~Remembered(c)'
        BY <4>1 DEF Counts, Waits, Remembered, TurnStates
      <4> QED BY <1>1, <4>1, <4>2
    <3>2. CASE ~StillCurrent(c)
      BY <1>0, <2>5, <3>2, OrderTurnEnds DEF TurnStart, Waits
    <3> QED BY <3>1, <3>2
  <2>6. CASE SecretKept(c) \/ RecordSet(c)
    <3>1. /\ UNCHANGED <<attempts, queue, call>> /\ \A d \in Calls : d # c => stays(d)
          /\ pc[c] \in {"remembering", "recording"}
          /\ pc'[c] \in {"recording", "unremembering", "saving"}
      BY <1>0, <2>6 DEF SecretKept, RecordSet, TypeOK
    <3>2. Counts(c) /\ Waits(c)' /\ Waits(c) /\ ~Remembered(c)'
      BY <3>1 DEF Counts, Waits, Remembered, TurnStates
    <3> QED BY <1>1, <3>1, <3>2
  <2>7. CASE EntryTakenBack(c) \/ Recorded(c) \/ TurnFails(c)
    <3>1. /\ pc[c] \in TurnStates /\ UNCHANGED <<attempts, call>>
          /\ \E state \in {"done", "superseded", "failed"} : EndTurn(c, state)
      BY <2>7 DEF EntryTakenBack, Recorded, TurnFails, TurnStates
    <3>2. HoldsTurn(c) /\ Waits(c)
      BY <1>0, <3>1 DEF TurnsAreExclusive, Waits
    <3> QED BY <1>0, <3>1, <3>2, OrderTurnEnds
  <2>8. CASE RecordRefused(c) \/ SecretRefused(c) \/ OpenRefused(c) \/ ResetRefused(c)
    <3>1. /\ UNCHANGED <<attempts, queue, call>> /\ \A d \in Calls : d # c => stays(d)
          /\ pc[c] \in {"reading", "loading", "opening", "resetting"} /\ pc'[c] = "failed"
      BY <1>0, <2>8, Refusals DEF Leave, TypeOK
    <3>2. ~Counts(c)' /\ ~Waits(c)' /\ ~Waits(c) /\ ~Remembered(c)'
      BY <3>1 DEF Counts, Waits, Remembered, TurnStates
    <3> QED BY <1>1, <3>1, <3>2
  <2> QED
    BY <1>2, <2>1, <2>2, <2>3, <2>4, <2>5, <2>6, <2>7, <2>8 DEF CallStep
<1>3. ASSUME NEW c \in Calls, NEW k \in Keys, NEW remember \in BOOLEAN,
             NEW reset \in BOOLEAN, Enter(c, k, remember, reset)
      PROVE  Order'
  <2> DEFINE data == [NoCall EXCEPT !.remember = remember, !.reset = reset]
  <2>1. data \in CallRecord
    BY NoneAssumption DEF NoCall, CallRecord, Kinds
  <2>2. BeginInstall(c, <<k, config>>, data) /\ ~Waits(c) /\ UNCHANGED queue
    BY <1>3 DEF Enter, Waits, TurnStates
  <2> HIDE DEF data
  <2> QED BY <1>0, <2>1, <2>2, OrderBegins
<1>4. ASSUME NEW c \in Calls, NEW reset \in BOOLEAN, Unlock(c, reset)
      PROVE  Order'
  <2>1. /\ UNCHANGED <<attempts, queue>> /\ \A d \in Calls : d # c => stays(d)
        /\ pc[c] = "idle" /\ pc'[c] = "reading"
    BY <1>0, <1>4 DEF Unlock, TypeOK
  <2>2. ~Counts(c)' /\ ~Waits(c)' /\ ~Waits(c) /\ ~Remembered(c)'
    BY <2>1 DEF Counts, Waits, Remembered, TurnStates
  <2> QED BY <1>1, <2>1, <2>2
<1>5. CASE Restart
  <2>1. queue' = <<>> /\ \A c \in Calls : pc'[c] \in {"idle", "gone"}
    BY <1>5 DEF Restart
  <2>2. \A c \in Calls : ~Counts(c)' /\ ~Waits(c)' /\ ~Remembered(c)'
    BY <2>1 DEF Counts, Waits, Remembered, TurnStates
  <2> QED BY <2>1, <2>2 DEF Order
<1>6. ASSUME UNCHANGED <<pc, call, attempts, queue>> PROVE Order'
  BY <1>0, <1>6, OrderUnmoved DEF Counts, Waits, Remembered
<1>7. ASSUME NEW f \in Forgets, ForgetStep(f) \/ StartForget(f)
      PROVE  UNCHANGED <<pc, call, attempts, queue>>
  BY <1>7 DEF ForgetStep, SecretForgotten, HistoryForgotten, RecordDropped, RecordForgotten,
              ForgetFails, StartForget
<1>8. ASSUME NEW j \in Jobs, JobStep(j) \/ \E kind \in JobKinds : StartJob(j, kind)
      PROVE  UNCHANGED <<pc, call, attempts, queue>>
  BY <1>8 DEF JobStep, JobDone, JobLost, StartJob
<1>9. ASSUME Close \/ ShowSetup \/ (\E n \in Networks : SaveSetup(n)) \/ Autosave
             \/ UNCHANGED vars
      PROVE  UNCHANGED <<pc, call, attempts, queue>>
  BY <1>9 DEF Close, ShowSetup, SaveSetup, Autosave, vars
<1> QED
  BY <1>2, <1>3, <1>4, <1>5, <1>6, <1>7, <1>8, <1>9 DEF Next, Press

-----------------------------------------------------------------------------
(* What the device remembers, in a store that says when a write fails: the *)
(* record shows a write from its first call on, and a call whose save is   *)
(* under way is the last that wrote, but for a forget.                     *)

\* A forget that has dropped the record, or failed before it could.
Dropping(f) == forget[f].state \in {"saving", "failed", "refused", "done"}

\* The record is that of the call whose save is under way, or was dropped.
Showing ==
    \A c \in Calls : pc[c] = "saving" =>
        record = WalletOf(c) \/ (record = None /\ \E f \in Forgets : Dropping(f))

\* Finished, writing, or failed: what RememberedIsRecord looks at.
Past(c) == pc[c] \in {"saving", "failed", "done"}

\* What a step of a call that writes no record does to the others.
LEMMA QuietStep ==
    ASSUME TypeInv, [Next]_vars, NEW c \in Calls, CallStep(c),
           ~RecordSet(c), ~Recorded(c), ~TurnFails(c)
    PROVE  /\ UNCHANGED <<record, forget, remembered>>
           /\ ~Past(c)
           /\ pc'[c] # "saving"
           /\ pc'[c] = "done" => ~call'[c].remember
           /\ \A d \in Calls : d # c => call'[d] = call[d] /\ pc'[d] = pc[d]
<1> USE DEF Past
<1>0. TypeOK
  BY DEF TypeInv
<1>1. CASE RecordRead(c) \/ SecretLoaded(c) \/ StartReset(c) \/ HistoryReset(c)
  <2>1. UNCHANGED <<record, forget, remembered>> /\ ~Past(c)
    BY <1>1 DEF RecordRead, SecretLoaded, StartReset, HistoryReset, durable
  <2> QED BY <1>1, <2>1, CallRecords
<1>2. CASE HandleCreated(c)
  BY <1>0, <1>2, CreatedRecord DEF HandleCreated, durable
<1>3. CASE Commit(c)
  BY <1>0, <1>3 DEF Commit, durable, TypeOK
<1>4. CASE Superseded(c) \/ CommitRefused(c)
  BY <1>0, <1>4 DEF Superseded, CommitRefused, durable, TypeOK
<1>5. CASE TurnStart(c) \/ SecretKept(c) \/ EntryTakenBack(c)
  BY <1>0, <1>5 DEF TurnStart, SecretKept, EntryTakenBack, EndTurn, durable, TypeOK
<1>6. CASE RecordRefused(c) \/ SecretRefused(c) \/ OpenRefused(c) \/ ResetRefused(c)
  BY <1>0, <1>6, Refusals DEF Leave, durable, TypeOK
<1> QED
  BY <1>1, <1>2, <1>3, <1>4, <1>5, <1>6 DEF CallStep

\* What the three steps of a turn that matter here do.
LEMMA WriteStep ==
    ASSUME ~SilentStore, TypeInv, NEW c \in Calls,
           RecordSet(c) \/ Recorded(c) \/ TurnFails(c)
    PROVE  /\ UNCHANGED <<call, forget>>
           /\ \A d \in Calls : d # c => pc'[d] = pc[d] /\ pc[d] # "saving"
           /\ RecordSet(c) => /\ record' = WalletOf(c) /\ pc'[c] = "saving"
                              /\ pc[c] = "recording"
           /\ Recorded(c) => /\ record' = record /\ remembered' = WalletOf(c)
                             /\ pc[c] = "saving" /\ pc'[c] = "done"
           /\ TurnFails(c) => /\ UNCHANGED <<record, remembered>>
                              /\ pc[c] \in TurnStates /\ pc'[c] = "failed"
<1>0. TypeOK /\ TurnsAreExclusive
  BY DEF TypeInv
<1>1. pc[c] \in TurnStates
  BY DEF RecordSet, Recorded, TurnFails, TurnStates
<1>2. \A d \in Calls : d # c => pc[d] \notin TurnStates
  BY <1>0, <1>1 DEF TurnsAreExclusive, HoldsTurn
<1>3. "saving" \in TurnStates
  BY DEF TurnStates
<1>4. CASE RecordSet(c)
  BY <1>0, <1>2, <1>3, <1>4 DEF RecordSet, SetRemembered, Recorded, TurnFails, EndTurn, TypeOK
<1>5. CASE Recorded(c)
  BY <1>0, <1>2, <1>3, <1>5 DEF Recorded, RecordSet, TurnFails, EndTurn, TypeOK
<1>6. CASE TurnFails(c)
  BY <1>0, <1>1, <1>2, <1>3, <1>6 DEF TurnFails, RecordSet, Recorded, EndTurn, durable, TypeOK
<1> QED
  BY <1>4, <1>5, <1>6

\* What a forget does to the record and to the session's copy of it.
LEMMA ForgetSteps ==
    ASSUME ~SilentStore, TypeInv, NEW f \in Forgets, ForgetStep(f) \/ StartForget(f)
    PROVE  /\ UNCHANGED <<pc, call>>
           /\ forget'[f].state # "idle"
           /\ \A g \in Forgets : g # f => forget'[g] = forget[g]
           /\ \/ UNCHANGED <<record, remembered>> /\ ~Dropping(f)
              \/ record' = None /\ forget'[f].state = "saving"
              \/ /\ record' = record /\ forget[f].state = "saving"
                 /\ \/ remembered' = remembered /\ forget'[f].state \in {"failed", "refused"}
                    \/ remembered' = None /\ forget'[f].state = "done"
<1> USE DEF Dropping
<1>0. TypeOK
  BY DEF TypeInv
<1>1. CASE StartForget(f)
  BY <1>0, <1>1 DEF StartForget, durable, TypeOK
<1>2. CASE SecretForgotten(f) \/ HistoryForgotten(f)
  BY <1>0, <1>2 DEF SecretForgotten, HistoryForgotten, SetForget, TypeOK
<1>3. CASE RecordDropped(f)
  BY <1>0, <1>3 DEF RecordDropped, SetRemembered, SetForget, TypeOK
<1>4. CASE RecordForgotten(f)
  <2>1. PICK refused \in BOOLEAN :
           /\ remembered' = IF refused THEN remembered ELSE None
           /\ SetForget(f, IF refused THEN "refused" ELSE "done")
    BY <1>4 DEF RecordForgotten
  <2>2. /\ forget'[f].state = IF refused THEN "refused" ELSE "done"
        /\ \A g \in Forgets : g # f => forget'[g] = forget[g]
    BY <1>0, <2>1 DEF SetForget, TypeOK
  <2>3. UNCHANGED <<pc, call, record>> /\ forget[f].state = "saving"
    BY <1>4 DEF RecordForgotten
  <2> QED BY <2>1, <2>2, <2>3
<1>5. CASE ForgetFails(f)
  <2>1. /\ forget'[f].state = "failed"
        /\ \A g \in Forgets : g # f => forget'[g] = forget[g]
        /\ UNCHANGED <<pc, call, record, remembered>>
        /\ forget[f].state \in {"removing", "deleting", "clearing", "saving"}
    BY <1>0, <1>5 DEF ForgetFails, SetForget, durable, TypeOK
  <2> QED BY <2>1
<1> QED
  BY <1>1, <1>2, <1>3, <1>4, <1>5 DEF ForgetStep

\* A press that opens changes only a call that had not begun.
LEMMA OpenPress ==
    ASSUME TypeInv, NEW c \in Calls,
           \/ \E k \in Keys, remember, reset \in BOOLEAN : Enter(c, k, remember, reset)
           \/ \E reset \in BOOLEAN : Unlock(c, reset)
    PROVE  /\ UNCHANGED <<record, forget, remembered>>
           /\ ~Past(c)
           /\ ~Past(c)'
           /\ \A d \in Calls : d # c => call'[d] = call[d] /\ pc'[d] = pc[d]
  BY PressRecords DEF Past, durable

\* Neither work on the wallet, nor Setup, nor closing touches any of it.
LEMMA ElseStep ==
    ASSUME \/ \E j \in Jobs : JobStep(j) \/ \E kind \in JobKinds : StartJob(j, kind)
           \/ Close \/ ShowSetup \/ (\E n \in Networks : SaveSetup(n)) \/ Autosave
           \/ UNCHANGED vars
    PROVE  UNCHANGED <<pc, call, record, forget, remembered>>
  BY DEF JobStep, JobDone, JobLost, StartJob, Close, ShowSetup, SaveSetup, Autosave, vars, durable

LEMMA ShowingStep ==
    ASSUME ~SilentStore, TypeInv, Showing, [Next]_vars
    PROVE  Showing'
<1> USE DEF Showing
<1>1. ASSUME UNCHANGED <<record, forget>>,
             \A d \in Calls : pc'[d] = "saving" => pc[d] = "saving" /\ call'[d] = call[d]
      PROVE  Showing'
  BY <1>1 DEF WalletOf, Dropping
<1>2. ASSUME NEW c \in Calls, CallStep(c)
      PROVE  Showing'
  <2>1. CASE RecordSet(c)
    BY <2>1, WriteStep DEF WalletOf
  <2>2. CASE Recorded(c) \/ TurnFails(c)
    BY <1>1, <2>2, WriteStep
  <2>3. CASE ~RecordSet(c) /\ ~Recorded(c) /\ ~TurnFails(c)
    BY <1>1, <1>2, <2>3, QuietStep
  <2> QED BY <2>1, <2>2, <2>3
<1>3. ASSUME NEW f \in Forgets, ForgetStep(f) \/ StartForget(f)
      PROVE  Showing'
  <2>1. \A g \in Forgets : Dropping(g) => Dropping(g)'
    BY <1>3, ForgetSteps DEF Dropping
  <2> QED BY <1>3, <2>1, ForgetSteps DEF WalletOf, Dropping
<1>4. ASSUME NEW c \in Calls,
             \/ \E k \in Keys, remember, reset \in BOOLEAN : Enter(c, k, remember, reset)
             \/ \E reset \in BOOLEAN : Unlock(c, reset)
      PROVE  Showing'
  BY <1>1, <1>4, OpenPress DEF Past
<1>5. CASE Restart
  BY <1>5 DEF Restart
<1>6. ASSUME \/ \E j \in Jobs : JobStep(j) \/ \E kind \in JobKinds : StartJob(j, kind)
             \/ Close \/ ShowSetup \/ (\E n \in Networks : SaveSetup(n)) \/ Autosave
             \/ UNCHANGED vars
      PROVE  Showing'
  BY <1>1, <1>6, ElseStep
<1> QED
  BY <1>2, <1>3, <1>4, <1>5, <1>6 DEF Next, Press

LEMMA LastStep ==
    ASSUME ~SilentStore, TypeInv, Order, Showing, LastRememberWins, [Next]_vars
    PROVE  LastRememberWins'
<1> DEFINE forgetting == \E f \in Forgets : forget[f].state # "idle"
<1>0. TypeOK
  BY DEF TypeInv
<1>n. \A c \in Calls : call[c].attempt \in Nat
  BY <1>0 DEF TypeOK, CallRecord
\* A step that keeps the record, and every call past its write.
<1>1. ASSUME UNCHANGED <<record, forget>>,
             \A d \in Calls : Past(d) => pc'[d] = pc[d] /\ call'[d] = call[d],
             \A d \in Calls : Remembered(d)' => Remembered(d)
      PROVE  LastRememberWins'
  <2>1. \A d \in Calls : Recorder(d) => Recorder(d)' /\ call'[d] = call[d]
    BY <1>1 DEF Recorder, Past, WalletOf
  <2>2. \A d \in Calls : Remembered(d) => call'[d] = call[d]
    BY <1>1 DEF Remembered, Past
  <2> QED BY <1>1, <2>1, <2>2 DEF LastRememberWins
<1>2. ASSUME NEW c \in Calls, CallStep(c)
      PROVE  LastRememberWins'
  <2>1. CASE RecordSet(c)
    <3>1. /\ record' = WalletOf(c) /\ pc'[c] = "saving" /\ UNCHANGED call
          /\ pc[c] = "recording" /\ \A d \in Calls : d # c => pc'[d] = pc[d]
      BY <2>1, WriteStep
    <3>2. Waits(c)
      BY <3>1 DEF Waits, TurnStates
    <3>3. call[c].remember /\ \A d \in Calls : Remembered(d) => call[d].attempt < call[c].attempt
      BY <3>2 DEF Order
    <3>4. Recorder(c)'
      BY <3>1, <3>3 DEF Recorder, WalletOf
    <3>5. \A d \in Calls : Remembered(d)' => call'[c].attempt >= call'[d].attempt
      BY <1>n, <3>1, <3>3 DEF Remembered
    <3> QED BY <3>4, <3>5 DEF LastRememberWins
  <2>2. CASE Recorded(c)
    <3>1. /\ UNCHANGED <<record, call, forget>> /\ pc[c] = "saving" /\ pc'[c] = "done"
          /\ \A d \in Calls : d # c => pc'[d] = pc[d]
      BY <2>2, WriteStep
    <3>2. \A d \in Calls : Recorder(d) => Recorder(d)'
      BY <3>1 DEF Recorder, WalletOf
    <3>3. call[c].remember
      BY <3>1 DEF Order, Waits, TurnStates
    <3>4. Recorder(c)' \/ forgetting'
      BY <3>1, <3>3 DEF Showing, Recorder, WalletOf, Dropping
    <3>5. call[c].attempt >= call[c].attempt
      BY <1>n
    <3>6. \A d \in Calls : Remembered(d)' => d = c \/ Remembered(d)
      BY <3>1 DEF Remembered
    <3>7. forgetting' <=> forgetting
      BY <3>1
    <3> QED BY <3>1, <3>2, <3>4, <3>5, <3>6, <3>7 DEF LastRememberWins
  <2>3. CASE TurnFails(c)
    <3>1. /\ UNCHANGED <<record, call, forget>> /\ pc[c] \in TurnStates /\ pc'[c] = "failed"
          /\ \A d \in Calls : d # c => pc'[d] = pc[d]
      BY <2>3, WriteStep
    <3>2. \A d \in Calls : Recorder(d) => Recorder(d)'
      BY <3>1 DEF Recorder, WalletOf, TurnStates
    <3>3. \A d \in Calls : Remembered(d)' => Remembered(d)
      BY <3>1 DEF Remembered
    <3> QED BY <3>1, <3>2, <3>3 DEF LastRememberWins
  <2>4. CASE ~RecordSet(c) /\ ~Recorded(c) /\ ~TurnFails(c)
    <3>1. /\ UNCHANGED <<record, forget>> /\ ~Past(c)
          /\ pc'[c] = "done" => ~call'[c].remember
          /\ \A d \in Calls : d # c => call'[d] = call[d] /\ pc'[d] = pc[d]
      BY <1>2, <2>4, QuietStep
    <3>2. \A d \in Calls : Remembered(d)' => Remembered(d)
      BY <3>1 DEF Remembered
    <3> QED BY <1>1, <3>1, <3>2
  <2> QED BY <2>1, <2>2, <2>3, <2>4
<1>3. ASSUME NEW f \in Forgets, ForgetStep(f) \/ StartForget(f)
      PROVE  LastRememberWins'
  <2>1. forget'[f].state # "idle"
    BY <1>3, ForgetSteps
  <2> QED BY <2>1 DEF LastRememberWins
<1>4. ASSUME NEW c \in Calls,
             \/ \E k \in Keys, remember, reset \in BOOLEAN : Enter(c, k, remember, reset)
             \/ \E reset \in BOOLEAN : Unlock(c, reset)
      PROVE  LastRememberWins'
  <2>1. \A d \in Calls : Remembered(d)' => Remembered(d)
    BY <1>4, OpenPress DEF Remembered, Past
  <2> QED BY <1>1, <1>4, <2>1, OpenPress
<1>5. CASE Restart
  BY <1>5 DEF Restart, LastRememberWins, Remembered
<1>6. ASSUME \/ \E j \in Jobs : JobStep(j) \/ \E kind \in JobKinds : StartJob(j, kind)
             \/ Close \/ ShowSetup \/ (\E n \in Networks : SaveSetup(n)) \/ Autosave
             \/ UNCHANGED vars
      PROVE  LastRememberWins'
  BY <1>1, <1>6, ElseStep DEF Remembered
<1> QED
  BY <1>2, <1>3, <1>4, <1>5, <1>6 DEF Next, Press

\* serializeRemember lets the last remembered wallet win: however many opens
\* race, fail at any of their calls or are superseded, the record is never an
\* older attempt's than the last that finished, as long as the store says when
\* a write fails.
THEOREM LastRemembered ==
    ASSUME ~SilentStore
    PROVE  Spec => []LastRememberWins
<1>1. Init => Order /\ Showing /\ LastRememberWins
  BY DEF Init, Order, Showing, LastRememberWins, Counts, Waits, Remembered, TurnStates
<1>2. ASSUME TypeInv, Order, Showing, LastRememberWins, [Next]_vars
      PROVE  Order' /\ Showing' /\ LastRememberWins'
  BY <1>2, OrderStep, ShowingStep, LastStep
<1> QED
  BY <1>1, <1>2, TypeInvariant, PTL DEF Spec

LEMMA RememberedStep ==
    ASSUME ~SilentStore, TypeInv, Order, Showing, RememberedIsRecord, [Next]_vars
    PROVE  RememberedIsRecord'
<1> DEFINE Unsaved == \E c \in Calls : Recorder(c) /\ pc[c] # "done"
           Dropped == \E f \in Forgets : forget[f].state \in {"saving", "failed", "refused"}
           Crossed == /\ \E f \in Forgets : forget[f].state = "done"
                      /\ \E c \in Calls : Remembered(c) /\ remembered = WalletOf(c)
<1>0. TypeOK
  BY DEF TypeInv
<1>i. remembered \in {None, record} \/ Unsaved \/ (record = None /\ (Dropped \/ Crossed))
  BY DEF RememberedIsRecord
<1>g. ASSUME \/ remembered' \in {None, record'}
             \/ Unsaved'
             \/ record' = None /\ (Dropped' \/ Crossed')
      PROVE  RememberedIsRecord'
  BY <1>g DEF RememberedIsRecord
<1> HIDE DEF Unsaved, Dropped, Crossed
\* A step that keeps the record, the session's copy and every call past its write.
<1>1. ASSUME UNCHANGED <<remembered, record, forget>>,
             \A d \in Calls : Past(d) => pc'[d] = pc[d] /\ call'[d] = call[d]
      PROVE  RememberedIsRecord'
  <2>1. Unsaved => Unsaved'
    BY <1>1 DEF Unsaved, Recorder, Past, WalletOf
  <2>2. Dropped => Dropped'
    BY <1>1 DEF Dropped
  <2>3. Crossed => Crossed'
    BY <1>1 DEF Crossed, Remembered, Past, WalletOf
  <2> QED BY <1>1, <1>g, <1>i, <2>1, <2>2, <2>3
<1>2. ASSUME NEW c \in Calls, CallStep(c)
      PROVE  RememberedIsRecord'
  <2>1. CASE RecordSet(c)
    <3>1. /\ record' = WalletOf(c) /\ pc'[c] = "saving" /\ UNCHANGED call /\ pc[c] = "recording"
      BY <2>1, WriteStep
    <3>2. call[c].remember
      BY <3>1 DEF Order, Waits, TurnStates
    <3>3. Unsaved'
      BY <3>1, <3>2 DEF Unsaved, Recorder, WalletOf
    <3> QED BY <1>g, <3>3
  <2>2. CASE Recorded(c)
    <3>1. /\ UNCHANGED <<record, call, forget>> /\ pc[c] = "saving" /\ pc'[c] = "done"
          /\ remembered' = WalletOf(c)
      BY <2>2, WriteStep
    <3>2. call[c].remember
      BY <3>1 DEF Order, Waits, TurnStates
    <3>3. CASE record = WalletOf(c)
      BY <1>g, <3>1, <3>3
    <3>4. CASE record = None /\ \E f \in Forgets : Dropping(f)
      <4>1. Remembered(c)' /\ remembered' = WalletOf(c)'
        BY <3>1, <3>2 DEF Remembered, WalletOf
      <4>2. PICK f \in Forgets : Dropping(f)
        BY <3>4
      <4>3. Dropped' \/ Crossed'
        BY <3>1, <4>1, <4>2 DEF Dropped, Crossed, Dropping
      <4> QED BY <1>g, <3>1, <3>4, <4>3
    <3> QED BY <3>1, <3>3, <3>4 DEF Showing
  <2>3. CASE TurnFails(c)
    <3>1. /\ UNCHANGED <<record, remembered, call, forget>>
          /\ pc[c] \in TurnStates /\ pc'[c] = "failed"
          /\ \A d \in Calls : d # c => pc'[d] = pc[d]
      BY <2>3, WriteStep
    <3>2. Unsaved => Unsaved'
      BY <3>1 DEF Unsaved, Recorder, WalletOf
    <3>3. Dropped => Dropped'
      BY <3>1 DEF Dropped
    <3>4. Crossed => Crossed'
      BY <3>1 DEF Crossed, Remembered, WalletOf, TurnStates
    <3> QED BY <1>g, <1>i, <3>1, <3>2, <3>3, <3>4
  <2>4. CASE ~RecordSet(c) /\ ~Recorded(c) /\ ~TurnFails(c)
    BY <1>1, <1>2, <2>4, QuietStep
  <2> QED BY <2>1, <2>2, <2>3, <2>4
<1>3. ASSUME NEW f \in Forgets, ForgetStep(f) \/ StartForget(f)
      PROVE  RememberedIsRecord'
  <2>0. UNCHANGED <<pc, call>> /\ \A g \in Forgets : g # f => forget'[g] = forget[g]
    BY <1>3, ForgetSteps
  <2>1. CASE UNCHANGED <<record, remembered>> /\ ~Dropping(f)
    <3>1. Unsaved => Unsaved'
      BY <2>0, <2>1 DEF Unsaved, Recorder, WalletOf
    <3>2. Dropped => Dropped'
      BY <2>0, <2>1 DEF Dropped, Dropping
    <3>3. Crossed => Crossed'
      BY <2>0, <2>1 DEF Crossed, Dropping, Remembered, WalletOf
    <3> QED BY <1>g, <1>i, <2>1, <3>1, <3>2, <3>3
  <2>2. CASE record' = None /\ forget'[f].state = "saving"
    <3>1. Dropped'
      BY <2>2 DEF Dropped
    <3> QED BY <1>g, <2>2, <3>1
  <2>3. CASE /\ record' = record /\ remembered' = remembered
             /\ forget'[f].state \in {"failed", "refused"}
    <3>1. Unsaved => Unsaved'
      BY <2>0, <2>3 DEF Unsaved, Recorder, WalletOf
    <3>2. Dropped'
      BY <2>3 DEF Dropped
    <3> QED BY <1>g, <1>i, <2>3, <3>1, <3>2
  <2>4. CASE remembered' = None
    BY <1>g, <2>4
  <2> QED BY <1>3, <2>1, <2>2, <2>3, <2>4, ForgetSteps
<1>4. ASSUME NEW c \in Calls,
             \/ \E k \in Keys, remember, reset \in BOOLEAN : Enter(c, k, remember, reset)
             \/ \E reset \in BOOLEAN : Unlock(c, reset)
      PROVE  RememberedIsRecord'
  BY <1>1, <1>4, OpenPress
<1>5. CASE Restart
  BY <1>5, <1>g DEF Restart
<1>6. ASSUME \/ \E j \in Jobs : JobStep(j) \/ \E kind \in JobKinds : StartJob(j, kind)
             \/ Close \/ ShowSetup \/ (\E n \in Networks : SaveSetup(n)) \/ Autosave
             \/ UNCHANGED vars
      PROVE  RememberedIsRecord'
  BY <1>1, <1>6, ElseStep
<1> QED
  BY <1>2, <1>3, <1>4, <1>5, <1>6 DEF Next, Press

\* openAndEnter, forgetWallet and boot keep session.remembered true to the
\* record, but for a write not saved, a forget whose release of the open wallet
\* threw, and a remember that finished over a forget, as long as the store says
\* when a write fails.
THEOREM RememberedMirrors ==
    ASSUME ~SilentStore
    PROVE  Spec => []RememberedIsRecord
<1>1. Init => Order /\ Showing /\ RememberedIsRecord
  BY DEF Init, Order, Showing, RememberedIsRecord, Counts, Waits, Remembered, TurnStates
<1>2. ASSUME TypeInv, Order, Showing, RememberedIsRecord, [Next]_vars
      PROVE  Order' /\ Showing' /\ RememberedIsRecord'
  BY <1>2, OrderStep, ShowingStep, RememberedStep
<1> QED
  BY <1>1, <1>2, TypeInvariant, PTL DEF Spec
-----------------------------------------------------------------------------
\* serializeRemember's queue is exactly the calls that wait or have their turn,
\* and only its head has one: whatever a turn comes to, nobody waits behind one
\* that is over.  EveryPressIsAnswered rests on it.
THEOREM QueueGoesOn == Spec => []QueueMovesOn
<1>1. Init => Order
  BY DEF Init, Order, Counts, Waits, Remembered, TurnStates
<1>2. TypeInv /\ Order /\ [Next]_vars => Order'
  BY OrderStep
<1>3. TypeInv /\ Order => QueueMovesOn
  <2> SUFFICES ASSUME TypeInv, Order PROVE QueueMovesOn
    OBVIOUS
  <2>1. /\ DOMAIN queue = 1 .. Len(queue)
        /\ \A i \in 1 .. Len(queue) : queue[i] \in Calls
        /\ \A c \in Calls : call[c].attempt \in Nat
    BY DEF TypeInv, TypeOK, CallRecord
  <2>2. \A c \in Calls : InQueue(c) <=> pc[c] \in {"queued"} \cup TurnStates
    BY <2>1 DEF Order, InQueue, Waits
  <2>3. ASSUME NEW i \in DOMAIN queue, NEW j \in DOMAIN queue, queue[i] = queue[j] PROVE i = j
    <3>1. i \in Nat /\ j \in Nat
      BY <2>1
    <3>2. ~(i < j) /\ ~(j < i)
      BY <2>1, <2>3 DEF Order
    <3> QED
      BY <3>1, <3>2
  <2> QED
    BY <2>2, <2>3 DEF QueueMovesOn, TypeInv
<1> QED
  BY <1>1, <1>2, <1>3, TypeInvariant, PTL DEF Spec
-----------------------------------------------------------------------------
(* What the comments of the code say, and what it takes for them to hold.  *)

\* An Unlock that has checked its record's network, and has yet to read the
\* server it opens on, or may read it again after a history reset.
Unlocking(c) ==
    \/ pc[c] = "loading"
    \/ pc[c] = "opening" /\ call[c].kind = "unlock" /\ call[c].reset
    \/ pc[c] = "resetting" /\ call[c].kind = "unlock"

\* Nobody saves a Setup under one.
SetupWaits == [][(\E c \in Calls : Unlocking(c)) => UNCHANGED config]_vars

ServerInv ==
    /\ \A c \in Calls :
         /\ Unlocking(c) => WalletOf(c)[2] = config
         /\ pc[c] \in {"opening", "addressing"} => call[c].server = WalletOf(c)[2]
    /\ OpenOnItsOwnServer

\* install's first step takes the server from the settings.
LEMMA InstallServer ==
    ASSUME TypeOK, NEW c \in Calls, NEW w \in Wallets, NEW data \in CallRecord,
           BeginInstall(c, w, data)
    PROVE  /\ call'[c].wallet = w /\ call'[c].server = config /\ call'[c].kind = data.kind
           /\ pc'[c] = "opening"
           /\ \A d \in Calls : d # c => call'[d] = call[d] /\ pc'[d] = pc[d]
<1> DEFINE n == attempts + 1
<1>1. call' = [call EXCEPT ![c] = [data EXCEPT !.wallet = w, !.attempt = n, !.server = config]]
      /\ pc' = [pc EXCEPT ![c] = "opening"]
  BY DEF BeginInstall
<1> HIDE DEF n
<1> DEFINE new == [data EXCEPT !.wallet = w, !.attempt = n, !.server = config]
<1>2. new.wallet = w /\ new.server = config /\ new.kind = data.kind
  BY Zenon DEF CallRecord
<1>3. call' = [call EXCEPT ![c] = new]
  BY <1>1
<1> HIDE DEF new
<1> QED BY <1>1, <1>2, <1>3 DEF TypeOK

LEMMA ServerStep ==
    ASSUME TypeInv, ServerInv, [Next]_vars,
           (\E c \in Calls : Unlocking(c)) => UNCHANGED config
    PROVE  ServerInv'
<1> DEFINE Consistent(c) == /\ Unlocking(c) => WalletOf(c)[2] = config
                            /\ pc[c] \in {"opening", "addressing"} => call[c].server = WalletOf(c)[2]
<1>0. /\ TypeOK
      /\ handle # None => handle \in Calls /\ pc[handle] \in Committed
      /\ \A c \in Calls : pc[c] # "idle" => config \in Networks
      /\ \A c \in Calls : call[c] \in CallRecord
      /\ \A c \in Calls : pc[c] \in Acting => call[c].wallet \in Wallets
  BY DEF TypeInv, TypeOK, Known, Owns
<1>s. (\A c \in Calls : Consistent(c)) /\ OpenOnItsOwnServer
  BY DEF ServerInv
\* A step of one call that has not committed.
<1>1. ASSUME NEW c \in Calls, pc[c] \notin Committed, UNCHANGED <<config, handle>>,
             \A d \in Calls : d # c => call'[d] = call[d] /\ pc'[d] = pc[d],
             Consistent(c)'
      PROVE  ServerInv'
  <2>1. \A d \in Calls : d # c => Consistent(d)'
    BY <1>1, <1>s DEF Unlocking, WalletOf
  <2>2. OpenOnItsOwnServer'
    BY <1>0, <1>1, <1>s DEF OpenOnItsOwnServer, WalletOf
  <2> QED BY <1>1, <2>1, <2>2 DEF ServerInv
\* A step after which no more calls open than before, nor another wallet is open.
<1>2. ASSUME UNCHANGED <<config, call>>, handle' \in {handle, None},
             \A d \in Calls : \/ pc'[d] \notin {"loading", "opening", "resetting", "addressing"}
                              \/ pc'[d] = pc[d]
      PROVE  ServerInv'
  BY <1>2 DEF ServerInv, Unlocking, WalletOf, OpenOnItsOwnServer
<1>3. ASSUME NEW c \in Calls, CallStep(c)
      PROVE  ServerInv'
  <2>1. CASE RecordRead(c)
    <3>1. call' = [call EXCEPT ![c].wallet = record] /\ pc' = [pc EXCEPT ![c] = "loading"]
          /\ record[2] = config /\ UNCHANGED <<config, handle>>
      BY <2>1 DEF RecordRead
    <3>2. call'[c].wallet = record
      BY <1>0, <3>1 DEF TypeOK, CallRecord
    <3> QED BY <1>0, <1>1, <2>1, <3>1, <3>2
               DEF RecordRead, TypeOK, Committed, TurnStates, WalletOf
  <2>2. CASE SecretLoaded(c)
    <3>1. /\ BeginInstall(c, WalletOf(c), call[c]) /\ WalletOf(c) \in Wallets
          /\ pc[c] = "loading" /\ UNCHANGED <<config, handle>>
      BY <1>0, <2>2 DEF SecretLoaded, TypeOK
    <3>2. WalletOf(c)[2] = config
      BY <1>s, <3>1 DEF Unlocking
    <3> QED BY <1>0, <1>1, <3>1, <3>2, InstallServer DEF Committed, TurnStates, WalletOf
  <2>3. CASE HandleCreated(c)
    <3>1. Consistent(c)'
      BY <1>0, <1>s, <2>3 DEF HandleCreated, TypeOK, Unlocking, WalletOf
    <3> QED BY <1>0, <1>1, <2>3, <3>1 DEF HandleCreated, TypeOK, Committed, TurnStates
  <2>4. CASE StartReset(c)
    <3> DEFINE w == IF call[c].kind = "unlock" THEN call[c].wallet ELSE <<call[c].wallet[1], config>>
               new == [call[c] EXCEPT !.reset = FALSE, !.wallet = w]
    <3>1. call' = [call EXCEPT ![c] = new] /\ pc' = [pc EXCEPT ![c] = "resetting"]
          /\ UNCHANGED <<config, handle>> /\ pc[c] = "opening" /\ call[c].reset
      BY <2>4 DEF StartReset
    <3> HIDE DEF w
    <3>2. new.kind = call[c].kind /\ new.wallet = w
      BY <1>0, Zenon DEF CallRecord
    <3> HIDE DEF new
    <3>3. call'[c].kind = call[c].kind /\ call'[c].wallet = w /\ pc'[c] = "resetting"
      BY <1>0, <3>1, <3>2 DEF TypeOK
    <3>4. call[c].kind = "unlock" => w = WalletOf(c) /\ WalletOf(c)[2] = config
      BY <1>s, <3>1 DEF w, Unlocking, WalletOf
    <3>5. Consistent(c)'
      BY <3>1, <3>3, <3>4 DEF Unlocking, WalletOf
    <3> QED BY <1>0, <1>1, <3>1, <3>5 DEF TypeOK, Committed, TurnStates
  <2>5. CASE HistoryReset(c)
    <3>1. pc[c] = "resetting" /\ UNCHANGED <<config, handle>> /\ WalletOf(c) \in Wallets
          /\ config \in Networks
      BY <1>0, <2>5 DEF HistoryReset, Acting, WalletOf
    <3>2. PICK w \in Wallets : BeginInstall(c, w, call[c]) /\ w[2] = config
      <4>1. CASE call[c].kind = "unlock"
        BY <1>s, <2>5, <3>1, <4>1 DEF HistoryReset, Unlocking
      <4>2. CASE call[c].kind # "unlock"
        BY <2>5, <3>1, <4>2, PairIsWallet DEF HistoryReset
      <4> QED BY <4>1, <4>2
    <3> QED BY <1>0, <1>1, <3>1, <3>2, InstallServer DEF Committed, TurnStates, WalletOf
  <2>6. CASE Commit(c)
    <3>1. handle' = c /\ UNCHANGED <<config, call>> /\ pc[c] = "addressing"
          /\ \A d \in Calls : d # c => pc'[d] = pc[d]
      BY <1>0, <2>6 DEF Commit, TypeOK
    <3>2. pc'[c] \notin {"loading", "opening", "resetting", "addressing"}
      BY <1>0, <2>6 DEF Commit, TypeOK
    <3> QED BY <1>s, <3>1, <3>2 DEF ServerInv, OpenOnItsOwnServer, Unlocking, WalletOf
  <2>7. CASE Superseded(c) \/ CommitRefused(c) \/ TurnStart(c) \/ SecretKept(c) \/ RecordSet(c)
    BY <1>0, <1>2, <2>7 DEF Superseded, CommitRefused, TurnStart, EndTurn, SecretKept, RecordSet,
                            TypeOK
  <2>8. CASE EntryTakenBack(c) \/ Recorded(c) \/ TurnFails(c)
    BY <1>0, <1>2, <2>8 DEF EntryTakenBack, Recorded, TurnFails, EndTurn, TypeOK
  <2>9. CASE RecordRefused(c) \/ SecretRefused(c) \/ OpenRefused(c) \/ ResetRefused(c)
    BY <1>0, <1>2, <2>9, Refusals DEF Leave, TypeOK
  <2> QED
    BY <1>3, <2>1, <2>2, <2>3, <2>4, <2>5, <2>6, <2>7, <2>8, <2>9 DEF CallStep
<1>4. ASSUME NEW c \in Calls, NEW k \in Keys, NEW remember \in BOOLEAN, NEW reset \in BOOLEAN,
             Enter(c, k, remember, reset)
      PROVE  ServerInv'
  <2> DEFINE data == [NoCall EXCEPT !.remember = remember, !.reset = reset]
             w == <<k, config>>
  <2>1. w \in Wallets /\ w[2] = config
    BY <1>0, <1>4 DEF Enter, RequireConfig, Wallets, TypeOK
  <2>2. data \in CallRecord /\ data.kind = "enter"
    BY DEF NoCall, CallRecord, Kinds
  <2>3. BeginInstall(c, w, data) /\ pc[c] = "idle" /\ UNCHANGED <<config, handle>>
    BY <1>4 DEF Enter
  <2> HIDE DEF data, w
  <2> QED BY <1>0, <1>1, <2>1, <2>2, <2>3, InstallServer
             DEF Committed, TurnStates, Unlocking, WalletOf
<1>5. ASSUME NEW c \in Calls, \E reset \in BOOLEAN : Unlock(c, reset)
      PROVE  ServerInv'
  <2>1. pc' = [pc EXCEPT ![c] = "reading"] /\ pc[c] = "idle" /\ UNCHANGED <<config, handle>>
        /\ \A d \in Calls : d # c => call'[d] = call[d]
    BY <1>0, <1>5 DEF Unlock, TypeOK
  <2> QED BY <1>0, <1>1, <2>1 DEF TypeOK, Committed, TurnStates, Unlocking
<1>6. ASSUME NEW f \in Forgets, ForgetStep(f) \/ StartForget(f)
      PROVE  ServerInv'
  BY <1>2, <1>6 DEF ForgetStep, SecretForgotten, HistoryForgotten, RecordDropped, RecordForgotten,
                    ForgetFails, StartForget
<1>7. ASSUME NEW j \in Jobs, JobStep(j) \/ \E kind \in JobKinds : StartJob(j, kind)
      PROVE  ServerInv'
  BY <1>2, <1>7 DEF JobStep, JobDone, JobLost, StartJob
<1>8. ASSUME NEW n \in Networks, SaveSetup(n)
      PROVE  ServerInv'
  <2>1. (\E c \in Calls : Unlocking(c)) => config' = config
    OBVIOUS
  <2>2. UNCHANGED <<pc, call, handle>>
    BY <1>8 DEF SaveSetup
  <2> QED BY <1>s, <2>1, <2>2 DEF ServerInv, OpenOnItsOwnServer, Unlocking, WalletOf
<1>9. CASE Restart
  BY <1>0, <1>2, <1>9 DEF Restart
<1>10. CASE Close \/ ShowSetup \/ Autosave \/ UNCHANGED vars
  BY <1>2, <1>10 DEF Close, ShowSetup, Autosave, vars
<1> QED
  BY <1>3, <1>4, <1>5, <1>6, <1>7, <1>8, <1>9, <1>10 DEF Next, Press

\* A wallet is opened on a server of its own network unless a Setup is saved
\* between an Unlock's check of the network and its open: that is the one way
\* (OpenOnItsOwnServer).
THEOREM OwnServerUnlessSetup == Spec /\ SetupWaits => []OpenOnItsOwnServer
<1>1. Init => ServerInv
  BY DEF Init, ServerInv, Unlocking, OpenOnItsOwnServer
<1>2. TypeInv /\ ServerInv /\ [Next]_vars /\ [(\E c \in Calls : Unlocking(c)) => UNCHANGED config]_vars
          => ServerInv'
  <2>1. UNCHANGED vars => UNCHANGED config
    BY DEF vars
  <2> QED BY <2>1, ServerStep
<1>3. ServerInv => OpenOnItsOwnServer
  BY DEF ServerInv
<1> QED
  BY <1>1, <1>2, <1>3, TypeInvariant, PTL DEF Spec, SetupWaits

\* A call whose turn comes is not about to remember the wallet already remembered,
\* in the store or in its file.
RemembersAnother ==
    [][\A c \in Calls : pc[c] = "queued" /\ pc'[c] = "remembering"
                            => WalletOf(c) \notin {record, disk}]_vars

\* The entries that may be taken back are not the remembered wallet's.
OthersEntries ==
    \A c \in Calls : pc[c] \in {"remembering", "unremembering"}
                        => WalletOf(c) \notin {record, disk}

\* The wallet's secret is kept, or it is being forgotten.
KeyOf(w) == w # None => w \in keystore \/ \E f \in Forgets : forget[f].wallet = w
KeysKept == KeyOf(record) /\ KeyOf(disk)

LEMMA OthersEntriesStep ==
    ASSUME TypeInv, TurnsAreExclusive', OthersEntries, [Next]_vars,
           \A c \in Calls : pc[c] = "queued" /\ pc'[c] = "remembering"
                               => WalletOf(c) \notin {record, disk}
    PROVE  OthersEntries'
<1> USE DEF OthersEntries
<1>0. TypeOK /\ TurnsAreExclusive
  BY DEF TypeInv
<1>n. \A c \in Calls : pc[c] \in TurnStates => WalletOf(c) # None
  BY NoneAssumption DEF TypeInv, Known, Acting, WalletOf
\* A step that records no other wallet and has no other call store its secret.
<1>1. ASSUME record' \in {record, disk}, disk' \in {record, disk},
             \A d \in Calls : pc'[d] \in {"remembering", "unremembering"} =>
                 pc[d] \in {"remembering", "unremembering"} /\ call'[d] = call[d]
      PROVE  OthersEntries'
  BY <1>1 DEF WalletOf
<1>2. ASSUME NEW c \in Calls, CallStep(c)
      PROVE  OthersEntries'
  <2>1. CASE RecordRead(c) \/ SecretLoaded(c) \/ StartReset(c) \/ HistoryReset(c)
    <3>1. UNCHANGED <<record, disk>>
      BY <2>1 DEF RecordRead, SecretLoaded, StartReset, HistoryReset, durable
    <3> QED BY <1>1, <2>1, <3>1, CallRecords
  <2>2. CASE Superseded(c) \/ Commit(c) \/ CommitRefused(c)
    BY <1>0, <1>1, <2>2 DEF Superseded, Commit, CommitRefused, durable, TypeOK
  <2>8. CASE HandleCreated(c)
    BY <1>0, <1>1, <2>8, CreatedRecord DEF HandleCreated, durable
  <2>3. CASE TurnStart(c)
    <3>1. /\ UNCHANGED <<record, disk, call>> /\ pc[c] = "queued"
          /\ \A d \in Calls : d # c => pc'[d] = pc[d]
      BY <1>0, <2>3 DEF TurnStart, EndTurn, durable, TypeOK
    <3>2. pc'[c] = "remembering" \/ pc'[c] = "superseded"
      BY <1>0, <2>3 DEF TurnStart, EndTurn, TypeOK
    <3> QED BY <3>1, <3>2 DEF WalletOf
  <2>4. CASE SecretKept(c)
    BY <1>0, <1>1, <2>4 DEF SecretKept, TypeOK
  <2>5. CASE EntryTakenBack(c) \/ TurnFails(c)
    BY <1>0, <1>1, <2>5 DEF EntryTakenBack, TurnFails, EndTurn, durable, TypeOK
  <2>6. CASE RecordSet(c) \/ Recorded(c)
    <3>1. pc[c] \in {"recording", "saving"} /\ pc'[c] \in {"saving", "done"}
          /\ \A d \in Calls : d # c => pc'[d] = pc[d]
      BY <1>0, <2>6 DEF RecordSet, Recorded, EndTurn, TypeOK
    <3>2. \A d \in Calls : d # c => pc[d] \notin TurnStates
      BY <1>0, <3>1 DEF TurnsAreExclusive, HoldsTurn, TurnStates
    <3> QED BY <1>0, <3>1, <3>2 DEF TypeOK, TurnStates
  <2>7. CASE RecordRefused(c) \/ SecretRefused(c) \/ OpenRefused(c) \/ ResetRefused(c)
    BY <1>0, <1>1, <2>7, Refusals DEF Leave, durable, TypeOK
  <2> QED
    BY <1>2, <2>1, <2>2, <2>3, <2>4, <2>5, <2>6, <2>7, <2>8 DEF CallStep
<1>3. ASSUME NEW c \in Calls,
             \/ \E k \in Keys, remember, reset \in BOOLEAN : Enter(c, k, remember, reset)
             \/ \E reset \in BOOLEAN : Unlock(c, reset)
      PROVE  OthersEntries'
  BY <1>1, <1>3, PressRecords DEF durable
<1>4. ASSUME NEW f \in Forgets, ForgetStep(f) \/ StartForget(f)
      PROVE  OthersEntries'
  <2>1. UNCHANGED <<pc, call>> /\ record' \in {record, None} /\ disk' \in {disk, record}
    BY <1>4 DEF ForgetStep, SecretForgotten, HistoryForgotten, RecordDropped, RecordForgotten,
                ForgetFails, StartForget, SetRemembered, durable
  <2> QED BY <1>n, <2>1 DEF WalletOf, TurnStates
<1>5. ASSUME NEW j \in Jobs, JobStep(j) \/ \E kind \in JobKinds : StartJob(j, kind)
      PROVE  OthersEntries'
  BY <1>1, <1>5 DEF JobStep, JobDone, JobLost, StartJob, durable
<1>6. CASE Close \/ ShowSetup \/ (\E n \in Networks : SaveSetup(n)) \/ Autosave
           \/ UNCHANGED vars
  BY <1>1, <1>6 DEF Close, ShowSetup, SaveSetup, Autosave, vars, durable
<1>7. CASE Restart
  BY <1>7 DEF Restart
<1> QED
  BY <1>2, <1>3, <1>4, <1>5, <1>6, <1>7 DEF Next, Press

LEMMA KeysKeptStep ==
    ASSUME TypeInv, KeyInv, OthersEntries, KeysKept, [Next]_vars
    PROVE  KeysKept'
<1> USE DEF KeysKept, KeyOf
<1>0. TypeOK
  BY DEF TypeInv
<1>1. ASSUME record' \in {record, disk, None}, disk' \in {record, disk}, UNCHANGED forget,
             keystore \subseteq keystore'
      PROVE  KeysKept'
  BY <1>1
<1>2. ASSUME NEW c \in Calls, CallStep(c)
      PROVE  KeysKept'
  <2>1. CASE EntryTakenBack(c)
    BY <2>1 DEF EntryTakenBack, OthersEntries
  <2>2. CASE RecordSet(c)
    <3>1. \/ WalletOf(c) \in keystore
          \/ \E f \in Forgets : forget[f].wallet = WalletOf(c)
      BY <2>2 DEF RecordSet, KeyInv, RecordingKeyIsKept
    <3>2. record' \in {WalletOf(c), record} /\ UNCHANGED <<keystore, disk, forget>>
      BY <2>2 DEF RecordSet, SetRemembered
    <3> QED BY <3>1, <3>2
  <2>3. CASE SecretKept(c) \/ Recorded(c)
    BY <1>1, <2>3 DEF SecretKept, Recorded
  <2>4. CASE RecordRead(c) \/ SecretLoaded(c) \/ HandleCreated(c) \/ StartReset(c) \/ HistoryReset(c)
    BY <1>1, <2>4 DEF RecordRead, SecretLoaded, HandleCreated, StartReset, HistoryReset, durable
  <2>5. CASE Superseded(c) \/ Commit(c) \/ CommitRefused(c) \/ TurnStart(c) \/ TurnFails(c)
    BY <1>1, <2>5 DEF Superseded, Commit, CommitRefused, TurnStart, TurnFails, durable
  <2>6. CASE RecordRefused(c) \/ SecretRefused(c) \/ OpenRefused(c) \/ ResetRefused(c)
    BY <1>1, <2>6, Refusals DEF Leave, durable
  <2> QED
    BY <1>2, <2>1, <2>2, <2>3, <2>4, <2>5, <2>6 DEF CallStep
<1>3. ASSUME NEW c \in Calls,
             \/ \E k \in Keys, remember, reset \in BOOLEAN : Enter(c, k, remember, reset)
             \/ \E reset \in BOOLEAN : Unlock(c, reset)
      PROVE  KeysKept'
  BY <1>1, <1>3, PressRecords DEF durable
<1>4. ASSUME NEW f \in Forgets, ForgetStep(f) \/ StartForget(f)
      PROVE  KeysKept'
  <2>1. \A g \in Forgets : g # f => forget'[g] = forget[g]
    BY <1>0, <1>4 DEF ForgetStep, SecretForgotten, HistoryForgotten, RecordDropped, RecordForgotten,
                      ForgetFails, StartForget, SetForget, TypeOK
  <2>2. CASE StartForget(f)
    <3>1. forget[f].wallet = None /\ UNCHANGED <<record, disk, keystore>>
      BY <2>2 DEF StartForget, KeyInv, ForgetsBegin, durable
    <3> QED BY <2>1, <3>1
  <2>3. CASE ForgetStep(f)
    <3>1. /\ forget'[f].wallet = forget[f].wallet
          /\ keystore \ {forget[f].wallet} \subseteq keystore'
          /\ record' \in {record, None} /\ disk' \in {record, disk}
      BY <1>0, <2>3 DEF ForgetStep, SecretForgotten, HistoryForgotten, RecordDropped,
                        RecordForgotten, ForgetFails, SetForget, SetRemembered, durable, TypeOK
    <3> QED BY <2>1, <3>1
  <2> QED BY <1>4, <2>2, <2>3
<1>5. ASSUME NEW j \in Jobs, JobStep(j) \/ \E kind \in JobKinds : StartJob(j, kind)
      PROVE  KeysKept'
  BY <1>1, <1>5 DEF JobStep, JobDone, JobLost, StartJob, durable
<1>6. CASE Close \/ ShowSetup \/ (\E n \in Networks : SaveSetup(n)) \/ Autosave
           \/ UNCHANGED vars
  BY <1>1, <1>6 DEF Close, ShowSetup, SaveSetup, Autosave, vars, durable
<1>7. CASE Restart
  <2>1. \A f \in Forgets : forget[f].state # "idle" => forget'[f].wallet = forget[f].wallet
    BY <1>0, <1>7 DEF Restart, TypeOK
  <2>2. \A f \in Forgets : forget[f].state = "idle" => forget[f].wallet = None
    BY DEF KeyInv, ForgetsBegin
  <2>3. record' \in {record, disk} /\ UNCHANGED <<keystore, disk>>
    BY <1>7 DEF Restart
  <2> QED BY <2>1, <2>2, <2>3
<1> QED
  BY <1>2, <1>3, <1>4, <1>5, <1>6, <1>7 DEF Next, Press

\* What a superseded open takes back is its own entry, and the remembered wallet
\* keeps its key, unless the open was of that wallet: remembering it again is the
\* one way to lose its key (RememberedKeyIsKept).
THEOREM KeyKeptUnlessRememberedAgain == Spec /\ RemembersAnother => []RememberedKeyIsKept
<1>1. Init => KeyInv /\ OthersEntries /\ KeysKept
  BY DEF Init, KeyInv, RecordingKeyIsKept, ForgetsBegin, NoForget, OthersEntries,
         KeysKept, KeyOf
<1>2. ASSUME TypeInv, TypeInv', KeyInv, OthersEntries, KeysKept, [Next]_vars,
             [\A c \in Calls : pc[c] = "queued" /\ pc'[c] = "remembering"
                                  => WalletOf(c) \notin {record, disk}]_vars
      PROVE  KeyInv' /\ OthersEntries' /\ KeysKept'
  <2>1. UNCHANGED vars => pc' = pc
    BY DEF vars
  <2>2. KeyInv'
    BY <1>2, ForgetsBeginStep, RecordingKeyStep DEF KeyInv, TypeInv
  <2>3. OthersEntries'
    BY <1>2, <2>1, OthersEntriesStep DEF TypeInv
  <2> QED BY <1>2, <2>2, <2>3, KeysKeptStep
<1>3. KeysKept => RememberedKeyIsKept
  BY DEF KeysKept, KeyOf, RememberedKeyIsKept
<1> QED
  BY <1>1, <1>2, <1>3, TypeInvariant, PTL DEF Spec, RemembersAnother
=============================================================================
