------------------------ MODULE SealedKeystoreProofs ------------------------
(***************************************************************************)
(* Theorems about SealedKeystore, for every set of wallets, windows and    *)
(* calls and every way passwords are typed: what opens was sealed by a     *)
(* call, nobody waits for a connection that is not being opened, and the   *)
(* key store implements the promise of Keystore.                           *)
(***************************************************************************)
EXTENDS SealedKeystore, TLAPS

\* What a call has been through to stand where it is.
WellFormed(p) ==
    /\ stage[p] = "sealing" => Call[p].op = "remember"
    /\ Call[p].op = "remember" /\ stage[p] \notin {"unasked", "answered"} => Call[p].typed # ""
    /\ stage[p] = "committed" => Call[p].op # "load"
    /\ stage[p] \in {"read", "unsealing"} => Call[p].op = "load"
    /\ stage[p] \notin {"read", "unsealing"} => got[p] = None
    /\ stage[p] = "unsealing" => got[p] # None /\ got[p].parses /\ Call[p].typed # ""
    /\ stage[p] # "answered" => answer[p] = None

\* r was sealed by a call of rememberSecret.
Genuine(r) ==
    \E q \in Presses :
        /\ Call[q].op = "remember" /\ stage[q] # "unasked"
        /\ r.wallet = Call[q].wallet /\ r.secret = Call[q].secret
        /\ r.password = NFC[Call[q].typed]

AllGenuine ==
    /\ \A w \in Wallets : store[w] # None /\ store[w].parses => Genuine(store[w])
    /\ \A p \in Presses : got[p] # None /\ got[p].parses => Genuine(got[p])

TypeInv == TypeOK /\ \A p \in Presses : WellFormed(p)
Inv == TypeInv /\ AllGenuine /\ OpensOnlyItsOwn

-----------------------------------------------------------------------------
LEMMA CallTyped ==
    ASSUME NEW p \in Presses
    PROVE  /\ Call[p].op \in Ops /\ Call[p].wallet \in Wallets /\ Call[p].tab \in Tabs
           /\ Call[p].secret \in Secrets /\ Call[p].typed \in DOMAIN NFC
  BY CallAssumption

LEMMA SealedTyped ==
    ASSUME NEW p \in Presses, Call[p].typed # "" PROVE SealedBy(p) \in Sealed
<1>1. NFC[Call[p].typed] \in Passwords
  BY CallTyped, EmptyAssumption DEF Passwords
<1> QED BY <1>1, CallTyped DEF Sealed, SealedBy

LEMMA RecordShapes ==
    ASSUME NEW r \in Records
    PROVE  /\ r # None
           /\ r.parses => r \in Sealed /\ r.wallet \in Wallets /\ r.password \in Passwords
                          /\ r.secret \in Secrets /\ r.intact \in BOOLEAN
           /\ ~r.parses => r = Foreign
<1>1. r # None
  BY NoneAssumption
<1>2. CASE r \in Sealed
  BY <1>1, <1>2 DEF Sealed
<1>3. CASE r = Foreign
  BY <1>1, <1>3 DEF Foreign
<1> QED BY <1>2, <1>3 DEF Records

LEMMA InitTypeInv == Init => Inv
  BY DEF Init, Inv, TypeInv, TypeOK, Stages, WellFormed, AllGenuine, OpensOnlyItsOwn

\* A call that is answered, and one that moves on, are what they should be.
LEMMA AnswersKeep ==
    ASSUME TypeInv, NEW p \in Presses, NEW a \in Outcomes, Answers(p, a)
    PROVE  /\ stage' \in [Presses -> Stages]
           /\ got' \in [Presses -> Records \cup {None}]
           /\ answer' \in [Presses -> Outcomes \cup {None}]
           /\ \A q \in Presses : WellFormed(q)'
<1> USE DEF TypeInv, TypeOK
<1>1. stage' = [stage EXCEPT ![p] = "answered"] /\ "answered" \in Stages
  BY DEF Answers, Moves, Stages
<1>2. got' = [got EXCEPT ![p] = None] /\ answer' = [answer EXCEPT ![p] = a]
  BY DEF Answers
<1>3. ASSUME NEW q \in Presses PROVE WellFormed(q)'
  <2>1. CASE q = p
    BY <1>1, <1>2, <2>1 DEF WellFormed
  <2>2. CASE q # p
    <3>1. WellFormed(q) /\ stage'[q] = stage[q] /\ got'[q] = got[q] /\ answer'[q] = answer[q]
      BY <1>1, <1>2, <2>2
    <3> QED BY <3>1 DEF WellFormed
  <2> QED BY <2>1, <2>2
<1> QED BY <1>1, <1>2, <1>3

LEMMA MovesKeep ==
    ASSUME TypeInv, NEW p \in Presses, NEW s \in Stages \ {"answered", "read"}, Moves(p, s),
           UNCHANGED <<got, answer>>, stage[p] # "answered",
           s = "sealing" => Call[p].op = "remember",
           s # "unasked" /\ Call[p].op = "remember" => Call[p].typed # "",
           s = "committed" => Call[p].op # "load",
           s = "unsealing" => /\ Call[p].op = "load" /\ Call[p].typed # ""
                              /\ got[p] # None /\ got[p].parses,
           s # "unsealing" => stage[p] \notin {"read", "unsealing"}
    PROVE  /\ stage' \in [Presses -> Stages]
           /\ \A q \in Presses : WellFormed(q)'
<1> USE DEF TypeInv, TypeOK
<1>1. stage' = [stage EXCEPT ![p] = s]
  BY DEF Moves
<1>2. ASSUME NEW q \in Presses PROVE WellFormed(q)'
  <2>1. CASE q = p
    <3>1. stage'[p] = s /\ WellFormed(p)
      BY <1>1
    <3> QED BY <2>1, <3>1 DEF WellFormed
  <2>2. CASE q # p
    <3>1. WellFormed(q) /\ stage'[q] = stage[q]
      BY <1>1, <2>2
    <3> QED BY <3>1 DEF WellFormed
  <2> QED BY <2>1, <2>2
<1> QED BY <1>1, <1>2

LEMMA TypeInvKept == TypeInv /\ [Next]_vars => TypeInv'
<1> SUFFICES ASSUME TypeInv, [Next]_vars PROVE TypeInv'
  OBVIOUS
<1>0. TypeOK /\ \A p \in Presses : WellFormed(p)
  BY DEF TypeInv
<1>1. ASSUME NEW p \in Presses, Remember(p) PROVE TypeInv'
  <2>1. CASE Call[p].typed = ""
    BY <1>1, <2>1, AnswersKeep DEF TypeInv, TypeOK, Remember, Outcomes
  <2>2. CASE Call[p].typed # ""
    BY <1>0, <1>1, <2>2, MovesKeep DEF TypeInv, TypeOK, WellFormed, Remember, Stages
  <2> QED BY <2>1, <2>2
<1>2. ASSUME NEW p \in Presses, AskStore(p) \/ Encrypted(p) PROVE TypeInv'
  <2>1. Moves(p, "waiting") /\ UNCHANGED <<store, ahead, got, answer>>
        /\ (Call[p].op = "remember" => Call[p].typed # "") /\ stage[p] \in {"unasked", "sealing"}
    BY <1>0, <1>2 DEF AskStore, Encrypted, Waits, WellFormed
  <2>2. stage' \in [Presses -> Stages] /\ \A q \in Presses : WellFormed(q)'
    BY <2>1, MovesKeep DEF Stages
  <2>3. handle' \in [Tabs -> {"none", "opening", "open", "dead"}]
    BY <1>0, <1>2, CallTyped DEF TypeOK, AskStore, Encrypted, Waits
  <2> QED BY <1>0, <2>1, <2>2, <2>3 DEF TypeInv, TypeOK
<1>3. ASSUME NEW p \in Presses, CryptoFails(p) \/ FailsWaiting(p) \/ ThrowsOnDead(p) PROVE TypeInv'
  <2>1. Answers(p, Failed) /\ Failed \in Outcomes
    BY <1>3 DEF CryptoFails, FailsWaiting, ThrowsOnDead, Failed, Outcomes
  <2> QED BY <1>0, <1>3, <2>1, AnswersKeep DEF TypeInv, TypeOK, CryptoFails, FailsWaiting, ThrowsOnDead
<1>4. ASSUME NEW p \in Presses, Transaction(p) PROVE TypeInv'
  <2>1. stage' \in [Presses -> Stages] /\ \A q \in Presses : WellFormed(q)'
    BY <1>0, <1>4, MovesKeep DEF Transaction, WellFormed, Stages
  <2> QED BY <1>0, <1>4, <2>1 DEF TypeInv, TypeOK, Transaction, Made
<1>5. ASSUME NEW p \in Presses, Commits(p) PROVE TypeInv'
  <2>1. store' = Written(p) /\ store' \in [Wallets -> Records \cup {None}]
    <3>1. Call[p].op = "remember" => SealedBy(p) \in Records
      BY <1>0, <1>5, SealedTyped DEF Records, Commits, WellFormed
    <3> QED BY <1>0, <1>5, <3>1 DEF Commits, Written, TypeOK
  <2>2. ahead' \in [Presses -> SUBSET Presses]
    BY <1>0, <1>5 DEF Commits, Over, TypeOK
  <2>3. CASE Call[p].op = "load"
    <3>1. stage' = [stage EXCEPT ![p] = "read"] /\ got' = [got EXCEPT ![p] = store[Call[p].wallet]]
          /\ UNCHANGED <<handle, answer>> /\ stage[p] = "queued"
      BY <1>5, <2>3 DEF Commits, Moves
    <3>2. TypeOK'
      BY <1>0, <2>1, <2>2, <3>1, CallTyped DEF TypeOK, Stages
    <3>3. ASSUME NEW q \in Presses PROVE WellFormed(q)'
      BY <1>0, <2>3, <3>1 DEF TypeOK, WellFormed
    <3> QED BY <3>2, <3>3 DEF TypeInv
  <2>4. CASE Call[p].op # "load"
    <3>1. Moves(p, "committed") /\ UNCHANGED <<handle, got, answer>> /\ stage[p] = "queued"
      BY <1>5, <2>4 DEF Commits
    <3>2. stage' \in [Presses -> Stages] /\ \A q \in Presses : WellFormed(q)'
      BY <1>0, <2>4, <3>1, MovesKeep DEF WellFormed, Stages
    <3> QED BY <1>0, <2>1, <2>2, <3>1, <3>2 DEF TypeInv, TypeOK
  <2> QED BY <2>3, <2>4
<1>6. ASSUME NEW p \in Presses, Aborts(p) PROVE TypeInv'
  <2>1. Answers(p, Failed) /\ Failed \in Outcomes
    BY <1>6 DEF Aborts, Failed, Outcomes
  <2> QED BY <1>0, <1>6, <2>1, AnswersKeep DEF TypeInv, TypeOK, Aborts, Over
<1>7. ASSUME NEW p \in Presses, Resolves(p) PROVE TypeInv'
  BY <1>0, <1>7, AnswersKeep DEF TypeInv, TypeOK, Resolves, Outcomes
<1>8. ASSUME NEW p \in Presses, Checks(p) PROVE TypeInv'
  <2>1. CASE \E a \in Outcomes : Answers(p, a)
    BY <1>0, <1>8, <2>1, AnswersKeep DEF TypeInv, TypeOK, Checks
  <2>2. CASE Moves(p, "unsealing") /\ UNCHANGED <<got, answer>>
             /\ got[p] # None /\ got[p].parses /\ Call[p].typed # ""
    <3>1. stage' \in [Presses -> Stages] /\ \A q \in Presses : WellFormed(q)'
      BY <1>0, <1>8, <2>2, MovesKeep DEF Checks, WellFormed, Stages
    <3> QED BY <1>0, <1>8, <2>2, <3>1 DEF TypeInv, TypeOK, Checks
  <2> QED BY <1>8, <2>1, <2>2 DEF Checks, Outcomes, Wrong
<1>9. ASSUME NEW p \in Presses, Decrypts(p) PROVE TypeInv'
  <2>1. got[p] \in Records /\ got[p].parses
    BY <1>0, <1>9 DEF Decrypts, WellFormed, TypeOK
  <2>2. [secret |-> got[p].secret] \in Outcomes /\ Wrong \in Outcomes
    BY <2>1, RecordShapes DEF Outcomes
  <2>3. \E a \in Outcomes : Answers(p, a)
    BY <1>9, <2>2 DEF Decrypts
  <2> QED BY <1>0, <1>9, <2>3, AnswersKeep DEF TypeInv, TypeOK, Decrypts
<1>10. ASSUME NEW t \in Tabs, Connects(t) \/ ConnectionLost(t) PROVE TypeInv'
  BY <1>0, <1>10 DEF TypeInv, TypeOK, WellFormed, Connects, ConnectionLost
<1>11. ASSUME NEW t \in Tabs, ConnectFails(t) PROVE TypeInv'
  <2>1. TypeOK'
    BY <1>0, <1>11 DEF TypeOK, ConnectFails, Stages
  <2>2. ASSUME NEW q \in Presses PROVE WellFormed(q)'
    BY <1>0, <1>11 DEF WellFormed, ConnectFails
  <2> QED BY <2>1, <2>2 DEF TypeInv
<1>12. ASSUME NEW t \in Tabs, Reloads(t) PROVE TypeInv'
  <2>1. TypeOK'
    BY <1>0, <1>12 DEF TypeOK, Reloads, Over, Stages
  <2>2. ASSUME NEW q \in Presses PROVE WellFormed(q)'
    BY <1>0, <1>12 DEF WellFormed, Reloads
  <2> QED BY <2>1, <2>2 DEF TypeInv
<1>13. ASSUME NEW w \in Wallets, Damages(w) \/ NewerVersion(w) PROVE TypeInv'
  <2>1. CASE Damages(w)
    <3>1. store[w] \in Sealed
      BY <1>0, <2>1, RecordShapes DEF Damages, TypeOK
    <3>2. [store[w] EXCEPT !.intact = FALSE] \in Sealed
      BY <3>1 DEF Sealed
    <3>3. store' \in [Wallets -> Records \cup {None}]
      <4>1. store' = [store EXCEPT ![w] = [store[w] EXCEPT !.intact = FALSE]]
        BY <2>1 DEF Damages
      <4> QED BY <1>0, <4>1, <3>2 DEF Records, TypeOK
    <3> QED BY <1>0, <2>1, <3>3 DEF TypeInv, TypeOK, WellFormed, Damages
  <2>2. CASE NewerVersion(w)
    BY <1>0, <2>2 DEF TypeInv, TypeOK, WellFormed, NewerVersion, Records
  <2> QED BY <1>13, <2>1, <2>2
<1>14. ASSUME NEW from \in Wallets, NEW to \in Wallets, Copied(from, to) PROVE TypeInv'
  BY <1>0, <1>14 DEF TypeInv, TypeOK, WellFormed, Copied
<1>15. CASE UNCHANGED vars
  BY <1>0, <1>15 DEF TypeInv, TypeOK, WellFormed, vars
<1> QED BY <1>1, <1>2, <1>3, <1>4, <1>5, <1>6, <1>7, <1>8, <1>9, <1>10, <1>11, <1>12, <1>13, <1>14,
           <1>15 DEF Next, Serves

-----------------------------------------------------------------------------
(* What opens was sealed by a call.                                        *)

\* A call asked once stays asked, so what it sealed stays genuine.
LEMMA GenuineStays ==
    ASSUME TypeInv, [Next]_vars, NEW r, Genuine(r) PROVE Genuine(r)'
<1>1. ASSUME NEW q \in Presses, stage[q] # "unasked" PROVE stage'[q] # "unasked"
  <2> USE DEF TypeInv, TypeOK
  <2>1. ASSUME NEW p \in Presses, NEW s, s # "unasked", Moves(p, s) PROVE stage'[q] # "unasked"
    BY <1>1, <2>1 DEF Moves
  <2>2. ASSUME NEW p \in Presses, NEW a, Answers(p, a) PROVE stage'[q] # "unasked"
    BY <2>1, <2>2 DEF Answers
  <2>3. ASSUME NEW p \in Presses, Remember(p) \/ AskStore(p) \/ Serves(p)
        PROVE  stage'[q] # "unasked"
    <3>1. (\E s : s # "unasked" /\ Moves(p, s)) \/ \E a : Answers(p, a)
      BY <2>3 DEF Remember, AskStore, Serves, Encrypted, CryptoFails, Transaction, ThrowsOnDead,
                  FailsWaiting, Commits, Aborts, Resolves, Checks, Decrypts, Waits
    <3> QED BY <3>1, <2>1, <2>2
  <2>4. ASSUME NEW t \in Tabs, ConnectFails(t) \/ Reloads(t) PROVE stage'[q] # "unasked"
    BY <1>1, <2>4 DEF ConnectFails, Reloads
  <2> QED BY <1>1, <2>3, <2>4 DEF Next, vars, Connects, ConnectionLost, Damages, NewerVersion, Copied
<1> QED BY <1>1 DEF Genuine

LEMMA GenuineKept == Inv /\ [Next]_vars => AllGenuine'
<1> SUFFICES ASSUME Inv, [Next]_vars PROVE AllGenuine'
  OBVIOUS
<1> USE DEF Inv, TypeInv
<1>0. TypeOK
  OBVIOUS
<1>1. ASSUME UNCHANGED store, \A p \in Presses : got'[p] \in {None, got[p]} PROVE AllGenuine'
  BY <1>1, GenuineStays DEF AllGenuine
<1>2. ASSUME NEW p \in Presses, NEW a, Answers(p, a), UNCHANGED store PROVE AllGenuine'
  <2>1. \A q \in Presses : got'[q] \in {None, got[q]}
    BY <1>0, <1>2 DEF Answers, TypeOK
  <2> QED BY <1>1, <1>2, <2>1
<1>3. ASSUME NEW p \in Presses, Remember(p) \/ AskStore(p) \/ Serves(p), ~Commits(p) PROVE AllGenuine'
  BY <1>1, <1>2, <1>3
     DEF Remember, AskStore, Serves, Encrypted, CryptoFails, Transaction, ThrowsOnDead,
         FailsWaiting, Aborts, Resolves, Checks, Decrypts
<1>4. ASSUME NEW p \in Presses, Commits(p) PROVE AllGenuine'
  <2>1. stage'[p] # "unasked"
    BY <1>0, <1>4 DEF Commits, Moves, TypeOK
  <2>2. Call[p].op = "remember" => Genuine(SealedBy(p))'
    BY <2>1 DEF Genuine, SealedBy
  <2>3. ASSUME NEW w \in Wallets PROVE store'[w] \in {None, store[w]}
                 \/ (Call[p].op = "remember" /\ store'[w] = SealedBy(p))
    BY <1>0, <1>4 DEF Commits, Written, TypeOK
  <2>4. ASSUME NEW q \in Presses PROVE got'[q] \in {None, got[q]} \/ \E w \in Wallets : got'[q] = store[w]
    BY <1>0, <1>4, CallTyped DEF Commits, TypeOK
  <2> QED BY <2>2, <2>3, <2>4, GenuineStays DEF AllGenuine
<1>5. ASSUME NEW w \in Wallets, Damages(w) PROVE AllGenuine'
  <2>1. PICK old, r : old = store[w] /\ r = [old EXCEPT !.intact = FALSE]
    OBVIOUS
  <2>2. r.wallet = old.wallet /\ r.secret = old.secret /\ r.password = old.password
    <3>1. old \in Sealed
      BY <1>0, <1>5, <2>1, RecordShapes DEF Damages, TypeOK
    <3> QED BY <2>1, <3>1 DEF Sealed
  <2>3. Genuine(old)
    BY <1>5, <2>1 DEF AllGenuine, Damages
  <2>4. Genuine(r)'
    <3>1. Genuine(r)
      BY <2>2, <2>3 DEF Genuine
    <3> QED BY <3>1, GenuineStays
  <2>5. UNCHANGED got /\ \A v \in Wallets : store'[v] = store[v] \/ store'[v] = r
    BY <1>0, <1>5, <2>1 DEF Damages, TypeOK
  <2> QED BY <2>4, <2>5, GenuineStays DEF AllGenuine
<1>6. ASSUME NEW w \in Wallets, NewerVersion(w) PROVE AllGenuine'
  <2>1. UNCHANGED got /\ \A v \in Wallets : store'[v] = store[v] \/ ~store'[v].parses
    BY <1>0, <1>6 DEF NewerVersion, TypeOK, Foreign
  <2> QED BY <2>1, GenuineStays DEF AllGenuine
<1>7. ASSUME NEW from \in Wallets, NEW to \in Wallets, Copied(from, to) PROVE AllGenuine'
  <2>1. UNCHANGED got /\ \A v \in Wallets : \E w \in Wallets : store'[v] = store[w]
    BY <1>0, <1>7 DEF Copied, TypeOK
  <2> QED BY <2>1, GenuineStays DEF AllGenuine
<1>8. ASSUME NEW t \in Tabs, Connects(t) \/ ConnectFails(t) \/ ConnectionLost(t) \/ Reloads(t)
      PROVE  AllGenuine'
  <2>1. UNCHANGED store /\ \A p \in Presses : got'[p] \in {None, got[p]}
    BY <1>8 DEF Connects, ConnectFails, ConnectionLost, Reloads
  <2> QED BY <1>1, <2>1
<1>9. CASE UNCHANGED vars
  BY <1>1, <1>9 DEF vars
<1> QED BY <1>3, <1>4, <1>5, <1>6, <1>7, <1>8, <1>9 DEF Next, Serves

\* p is answered a secret.
Opened(p) == answer[p] # None /\ "secret" \in DOMAIN answer[p]

LEMMA OpensKept == Inv /\ [Next]_vars => OpensOnlyItsOwn'
<1> SUFFICES ASSUME Inv, [Next]_vars, NEW p \in Presses, Call[p].op = "load", Opened(p)'
             PROVE  \E q \in Presses :
                       /\ Call[q].op = "remember" /\ stage'[q] # "unasked"
                       /\ Call[q].wallet = Call[p].wallet /\ Call[q].secret = answer'[p].secret
                       /\ NFC[Call[q].typed] = NFC[Call[p].typed] /\ Call[p].typed # ""
  BY DEF OpensOnlyItsOwn, Opened
<1> USE DEF Inv, TypeInv
<1>1. CASE answer'[p] = answer[p]
  <2>1. PICK q \in Presses :
                       /\ Call[q].op = "remember" /\ stage[q] # "unasked"
                       /\ Call[q].wallet = Call[p].wallet /\ Call[q].secret = answer[p].secret
                       /\ NFC[Call[q].typed] = NFC[Call[p].typed] /\ Call[p].typed # ""
    BY <1>1 DEF OpensOnlyItsOwn, Opened
  <2> DEFINE r == [wallet |-> Call[q].wallet, secret |-> Call[q].secret, password |-> NFC[Call[q].typed]]
  <2>2. Genuine(r)
    BY <2>1 DEF Genuine
  <2>3. Genuine(r)'
    BY <2>2, GenuineStays
  <2> QED BY <1>1, <2>1, <2>3 DEF Genuine
<1>2. CASE answer'[p] # answer[p]
  <2>1. ASSUME NEW q \in Presses, NEW a, Answers(q, a) PROVE q = p /\ a = answer'[p]
    BY <1>2, <2>1 DEF Answers, TypeOK
  <2>2. "secret" \in DOMAIN answer'[p] /\ answer'[p] # None
    BY DEF Opened
  <2>3. ASSUME NEW q \in Presses, Remember(q) \/ Serves(q), ~Decrypts(q)
        PROVE  FALSE
    <3>1. \E e, n, d : Answers(q, [error |-> e]) \/ Answers(q, [none |-> n]) \/ Answers(q, [done |-> d])
      BY <1>2, <2>3 DEF Remember, Serves, Encrypted, CryptoFails, Transaction, ThrowsOnDead,
                        FailsWaiting, Commits, Aborts, Resolves, Checks, Wrong, Failed
    <3> QED BY <2>1, <2>2, <3>1
  <2>4. Decrypts(p)
    BY <1>2, <2>1, <2>3 DEF Next, vars, AskStore, Connects, ConnectFails, ConnectionLost, Reloads,
                            Damages, NewerVersion, Copied, Decrypts
  <2>5. TagPasses(got[p], p) /\ answer'[p] = [secret |-> got[p].secret]
    <3>1. CASE TagPasses(got[p], p)
      BY <2>1, <2>4, <3>1 DEF Decrypts
    <3>2. CASE ~TagPasses(got[p], p)
      BY <2>1, <2>2, <2>4, <3>2 DEF Decrypts, Wrong
    <3> QED BY <3>1, <3>2
  <2>6. PICK r : r = got[p]
    OBVIOUS
  <2>7. /\ Genuine(r) /\ Call[p].typed # "" /\ answer'[p].secret = r.secret
        /\ r.wallet = Call[p].wallet /\ r.password = NFC[Call[p].typed]
    <3>1. got[p] # None /\ got[p].parses /\ Call[p].typed # ""
      BY <2>4 DEF Decrypts, WellFormed
    <3>2. Genuine(got[p])
      BY <3>1 DEF AllGenuine
    <3>3. answer'[p].secret = r.secret
      BY <2>5, <2>6
    <3>4. r.wallet = Call[p].wallet /\ r.password = NFC[Call[p].typed]
      BY <2>5, <2>6 DEF TagPasses
    <3>5. Genuine(r)
      BY <3>2, <2>6 DEF Genuine
    <3> QED BY <3>1, <3>3, <3>4, <3>5
  <2>8. Genuine(r)'
    BY <2>7, GenuineStays
  <2> QED BY <2>7, <2>8 DEF Genuine
<1> QED BY <1>1, <1>2

LEMMA Invariance == Spec => []Inv
<1>1. Inv /\ [Next]_vars => Inv'
  BY TypeInvKept, GenuineKept, OpensKept DEF Inv
<1> QED BY InitTypeInv, <1>1, PTL DEF Spec

\* The variables keep their types, for any calls, wallets, windows and passwords.
THEOREM TypeCorrect == Spec => []TypeOK
<1>1. Inv => TypeOK
  BY DEF Inv, TypeInv
<1> QED BY Invariance, <1>1, PTL

\* A secret is answered only for the wallet and the password that some call
\* remembered it with, whatever is written over the records (OpensOnlyItsOwn).
THEOREM OpensItsOwn == Spec => []OpensOnlyItsOwn
<1>1. Inv => OpensOnlyItsOwn
  BY DEF Inv
<1> QED BY Invariance, <1>1, PTL

-----------------------------------------------------------------------------
(* The promise of Keystore.                                                *)

SameCall(q) == stage'[q] = stage[q] /\ got'[q] = got[q] /\ answer'[q] = answer[q]

LEMMA SameCallSame ==
    ASSUME NEW q \in Presses, SameCall(q) PROVE Stage(q)' = Stage(q) /\ Outcome(q)' = Outcome(q)
  BY DEF SameCall, Stage, Outcome, ToAnswer, TagPasses

LEMMA Reached ==
    ASSUME NEW p \in Presses, NEW s, NEW o, Stage(p)' = s, Outcome(p)' = o,
           \A q \in Presses : q # p => SameCall(q)
    PROVE  Promise!Reaches(p, s, o)
<1>1. \A q \in Presses : q # p => Stage(q)' = Stage(q) /\ Outcome(q)' = Outcome(q)
  BY SameCallSame
<1> QED BY <1>1 DEF Promise!Reaches

LEMMA Unreached ==
    ASSUME \A q \in Presses : Stage(q)' = Stage(q) /\ Outcome(q)' = Outcome(q),
           \A w \in Wallets : Slot(w)' = Slot(w)
    PROVE  UNCHANGED Promise!kvars
  BY DEF Promise!kvars

LEMMA SlotsSame == ASSUME UNCHANGED store PROVE \A w \in Wallets : Slot(w)' = Slot(w)
  BY DEF Slot

\* A call that was answered or moved on is the only one to change.
LEMMA OneCallChanges ==
    ASSUME TypeInv, NEW p \in Presses,
           \/ (\E a : Answers(p, a))
           \/ (\E s : Moves(p, s)) /\ UNCHANGED answer
              /\ (UNCHANGED got \/ \E r : got' = [got EXCEPT ![p] = r])
    PROVE  \A q \in Presses : q # p => SameCall(q)
  BY DEF TypeInv, TypeOK, Answers, Moves, SameCall

\* What a call stands for, stage by stage.
LEMMA Standing ==
    ASSUME TypeInv, NEW p \in Presses
    PROVE  /\ stage[p] \in {"unasked", "lost"} => Stage(p) = stage[p] /\ Outcome(p) = None
           /\ stage[p] = "answered" => Stage(p) = "answered" /\ Outcome(p) = answer[p]
           /\ stage[p] \in {"sealing", "waiting", "failing", "queued"} =>
                 Stage(p) = "asked" /\ Outcome(p) = None
           /\ stage[p] = "committed" =>
                 /\ Stage(p) = "done"
                 /\ Outcome(p) = [done |-> IF Call[p].op = "remember" THEN "remembered" ELSE "forgotten"]
           /\ stage[p] \in {"read", "unsealing"} =>
                 Stage(p) = "done" /\ Outcome(p) = ToAnswer(p) /\ Call[p].op = "load"
<1>1. Call[p].op \in {"remember", "load", "forget"}
  BY CallTyped DEF Ops
<1>2. WellFormed(p)
  BY DEF TypeInv
<1> QED BY <1>1, <1>2 DEF WellFormed, Stage, Outcome

\* The same of the state a step leads to.
LEMMA StandingNext ==
    ASSUME TypeInv', NEW p \in Presses
    PROVE  /\ stage'[p] \in {"unasked", "lost"} => Stage(p)' = stage'[p] /\ Outcome(p)' = None
           /\ stage'[p] = "answered" => Stage(p)' = "answered" /\ Outcome(p)' = answer'[p]
           /\ stage'[p] \in {"sealing", "waiting", "failing", "queued"} =>
                 Stage(p)' = "asked" /\ Outcome(p)' = None
           /\ stage'[p] = "committed" =>
                 /\ Stage(p)' = "done"
                 /\ Outcome(p)' = [done |-> IF Call[p].op = "remember" THEN "remembered" ELSE "forgotten"]
           /\ stage'[p] \in {"read", "unsealing"} =>
                 Stage(p)' = "done" /\ Outcome(p)' = ToAnswer(p)' /\ Call[p].op = "load"
<1>1. Call[p].op \in {"remember", "load", "forget"}
  BY CallTyped DEF Ops
<1>2. WellFormed(p)'
  BY DEF TypeInv
<1> QED BY <1>1, <1>2 DEF WellFormed, Stage, Outcome

\* What a load that read this record is told.
Told(r, p) ==
    IF r = None THEN [none |-> "not remembered"]
    ELSE IF ~r.parses THEN [error |-> "unknown_secret_format"]
    ELSE IF Call[p].typed # "" /\ TagPasses(r, p) THEN [secret |-> r.secret]
    ELSE Wrong

\* What is in a slot and what a load of it is told agree.
LEMMA OpeningTells ==
    ASSUME TypeInv, NEW p \in Presses
    PROVE  Promise!Opening(Slot(Call[p].wallet), p) = Told(store[Call[p].wallet], p)
<1>1. PICK w \in Wallets : w = Call[p].wallet
  BY CallTyped
<1>2. PICK r \in Records \cup {None} : r = store[w]
  BY DEF TypeInv, TypeOK
<1>3. PICK slot : slot = Slot(w)
  OBVIOUS
<1>4. SUFFICES Promise!Opening(slot, p) = Told(r, p)
  BY <1>1, <1>2, <1>3
<1> DEFINE U == Promise!Unreadable
           S == Promise!Shut
<1>a. U # None /\ S # None /\ U # S
  <2>1. S.shut # U.shut
    BY DEF Promise!Shut, Promise!Unreadable
  <2> QED BY <2>1, NoneAssumption DEF Promise!Shut, Promise!Unreadable
<1> HIDE DEF U, S
<1>5. CASE r = None
  <2>1. slot = None
    BY <1>2, <1>3, <1>5 DEF Slot
  <2> QED BY <1>5, <1>a, <2>1 DEF Told, Promise!Opening, U, S
<1>6. CASE r # None /\ ~r.parses
  <2>1. slot = U
    BY <1>2, <1>3, <1>6 DEF Slot, U, Promise!Unreadable
  <2> QED BY <1>6, <1>a, <2>1 DEF Told, Promise!Opening, U, S
<1>7. CASE r # None /\ r.parses
  <2>1. r.password \in Passwords /\ r.secret \in Secrets
    BY <1>2, <1>7, RecordShapes
  <2>2. CASE r.intact /\ r.wallet = w
    <3>1. slot = [password |-> r.password, secret |-> r.secret]
      BY <1>2, <1>3, <1>7, <2>2 DEF Slot
    <3>2. slot # None
      BY <2>1, <3>1, NoneAssumption
    <3>3. slot # Promise!Unreadable /\ slot # Promise!Shut
      BY <3>1 DEF Promise!Unreadable, Promise!Shut
    <3>4. slot.password = r.password /\ slot.secret = r.secret
      BY <3>1
    <3> QED BY <1>1, <1>7, <2>2, <3>2, <3>3, <3>4 DEF Told, TagPasses, Wrong, Promise!Opening
  <2>3. CASE ~(r.intact /\ r.wallet = w)
    <3>1. slot = S
      BY <1>2, <1>3, <1>7, <2>3 DEF Slot, S, Promise!Shut
    <3> QED BY <1>1, <1>7, <1>a, <2>3, <3>1 DEF Told, TagPasses, Wrong, Promise!Opening, U, S
  <2> QED BY <2>2, <2>3
<1> QED BY <1>5, <1>6, <1>7

LEMMA Reads ==
    ASSUME TypeInv, NEW p \in Presses, got'[p] = store[Call[p].wallet]
    PROVE  ToAnswer(p)' = Promise!Opening(Slot(Call[p].wallet), p)
<1>1. ToAnswer(p)' = Told(store[Call[p].wallet], p)
  BY DEF ToAnswer, Told, TagPasses, Wrong
<1> QED BY <1>1, OpeningTells

LEMMA KeptSame ==
    ASSUME UNCHANGED store
    PROVE  [w \in Wallets |-> Slot(w)]' = [w \in Wallets |-> Slot(w)]
  BY SlotsSame

\* One slot is written, and no other.
LEMMA KeptAt ==
    ASSUME TypeInv, NEW w \in Wallets, NEW r, store' = [store EXCEPT ![w] = r]
    PROVE  /\ store'[w] = r
           /\ [v \in Wallets |-> Slot(v)]' = [[v \in Wallets |-> Slot(v)] EXCEPT ![w] = Slot(w)']
<1>1. store'[w] = r /\ \A v \in Wallets : v # w => store'[v] = store[v]
  BY DEF TypeInv, TypeOK
<1>2. \A v \in Wallets : v # w => Slot(v)' = Slot(v)
  BY <1>1 DEF Slot
<1> QED BY <1>1, <1>2

\* Steps the promise does not tell apart.
LEMMA Silent ==
    ASSUME TypeInv, TypeInv', UNCHANGED store,
           \A q \in Presses :
               \/ SameCall(q)
               \/ {stage[q], stage'[q]} \subseteq {"sealing", "waiting", "failing", "queued"}
               \/ stage[q] = "read" /\ stage'[q] = "unsealing" /\ got'[q] = got[q]
    PROVE  UNCHANGED Promise!kvars
<1>1. ASSUME NEW q \in Presses PROVE Stage(q)' = Stage(q) /\ Outcome(q)' = Outcome(q)
  <2>1. CASE SameCall(q)
    BY <2>1, SameCallSame
  <2>2. CASE {stage[q], stage'[q]} \subseteq {"sealing", "waiting", "failing", "queued"}
    BY <2>2, Standing, StandingNext
  <2>3. CASE stage[q] = "read" /\ stage'[q] = "unsealing" /\ got'[q] = got[q]
    <3>1. ToAnswer(q)' = ToAnswer(q)
      BY <2>3 DEF ToAnswer, TagPasses
    <3> QED BY <2>3, <3>1, Standing, StandingNext
  <2> QED BY <2>1, <2>2, <2>3
<1> QED BY <1>1, Unreached, SlotsSame

\* An answer reaches its call.
LEMMA AnswerReaches ==
    ASSUME TypeInv, TypeInv', NEW p \in Presses, NEW a, Answers(p, a)
    PROVE  Promise!Reaches(p, "answered", a)
<1>1. \A q \in Presses : q # p => SameCall(q)
  BY OneCallChanges
<1>2. stage'[p] = "answered" /\ answer'[p] = a
  BY DEF TypeInv, TypeOK, Answers, Moves
<1>3. Stage(p)' = "answered" /\ Outcome(p)' = a
  BY <1>2, StandingNext
<1> QED BY <1>1, <1>3, Reached

LEMMA FailKept ==
    ASSUME TypeInv, TypeInv', NEW p \in Presses, Answers(p, Failed), UNCHANGED store,
           \/ stage[p] \in {"sealing", "waiting", "failing", "queued"}
           \/ stage[p] \in {"read", "unsealing"}
    PROVE  Promise!Fail(p)
<1>1. Promise!Reaches(p, "answered", [error |-> "failed"])
  BY AnswerReaches DEF Failed
<1>2. Stage(p) = "asked" \/ (Stage(p) = "done" /\ Call[p].op = "load")
  BY Standing
<1> QED BY <1>1, <1>2, KeptSame DEF Promise!Fail

LEMMA AnswerKept ==
    ASSUME TypeInv, TypeInv', NEW p \in Presses, Answers(p, Outcome(p)), UNCHANGED store,
           Stage(p) = "done"
    PROVE  Promise!Answer(p)
<1>1. Promise!Reaches(p, "answered", Outcome(p))
  BY AnswerReaches
<1> QED BY <1>1, KeptSame DEF Promise!Answer

LEMMA AskKept ==
    ASSUME TypeInv, TypeInv', NEW p \in Presses, Remember(p) \/ AskStore(p)
    PROVE  Promise!Ask(p) \/ Promise!Refuse(p)
<1>1. Stage(p) = "unasked" /\ UNCHANGED store
  BY Standing DEF Remember, AskStore
<1>2. CASE Call[p].op = "remember" /\ Call[p].typed = ""
  <2>1. Answers(p, [error |-> "no_app_password"])
    BY <1>2 DEF Remember, AskStore
  <2> QED BY <1>1, <1>2, <2>1, AnswerReaches, KeptSame DEF Promise!Refuse
<1>3. CASE ~(Call[p].op = "remember" /\ Call[p].typed = "")
  <2>1. /\ \E s \in {"sealing", "waiting"} : Moves(p, s)
        /\ UNCHANGED <<got, answer>>
    BY <1>3 DEF Remember, AskStore, Waits
  <2>2. stage'[p] \in {"sealing", "waiting"}
    BY <2>1 DEF Moves, TypeInv, TypeOK
  <2>3. \A q \in Presses : q # p => SameCall(q)
    BY <2>1, OneCallChanges
  <2>4. Promise!Reaches(p, "asked", None)
    BY <2>2, <2>3, StandingNext, Reached
  <2> QED BY <1>1, <1>3, <2>4, KeptSame DEF Promise!Ask
<1> QED BY <1>2, <1>3

LEMMA CommitKept ==
    ASSUME TypeInv, TypeInv', NEW p \in Presses, Commits(p)
    PROVE  Promise!Keep(p) \/ Promise!Drop(p) \/ Promise!Look(p)
<1> DEFINE w == Call[p].wallet
<1>1. Stage(p) = "asked" /\ w \in Wallets /\ Call[p].op \in {"remember", "load", "forget"}
  BY Standing, CallTyped DEF Commits, Ops
<1>2. \A q \in Presses : q # p => SameCall(q)
  <2>1. \E s : Moves(p, s)
    BY DEF Commits
  <2>2. UNCHANGED answer /\ (UNCHANGED got \/ \E r : got' = [got EXCEPT ![p] = r])
    BY DEF Commits
  <2> QED BY <2>1, <2>2, OneCallChanges
<1>3. CASE Call[p].op = "load"
  <2>1. UNCHANGED store /\ stage'[p] = "read" /\ got'[p] = store[w]
    BY <1>3 DEF Commits, Written, Moves, TypeInv, TypeOK
  <2>2. Stage(p)' = "done" /\ Outcome(p)' = Promise!Opening(Slot(w), p)
    BY <2>1, StandingNext, Reads
  <2>3. Promise!Reaches(p, "done", Promise!Opening(Slot(w), p))
    BY <1>2, <2>2, Reached
  <2>4. [v \in Wallets |-> Slot(v)][w] = Slot(w)
    BY <1>1
  <2> QED BY <1>1, <1>3, <2>1, <2>3, <2>4, KeptSame DEF Promise!Look
<1>4. CASE Call[p].op # "load"
  <2>1. stage'[p] = "committed"
    BY <1>4 DEF Commits, Moves, TypeInv, TypeOK
  <2>2. Promise!Reaches(p, "done", [done |-> IF Call[p].op = "remember" THEN "remembered" ELSE "forgotten"])
    BY <1>2, <2>1, StandingNext, Reached
  <2>3. CASE Call[p].op = "remember"
    <3>1. store' = [store EXCEPT ![w] = SealedBy(p)]
      BY <2>3 DEF Commits, Written
    <3>2. store'[w] = SealedBy(p)
      BY <1>1, <3>1, KeptAt
    <3>3. SealedBy(p) # None
      <4>1. Call[p].typed # ""
        BY <2>3 DEF Commits, TypeInv, WellFormed
      <4> QED BY <4>1, SealedTyped, NoneAssumption DEF Records
    <3>4. Slot(w)' = Promise!Entry(NFC[Call[p].typed], Call[p].secret)
      BY <3>2, <3>3 DEF Slot, SealedBy, Promise!Entry
    <3>5. [v \in Wallets |-> Slot(v)]'
            = [[v \in Wallets |-> Slot(v)] EXCEPT ![w] = Promise!Entry(NFC[Call[p].typed], Call[p].secret)]
      BY <1>1, <3>1, <3>4, KeptAt
    <3> QED BY <1>1, <2>2, <2>3, <3>5 DEF Promise!Keep
  <2>4. CASE Call[p].op = "forget"
    <3>1. store' = [store EXCEPT ![w] = None]
      BY <2>4 DEF Commits, Written
    <3>2. Slot(w)' = None
      BY <1>1, <3>1, KeptAt DEF Slot
    <3>3. [v \in Wallets |-> Slot(v)]' = [[v \in Wallets |-> Slot(v)] EXCEPT ![w] = None]
      BY <1>1, <3>1, <3>2, KeptAt
    <3> QED BY <1>1, <2>2, <2>4, <3>3 DEF Promise!Drop
  <2> QED BY <1>1, <1>4, <2>3, <2>4
<1> QED BY <1>3, <1>4

LEMMA LeaveKept ==
    ASSUME TypeInv, TypeInv', NEW t \in Tabs, Reloads(t) PROVE Promise!Leave(t)
<1> DEFINE gone == {p \in Presses : Call[p].tab = t /\ Stage(p) \in {"asked", "done"}}
<1>1. ASSUME NEW p \in gone PROVE Stage(p)' = "lost" /\ Outcome(p)' = None
  <2>1. stage[p] \notin {"unasked", "answered"}
    BY <1>1, Standing
  <2>2. stage'[p] = "lost"
    BY <1>1, <2>1 DEF Reloads
  <2> QED BY <1>1, <2>2, StandingNext
<1>2. ASSUME NEW p \in Presses, p \notin gone PROVE Stage(p)' = Stage(p) /\ Outcome(p)' = Outcome(p)
  <2>1. CASE Call[p].tab # t
    <3>1. SameCall(p)
      BY <2>1 DEF Reloads, SameCall, TypeInv, TypeOK
    <3> QED BY <3>1, SameCallSame
  <2>2. CASE Call[p].tab = t
    <3>1. Stage(p) \notin {"asked", "done"}
      BY <1>2, <2>2
    <3>2. stage[p] \in {"unasked", "answered", "lost"}
      BY <3>1, Standing DEF TypeInv, TypeOK, Stages
    <3>3. stage'[p] = stage[p] /\ answer'[p] = answer[p]
      BY <3>2 DEF Reloads
    <3> QED BY <3>2, <3>3, Standing, StandingNext
  <2> QED BY <2>1, <2>2
<1>3. [p \in Presses |-> Stage(p)]' = [p \in Presses |-> IF p \in gone THEN "lost" ELSE Stage(p)]
  BY <1>1, <1>2
<1>4. [p \in Presses |-> Outcome(p)]' = [p \in Presses |-> IF p \in gone THEN None ELSE Outcome(p)]
  BY <1>1, <1>2
<1>5. [w \in Wallets |-> Slot(w)]' = [w \in Wallets |-> Slot(w)]
  BY KeptSame DEF Reloads
<1>6. gone = {p \in Presses : Call[p].tab = t /\ [q \in Presses |-> Stage(q)][p] \in {"asked", "done"}}
  OBVIOUS
<1> HIDE DEF gone
<1>7. /\ [p \in Presses |-> IF p \in gone THEN "lost" ELSE Stage(p)]
           = [p \in Presses |-> IF p \in gone THEN "lost" ELSE [q \in Presses |-> Stage(q)][p]]
      /\ [p \in Presses |-> IF p \in gone THEN None ELSE Outcome(p)]
           = [p \in Presses |-> IF p \in gone THEN None ELSE [q \in Presses |-> Outcome(q)][p]]
  OBVIOUS
<1> QED BY <1>3, <1>4, <1>5, <1>6, <1>7 DEF Promise!Leave

LEMMA SpoilKept ==
    ASSUME TypeInv, TypeInv', NEW w \in Wallets,
           Damages(w) \/ NewerVersion(w) \/ \E from \in Wallets : Copied(from, w)
    PROVE  Promise!Spoil(w)
<1>1. UNCHANGED <<stage, got, answer>>
  BY DEF Damages, NewerVersion, Copied
<1>2. /\ [p \in Presses |-> Stage(p)]' = [p \in Presses |-> Stage(p)]
      /\ [p \in Presses |-> Outcome(p)]' = [p \in Presses |-> Outcome(p)]
  BY <1>1, SameCallSame DEF SameCall
<1>3. ASSUME NEW r \in Records, store' = [store EXCEPT ![w] = r],
             r.parses => ~(r.intact /\ r.wallet = w)
      PROVE  Promise!Spoil(w)
  <2>1. store'[w] = r
    BY <1>3, KeptAt
  <2>2. r # None
    BY NoneAssumption
  <2>3. Slot(w)' \in {Promise!Shut, Promise!Unreadable}
    BY <1>3, <2>1, <2>2 DEF Slot, Promise!Shut, Promise!Unreadable
  <2>4. [v \in Wallets |-> Slot(v)]' = [[v \in Wallets |-> Slot(v)] EXCEPT ![w] = Slot(w)']
    BY <1>3, KeptAt
  <2> QED BY <1>2, <2>3, <2>4 DEF Promise!Spoil
<1>4. CASE Damages(w)
  <2>1. store[w] \in Sealed
    BY <1>4, RecordShapes DEF Damages, TypeInv, TypeOK
  <2>2. PICK r : r = [store[w] EXCEPT !.intact = FALSE]
    OBVIOUS
  <2>3. r \in Sealed /\ ~r.intact
    BY <2>1, <2>2 DEF Sealed
  <2>4. store' = [store EXCEPT ![w] = r]
    BY <1>4, <2>2 DEF Damages
  <2> QED BY <1>3, <2>3, <2>4 DEF Records
<1>5. CASE NewerVersion(w)
  BY <1>3, <1>5 DEF NewerVersion, Foreign, Records
<1>6. ASSUME NEW from \in Wallets, Copied(from, w) PROVE Promise!Spoil(w)
  <2>1. PICK r : r = store[from]
    OBVIOUS
  <2>2. r \in Records /\ r.wallet # w /\ store' = [store EXCEPT ![w] = r]
    BY <1>6, <2>1 DEF Copied, TypeInv, TypeOK
  <2> QED BY <1>3, <2>2
<1> QED BY <1>4, <1>5, <1>6

\* Every step is a step of the promise, or none.
LEMMA StepKept ==
    ASSUME TypeInv, TypeInv', [Next]_vars PROVE [Promise!KNext]_(Promise!kvars)
<1> DEFINE Quiet == UNCHANGED Promise!kvars
<1>1. ASSUME NEW p \in Presses, Remember(p) \/ AskStore(p) PROVE Promise!KNext
  BY <1>1, AskKept DEF Promise!KNext
<1>2. ASSUME NEW p \in Presses, Encrypted(p) \/ Transaction(p) PROVE Quiet
  <2>1. UNCHANGED <<store, got, answer>> /\ \E s \in {"waiting", "queued"} : Moves(p, s)
        /\ stage[p] \in {"sealing", "waiting"}
    BY <1>2 DEF Encrypted, Transaction, Waits
  <2>2. stage'[p] \in {"waiting", "queued"} /\ \A q \in Presses : q # p => SameCall(q)
    BY <2>1 DEF Moves, SameCall, TypeInv, TypeOK
  <2> QED BY <2>1, <2>2, Silent
<1>3. ASSUME NEW p \in Presses,
             CryptoFails(p) \/ FailsWaiting(p) \/ ThrowsOnDead(p) \/ Aborts(p)
      PROVE  Promise!KNext
  BY <1>3, FailKept
     DEF CryptoFails, FailsWaiting, ThrowsOnDead, Aborts, Promise!KNext, Promise!Serve
<1>4. ASSUME NEW p \in Presses, Commits(p) PROVE Promise!KNext
  BY <1>4, CommitKept DEF Promise!KNext, Promise!Serve
<1>5. ASSUME NEW p \in Presses, Resolves(p) PROVE Promise!KNext
  <2>1. Answers(p, Outcome(p)) /\ UNCHANGED store /\ Stage(p) = "done"
    BY <1>5, Standing DEF Resolves
  <2> QED BY <2>1, AnswerKept DEF Promise!KNext, Promise!Serve
<1>6. ASSUME NEW p \in Presses, Checks(p) PROVE Promise!KNext \/ Quiet
  <2>1. stage[p] = "read" /\ UNCHANGED store /\ Stage(p) = "done" /\ Outcome(p) = ToAnswer(p)
    BY <1>6, Standing DEF Checks
  <2>2. CASE Moves(p, "unsealing") /\ UNCHANGED <<got, answer>>
    <3>1. stage'[p] = "unsealing" /\ got'[p] = got[p] /\ \A q \in Presses : q # p => SameCall(q)
      BY <2>2 DEF Moves, SameCall, TypeInv, TypeOK
    <3> QED BY <2>1, <3>1, Silent
  <2>3. CASE Answers(p, ToAnswer(p))
    BY <2>1, <2>3, AnswerKept DEF Promise!KNext, Promise!Serve
  <2> QED BY <1>6, <2>2, <2>3 DEF Checks, ToAnswer
<1>7. ASSUME NEW p \in Presses, Decrypts(p) PROVE Promise!KNext
  <2>1. stage[p] = "unsealing" /\ UNCHANGED store /\ Stage(p) = "done" /\ Outcome(p) = ToAnswer(p)
    BY <1>7, Standing DEF Decrypts
  <2>2. got[p] # None /\ got[p].parses /\ Call[p].typed # ""
    BY <2>1 DEF TypeInv, WellFormed
  <2>3. Answers(p, ToAnswer(p))
    BY <1>7, <2>2 DEF Decrypts, ToAnswer
  <2> QED BY <2>1, <2>3, AnswerKept DEF Promise!KNext, Promise!Serve
<1>8. ASSUME NEW t \in Tabs, Connects(t) \/ ConnectionLost(t) \/ ConnectFails(t) PROVE Quiet
  <2>1. /\ UNCHANGED <<store, got, answer>>
        /\ \A q \in Presses : \/ stage'[q] = stage[q]
                              \/ stage[q] = "waiting" /\ stage'[q] = "failing"
    BY <1>8 DEF Connects, ConnectionLost, ConnectFails
  <2> QED BY <2>1, Silent DEF SameCall
<1>9. ASSUME NEW t \in Tabs, Reloads(t) PROVE Promise!KNext
  BY <1>9, LeaveKept DEF Promise!KNext
<1>10. ASSUME NEW w \in Wallets,
              Damages(w) \/ NewerVersion(w) \/ \E from \in Wallets : Copied(from, w)
       PROVE  Promise!KNext
  BY <1>10, SpoilKept DEF Promise!KNext
<1>11. CASE UNCHANGED vars
  BY <1>11, Silent DEF vars, SameCall
<1> QED BY <1>1, <1>2, <1>3, <1>4, <1>5, <1>6, <1>7, <1>8, <1>9, <1>10, <1>11 DEF Next, Serves

LEMMA InitKept == Init => Promise!KInit
<1> SUFFICES ASSUME Init PROVE Promise!KInit
  OBVIOUS
<1>1. \A w \in Wallets : Slot(w) = None
  BY DEF Init, Slot
<1>2. \A p \in Presses : Stage(p) = "unasked" /\ Outcome(p) = None
  BY DEF Init, Stage, Outcome
<1> QED BY <1>1, <1>2 DEF Promise!KInit

\* Sealing, the connection and the transactions, with every way they fail and
\* every window that goes, keep the safety part of the promise of Keystore:
\* each call takes effect once and whole, or leaves the kept secrets alone.
THEOREM KeepsThePromiseSafely == Spec => Promise!KSpec
<1>1. Inv /\ Inv' /\ [Next]_vars => [Promise!KNext]_(Promise!kvars)
  BY StepKept DEF Inv
<1> QED BY InitKept, Invariance, <1>1, PTL DEF Spec, Promise!KSpec

-----------------------------------------------------------------------------
(* What a call waits for.                                                  *)

\* A call moves, none joins or leaves the transactions.
LEMMA WaitersSame ==
    ASSUME TypeInv, NobodyLeftWaiting, NEW p \in Presses, NEW s \in Stages,
           Moves(p, s), stage[p] # "queued", s # "queued", UNCHANGED ahead,
           \A t \in Tabs : handle'[t] = "none" => handle[t] = "none",
           s = "waiting" => handle'[Call[p].tab] # "none"
    PROVE  NobodyLeftWaiting'
<1>1. \A q \in Presses : stage'[q] = IF q = p THEN s ELSE stage[q]
  BY DEF Moves, TypeInv, TypeOK
<1>2. Made' = Made
  BY <1>1 DEF Made
<1>3. \A q \in Presses : stage'[q] = "waiting" => handle'[Call[q].tab] # "none"
  BY <1>1, CallTyped DEF NobodyLeftWaiting
<1> QED
  BY <1>2, <1>3 DEF NobodyLeftWaiting

\* Transactions are over, and the calls that made them stand elsewhere.
LEMMA WaitersOver ==
    ASSUME TypeInv, NobodyLeftWaiting, NEW ps \in SUBSET Presses, Over(ps),
           Made' = Made \ ps,
           \A p \in Presses : stage'[p] = "waiting" => stage[p] = "waiting" /\ handle'[Call[p].tab] = handle[Call[p].tab]
    PROVE  NobodyLeftWaiting'
<1>1. \A p \in Presses : ahead'[p] = IF p \in ps THEN {} ELSE ahead[p] \ ps
  BY DEF Over
<1>2. \A p \in Presses : stage'[p] = "waiting" => handle'[Call[p].tab] # "none"
  BY DEF NobodyLeftWaiting
<1>0. \A p \in Presses : ahead[p] \subseteq Made \ {p}
  BY DEF NobodyLeftWaiting
<1>3. ASSUME NEW p \in Presses PROVE ahead'[p] \subseteq Made' \ {p}
  <2>1. ahead'[p] = {} \/ ahead'[p] = ahead[p] \ ps
    BY <1>1
  <2>2. ahead[p] \subseteq Made \ {p}
    BY <1>0
  <2> QED
    BY <2>1, <2>2
<1>4. ASSUME NEW p \in Presses, NEW q \in ahead'[p] PROVE ahead'[q] \subseteq ahead'[p]
  <2>1. p \notin ps /\ q \in ahead[p] /\ q \notin ps /\ q \in Presses
    <3>1. p \notin ps
      BY <1>1, <1>4
    <3>2. q \in ahead[p] \ ps
      BY <1>1, <1>4, <3>1
    <3>3. q \in Made
      BY <1>0, <3>2
    <3> QED
      BY <3>1, <3>2, <3>3 DEF Made
  <2>2. ahead[q] \subseteq ahead[p]
    BY <2>1 DEF NobodyLeftWaiting
  <2> QED
    BY <1>1, <2>1, <2>2
<1>5. ASSUME NEW p \in Made', NEW q \in Made', p # q PROVE p \in ahead'[q] \/ q \in ahead'[p]
  <2>1. p \in Made \ ps /\ q \in Made \ ps /\ p \in Presses /\ q \in Presses
    BY <1>5 DEF Made
  <2>2. p \in ahead[q] \/ q \in ahead[p]
    BY <2>1, <1>5 DEF NobodyLeftWaiting
  <2> QED
    BY <1>1, <2>1, <2>2
<1> QED
  BY <1>2, <1>3, <1>4, <1>5 DEF NobodyLeftWaiting

LEMMA WaitersStep == TypeInv /\ NobodyLeftWaiting /\ [Next]_vars => NobodyLeftWaiting'
<1> SUFFICES ASSUME TypeInv, NobodyLeftWaiting, [Next]_vars PROVE NobodyLeftWaiting'
  OBVIOUS
<1>0. TypeOK /\ \A p \in Presses : WellFormed(p)
  BY DEF TypeInv
\* A call is answered, or moves between two awaits of its own.
<1>1. ASSUME NEW p \in Presses,
             \/ Remember(p) \/ CryptoFails(p) \/ FailsWaiting(p) \/ ThrowsOnDead(p)
             \/ Resolves(p) \/ Checks(p) \/ Decrypts(p)
      PROVE  NobodyLeftWaiting'
  <2>1. UNCHANGED <<handle, ahead>> /\ stage[p] # "queued"
        /\ \E s \in {"answered", "sealing", "unsealing"} : Moves(p, s)
    BY <1>1 DEF Remember, CryptoFails, FailsWaiting, ThrowsOnDead, Resolves, Checks, Decrypts, Answers
  <2> QED
    BY <2>1, WaitersSame DEF Stages
<1>2. ASSUME NEW p \in Presses, AskStore(p) \/ Encrypted(p) PROVE NobodyLeftWaiting'
  <2>1. UNCHANGED ahead /\ stage[p] # "queued" /\ Moves(p, "waiting")
        /\ handle' = IF handle[Call[p].tab] = "none"
                       THEN [handle EXCEPT ![Call[p].tab] = "opening"] ELSE handle
    BY <1>2 DEF AskStore, Encrypted, Waits
  <2>2. /\ handle'[Call[p].tab] # "none"
        /\ \A t \in Tabs : handle'[t] = "none" => handle[t] = "none"
    BY <1>0, <2>1, CallTyped DEF TypeOK
  <2> QED
    BY <2>1, <2>2, WaitersSame DEF Stages
\* A transaction is made: it waits for all the others, and none for it.
<1>3. ASSUME NEW p \in Presses, Transaction(p) PROVE NobodyLeftWaiting'
  <2>1. /\ \A q \in Presses : stage'[q] = IF q = p THEN "queued" ELSE stage[q]
        /\ \A q \in Presses : ahead'[q] = IF q = p THEN Made ELSE ahead[q]
        /\ handle' = handle /\ p \notin Made
    BY <1>0, <1>3 DEF TypeOK, Transaction, Moves, Made
  <2>2. Made' = Made \cup {p}
    BY <2>1 DEF Made
  <2>3. \A q \in Presses : ahead[q] \subseteq Made \ {q}
    BY DEF NobodyLeftWaiting
  <2>4. \A q \in Presses : ahead'[q] \subseteq Made' \ {q}
    BY <2>1, <2>2, <2>3
  <2>5. ASSUME NEW q \in Presses, NEW r \in ahead'[q] PROVE ahead'[r] \subseteq ahead'[q]
    <3>1. r \in Made /\ r \in Presses /\ ahead'[r] = ahead[r] /\ ahead[r] \subseteq Made
      BY <2>1, <2>3, <2>5 DEF Made
    <3> QED
      BY <2>1, <2>5, <3>1 DEF NobodyLeftWaiting
  <2>6. ASSUME NEW q \in Made', NEW r \in Made', q # r PROVE q \in ahead'[r] \/ r \in ahead'[q]
    BY <2>1, <2>2, <2>6 DEF NobodyLeftWaiting, Made
  <2>7. \A q \in Presses : stage'[q] = "waiting" => handle'[Call[q].tab] # "none"
    BY <2>1 DEF NobodyLeftWaiting
  <2> QED
    BY <2>4, <2>5, <2>6, <2>7 DEF NobodyLeftWaiting
\* One or more are over.
<1>4. ASSUME NEW p \in Presses, Commits(p) \/ Aborts(p) PROVE NobodyLeftWaiting'
  <2>1. Over({p}) /\ handle' = handle
        /\ \E s \in {"read", "committed", "answered"} : Moves(p, s)
    BY <1>4 DEF Commits, Aborts, Answers
  <2>2. \A q \in Presses : q # p => stage'[q] = stage[q]
    BY <1>0, <2>1 DEF Moves, TypeOK
  <2>3. stage'[p] \in {"read", "committed", "answered"}
    BY <1>0, <2>1 DEF Moves, TypeOK
  <2>4. Made' = Made \ {p}
    BY <2>2, <2>3 DEF Made
  <2> QED
    BY <2>1, <2>2, <2>3, <2>4, WaitersOver
<1>5. ASSUME NEW t \in Tabs, Reloads(t) PROVE NobodyLeftWaiting'
  <2> DEFINE ps == {p \in Presses : Call[p].tab = t}
  <2>1. \A p \in Presses :
            stage'[p] = IF Call[p].tab = t /\ stage[p] \notin {"unasked", "answered"}
                        THEN "lost" ELSE stage[p]
    BY <1>5 DEF Reloads
  <2>2. Made' = Made \ ps
    BY <2>1 DEF Made
  <2>3. \A p \in Presses : Call[p].tab # t => handle'[Call[p].tab] = handle[Call[p].tab]
    BY <1>0, <1>5, CallTyped DEF Reloads, TypeOK
  <2>4. Over(ps)
    BY <1>5 DEF Reloads
  <2> QED
    BY <2>1, <2>2, <2>3, <2>4, WaitersOver
\* A connection is made, or rejected, and then nobody waits for it; or lost.
<1>6. ASSUME NEW t \in Tabs, Connects(t) \/ ConnectionLost(t) PROVE NobodyLeftWaiting'
  <2>1. UNCHANGED <<stage, ahead>> /\ \A u \in Tabs : handle'[u] = "none" => handle[u] = "none"
    BY <1>0, <1>6 DEF Connects, ConnectionLost, TypeOK
  <2> QED
    BY <2>1, CallTyped DEF NobodyLeftWaiting, Made
<1>7. ASSUME NEW t \in Tabs, ConnectFails(t) PROVE NobodyLeftWaiting'
  <2>1. /\ ahead' = ahead
        /\ \A p \in Presses : stage'[p] = IF Call[p].tab = t /\ stage[p] = "waiting" THEN "failing" ELSE stage[p]
        /\ \A u \in Tabs : u # t => handle'[u] = handle[u]
    BY <1>0, <1>7 DEF ConnectFails, TypeOK
  <2>2. Made' = Made
    BY <2>1 DEF Made
  <2>3. \A p \in Presses : stage'[p] = "waiting" => handle'[Call[p].tab] # "none"
    BY <2>1, CallTyped DEF NobodyLeftWaiting
  <2> QED
    BY <2>1, <2>2, <2>3 DEF NobodyLeftWaiting
<1>8. ASSUME \/ \E w \in Wallets : Damages(w) \/ NewerVersion(w)
             \/ \E from, to \in Wallets : Copied(from, to)
             \/ UNCHANGED vars
      PROVE  NobodyLeftWaiting'
  BY <1>8 DEF Damages, NewerVersion, Copied, vars, NobodyLeftWaiting, Made
<1> QED
  BY <1>1, <1>2, <1>3, <1>4, <1>5, <1>6, <1>7, <1>8 DEF Next, Serves

\* A call that waits for the database is never left on a connection that was
\* rejected, and transactions never wait for one another in a circle: what the
\* liveness of KeepsThePromise rests on (database, withStore).
THEOREM NobodyIsLeftWaiting == Spec => []NobodyLeftWaiting
<1>1. Init => NobodyLeftWaiting
  BY DEF Init, NobodyLeftWaiting, Made
<1>2. Spec => []TypeInv
  BY Invariance, PTL DEF Inv
<1> QED
  BY <1>1, <1>2, WaitersStep, PTL DEF Spec
=============================================================================
