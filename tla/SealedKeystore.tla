--------------------------- MODULE SealedKeystore ---------------------------
(***************************************************************************)
(* The browser's key store: packages/wallet-ui/src/platform/sealed.ts over *)
(* persist/sealed-secrets.ts and persist/idb.ts, as apps/web hands it to   *)
(* the core.                                                               *)
(*                                                                         *)
(* A call runs from one await to the next as one action: sealing or        *)
(* unsealing (whose awaits of WebCrypto nothing else can see between),     *)
(* waiting for the database, its transaction and the answer.  Transactions *)
(* of one object store run in the order they were made, whichever window   *)
(* made them.  Encryption is what it promises: a record opens with the     *)
(* password and the wallet id it was sealed with while its ciphertext is   *)
(* unchanged, and otherwise fails the tag.                                 *)
(*                                                                         *)
(* IgnoresTheSlot, RejectsNobody and AnswersWhenMade are faulty variants of *)
(* the definition each stands before.                                      *)
(***************************************************************************)
EXTENDS Naturals

CONSTANTS Wallets, Presses, Call, Secrets, Tabs, NFC, None

VARIABLES store,     \* object store sealed_secrets, by wallet id
          handle,    \* each window's connection (idb.ts, handle)
          ahead,     \* of each call's transaction: those made before it and not over
          stage,     \* where each call stands
          got,       \* what a load's transaction read
          answer     \* what each call was answered

vars == <<store, handle, ahead, stage, got, answer>>

Ops == {"remember", "load", "forget"}

ASSUME CallAssumption ==
    Call \in [Presses -> [op: Ops, wallet: Wallets, typed: DOMAIN NFC,
                          tab: Tabs, secret: Secrets]]

ASSUME EmptyAssumption ==
    \A t \in DOMAIN NFC : NFC[t] = "" <=> t = ""

\* A password an entry can be sealed with.
Passwords == {NFC[t] : t \in DOMAIN NFC} \ {""}

(* A record of this version carries what opens it; one of another version, *)
(* or damaged in its header, is only unreadable.                           *)
Sealed == [parses: {TRUE}, wallet: Wallets,
           password: Passwords,
           secret: Secrets, intact: BOOLEAN]
Foreign == [parses |-> FALSE]
Records == Sealed \cup {Foreign}

ASSUME NoneAssumption ==
    /\ None \notin Records
    /\ None # [shut |-> "never opens"] /\ None # [shut |-> "unknown format"]
    /\ \A a \in Passwords, s \in Secrets : None # [password |-> a, secret |-> s]

Wrong   == [error |-> "wrong_password"]
Failed  == [error |-> "failed"]
Outcomes == {[none |-> "not remembered"], [error |-> "unknown_secret_format"],
             [error |-> "no_app_password"], Wrong, Failed,
             [done |-> "remembered"], [done |-> "forgotten"]}
                \cup [secret: Secrets]

Stages == {"unasked", "sealing", "waiting", "failing", "queued",
           "committed", "read", "unsealing", "answered", "lost"}

TypeOK == /\ store \in [Wallets -> Records \cup {None}]
          /\ handle \in [Tabs -> {"none", "opening", "open", "dead"}]
          /\ ahead \in [Presses -> SUBSET Presses]
          /\ stage \in [Presses -> Stages]
          /\ got \in [Presses -> Records \cup {None}]
          /\ answer \in [Presses -> Outcomes \cup {None}]

Init == /\ store = [w \in Wallets |-> None]
        /\ handle = [t \in Tabs |-> "none"]
        /\ ahead = [p \in Presses |-> {}]
        /\ stage = [p \in Presses |-> "unasked"]
        /\ got = [p \in Presses |-> None]
        /\ answer = [p \in Presses |-> None]

-----------------------------------------------------------------------------
Moves(p, s) == stage' = [stage EXCEPT ![p] = s]

Answers(p, a) == /\ Moves(p, "answered")
                 /\ answer' = [answer EXCEPT ![p] = a]
                 /\ got' = [got EXCEPT ![p] = None]   \* its frame is gone

(* database(): the first call connects, the rest wait for the same attempt. *)
Waits(p) ==
    /\ Moves(p, "waiting")
    /\ handle' = IF handle[Call[p].tab] = "none"
                   THEN [handle EXCEPT ![Call[p].tab] = "opening"] ELSE handle

(* What seal writes. *)
SealedBy(p) == [parses |-> TRUE, wallet |-> Call[p].wallet, password |-> NFC[Call[p].typed],
                secret |-> Call[p].secret, intact |-> TRUE]

(* The tag passes: this password, this wallet's slot, nothing changed. *)
IgnoresTheSlot(r, p) == r.intact /\ r.password = NFC[Call[p].typed]
TagPasses(r, p) == r.intact /\ r.wallet = Call[p].wallet /\ r.password = NFC[Call[p].typed]

(* rememberSecret up to its first await: an empty password is refused. *)
Remember(p) ==
    /\ stage[p] = "unasked" /\ Call[p].op = "remember"
    /\ IF Call[p].typed = ""
         THEN Answers(p, [error |-> "no_app_password"])
         ELSE Moves(p, "sealing") /\ UNCHANGED <<got, answer>>
    /\ UNCHANGED <<store, handle, ahead>>

(* loadSecret and forgetSecret go to the store first. *)
AskStore(p) ==
    /\ stage[p] = "unasked" /\ Call[p].op \in {"load", "forget"}
    /\ Waits(p)
    /\ UNCHANGED <<store, ahead, got, answer>>

(* seal is done: its key derived, its ciphertext made; now sealedSecrets.put. *)
Encrypted(p) == /\ stage[p] = "sealing"
                /\ Waits(p)
                /\ UNCHANGED <<store, ahead, got, answer>>

(* WebCrypto refuses a key or an encryption; a decryption fails by its tag only. *)
CryptoFails(p) == /\ stage[p] \in {"sealing", "unsealing"}
                  /\ Answers(p, Failed)
                  /\ UNCHANGED <<store, handle, ahead>>

(* connect resolves, or rejects: handle is null again for the next call and *)
(* every call that waited is to fail.                                       *)
Connects(t) == /\ handle[t] = "opening"
               /\ handle' = [handle EXCEPT ![t] = "open"]
               /\ UNCHANGED <<store, ahead, stage, got, answer>>

RejectsNobody(t) ==
    /\ handle[t] = "opening"
    /\ handle' = [handle EXCEPT ![t] = "none"]
    /\ UNCHANGED <<store, ahead, stage, got, answer>>

ConnectFails(t) ==
    /\ handle[t] = "opening"
    /\ handle' = [handle EXCEPT ![t] = "none"]
    /\ stage' = [p \in Presses |->
                   IF Call[p].tab = t /\ stage[p] = "waiting" THEN "failing" ELSE stage[p]]
    /\ UNCHANGED <<store, ahead, got, answer>>

(* The browser drops the connection (site data cleared, database lost).  *)
(* handle keeps it: every later call of this window fails.                *)
ConnectionLost(t) == /\ handle[t] = "open"
                     /\ handle' = [handle EXCEPT ![t] = "dead"]
                     /\ UNCHANGED <<store, ahead, stage, got, answer>>

FailsWaiting(p) == /\ stage[p] = "failing"
                   /\ Answers(p, Failed)
                   /\ UNCHANGED <<store, handle, ahead>>

(* withStore past its await: a transaction of the call's own, or a throw *)
(* on a connection that is gone.                                          *)
Made == {p \in Presses : stage[p] = "queued"}

AnswersWhenMade(p) ==
    /\ stage[p] = "waiting" /\ handle[Call[p].tab] = "open"
    /\ Moves(p, IF Call[p].op = "load" THEN "queued" ELSE "committed")
    /\ ahead' = [ahead EXCEPT ![p] = Made]
    /\ UNCHANGED <<store, handle, got, answer>>

Transaction(p) ==
    /\ stage[p] = "waiting" /\ handle[Call[p].tab] = "open"
    /\ Moves(p, "queued")
    /\ ahead' = [ahead EXCEPT ![p] = Made]
    /\ UNCHANGED <<store, handle, got, answer>>

ThrowsOnDead(p) == /\ stage[p] = "waiting" /\ handle[Call[p].tab] = "dead"
                   /\ Answers(p, Failed)
                   /\ UNCHANGED <<store, handle, ahead>>

(* A transaction with none ahead completes: the put, the delete or the read. *)
Over(ps) == ahead' = [p \in Presses |-> IF p \in ps THEN {} ELSE ahead[p] \ ps]

Written(p) ==
    CASE Call[p].op = "remember" -> [store EXCEPT ![Call[p].wallet] = SealedBy(p)]
      [] Call[p].op = "forget" -> [store EXCEPT ![Call[p].wallet] = None]
      [] OTHER -> store

Commits(p) ==
    /\ stage[p] = "queued" /\ ahead[p] = {}
    /\ handle[Call[p].tab] = "open"
    /\ Over({p})
    /\ store' = Written(p)
    /\ IF Call[p].op = "load"
         THEN Moves(p, "read") /\ got' = [got EXCEPT ![p] = store[Call[p].wallet]]
         ELSE Moves(p, "committed") /\ UNCHANGED got
    /\ UNCHANGED <<handle, answer>>

(* Or it is aborted (quota, a lost connection): nothing is written. *)
Aborts(p) == /\ stage[p] = "queued"
             /\ Over({p})
             /\ Answers(p, Failed)
             /\ UNCHANGED <<store, handle>>

Resolves(p) ==
    /\ stage[p] = "committed"
    /\ Answers(p, [done |-> IF Call[p].op = "remember" THEN "remembered" ELSE "forgotten"])
    /\ UNCHANGED <<store, handle, ahead>>

(* loadSecret with the record: nothing kept, a record that does not parse, *)
(* an empty password, or a key to derive.                                  *)
Checks(p) ==
    /\ stage[p] = "read"
    /\ IF got[p] = None THEN Answers(p, [none |-> "not remembered"])
       ELSE IF ~got[p].parses THEN Answers(p, [error |-> "unknown_secret_format"])
       ELSE IF Call[p].typed = "" THEN Answers(p, Wrong)
       ELSE Moves(p, "unsealing") /\ UNCHANGED <<got, answer>>
    /\ UNCHANGED <<store, handle, ahead>>

Decrypts(p) ==
    /\ stage[p] = "unsealing"
    /\ Answers(p, IF TagPasses(got[p], p) THEN [secret |-> got[p].secret] ELSE Wrong)
    /\ UNCHANGED <<store, handle, ahead>>

Serves(p) == \/ Encrypted(p) \/ CryptoFails(p)
             \/ Transaction(p) \/ ThrowsOnDead(p) \/ FailsWaiting(p)
             \/ Commits(p) \/ Aborts(p) \/ Resolves(p)
             \/ Checks(p) \/ Decrypts(p)

-----------------------------------------------------------------------------
(* The window is reloaded or closed: its calls are lost, its transactions *)
(* go, and what was committed stays.                                      *)
Reloads(t) ==
    /\ handle' = [handle EXCEPT ![t] = "none"]
    /\ Over({p \in Presses : Call[p].tab = t})
    /\ stage' = [p \in Presses |->
                   IF Call[p].tab = t /\ stage[p] \notin {"unasked", "answered"}
                     THEN "lost" ELSE stage[p]]
    /\ got' = [p \in Presses |-> IF Call[p].tab = t THEN None ELSE got[p]]
    /\ UNCHANGED <<store, answer>>

(* A record changed on the disk, written by a newer version, or copied into *)
(* another wallet's slot.                                                   *)
Damages(w) ==
    /\ store[w] # None /\ store[w].parses
    /\ store' = [store EXCEPT ![w].intact = FALSE]
    /\ UNCHANGED <<handle, ahead, stage, got, answer>>

NewerVersion(w) ==
    /\ store' = [store EXCEPT ![w] = Foreign]
    /\ UNCHANGED <<handle, ahead, stage, got, answer>>

Copied(from, to) ==
    /\ store[from] # None /\ store[from].parses
    /\ store[from].wallet # to
    /\ store' = [store EXCEPT ![to] = store[from]]
    /\ UNCHANGED <<handle, ahead, stage, got, answer>>

Next == \/ \E p \in Presses : Remember(p) \/ AskStore(p) \/ Serves(p)
        \/ \E t \in Tabs : Connects(t) \/ ConnectFails(t) \/ ConnectionLost(t)
                            \/ Reloads(t)
        \/ \E w \in Wallets : Damages(w) \/ NewerVersion(w)
        \/ \E from, to \in Wallets : Copied(from, to)

Spec == Init /\ [][Next]_vars

(* WebCrypto and IndexedDB answer every request, if only to refuse it. *)
FairSpec == /\ Spec
            /\ \A p \in Presses : WF_vars(Serves(p))
            /\ \A t \in Tabs : WF_vars(Connects(t) \/ ConnectFails(t))

-----------------------------------------------------------------------------
(* A load answers a secret only to the wallet it was remembered for and the *)
(* password it was remembered with, whatever was written over the record,   *)
(* and never to an empty password (sealed.ts, seal and unseal).             *)
OpensOnlyItsOwn ==
    \A p \in Presses :
        (Call[p].op = "load" /\ answer[p] # None /\ "secret" \in DOMAIN answer[p]) =>
            \E q \in Presses :
                /\ Call[q].op = "remember" /\ stage[q] # "unasked"
                /\ Call[q].wallet = Call[p].wallet /\ Call[q].secret = answer[p].secret
                /\ NFC[Call[q].typed] = NFC[Call[p].typed] /\ Call[p].typed # ""

(* Nobody is left waiting: a call that waits for the database waits for a   *)
(* connection being made, there or gone (a rejected one has failed it), and  *)
(* of any two transactions one was made before the other and waits for       *)
(* nothing the other does not wait for, so one of them can always complete.  *)
NobodyLeftWaiting ==
    /\ \A p \in Presses : stage[p] = "waiting" => handle[Call[p].tab] # "none"
    /\ \A p \in Presses : ahead[p] \subseteq Made \ {p}
    /\ \A p \in Presses : \A q \in ahead[p] : ahead[q] \subseteq ahead[p]
    /\ \A p, q \in Made : p # q => p \in ahead[q] \/ q \in ahead[p]

(* The store as its callers see it. *)
Slot(w) ==
    CASE store[w] = None -> None
      [] store[w] # None /\ ~store[w].parses -> [shut |-> "unknown format"]
      [] store[w] # None /\ store[w].parses ->
           IF store[w].intact /\ store[w].wallet = w
             THEN [password |-> store[w].password, secret |-> store[w].secret]
             ELSE [shut |-> "never opens"]

Stage(p) ==
    CASE stage[p] \in {"sealing", "waiting", "failing", "queued"} -> "asked"
      [] stage[p] \in {"committed", "read", "unsealing"} -> "done"
      [] OTHER -> stage[p]

(* What a load that has read its record is going to answer, if nothing fails. *)
ToAnswer(p) ==
    IF got[p] = None THEN [none |-> "not remembered"]
    ELSE IF ~got[p].parses THEN [error |-> "unknown_secret_format"]
    ELSE IF Call[p].typed # "" /\ TagPasses(got[p], p) THEN [secret |-> got[p].secret]
    ELSE Wrong

Outcome(p) ==
    CASE Stage(p) = "done" /\ Call[p].op = "load" -> ToAnswer(p)
      [] Stage(p) = "done" /\ Call[p].op = "remember" -> [done |-> "remembered"]
      [] Stage(p) = "done" /\ Call[p].op = "forget" -> [done |-> "forgotten"]
      [] OTHER -> answer[p]

Promise == INSTANCE Keystore
             WITH kept <- [w \in Wallets |-> Slot(w)],
                  stage <- [p \in Presses |-> Stage(p)],
                  outcome <- [p \in Presses |-> Outcome(p)]

(* The three calls keep the promise of Keystore: each takes effect once,    *)
(* whole, between its call and its answer; a refused, failed or lost one    *)
(* leaves every kept secret alone unless it had committed; each is answered *)
(* while its window stays.                                                  *)
KeepsThePromise == Promise!KFairSpec
=============================================================================
