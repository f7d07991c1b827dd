------------------------------ MODULE Keystore ------------------------------
(***************************************************************************)
(* What the browser's key store promises its callers: rememberSecret,      *)
(* loadSecret and forgetSecret each take effect at one moment between      *)
(* being called and being answered, or not at all; a secret comes back     *)
(* only for the wallet and the app password it was remembered with; a call *)
(* that is refused or fails leaves every kept secret as it was.            *)
(*                                                                         *)
(* SealedKeystore does it with records that are sealed over several awaits *)
(* and kept in a database that may refuse.                                 *)
(***************************************************************************)
CONSTANTS Wallets,   \* wallet ids
          Presses,   \* calls, each made at most once
          Call,      \* what each asks: op, wallet, typed password, window, secret
          Secrets,   \* keys with their passphrases
          Tabs,      \* windows of the app on one browser profile
          NFC,       \* typed text -> the password it is
          None       \* JavaScript's null

VARIABLES kept,      \* what each wallet's slot holds
          stage,     \* where each call stands
          outcome    \* what each call is, or will be, answered with

kvars == <<kept, stage, outcome>>

Shut       == [shut |-> "never opens"]    \* another wallet's or a changed record
Unreadable == [shut |-> "unknown format"]
Entry(password, secret) == [password |-> password, secret |-> secret]

(* What a load finds in a slot. *)
Opening(slot, p) ==
    CASE slot = None -> [none |-> "not remembered"]
      [] slot = Unreadable -> [error |-> "unknown_secret_format"]
      [] slot = Shut -> [error |-> "wrong_password"]
      [] OTHER -> IF Call[p].typed # "" /\ slot.password = NFC[Call[p].typed]
                    THEN [secret |-> slot.secret]
                    ELSE [error |-> "wrong_password"]

KInit == /\ kept = [w \in Wallets |-> None]
         /\ stage = [p \in Presses |-> "unasked"]
         /\ outcome = [p \in Presses |-> None]

Reaches(p, s, o) == /\ stage' = [stage EXCEPT ![p] = s]
                    /\ outcome' = [outcome EXCEPT ![p] = o]

Ask(p) == /\ stage[p] = "unasked"
          /\ Call[p].op = "remember" => Call[p].typed # ""
          /\ Reaches(p, "asked", None)
          /\ UNCHANGED kept

(* Nothing is kept that would open without a password. *)
Refuse(p) == /\ stage[p] = "unasked"
             /\ Call[p].op = "remember" /\ Call[p].typed = ""
             /\ Reaches(p, "answered", [error |-> "no_app_password"])
             /\ UNCHANGED kept

Keep(p) == /\ stage[p] = "asked" /\ Call[p].op = "remember"
           /\ kept' = [kept EXCEPT ![Call[p].wallet] = Entry(NFC[Call[p].typed], Call[p].secret)]
           /\ Reaches(p, "done", [done |-> "remembered"])

Drop(p) == /\ stage[p] = "asked" /\ Call[p].op = "forget"
           /\ kept' = [kept EXCEPT ![Call[p].wallet] = None]
           /\ Reaches(p, "done", [done |-> "forgotten"])

Look(p) == /\ stage[p] = "asked" /\ Call[p].op = "load"
           /\ Reaches(p, "done", Opening(kept[Call[p].wallet], p))
           /\ UNCHANGED kept

Answer(p) == /\ stage[p] = "done"
             /\ Reaches(p, "answered", outcome[p])
             /\ UNCHANGED kept

(* A call that fails has changed nothing. *)
Fail(p) == /\ stage[p] = "asked" \/ (stage[p] = "done" /\ Call[p].op = "load")
           /\ Reaches(p, "answered", [error |-> "failed"])
           /\ UNCHANGED kept

(* A window that goes is answered nothing; what its calls did stays. *)
Leave(t) ==
    LET gone == {p \in Presses : Call[p].tab = t /\ stage[p] \in {"asked", "done"}}
    IN  /\ stage' = [p \in Presses |-> IF p \in gone THEN "lost" ELSE stage[p]]
        /\ outcome' = [p \in Presses |-> IF p \in gone THEN None ELSE outcome[p]]
        /\ UNCHANGED kept

(* Something other than these calls writes the slot: never what opens. *)
Spoil(w) == /\ \E slot \in {Shut, Unreadable} : kept' = [kept EXCEPT ![w] = slot]
            /\ UNCHANGED <<stage, outcome>>

Serve(p) == Keep(p) \/ Drop(p) \/ Look(p) \/ Answer(p) \/ Fail(p)

KNext == \/ \E p \in Presses : Ask(p) \/ Refuse(p) \/ Serve(p)
         \/ \E t \in Tabs : Leave(t)
         \/ \E w \in Wallets : Spoil(w)

KSpec == KInit /\ [][KNext]_kvars

(* Every call is answered, as long as its window stays. *)
KFairSpec == KSpec /\ \A p \in Presses : WF_kvars(Serve(p))
=============================================================================
