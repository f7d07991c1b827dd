-------------------------- MODULE MCSealedKeystore --------------------------
(***************************************************************************)
(* The calls an instance may make: two wallets, two windows, a password    *)
(* typed composed and decomposed, and another one; a wallet remembered     *)
(* without a password, again under another one, loaded, and forgotten.     *)
(***************************************************************************)
EXTENDS SealedKeystore

MCNFC == [t \in {"", "composed", "decomposed", "other"} |->
            CASE t = "" -> ""
              [] t = "other" -> "o"
              [] OTHER -> "e"]

Asks(op, wallet, typed, tab, secret) ==
    [op |-> op, wallet |-> wallet, typed |-> typed, tab |-> tab, secret |-> secret]

MCCall == [p \in Presses |->
    CASE p = "keep" -> Asks("remember", "w1", "composed", "t1", "k1")
      [] p = "keep2" -> Asks("remember", "w2", "composed", "t2", "k2")
      [] p = "bare" -> Asks("remember", "w2", "", "t2", "k2")
      [] p = "change" -> Asks("remember", "w1", "other", "t2", "k2")
      [] p = "load" -> Asks("load", "w1", "decomposed", "t1", "k1")
      [] p = "empty" -> Asks("load", "w1", "", "t1", "k1")
      [] p = "drop" -> Asks("forget", "w1", "", "t2", "k1")]
=============================================================================
