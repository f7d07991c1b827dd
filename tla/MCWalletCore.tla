---------------------------- MODULE MCWalletCore ----------------------------
(***************************************************************************)
(* Small instances of WalletCore for TLC.                                  *)
(***************************************************************************)
EXTENDS WalletCore, TLC

\* Calls are interchangeable until they are used, and so are opens.
CallSymmetry == Permutations(Ops) \cup Permutations(Handles)

\* The kinds of call an instance makes.
Everything == Kinds \ {"none"}

\* Without those whose states repeat others': address is newAddress with less
\* to promise, unfreeze the mirror of freeze, partial a full scan that asks less.
MostKinds == Everything \ {"address", "unfreeze", "partial"}
=============================================================================
