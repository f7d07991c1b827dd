-------------------------- MODULE MCWalletSession --------------------------
(* WalletSession on small sets of presses, keys and networks.  The members  *)
(* of each set are alike, so every permutation of them is a symmetry.       *)
EXTENDS WalletSession, TLC

Symmetry == Permutations(Calls) \cup Permutations(Keys)
                \cup Permutations(Networks) \cup Permutations(Jobs)
                \cup Permutations(Forgets)
=============================================================================
