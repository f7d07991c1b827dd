----------------------------- MODULE MCAutolock -----------------------------
(***************************************************************************)
(* Small instances of Autolock for TLC.                                    *)
(***************************************************************************)
EXTENDS Autolock
=============================================================================
