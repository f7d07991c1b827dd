----------------------------- MODULE NewestWins -----------------------------
(***************************************************************************)
(* What packages/wallet-ui/src/api.ts promises of opens that race: attempts *)
(* are numbered as they start, and only the newest may become the open     *)
(* wallet.  An older one that finishes late is dropped.                    *)
(***************************************************************************)
EXTENDS Naturals

VARIABLES started,  \* ordinal of the newest attempt
          open      \* ordinal of the attempt whose wallet is open, 0 if none

vars == <<started, open>>

Init == started = 0 /\ open = 0

Start == started' = started + 1 /\ UNCHANGED open

Show == started > 0 /\ open' = started /\ UNCHANGED started

Hide == open' = 0 /\ UNCHANGED started

Restart == started' = 0 /\ open' = 0

Next == Start \/ Show \/ Hide \/ Restart

Spec == Init /\ [][Next]_vars
=============================================================================
