---------------------------- MODULE PendingPsbts ----------------------------
(***************************************************************************)
(* What the screens that spend share: the render they belong to, api.ts's  *)
(* map of unsigned PSBTs (`pending`), the broadcasts in flight and the     *)
(* result of the last one (packages/wallet-ui/src/api.ts, screen.ts,       *)
(* ui/preview.ts).                                                         *)
(*                                                                         *)
(* A screen is built anew on every navigation and keeps its state in the   *)
(* render's closures, so a render that was left never comes back: what is  *)
(* still in flight then lands in it, and in this map, and nowhere else.    *)
(***************************************************************************)
EXTENDS Naturals, FiniteSets

CONSTANTS Shells,     \* the front ends: "desktop", "phone"
          None

ASSUME ShellsAssumption == Shells \subseteq {"desktop", "phone"}
ASSUME NoneAssumption == None \notin Nat

VARIABLES shell,   \* the front end
          place,   \* where the user is, as this render's guards see it
          pressed, \* presses so far: the next psbt_id
          builds,  \* buildTransfer, buildDrain, ... calls in flight
          pending, \* api.ts's pending map: the PSBTs held for signAndBroadcast
          sending, \* signAndBroadcast and broadcastPsbt calls in flight
          sent,    \* what the network took
          result,  \* session.lastResult
          patient  \* history: no press came while an earlier one was unfinished

desk == <<shell, place, pressed, builds, pending, sending, sent, result, patient>>

\* On this screen; off it with the same wallet open, with none, with another.
Places == {"on", "left", "closed", "other"}
OnScreen == place = "on"
SameWallet == place \in {"on", "left"}

DeskInit ==
    /\ shell \in Shells
    /\ place = "on"
    /\ pressed = 0
    /\ builds = {}
    /\ pending = {}
    /\ sending = {}
    /\ sent = {}
    /\ result = None
    /\ patient = TRUE

\* The id a preview or a call goes by, as a set: none for None.
IdOf(p) == IF p = None THEN {} ELSE {p.id}

\* A press of a button that starts work, the next id, while there were fewer
\* than `most`.
Press(most, idle) ==
    /\ pressed < most
    /\ pressed' = pressed + 1
    /\ patient' = (patient /\ idle)

\* signAndBroadcast of a PSBT the map still holds: out of the map before it is
\* signed, and so gone whether or not it goes out.
SignedLast(call, others) ==
    /\ pending' = pending \ others
    /\ sending' = sending \cup {call}
SignAndBroadcast(call, others) ==
    /\ pending' = pending \ ({call.id} \cup others)
    /\ sending' = sending \cup {call}

\* A broadcast settles.  The network may have taken what the caller hears failed.
Settles(call, took) ==
    /\ sending' = sending \ {call}
    /\ sent' = IF took THEN sent \cup {call.id} ELSE sent

\* recordSent: kept for the wallet that sent it, whichever screen is on top.
RecordSent(call) == result' = IF SameWallet THEN call.id ELSE result

\* A hashchange: this render is left, with or without its wallet.
Goes == place' \in Places \ {"on"}
=============================================================================
