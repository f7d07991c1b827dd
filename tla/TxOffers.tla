------------------------------ MODULE TxOffers ------------------------------
(***************************************************************************)
(* What an unconfirmed transaction offers: Bump fee, Cancel and Speed up,  *)
(* in an open row of the desktop's Wallet page, which also syncs on its    *)
(* own (packages/wallet-ui/src/screens/dashboard.ts), and on the phone's   *)
(* transaction screen (mobile/screens/tx.ts).  Cancel and Speed up show a  *)
(* preview before anything is signed, and keep it in a heldPreview         *)
(* (ui/preview.ts); Bump fee builds and sends at one press.                *)
(*                                                                         *)
(* heldPreview's gen is a counter that a build remembers and compares when *)
(* it is answered: here a build carries the outcome of that comparison,    *)
(* `live`.  The phone's screen is a row that is open from the start.       *)
(*                                                                         *)
(* HoldsAnyway, FoldsOnly, StaysBusy and SyncStops are faulty variants of  *)
(* the definition each stands before.                                      *)
(***************************************************************************)
EXTENDS PendingPsbts

CONSTANTS MaxRows,  \* bound on the rows opened
          MaxSyncs, \* bound on the syncs
          MaxOffers \* bound on the presses that build or send

ASSUME RowsAssumption == MaxRows \in Nat \ {0} /\ MaxSyncs \in Nat /\ MaxOffers \in Nat

VARIABLES row,      \* the open row's detail, None when none is
          rows,     \* rows opened so far
          loads,    \* details being read
          offer,    \* what the open row offers: None until it is read, "replace", "child", "none"
          target,   \* what Speed up is priced for: a block target or a typed rate
          priced,   \* whether Speed up and Cancel have an estimate to price with
          asking,   \* the phone's Cancel, waiting for its estimate
          held,     \* the preview heldPreview holds
          card,     \* the preview whose numbers are on screen
          goOn,     \* whether the Speed up button is enabled
          listed,   \* whether the history is drawn
          syncs,    \* syncs running: the first local read, an automatic, an asked one
          synced    \* syncs started so far

txVars == <<row, rows, loads, offer, target, priced, asking, held, card, goOn,
            listed, syncs, synced>>

OnDesktop == shell = "desktop"
Targets == {"preset", "custom"}
\* What an offer builds.
Offered == [id : Nat, kind : {"bump", "child", "cancel"}, live : BOOLEAN,
            row : Nat \cup {None}, target : Targets, wakes : BOOLEAN]
ASSUME OfferedAssumption == None \notin Offered /\ None \notin {"replace", "child", "none"}

\* Builds heldPreview answers for; a bump's is not one of them.
Outdated == {IF b.kind = "bump" THEN b ELSE [b EXCEPT !.live = FALSE] : b \in builds}

TxInit ==
    /\ row = (IF OnDesktop THEN None ELSE 1)
    /\ rows = (IF OnDesktop THEN 0 ELSE 1)
    /\ loads = (IF OnDesktop THEN {} ELSE {1})
    /\ offer = None
    /\ target = "preset"
    /\ priced = FALSE
    /\ asking = FALSE
    /\ held = None
    /\ card = None
    /\ goOn = TRUE
    /\ listed = FALSE
    /\ syncs = (IF OnDesktop THEN {"local"} ELSE {})
    /\ synced = 0

-----------------------------------------------------------------------------
(* heldPreview.                                                            *)

\* drop, with what was on screen going away with it.
Drop ==
    /\ builds' = Outdated
    /\ pending' = pending \ IdOf(held)
    /\ held' = None
    /\ card' = None

\* hold: builds in place of what was held.  `wakes`: the press that waits for it.
Hold(kind, wakes) ==
    /\ builds' = Outdated \cup {[id |-> pressed', kind |-> kind, live |-> TRUE,
                                 row |-> row, target |-> target', wakes |-> wakes]}
    /\ pending' = pending \ IdOf(held)
    /\ held' = None
    /\ card' = None

\* Speed up priced again: for a preset once the estimate is there, for a typed
\* rate unless it is refused.
Reprice(wakes) ==
    \/ (priced' \/ target' = "custom") /\ Hold("child", wakes) /\ goOn' = (~wakes /\ goOn)
    \/ (~priced' \/ target' = "custom") /\ ~OnDesktop /\ Drop /\ goOn' = (wakes \/ goOn)

-----------------------------------------------------------------------------
(* Rows.                                                                   *)

\* closeDetail.
CloseRow ==
    /\ OnScreen /\ OnDesktop
    /\ row # None
    /\ Drop
    /\ row' = None
    /\ offer' = None
    /\ UNCHANGED <<shell, place, pressed, sending, sent, result, patient,
                   rows, loads, target, priced, asking, goOn, listed, syncs, synced>>

\* openDetail: another row closes first.
OpenRow ==
    /\ OnScreen /\ OnDesktop
    /\ rows < MaxRows
    /\ listed
    /\ Drop
    /\ rows' = rows + 1
    /\ row' = rows + 1
    /\ loads' = loads \cup {rows + 1}
    /\ offer' = None
    /\ target' = "preset"
    /\ goOn' = TRUE
    /\ UNCHANGED <<shell, place, pressed, sending, sent, result, patient,
                   priced, asking, listed, syncs, synced>>

\* The detail read: what it offers is drawn while its own row is open, and its
\* failure closes that row and no other.  The desktop has its estimate, or the
\* lack of one, by now.
DetailAnswers(d, kind) ==
    /\ d \in loads
    /\ loads' = loads \ {d}
    /\ pressed' = (IF kind = "child" THEN pressed + 1 ELSE pressed)
    /\ priced' = (priced \/ OnDesktop)
    /\ UNCHANGED target
    /\ IF OnScreen /\ row = d
       THEN /\ offer' = kind
            /\ row' = (IF kind = None /\ OnDesktop THEN None ELSE row)
            /\ CASE kind = "child" -> Reprice(FALSE)
                 [] kind = None    -> Drop /\ UNCHANGED goOn
                 [] OTHER          -> UNCHANGED <<builds, pending, held, card, goOn>>
       ELSE UNCHANGED <<offer, row, builds, pending, held, card, goOn>>
    /\ UNCHANGED <<shell, place, sending, sent, result, patient, rows, asking, listed, syncs, synced>>

\* The phone's estimate for Speed up, or the lack of one.
EstimateArrives ==
    /\ ~OnDesktop
    /\ offer = "child"
    /\ ~priced
    /\ priced' = TRUE
    /\ pressed' = pressed + 1
    /\ UNCHANGED target
    /\ IF OnScreen /\ target # "custom"
       THEN Reprice(FALSE)
       ELSE UNCHANGED <<builds, pending, held, card, goOn>>
    /\ UNCHANGED <<shell, place, sending, sent, result, patient,
                   row, rows, loads, offer, asking, listed, syncs, synced>>

-----------------------------------------------------------------------------
(* Speed up, Cancel and Bump fee.                                          *)

Retarget ==
    /\ OnScreen
    /\ offer = "child"
    /\ Press(MaxOffers, builds = {})
    /\ target' \in (IF OnDesktop THEN {"preset"} ELSE Targets)
    /\ UNCHANGED priced
    /\ Reprice(FALSE)
    /\ UNCHANGED <<shell, place, sending, sent, result,
                   row, rows, loads, offer, asking, listed, syncs, synced>>

\* Cancel: the phone asks for an estimate first, and builds then.
AskCancel ==
    /\ OnScreen
    /\ offer = "replace"
    /\ card = None
    /\ ~asking
    /\ \A b \in builds : b.kind = "cancel" => b.row # row
    /\ UNCHANGED target
    /\ IF OnDesktop
       THEN Press(MaxOffers, builds = {}) /\ Hold("cancel", FALSE) /\ UNCHANGED asking
       ELSE /\ pressed < MaxOffers
            /\ asking' = TRUE
            /\ UNCHANGED <<pressed, patient, builds, pending, held, card>>
    /\ UNCHANGED <<shell, place, sending, sent, result,
                   row, rows, loads, offer, priced, goOn, listed, syncs, synced>>

CancelPriced ==
    /\ asking
    /\ asking' = FALSE
    /\ pressed' = pressed + 1
    /\ UNCHANGED target
    /\ IF OnScreen THEN Hold("cancel", FALSE) ELSE UNCHANGED <<builds, pending, held, card>>
    /\ UNCHANGED <<shell, place, sending, sent, result, patient,
                   row, rows, loads, offer, priced, goOn, listed, syncs, synced>>

\* hold's answer: the preview is held and shown while its row is open and no
\* newer build or drop came, and discarded otherwise.  A failure is said only
\* while it counts, and the numbers stay blank.
HoldsAnyway(b) == OnScreen
Current(b) == b.live /\ OnScreen /\ row = b.row

HeldAnswers(b, ok) ==
    /\ b \in builds
    /\ b.kind # "bump"
    /\ builds' = builds \ {b}
    /\ goOn' = (goOn \/ (b.wakes /\ b.row = row))
    /\ IF ok /\ Current(b)
       THEN held' = b /\ card' = b.id /\ pending' = pending \cup {b.id}
       ELSE UNCHANGED <<held, card, pending>>
    /\ UNCHANGED <<shell, place, pressed, sending, sent, result, patient,
                   row, rows, loads, offer, target, priced, asking, listed, syncs, synced>>

\* Keep it, and on the phone Bump fee unfolded.
FoldsOnly ==
    /\ card' = None
    /\ held' = None
    /\ UNCHANGED <<builds, pending>>
Fold == Drop

KeepIt ==
    /\ OnScreen
    /\ offer = "replace"
    /\ card # None
    /\ Fold
    /\ UNCHANGED <<shell, place, pressed, sending, sent, result, patient,
                   row, rows, loads, offer, target, priced, asking, goOn, listed, syncs, synced>>

Call(id, kind) == [id |-> id, row |-> row, kind |-> kind]

\* Cancel transaction, and Speed up with a preview held.
SendHeld ==
    /\ OnScreen
    /\ held # None
    /\ IF offer = "replace" THEN card # None ELSE offer = "child" /\ goOn
    /\ held.id \in pending
    /\ pressed < MaxOffers
    /\ held' = None
    /\ SignAndBroadcast(Call(held.id, held.kind), {})
    /\ goOn' = (goOn /\ offer # "child")
    /\ UNCHANGED <<shell, place, pressed, sent, result, patient,
                   row, rows, loads, offer, target, priced, asking, builds, card, listed, syncs, synced>>

\* Speed up with none held: its build failed or is still running, so it runs again.
SpeedUpAgain ==
    /\ OnScreen
    /\ offer = "child"
    /\ goOn
    /\ held = None
    /\ Press(MaxOffers, builds = {})
    /\ UNCHANGED <<target, priced>>
    /\ Reprice(TRUE)
    /\ UNCHANGED <<shell, place, sending, sent, result,
                   row, rows, loads, offer, asking, listed, syncs, synced>>

\* Bump fee, while no Cancel card folds it away.
Bump ==
    /\ OnScreen
    /\ offer = "replace"
    /\ card = None
    /\ \A c \in builds \cup sending : c.kind = "bump" => c.row # row
    /\ Press(MaxOffers, builds = {})
    /\ builds' = builds \cup {[id |-> pressed + 1, kind |-> "bump", live |-> TRUE,
                               row |-> row, target |-> target, wakes |-> FALSE]}
    /\ UNCHANGED <<shell, place, pending, sending, sent, result,
                   row, rows, loads, offer, target, priced, asking, held, card, goOn, listed, syncs, synced>>

\* buildFeeBump answers and its PSBT is signed and sent at once, wherever the
\* user is by then.  With no wallet open it stays in the map; another wallet
\* takes it out and has no key to sign it with.
BumpBuilt(b, ok) ==
    /\ b \in builds
    /\ b.kind = "bump"
    /\ builds' = builds \ {b}
    /\ CASE ~ok \/ place = "other" -> UNCHANGED <<pending, sending>>
         [] ok /\ place = "closed" -> pending' = pending \cup {b.id} /\ UNCHANGED sending
         [] OTHER            -> sending' = sending \cup {[id |-> b.id, row |-> b.row, kind |-> "bump"]}
                                /\ UNCHANGED pending
    /\ UNCHANGED <<shell, place, pressed, sent, result, patient, row, rows, loads, offer,
                   target, priced, asking, held, card, goOn, listed, syncs, synced>>

\* A broadcast succeeds: Result opens from the row it was sent from, if that is
\* still the one open; another row stays, with a banner.
OfferSent(c) ==
    /\ c \in sending
    /\ Settles(c, TRUE)
    /\ RecordSent(c)
    /\ IF OnScreen /\ row = c.row
       THEN place' = "left" /\ Drop /\ row' = None /\ offer' = None
       ELSE UNCHANGED <<place, builds, pending, held, card, row, offer>>
    /\ goOn' = (goOn \/ (c.kind = "child" /\ c.row = row))
    /\ UNCHANGED <<shell, pressed, patient, rows, loads, target, priced, asking, listed, syncs, synced>>

\* A broadcast fails.  The PSBT is gone: while its row is open Speed up builds
\* another, and the Cancel card is put away, on the phone with what is held.
StaysBusy(c) == Drop /\ UNCHANGED goOn
Afresh(c) ==
    CASE c.kind = "child" -> Reprice(TRUE)
      [] c.kind = "cancel" /\ OnDesktop -> card' = None /\ UNCHANGED <<builds, pending, held, goOn>>
      [] c.kind = "cancel" /\ ~OnDesktop -> Drop /\ UNCHANGED goOn
      [] OTHER -> UNCHANGED <<builds, pending, held, card, goOn>>

OfferFails(c, took) ==
    /\ c \in sending
    /\ Settles(c, took)
    /\ pressed' = (IF c.kind = "child" THEN pressed + 1 ELSE pressed)
    /\ UNCHANGED <<target, priced>>
    /\ IF OnScreen /\ row = c.row
       THEN Afresh(c)
       ELSE UNCHANGED <<builds, pending, held, card>> /\ goOn' = (goOn \/ (c.kind = "child" /\ c.row = row))
    /\ UNCHANGED <<shell, place, result, patient, row, rows, loads, offer, asking, listed, syncs, synced>>

-----------------------------------------------------------------------------
(* The Wallet page's syncs.                                                *)

\* runSync: one at a time, and no automatic one under an open row.
StartSync(kind) ==
    /\ OnScreen /\ OnDesktop
    /\ syncs \subseteq {"local"}
    /\ kind = "silent" => row = None
    /\ synced < MaxSyncs
    /\ synced' = synced + 1
    /\ syncs' = syncs \cup {kind}
    /\ UNCHANGED <<desk, row, rows, loads, offer, target, priced, asking, builds, held, card,
                   goOn, listed>>

\* A sync lands: renderTxs draws the history anew, and what an open row held is
\* dropped with it.  A failure leaves the history alone.
RenderTxs == Drop /\ row' = None /\ offer' = None

SyncStops(kind, ok) == kind = "silent" /\ ok
SyncEnds(kind, ok) == TRUE

SyncAnswers(kind, ok) ==
    /\ kind \in syncs
    /\ syncs' = (IF SyncEnds(kind, ok) THEN syncs \ {kind} ELSE syncs)
    /\ listed' = (listed \/ (ok /\ OnScreen))
    /\ IF ok /\ OnScreen THEN RenderTxs ELSE UNCHANGED <<builds, pending, held, card, row, offer>>
    /\ UNCHANGED <<shell, place, pressed, sending, sent, result, patient,
                   rows, loads, target, priced, asking, goOn, synced>>

\* hashchange: heldPreview drops what it holds.
LeaveTx ==
    /\ OnScreen
    /\ Goes
    /\ Drop
    /\ UNCHANGED <<shell, pressed, sending, sent, result, patient,
                   row, rows, loads, offer, target, priced, asking, goOn, listed, syncs, synced>>

-----------------------------------------------------------------------------
TxAnswers ==
    \/ \E d \in loads, kind \in {None, "replace", "child", "none"} : DetailAnswers(d, kind)
    \/ EstimateArrives \/ CancelPriced
    \/ \E b \in builds, ok \in BOOLEAN : HeldAnswers(b, ok) \/ BumpBuilt(b, ok)
    \/ \E c \in sending : OfferSent(c) \/ \E took \in BOOLEAN : OfferFails(c, took)
    \/ \E kind \in syncs, ok \in BOOLEAN : SyncAnswers(kind, ok)

TxNext ==
    \/ CloseRow \/ OpenRow \/ Retarget \/ AskCancel \/ KeepIt \/ SendHeld \/ SpeedUpAgain \/ Bump
    \/ \E kind \in {"silent", "asked"} : StartSync(kind)
    \/ LeaveTx
    \/ TxAnswers
=============================================================================
