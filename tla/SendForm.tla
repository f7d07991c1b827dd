------------------------------ MODULE SendForm ------------------------------
(***************************************************************************)
(* Send, on the desktop (packages/wallet-ui/src/screens/send.ts) and on    *)
(* the phone (mobile/screens/send.ts): a form, Max as a mode of it, Review *)
(* and Confirm.                                                            *)
(*                                                                         *)
(* The recipients are a version number that every edit moves on.  drainSeq *)
(* and formSeq are counters a build remembers and compares when it is      *)
(* answered; here a build carries the outcome of that comparison, `live`,  *)
(* which the bump of its counter sets to FALSE.  On the desktop drainSeq   *)
(* stands over both kinds of build; the phone has formSeq for Review.      *)
(*                                                                         *)
(* EditKeepsMax, LeavesItHeld and MaxLandsAnyway are faulty variants of    *)
(* the definition each stands before.                                      *)
(***************************************************************************)
EXTENDS PendingPsbts

CONSTANTS Rates,    \* fee rates
          MaxEdits, \* bound on the edits of the recipients
          MaxBuilds \* bound on the presses of Max and Review

ASSUME RatesAssumption == Rates \subseteq Nat /\ 1 \in Rates
ASSUME SendBoundsAssumption == MaxEdits \in Nat /\ MaxBuilds \in Nat

VARIABLES form,     \* the recipients' version, one or several, the rate, coins chosen
          feeFrom,  \* "target": the rate follows the estimate; "custom": it was typed
          estimate, \* the fee estimate: "asked", "known" or "failed"
          drain,    \* the Max preview
          preview,  \* the preview Review holds (the phone's pendingPreview)
          sheet,    \* the Review on screen
          reviewOn, \* whether the Review button is enabled
          maxOn     \* whether the Max button is

sendVars == <<form, feeFrom, estimate, drain, preview, sheet, reviewOn, maxOn>>

\* A form, the preview of a build, and the Review of one.
Forms == [ver : Nat, lone : BOOLEAN, rate : Rates, chosen : BOOLEAN]
Previews == [id : Nat, of : Forms]
Sheets == [id : Nat, of : Forms, busy : BOOLEAN]
ASSUME PreviewsAssumption == None \notin Previews /\ None \notin Sheets

Desktop == shell = "desktop"
\* formLocked: the desktop's form is disabled while its Review is shown.
Editable == OnScreen /\ (Desktop => sheet = None)
Staled(kinds) == {IF b.kind \in kinds THEN [b EXCEPT !.live = FALSE] ELSE b : b \in builds}
NothingRuns == builds = {} /\ sending = {} /\ sheet = None

SendInit ==
    /\ form \in [ver : {0}, lone : {TRUE}, rate : {1}, chosen : BOOLEAN]
    /\ feeFrom = "target"
    /\ estimate = "asked"
    /\ drain = None
    /\ preview = None
    /\ sheet = None
    /\ reviewOn = TRUE
    /\ maxOn = TRUE

-----------------------------------------------------------------------------
(* Moving on from what was built.                                          *)

\* leaveDrain: a Max build in flight is not for this form any more, nor is a
\* Review's on the desktop; a settled Max preview is discarded.
LeaveDrain ==
    /\ builds' = Staled(IF Desktop THEN {"max", "review"} ELSE {"max"})
    /\ pending' = pending \ IdOf(drain)
    /\ drain' = None
    /\ UNCHANGED <<preview, sheet>>

\* clearPreview, the phone's: the sheet goes down and its preview with it,
\* unless that is the Max preview.
ClearPreview ==
    /\ builds' = Staled({"review"})
    /\ pending' = pending \ (IdOf(preview) \ IdOf(drain))
    /\ preview' = None
    /\ sheet' = None

\* What an edit does: leaveDrain, after clearPreview on the phone.  `new` is
\* the build that then starts.
EditKeepsMax(new) ==
    /\ builds' = builds \cup new
    /\ pending' = pending \ (IdOf(drain) \cup (IF Desktop THEN {} ELSE IdOf(preview)))
    /\ drain' = None
    /\ IF Desktop THEN UNCHANGED <<preview, sheet>> ELSE preview' = None /\ sheet' = None
MovesOn(new) ==
    /\ builds' = Staled({"max", "review"}) \cup new
    /\ pending' = pending \ (IdOf(drain) \cup (IF Desktop THEN {} ELSE IdOf(preview)))
    /\ drain' = None
    /\ IF Desktop THEN UNCHANGED <<preview, sheet>> ELSE preview' = None /\ sheet' = None

\* discardOnLeave, on any hashchange.
LeavesItHeld ==
    /\ Goes
    /\ builds' = Staled({"max", "review"})
    /\ pending' = pending \ IdOf(drain)
    /\ drain' = None
    /\ preview' = None
    /\ sheet' = None
DiscardOnLeave ==
    /\ Goes
    /\ builds' = Staled({"max", "review"})
    /\ pending' = pending \ (IdOf(drain) \cup IdOf(preview))
    /\ drain' = None
    /\ preview' = None
    /\ sheet' = None

-----------------------------------------------------------------------------
(* The form.                                                               *)

\* What rows there may be after an edit: Max is for a lone recipient, and the
\* desktop adds none in that mode.
Rows == {lone \in BOOLEAN : Desktop /\ drain # None => lone}

\* A field typed in, a recipient added or removed, a code scanned.
Edit ==
    /\ Editable
    /\ form.ver < MaxEdits
    /\ \E lone \in Rows : form' = [form EXCEPT !.ver = @ + 1, !.lone = lone]
    /\ MovesOn({})
    /\ reviewOn' = TRUE
    /\ UNCHANGED <<shell, place, pressed, sending, sent, result, patient, feeFrom, estimate, maxOn>>

\* Let the wallet choose.
LetWalletChoose ==
    /\ Editable
    /\ form.chosen
    /\ form' = [form EXCEPT !.chosen = FALSE]
    /\ MovesOn({})
    /\ reviewOn' = (IF Desktop THEN reviewOn ELSE TRUE)
    /\ UNCHANGED <<shell, place, pressed, sending, sent, result, patient, feeFrom, estimate, maxOn>>

\* A rate typed.
TypeRate ==
    /\ Editable
    /\ \E r \in Rates : form' = [form EXCEPT !.rate = r]
    /\ feeFrom' = "custom"
    /\ MovesOn({})
    /\ reviewOn' = TRUE
    /\ UNCHANGED <<shell, place, pressed, sending, sent, result, patient, estimate, maxOn>>

\* A target chosen: the rate follows the estimate, at once when it is known.
\* The phone asks again after one that failed; the desktop has none then.
ChooseTarget ==
    /\ Editable
    /\ \E r \in Rates :
          /\ estimate # "known" => r = form.rate
          /\ form' = [form EXCEPT !.rate = r]
    /\ estimate' = (IF estimate = "failed" /\ ~Desktop THEN "asked" ELSE estimate)
    /\ feeFrom' = "target"
    /\ MovesOn({})
    /\ reviewOn' = (IF Desktop /\ estimate # "known" THEN reviewOn ELSE TRUE)
    /\ UNCHANGED <<shell, place, pressed, sending, sent, result, patient, maxOn>>

\* A field is left, or the unit changed: the form is checked again, and a
\* Review still building is enabled with it.
Refresh ==
    /\ Editable
    /\ reviewOn' = TRUE
    /\ UNCHANGED <<desk, form, feeFrom, estimate, drain, preview, sheet, maxOn>>

\* estimateFee answers.  It sets the rate unless one was typed meanwhile, and
\* a Max built at another rate is left; a Review shown keeps the rate it names.
RateArrives(r) ==
    /\ form' = [form EXCEPT !.rate = r]
    /\ IF r = form.rate THEN UNCHANGED <<builds, pending, drain, preview, sheet>> ELSE LeaveDrain
    /\ reviewOn' = (IF (IF Desktop THEN sheet # None ELSE r = form.rate) THEN reviewOn ELSE TRUE)

EstimateAnswers ==
    /\ estimate = "asked"
    /\ \E known \in BOOLEAN :
          /\ estimate' = IF known THEN "known" ELSE "failed"
          /\ IF OnScreen /\ feeFrom = "target" /\ (known \/ ~Desktop)
             THEN \E r \in (IF known THEN Rates ELSE {1}) : RateArrives(r)
             ELSE UNCHANGED <<form, builds, pending, drain, preview, sheet, reviewOn>>
    /\ UNCHANGED <<shell, place, pressed, sending, sent, result, patient, feeFrom, maxOn>>

-----------------------------------------------------------------------------
(* Max and Review.                                                         *)

NewBuild(kind) == [id |-> pressed + 1, kind |-> kind, live |-> TRUE, of |-> form]
Shown(p) == [id |-> p.id, of |-> p.of, busy |-> FALSE]
Preview(b) == [id |-> b.id, of |-> b.of]

\* fillMax, up to buildDrain.
PressMax ==
    /\ OnScreen
    /\ maxOn
    /\ form.lone
    /\ Press(MaxBuilds, NothingRuns)
    /\ MovesOn({NewBuild("max")})
    /\ maxOn' = FALSE
    /\ reviewOn' = (IF Desktop THEN reviewOn ELSE TRUE)
    /\ UNCHANGED <<shell, place, sending, sent, result, form, feeFrom, estimate>>

\* fillMax, buildDrain answering: Max mode, unless the form moved on or the
\* screen went, and then the PSBT is discarded as soon as it is filed.
MaxLandsAnyway(b) == OnScreen
Counts(b) == b.live /\ OnScreen

MaxAnswers(b, ok) ==
    /\ b \in builds
    /\ b.kind = "max"
    /\ builds' = builds \ {b}
    /\ maxOn' = TRUE
    /\ IF ok /\ Counts(b)
       THEN /\ drain' = Preview(b)
            /\ pending' = pending \cup {b.id}
            /\ reviewOn' = (IF Desktop /\ sheet # None THEN reviewOn ELSE TRUE)
       ELSE UNCHANGED <<drain, pending, reviewOn>>
    /\ UNCHANGED <<shell, place, pressed, sending, sent, result, patient,
                   form, feeFrom, estimate, preview, sheet>>

\* Review in Max mode: the preview exists already, and nothing is awaited.
ReviewMax ==
    /\ OnScreen
    /\ reviewOn
    /\ drain # None
    /\ Press(MaxBuilds, NothingRuns)
    /\ sheet' = Shown(drain)
    /\ preview' = drain
    /\ maxOn' = (IF Desktop THEN FALSE ELSE maxOn)
    /\ UNCHANGED <<shell, place, pending, sending, sent, result,
                   form, feeFrom, estimate, builds, drain, reviewOn>>

\* Review, up to buildTransfer.  The desktop moves drainSeq on, which leaves a
\* Max build in flight behind; the phone's check of the form enables the
\* button again at once.
PressReview ==
    /\ OnScreen
    /\ reviewOn
    /\ drain = None
    /\ Press(MaxBuilds, NothingRuns)
    /\ builds' = (IF Desktop THEN Staled({"max", "review"}) ELSE builds) \cup {NewBuild("review")}
    /\ reviewOn' = ~Desktop
    /\ UNCHANGED <<shell, place, pending, sending, sent, result,
                   form, feeFrom, estimate, drain, preview, sheet, maxOn>>

\* Review, buildTransfer answering.
ReviewAnswers(b, ok) ==
    /\ b \in builds
    /\ b.kind = "review"
    /\ builds' = builds \ {b}
    /\ reviewOn' = TRUE
    /\ IF ok /\ Counts(b)
       THEN /\ sheet' = Shown(b)
            /\ preview' = Preview(b)
            /\ pending' = pending \cup {b.id}
            /\ maxOn' = (IF Desktop THEN FALSE ELSE maxOn)
       ELSE UNCHANGED <<sheet, preview, pending, maxOn>>
    /\ UNCHANGED <<shell, place, pressed, sending, sent, result, patient,
                   form, feeFrom, estimate, drain>>

-----------------------------------------------------------------------------
(* The Review on screen.                                                   *)

\* What a Confirm that failed leaves: the desktop's form open again with
\* nothing held, the phone's sheet down.  On the phone `held` and `max` are
\* what Confirm itself had let go of by then.
Unsent(held, max) ==
    IF Desktop
    THEN /\ preview' = None
         /\ drain' = None
         /\ UNCHANGED <<pending, builds>>
         /\ IF OnScreen
            THEN sheet' = None /\ maxOn' = TRUE /\ reviewOn' = TRUE
            ELSE UNCHANGED <<sheet, maxOn, reviewOn>>
    ELSE /\ builds' = Staled({"review"})
         /\ pending' = pending \ (IdOf(held) \ IdOf(max))
         /\ drain' = max
         /\ preview' = None
         /\ sheet' = None
         /\ UNCHANGED <<maxOn, reviewOn>>

\* Confirm and send.
Confirm ==
    /\ OnScreen
    /\ sheet # None
    /\ ~sheet.busy
    /\ sheet.id \in pending
    /\ sheet' = [sheet EXCEPT !.busy = TRUE]
    /\ SignAndBroadcast([id |-> sheet.id], {})
    /\ IF Desktop THEN UNCHANGED <<drain, preview>> ELSE drain' = None /\ preview' = None
    /\ UNCHANGED <<shell, place, pressed, sent, result, patient,
                   form, feeFrom, estimate, builds, reviewOn, maxOn>>

\* Confirm of a PSBT the map no longer holds: unknown_psbt.
ConfirmExpired ==
    /\ OnScreen
    /\ sheet # None
    /\ ~sheet.busy
    /\ sheet.id \notin pending
    /\ Unsent(None, None)
    /\ UNCHANGED <<shell, place, pressed, sending, sent, result, patient, form, feeFrom, estimate>>

SendFails(c, took) ==
    /\ c \in sending
    /\ Settles(c, took)
    /\ Unsent(preview, drain)
    /\ UNCHANGED <<shell, place, pressed, result, patient, form, feeFrom, estimate>>

\* A broadcast succeeds: recorded, and Result opens if the user is still here.
AfterSend(c) ==
    IF OnScreen
    THEN /\ place' = "left"
         /\ builds' = Staled({"max", "review"})
         /\ pending' = pending \ (IF Desktop THEN {} ELSE IdOf(drain) \cup IdOf(preview))
         /\ drain' = None
         /\ preview' = None
         /\ sheet' = None
    ELSE UNCHANGED <<place, builds, drain, preview, sheet, pending>>

SendSucceeds(c) ==
    /\ c \in sending
    /\ Settles(c, TRUE)
    /\ RecordSent(c)
    /\ AfterSend(c)
    /\ UNCHANGED <<shell, pressed, patient, form, feeFrom, estimate, reviewOn, maxOn>>

\* Edit: back to the form.  The desktop keeps a Max preview, which the mode uses.
EditAgain ==
    /\ OnScreen
    /\ sheet # None
    /\ IF Desktop
       THEN /\ pending' = pending \ ({sheet.id} \ IdOf(drain))
            /\ preview' = None
            /\ sheet' = None
            /\ maxOn' = TRUE
            /\ reviewOn' = TRUE
            /\ UNCHANGED builds
       ELSE ClearPreview /\ UNCHANGED <<maxOn, reviewOn>>
    /\ UNCHANGED <<shell, place, pressed, sending, sent, result, patient,
                   form, feeFrom, estimate, drain>>

Leave ==
    /\ OnScreen
    /\ DiscardOnLeave
    /\ UNCHANGED <<shell, pressed, sending, sent, result, patient,
                   form, feeFrom, estimate, reviewOn, maxOn>>

-----------------------------------------------------------------------------
SendAnswers ==
    \/ \E b \in builds, ok \in BOOLEAN : MaxAnswers(b, ok) \/ ReviewAnswers(b, ok)
    \/ \E c \in sending : SendSucceeds(c) \/ \E took \in BOOLEAN : SendFails(c, took)

SendNext ==
    \/ Edit \/ LetWalletChoose \/ TypeRate \/ ChooseTarget \/ Refresh \/ EstimateAnswers
    \/ PressMax \/ PressReview \/ ReviewMax \/ Confirm \/ ConfirmExpired \/ EditAgain \/ Leave
    \/ SendAnswers
=============================================================================
