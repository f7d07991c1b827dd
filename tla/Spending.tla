------------------------------ MODULE Spending ------------------------------
(***************************************************************************)
(* The screens that spend, over one map of unsigned PSBTs: Send, the       *)
(* offers of an unconfirmed transaction, and Import PSBT.  One of them is  *)
(* open: the app shows no two at once, and one opened again is built anew. *)
(* "fees" is the offers once more, by their amounts alone (Fees).          *)
(***************************************************************************)
EXTENDS SendForm, PsbtFlow, TxOffers, Fees

VARIABLE screen \* the screen opened

vars == <<desk, screen, sendVars, psbtVars, txVars, feeVars>>

\* A value for what the screen opened does not read.
AnyOf(S) == CHOOSE x \in S : TRUE

Init ==
    /\ screen \in {"send", "tx", "psbt", "fees"}
    /\ DeskInit
    /\ SendInit
    /\ PsbtInit
    /\ TxInit
    /\ FeesInit
    /\ IF screen = "fees" THEN shell = AnyOf(Shells) ELSE original = AnyOf(Originals)

Next ==
    /\ UNCHANGED screen
    /\ \/ screen = "send" /\ SendNext /\ UNCHANGED <<psbtVars, txVars, feeVars>>
       \/ screen = "psbt" /\ PsbtNext /\ UNCHANGED <<sendVars, txVars, feeVars>>
       \/ screen = "tx" /\ TxNext /\ UNCHANGED <<sendVars, psbtVars, feeVars>>
       \/ screen = "fees" /\ FeesNext /\ UNCHANGED <<desk, sendVars, psbtVars, txVars>>

Spec == Init /\ [][Next]_vars

\* The core, the backends and the platform answer what they were asked; a
\* user need not do anything.
Answers ==
    /\ UNCHANGED screen
    /\ \/ screen = "send" /\ SendAnswers /\ UNCHANGED <<psbtVars, txVars, feeVars>>
       \/ screen = "psbt" /\ PsbtAnswers /\ UNCHANGED <<sendVars, txVars, feeVars>>
       \/ screen = "tx" /\ TxAnswers /\ UNCHANGED <<sendVars, psbtVars, feeVars>>

FairSpec == Spec /\ WF_vars(Answers)

-----------------------------------------------------------------------------
\* Every variable has the values the code gives it.
TypeOK ==
    /\ shell \in Shells
    /\ place \in Places
    /\ pressed \in Nat
    /\ \A b \in builds : b.live \in BOOLEAN
    /\ pending \cup sent \subseteq Nat
    /\ result \in Nat \cup {None}
    /\ patient \in BOOLEAN
    /\ form \in [ver : 0 .. MaxEdits, lone : BOOLEAN, rate : Rates, chosen : BOOLEAN]
    /\ {feeFrom, estimate} \subseteq {"target", "custom", "asked", "known", "failed"}
    /\ {field, read} \subseteq Texts
    /\ review \in (Texts \ Refused) \cup {None}
    /\ offer \in {None, "replace", "child", "none"}
    /\ row \in (1 .. MaxRows) \cup {None}
    /\ syncs \subseteq {"local", "silent", "asked"}
    /\ original \in Originals
    /\ {market, entered, quote.fee} \subseteq Nat
    /\ \A on \in {reviewOn, maxOn, signOn, sendOn, goOn, invalid, priced, asking, listed, advised} : on \in BOOLEAN

\* Send: in Max mode the amount on screen is what the form would send: its
\* preview was built for the recipient, the rate and the coins the form shows,
\* and only for a lone recipient.
DrainIsCurrent == OnScreen /\ drain # None => drain.of = form /\ form.lone

\* Send: the Review on screen was built for the recipients and from the coins
\* the form shows, though both can change while it is being built.
SheetIsOfThisForm ==
    sheet # None => sheet.of.ver = form.ver /\ sheet.of.chosen = form.chosen

\* Send: with no press while an earlier one is unfinished, no PSBT is held that
\* nothing can sign or discard any more: each is Max's or Review's.
PatientStrandsNothing ==
    screen = "send" /\ patient => pending \subseteq IdOf(drain) \cup IdOf(preview)

\* The offers of a transaction: however its builds, syncs, rows and broadcasts
\* interleave, what the map holds is the one preview the screen holds, and
\* nothing once the screen is left.  (A bump built with no wallet open is apart.)
OnlyTheHeldIsPending ==
    screen = "tx" =>
        /\ place # "closed" => pending = IdOf(held)
        /\ ~OnScreen => held = None

\* The offers of a transaction: what a press would sign is built for the open
\* row and the rate chosen, and the numbers on screen are of that preview or
\* of the one being sent.
HeldIsShown ==
    screen = "tx" /\ OnScreen =>
        /\ held # None => held.row = row /\ (held.kind = "child" => held.target = target)
        /\ card # None => card \in IdOf(held) \cup {c.id : c \in sending}

\* However often Confirm, Speed up and Bump are pressed, a PSBT is signed once:
\* what goes out, or went, is not in the map, whatever its broadcast came to.
SignedOnce == pending \cap (sent \cup {c.id : c \in sending}) = {}

\* Import PSBT: what Sign and Broadcast act on is the PSBT in the field.
ReviewIsOfField == OnScreen /\ review # None => review = field

\* Import PSBT: with no press while an earlier one is unfinished, a text in the
\* field is described, or refused, once nothing runs any more.
PatientIsRead ==
    screen = "psbt" /\ patient /\ OnScreen /\ jobs = {} /\ field # Empty => review # None \/ invalid

\* A button disabled for its own work is enabled again, or its screen is left:
\* Review, the Confirm of a Review, Speed up, and Sync.
PressesAreAnswered ==
    /\ ~reviewOn ~> (reviewOn \/ ~OnScreen)
    /\ (sheet # None /\ sheet.busy) ~> (sheet = None \/ ~sheet.busy)
    /\ (offer = "child" /\ ~goOn) ~> (goOn \/ offer # "child" \/ ~OnScreen)
    /\ (screen = "tx" /\ syncs # {}) ~> (syncs = {})

\* A button disabled for its own work has that work in flight, whose answer
\* enables it again, however the presses, syncs and rows in between moved the
\* screen on: Review, Max (or the Review that stands over it), Confirm, Speed
\* up, Sign and Broadcast.
ButtonsAreOwed ==
    /\ screen = "send" /\ ~reviewOn => \E b \in builds : b.kind = "review"
    /\ screen = "send" /\ OnScreen /\ ~maxOn => sheet # None \/ \E b \in builds : b.kind = "max"
    /\ sheet # None /\ sheet.busy => \E c \in sending : c.id = sheet.id
    /\ screen = "tx" /\ OnScreen /\ offer = "child" /\ ~goOn =>
          \/ \E b \in builds : b.wakes /\ b.row = row
          \/ \E c \in sending : c.kind = "child" /\ c.row = row
    /\ screen = "psbt" /\ review # None =>
          /\ ~signOn /\ ~Final(review) => \E j \in jobs : j.kind = "sign"
          /\ ~sendOn /\ Final(review) => sending # {}

-----------------------------------------------------------------------------
\* Nothing is left in the map once its screen is gone and all is answered.
NothingStranded ==
    place \in {"left", "other"} /\ builds = {} /\ sending = {} => pending = {}

\* A text in the field is described as soon as it parses.
TextIsDescribed == screen = "psbt" /\ OnScreen /\ jobs = {} /\ field # Empty => review # None \/ invalid

\* The history is never redrawn under an open row by an automatic sync.
NeverRedrawnUnderARow ==
    [][OnScreen /\ "silent" \in syncs /\ "silent" \notin syncs' /\ row # None => row' = row]_vars
=============================================================================
