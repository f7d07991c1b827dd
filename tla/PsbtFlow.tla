------------------------------ MODULE PsbtFlow ------------------------------
(***************************************************************************)
(* Import PSBT (packages/wallet-ui/src/ui/psbt.ts, drawn by                *)
(* screens/psbt.ts and mobile/screens/psbt.ts): a text in the field is     *)
(* read by the core, described, signed and broadcast.                      *)
(*                                                                         *)
(* A text is the empty one, a BC-UR code, one the core cannot read, or a   *)
(* PSBT, of which signing makes another text.  `seq` is a counter that a   *)
(* read remembers and compares when it is answered: here a job carries the *)
(* outcome of that comparison, `live`.                                     *)
(*                                                                         *)
(* LandsAnyway and ReadOnce are faulty variants of the definition each     *)
(* stands before.                                                          *)
(***************************************************************************)
EXTENDS PendingPsbts

CONSTANTS Psbts,   \* PSBTs this wallet can sign
          Whole,   \* those its signature makes final
          MaxReads \* bound on the texts brought in, signings and broadcasts

ASSUME PsbtsAssumption == Whole \subseteq Psbts /\ MaxReads \in Nat

VARIABLES field,   \* the text in the field
          read,    \* the text last handed to the core
          jobs,    \* reads of the core, the clipboard and files, and signings, in flight
          review,  \* the review on screen
          invalid, \* what is said under the field
          signOn,  \* whether the Sign button is enabled
          sendOn   \* whether the Broadcast button is

psbtVars == <<field, read, jobs, review, invalid, signOn, sendOn>>
psbtRest == <<shell, builds, pending, sending, sent, result>>

Text(p, signed) == [psbt |-> p, signed |-> signed]
Empty == Text("", FALSE)
Ur == Text("ur", FALSE)
Bad == Text("bad", FALSE)
Refused == {Empty, Ur, Bad}
Texts == Refused \cup [psbt : Psbts, signed : BOOLEAN]
ASSUME NoTextAssumption == None \notin Texts
Final(r) == r # None /\ r.signed /\ r.psbt \in Whole
JobKinds == {"import", "paste", "load", "sign"}
Behind == {[j EXCEPT !.live = FALSE] : j \in jobs}

PsbtInit ==
    /\ field = Empty
    /\ read = Empty
    /\ jobs = {}
    /\ review = None
    /\ invalid = FALSE
    /\ signOn = FALSE
    /\ sendOn = FALSE

-----------------------------------------------------------------------------
\* paint, after every review and after Sign and Broadcast.
Paint(r) == signOn' = (r # None /\ ~Final(r)) /\ sendOn' = Final(r)

\* describe: the text `t` is now in the field, and `left` are the jobs still in
\* flight.  A text already read is not read again.
ReadOnce(t, left) ==
    /\ field' = t
    /\ jobs' = left
    /\ read' = t
    /\ review' = None
    /\ UNCHANGED invalid
    /\ Paint(None)
Describe(t, left) ==
    /\ field' = t
    /\ IF t = read
       THEN jobs' = left /\ UNCHANGED <<read, review, invalid, signOn, sendOn>>
       ELSE /\ read' = t
            /\ invalid' = (t = Ur)
            /\ review' = None
            /\ Paint(None)
            /\ jobs' = {[j EXCEPT !.live = FALSE] : j \in left} \cup
                       (IF t \in {Empty, Ur} THEN {}
                        ELSE {[id |-> pressed', kind |-> "import", live |-> TRUE, text |-> t]})

\* Typed into the field, or scanned: a scanned BC-UR code leaves the field alone.
Type ==
    /\ OnScreen
    /\ Press(MaxReads, jobs = {})
    /\ \E t \in Texts \ {field} : Describe(t, jobs)
    /\ UNCHANGED <<psbtRest, place>>

\* Paste and Load file...: an answer still expected is not expected any more.
Fetch(kind) ==
    /\ OnScreen
    /\ Press(MaxReads, jobs = {})
    /\ jobs' = Behind \cup {[id |-> pressed + 1, kind |-> kind, live |-> TRUE, text |-> Empty]}
    /\ UNCHANGED <<psbtRest, place, field, read, review, invalid, signOn, sendOn>>

LandsAnyway(j) == OnScreen
Newest(j) == j.live /\ OnScreen

\* The clipboard or the file answers with a text, or with none; an empty
\* clipboard leaves the field alone.
Fetched(j) ==
    /\ j \in jobs
    /\ j.kind \in {"paste", "load"}
    /\ UNCHANGED desk
    /\ \/ Newest(j) /\ \E t \in Texts : (j.kind = "paste" => t # Empty) /\ Describe(t, jobs \ {j})
       \/ jobs' = jobs \ {j} /\ UNCHANGED <<field, read, review, invalid, signOn, sendOn>>

\* importPsbt answers with a review, or refuses the text.
ImportAnswers(j) ==
    /\ j \in jobs
    /\ j.kind = "import"
    /\ jobs' = jobs \ {j}
    /\ IF ~Newest(j)
       THEN UNCHANGED <<review, invalid, signOn, sendOn>>
       ELSE \/ j.text # Bad /\ review' = j.text /\ Paint(j.text) /\ UNCHANGED invalid
            \/ invalid' = TRUE /\ UNCHANGED <<review, signOn, sendOn>>
    /\ UNCHANGED <<desk, field, read>>

\* Sign, up to signPsbt.
Sign ==
    /\ OnScreen
    /\ signOn
    /\ Press(MaxReads, jobs = {})
    /\ signOn' = FALSE
    /\ jobs' = Behind \cup {[id |-> pressed + 1, kind |-> "sign", live |-> TRUE, text |-> review]}
    /\ UNCHANGED <<psbtRest, place, field, read, review, invalid, sendOn>>

\* signPsbt answers: the field holds the PSBT with this wallet's part added.
Signed(j, ok) ==
    /\ j \in jobs
    /\ j.kind = "sign"
    /\ jobs' = jobs \ {j}
    /\ IF ok /\ Newest(j)
       THEN \E after \in {[j.text EXCEPT !.signed = TRUE]} :
               field' = after /\ read' = after /\ review' = after /\ Paint(after)
       ELSE Paint(review) /\ UNCHANGED <<field, read, review>>
    /\ UNCHANGED <<desk, invalid>>

\* Broadcast, of the review on screen.
Broadcast ==
    /\ OnScreen
    /\ sendOn
    /\ Press(MaxReads, jobs = {})
    /\ sendOn' = FALSE
    /\ sending' = sending \cup {[id |-> pressed + 1, text |-> review]}
    /\ UNCHANGED <<shell, place, builds, pending, sent, result,
                   field, read, jobs, review, invalid, signOn>>

BroadcastSucceeds(c) ==
    /\ c \in sending
    /\ Settles(c, TRUE)
    /\ RecordSent(c)
    /\ place' = (IF OnScreen THEN "left" ELSE place)
    /\ Paint(review)
    /\ UNCHANGED <<shell, pressed, builds, pending, patient, field, read, jobs, review, invalid>>

BroadcastFails(c, took) ==
    /\ c \in sending
    /\ Settles(c, took)
    /\ Paint(review)
    /\ UNCHANGED <<shell, place, pressed, builds, pending, result, patient,
                   field, read, jobs, review, invalid>>

LeavePsbt ==
    /\ OnScreen
    /\ Goes
    /\ UNCHANGED <<psbtRest, pressed, patient, psbtVars>>

-----------------------------------------------------------------------------
PsbtAnswers ==
    \/ \E j \in jobs : Fetched(j) \/ ImportAnswers(j) \/ \E ok \in BOOLEAN : Signed(j, ok)
    \/ \E c \in sending : BroadcastSucceeds(c) \/ \E took \in BOOLEAN : BroadcastFails(c, took)

PsbtNext ==
    \/ Type \/ \E kind \in {"paste", "load"} : Fetch(kind)
    \/ Sign \/ Broadcast \/ LeavePsbt
    \/ PsbtAnswers
=============================================================================
