--------------------------- MODULE SpendingProofs ---------------------------
(***************************************************************************)
(* The screens that spend, proved for every number of presses, edits,      *)
(* rows, texts and syncs: a PSBT is signed once, what Send would confirm   *)
(* is what its form shows, an offer holds one preview at most and shows    *)
(* it, Import PSBT acts on the text in its field, and whatever disables a  *)
(* button is still running.                                                *)
(*                                                                         *)
(* A psbt_id lives in one place at a time: in a build, in the map, or      *)
(* where it was sent (Separate).  The rest is about the builds that still  *)
(* count: they are of the form, the row or the text on screen, because     *)
(* whatever moves those on leaves none counting.                           *)
(***************************************************************************)
EXTENDS Spending, TLAPS

-----------------------------------------------------------------------------
(* The map of unsigned PSBTs.                                              *)

Distinct(B) == \A b, c \in B : b.id = c.id => b = c
FreshOrOld(b) == (\E a \in builds : a.id = b.id) \/ (pressed' = pressed + 1 /\ b.id = pressed')

Separate ==
    /\ pressed \in Nat
    /\ Distinct(builds)
    /\ \A b \in builds : /\ b.id \in Nat /\ b.id <= pressed
                         /\ b.id \notin pending \cup sent
                         /\ \A c \in sending : c.id # b.id
    /\ \A i \in pending : /\ i \in Nat /\ i <= pressed
                          /\ i \notin sent
                          /\ \A c \in sending : c.id # i
    /\ \A i \in sent : i \in Nat /\ i <= pressed
    /\ \A c \in sending : c.id \in Nat /\ c.id <= pressed

\* Ids stay in one place when a step starts a build under the next id, files
\* what a build made, sends what was filed or built, and settles what was sent.
LEMMA SeparateStays ==
    ASSUME Separate,
           pressed' = pressed \/ pressed' = pressed + 1,
           Distinct(builds'),
           \A b \in builds' : FreshOrOld(b),
           \A i \in pending' : \/ i \in pending
                               \/ (\E b \in builds : b.id = i) /\ (\A b \in builds' : b.id # i),
           \A c \in sending' : \/ c \in sending
                               \/ /\ c.id \in pending \/ \E b \in builds : b.id = c.id
                                  /\ c.id \notin pending' /\ \A b \in builds' : b.id # c.id,
           \A i \in sent' : i \in sent \/ \E c \in sending : c.id = i
    PROVE  Separate'
<1>1. pressed' \in Nat /\ pressed <= pressed'
  BY DEF Separate
<1>2. ASSUME NEW b \in builds'
      PROVE  /\ b.id \in Nat /\ b.id <= pressed'
             /\ b.id \notin pending' \cup sent'
             /\ \A c \in sending' : c.id # b.id
  <2>1. CASE \E a \in builds : a.id = b.id
    BY <1>1, <2>1 DEF Separate
  <2>2. CASE pressed' = pressed + 1 /\ b.id = pressed'
    <3>1. b.id \in Nat /\ b.id <= pressed' /\ ~(b.id <= pressed)
      BY <1>1, <2>2 DEF Separate
    <3> QED
      BY <3>1 DEF Separate
  <2> QED
    BY <2>1, <2>2 DEF FreshOrOld
<1>3. ASSUME NEW i \in pending'
      PROVE  /\ i \in Nat /\ i <= pressed'
             /\ i \notin sent'
             /\ \A c \in sending' : c.id # i
  BY <1>1 DEF Separate
<1>4. ASSUME NEW i \in sent' PROVE i \in Nat /\ i <= pressed'
  BY <1>1 DEF Separate
<1>5. ASSUME NEW c \in sending' PROVE c.id \in Nat /\ c.id <= pressed'
  BY <1>1 DEF Separate
<1> QED
  BY <1>1, <1>2, <1>3, <1>4, <1>5 DEF Separate

LEMMA SeparateUnchanged ==
    ASSUME Separate, UNCHANGED <<pressed, builds, pending, sending, sent>>
    PROVE  Separate'
  BY DEF Separate, Distinct

\* A build answers, and what it made may be filed.
LEMMA AnswerSeparate ==
    ASSUME Separate, NEW b \in builds, builds' = builds \ {b},
           pending' = pending \/ pending' = pending \cup {b.id},
           UNCHANGED <<pressed, sending, sent>>
    PROVE  Separate'
<1>1. Distinct(builds') /\ \A a \in builds' : a.id # b.id /\ FreshOrOld(a)
  BY DEF Separate, Distinct, FreshOrOld
<1> QED
  BY <1>1, SeparateStays

LEMMA SeparateSigns == Separate => SignedOnce
  BY DEF Separate, SignedOnce

-----------------------------------------------------------------------------
(* Import PSBT.                                                            *)

Jobs == [id : Nat, kind : JobKinds, live : BOOLEAN, text : Texts]

JobIs(j) ==
    /\ j \in Jobs
    /\ j.kind = "sign" => j.text \in Texts \ Refused
    /\ j.kind = "import" => j.text \notin {Empty, Ur}

PsbtTypes ==
    /\ field \in Texts
    /\ review \in (Texts \ Refused) \cup {None}
    /\ invalid \in BOOLEAN
    /\ patient \in BOOLEAN
    /\ pressed \in Nat
    /\ \A j \in jobs : JobIs(j)
    /\ signOn => review # None

\* The field holds the text last read, one job at most counts, and a read that
\* does is of that text.
FieldIsRead ==
    /\ read = field
    /\ review # None => review = field
    /\ \A i, j \in jobs : i.live /\ j.live => i = j
    /\ \A j \in jobs : j.kind = "import" /\ j.live => j.text = field

\* Pressed with nothing running, one job runs at a time, and a text neither
\* described nor refused is being read.
ReadPatiently ==
    patient =>
        /\ \A i, j \in jobs : i = j
        /\ OnScreen /\ field # Empty /\ review = None /\ ~invalid =>
              \E j \in jobs : j.kind = "import" /\ j.live

PsbtInv == PsbtTypes /\ FieldIsRead /\ ReadPatiently

\* A signed PSBT is a text like any other, and none of those refused.
LEMMA SignedIsText ==
    ASSUME NEW t \in Texts \ Refused
    PROVE  [t EXCEPT !.signed = TRUE] \in Texts \ Refused
<1>1. t \in [psbt : Psbts, signed : BOOLEAN]
  BY DEF Texts
<1>2. /\ [t EXCEPT !.signed = TRUE] \in [psbt : Psbts, signed : BOOLEAN]
      /\ [t EXCEPT !.signed = TRUE].signed = TRUE
  BY <1>1
<1>3. Empty.signed = FALSE /\ Ur.signed = FALSE /\ Bad.signed = FALSE
  BY DEF Empty, Ur, Bad, Text
<1> QED
  BY <1>2, <1>3 DEF Texts, Refused

\* An answer still expected is not expected any more.
LEMMA BehindIs ==
    ASSUME PsbtTypes
    PROVE  \A j \in Behind : JobIs(j) /\ ~j.live
<1>1. ASSUME NEW j \in jobs PROVE JobIs([j EXCEPT !.live = FALSE]) /\ ~[j EXCEPT !.live = FALSE].live
  BY DEF PsbtTypes, JobIs, Jobs
<1> QED
  BY <1>1 DEF Behind

\* A text put into the field is read, and only what it leaves running counts.
LEMMA Describes ==
    ASSUME PsbtInv, NEW t \in Texts, NEW left, left \subseteq jobs, Describe(t, left),
           pressed' \in Nat, pressed \in Nat, UNCHANGED place,
           patient' \in BOOLEAN, patient' => patient,
           patient' => left = {} /\ (t = read => ~(OnScreen /\ field # Empty /\ review = None /\ ~invalid))
    PROVE  PsbtInv'
<1>0. field \in Texts /\ read = field /\ field' = t
  BY DEF PsbtInv, PsbtTypes, FieldIsRead, Describe
<1>1. CASE t = read
  <2>1. jobs' = left /\ UNCHANGED <<field, read, review, invalid, signOn, sendOn>>
    BY <1>0, <1>1 DEF Describe
  <2>2. PsbtTypes'
    BY <2>1, <1>0 DEF PsbtInv, PsbtTypes
  <2>3. FieldIsRead'
    BY <2>1 DEF PsbtInv, FieldIsRead
  <2>4. ReadPatiently'
    BY <2>1, <1>1 DEF PsbtInv, ReadPatiently, OnScreen
  <2> QED
    BY <2>2, <2>3, <2>4 DEF PsbtInv
<1>2. CASE t # read
  <2> DEFINE new == [id |-> pressed', kind |-> "import", live |-> TRUE, text |-> t]
             dead == {[j EXCEPT !.live = FALSE] : j \in left}
  <2>1. /\ read' = t /\ review' = None
        /\ invalid' = (t = Ur)
        /\ ~signOn'
        /\ jobs' = dead \cup (IF t \in {Empty, Ur} THEN {} ELSE {new})
    BY <1>2 DEF Describe, Paint, Final
  <2>2. /\ new \in Jobs /\ new.live /\ new.kind = "import" /\ new.text = t
        /\ t \notin {Empty, Ur} => JobIs(new)
    BY DEF Jobs, JobKinds, JobIs
  <2>3. \A j \in dead : JobIs(j) /\ ~j.live
    BY BehindIs DEF PsbtInv, PsbtTypes, Behind
  <2>4. PsbtTypes'
    <3>1. \A j \in jobs' : JobIs(j)
      BY <2>1, <2>2, <2>3
    <3>2. invalid' \in BOOLEAN
      BY <2>1
    <3> QED
      BY <3>1, <3>2, <2>1, <1>0 DEF PsbtTypes
  <2>5. FieldIsRead'
    <3>1. \A j \in jobs' : j.live => j = new
      BY <2>1, <2>3
    <3> HIDE DEF new
    <3> QED
      BY <3>1, <2>1, <2>2, <1>0 DEF FieldIsRead
  <2>6. ReadPatiently'
    <3> SUFFICES ASSUME patient' PROVE ReadPatiently'
      BY DEF ReadPatiently
    <3>1. dead = {}
      OBVIOUS
    <3>2. \A i, j \in jobs' : i = j
      BY <3>1, <2>1
    <3>3. field' # Empty /\ ~invalid' => new \in jobs'
      BY <2>1, <1>0
    <3> HIDE DEF new, dead
    <3> QED
      BY <3>2, <3>3, <2>2 DEF ReadPatiently
  <2> QED
    BY <2>4, <2>5, <2>6 DEF PsbtInv
<1> QED
  BY <1>1, <1>2

LEMMA PsbtStep ==
    ASSUME PsbtInv, PsbtNext
    PROVE  PsbtInv'
<1>0. PsbtTypes /\ FieldIsRead /\ ReadPatiently
  BY DEF PsbtInv
<1>1. ASSUME Type PROVE PsbtInv'
  <2>1. PICK t \in Texts : t # field /\ Describe(t, jobs)
    BY <1>1 DEF Type
  <2>2. UNCHANGED place /\ pressed' = pressed + 1 /\ patient' = (patient /\ jobs = {}) /\ pressed \in Nat
    BY <1>1, <1>0 DEF Type, Press, psbtRest, PsbtTypes
  <2>3. t # read
    BY <2>1, <1>0 DEF FieldIsRead
  <2>4. pressed' \in Nat /\ patient' \in BOOLEAN /\ (patient' => patient /\ jobs = {})
    <3>1. pressed' \in Nat
      BY <2>2
    <3>2. patient' \in BOOLEAN /\ (patient' => patient /\ jobs = {})
      BY <2>2, Zenon
    <3> QED
      BY <3>1, <3>2
  <2> QED
    BY <2>1, <2>2, <2>3, <2>4, Describes
<1>2. ASSUME NEW kind \in {"paste", "load"}, Fetch(kind) PROVE PsbtInv'
  <2> DEFINE new == [id |-> pressed + 1, kind |-> kind, live |-> TRUE, text |-> Empty]
  <2>1. JobIs(new) /\ new.live /\ new.kind = kind
    BY <1>0 DEF Jobs, JobKinds, PsbtTypes, Texts, Refused, JobIs
  <2>2. jobs' = Behind \cup {new}
    BY <1>2 DEF Fetch
  <2>3. PsbtTypes'
    <3>1. \A j \in jobs' : JobIs(j)
      BY <2>1, <2>2, <1>0, BehindIs
    <3> QED
      BY <3>1, <1>0, <1>2 DEF PsbtTypes, Fetch, Press
  <2>4. \A j \in jobs' : j.live => j = new
    BY <2>2, <1>0, BehindIs
  <2>5. FieldIsRead'
    <3> HIDE DEF new
    <3> QED
      BY <2>1, <2>4, <1>0, <1>2 DEF FieldIsRead, Fetch
  <2>6. ReadPatiently'
    <3> SUFFICES ASSUME patient' PROVE ReadPatiently'
      BY DEF ReadPatiently
    <3>1. patient /\ jobs = {}
      BY <1>2 DEF Fetch, Press
    <3>2. jobs' = {new}
      BY <3>1, <2>2 DEF Behind
    <3>3. \A i, j \in jobs' : i = j
      BY <3>2
    <3> QED
      BY <3>1, <3>3, <1>0, <1>2 DEF ReadPatiently, Fetch, OnScreen
  <2> QED
    BY <2>3, <2>5, <2>6 DEF PsbtInv
<1>3. ASSUME NEW j \in jobs, Fetched(j) PROVE PsbtInv'
  <2>1. UNCHANGED <<place, pressed, patient>>
    BY <1>3 DEF Fetched, desk
  <2>2. patient => ~(OnScreen /\ field # Empty /\ review = None /\ ~invalid) /\ jobs \ {j} = {}
    BY <1>3, <1>0 DEF ReadPatiently, Fetched
  <2>3. CASE Newest(j) /\ \E t \in Texts : (j.kind = "paste" => t # Empty) /\ Describe(t, jobs \ {j})
    <3>1. PICK t \in Texts : Describe(t, jobs \ {j})
      BY <2>3
    <3>2. pressed \in Nat /\ patient \in BOOLEAN
      BY <1>0 DEF PsbtTypes
    <3> QED
      BY <3>1, <3>2, <2>1, <2>2, Describes
  <2>4. CASE jobs' = jobs \ {j} /\ UNCHANGED <<field, read, review, invalid, signOn, sendOn>>
    <3>1. PsbtTypes'
      BY <2>1, <2>4, <1>0 DEF PsbtTypes
    <3>2. FieldIsRead'
      BY <2>4, <1>0 DEF FieldIsRead
    <3>3. ReadPatiently'
      BY <2>1, <2>2, <2>4, <1>0 DEF ReadPatiently, OnScreen
    <3> QED
      BY <3>1, <3>2, <3>3 DEF PsbtInv
  <2> QED
    BY <1>3, <2>3, <2>4 DEF Fetched
<1>4. ASSUME NEW j \in jobs, ImportAnswers(j) PROVE PsbtInv'
  <2>1. /\ jobs' = jobs \ {j} /\ j.kind = "import"
        /\ UNCHANGED <<place, pressed, patient, field, read>>
    BY <1>4 DEF ImportAnswers, desk
  <2>2. j.text \in Texts /\ j.text \notin {Empty, Ur} /\ None \notin Texts
    BY <2>1, <1>0, NoTextAssumption DEF PsbtTypes, JobIs, Jobs
  <2>3. CASE ~Newest(j)
    <3>1. UNCHANGED <<review, invalid, signOn, sendOn>>
      BY <1>4, <2>3 DEF ImportAnswers
    <3>2. PsbtTypes' /\ FieldIsRead'
      BY <2>1, <3>1, <1>0 DEF PsbtTypes, FieldIsRead
    <3>3. ReadPatiently'
      BY <2>1, <2>3, <3>1, <1>0 DEF ReadPatiently, OnScreen, Newest
    <3> QED
      BY <3>2, <3>3 DEF PsbtInv
  <2>4. CASE Newest(j) /\ j.text # Bad /\ review' = j.text /\ Paint(j.text) /\ UNCHANGED invalid
    <3>1. j.text = field /\ j.text # None
      BY <2>1, <2>2, <2>4, <1>0 DEF FieldIsRead, Newest
    <3>3. PsbtTypes'
      BY <2>1, <2>2, <2>4, <3>1, <1>0 DEF PsbtTypes, Refused
    <3>4. FieldIsRead'
      BY <2>1, <2>4, <3>1, <1>0 DEF FieldIsRead
    <3>5. ReadPatiently'
      BY <2>1, <2>4, <3>1, <1>0 DEF ReadPatiently
    <3> QED
      BY <3>3, <3>4, <3>5 DEF PsbtInv
  <2>5. CASE Newest(j) /\ invalid' = TRUE /\ UNCHANGED <<review, signOn, sendOn>>
    <3>1. PsbtTypes' /\ FieldIsRead'
      BY <2>1, <2>5, <1>0 DEF PsbtTypes, FieldIsRead
    <3>2. ReadPatiently'
      BY <2>1, <2>5, <1>0 DEF ReadPatiently
    <3> QED
      BY <3>1, <3>2 DEF PsbtInv
  <2> QED
    BY <1>4, <2>3, <2>4, <2>5 DEF ImportAnswers
<1>5. ASSUME Sign PROVE PsbtInv'
  <2> DEFINE new == [id |-> pressed + 1, kind |-> "sign", live |-> TRUE, text |-> review]
  <2>1. review \in Texts \ Refused
    BY <1>5, <1>0 DEF Sign, PsbtTypes
  <2>2. JobIs(new) /\ new.live /\ new.kind = "sign" /\ new.text = review
    BY <2>1, <1>0 DEF Jobs, JobKinds, PsbtTypes, JobIs
  <2>3. jobs' = Behind \cup {new}
    BY <1>5 DEF Sign
  <2>4. PsbtTypes'
    <3>1. \A j \in jobs' : JobIs(j)
      BY <2>1, <2>2, <2>3, <1>0, BehindIs
    <3> QED
      BY <3>1, <1>0, <1>5 DEF PsbtTypes, Sign, Press
  <2>5. \A j \in jobs' : j.live => j = new
    BY <2>3, <1>0, BehindIs
  <2>6. FieldIsRead'
    <3> HIDE DEF new
    <3> QED
      BY <2>2, <2>5, <1>0, <1>5 DEF FieldIsRead, Sign
  <2>7. ReadPatiently'
    <3> SUFFICES ASSUME patient' PROVE ReadPatiently'
      BY DEF ReadPatiently
    <3>1. patient /\ jobs = {}
      BY <1>5 DEF Sign, Press
    <3>2. jobs' = {new}
      BY <3>1, <2>3 DEF Behind
    <3>3. \A i, j \in jobs' : i = j
      BY <3>2
    <3> QED
      BY <3>1, <3>3, <1>0, <1>5 DEF ReadPatiently, Sign, OnScreen
  <2> QED
    BY <2>4, <2>6, <2>7 DEF PsbtInv
<1>6. ASSUME NEW j \in jobs, NEW ok \in BOOLEAN, Signed(j, ok) PROVE PsbtInv'
  <2>1. /\ jobs' = jobs \ {j} /\ j.kind = "sign"
        /\ UNCHANGED <<place, pressed, patient, invalid>>
    BY <1>6 DEF Signed, desk
  <2>2. CASE ok /\ Newest(j)
    <3>1. PICK after : /\ after = [j.text EXCEPT !.signed = TRUE]
                       /\ field' = after /\ read' = after /\ review' = after /\ Paint(after)
      BY <1>6, <2>2 DEF Signed
    <3>2. after \in Texts \ Refused /\ after # None
      BY <3>1, <2>1, <1>0, SignedIsText, NoTextAssumption DEF PsbtTypes, JobIs
    <3>3. \A i \in jobs' : ~i.live
      BY <2>1, <2>2, <1>0 DEF FieldIsRead, Newest
    <3>4. PsbtTypes'
      <4>1. signOn' => review' # None
        BY <3>1, <3>2
      <4> QED
        BY <4>1, <3>1, <3>2, <2>1, <1>0 DEF PsbtTypes
    <3>5. FieldIsRead'
      BY <3>1, <3>3 DEF FieldIsRead
    <3>6. ReadPatiently'
      BY <3>1, <3>2, <2>1, <1>0 DEF ReadPatiently
    <3> QED
      BY <3>4, <3>5, <3>6 DEF PsbtInv
  <2>3. CASE ~(ok /\ Newest(j))
    <3>1. Paint(review) /\ UNCHANGED <<field, read, review>>
      BY <1>6, <2>3 DEF Signed
    <3>2. PsbtTypes' /\ FieldIsRead'
      BY <3>1, <2>1, <1>0 DEF PsbtTypes, FieldIsRead, Paint
    <3>3. ReadPatiently'
      BY <3>1, <2>1, <1>0 DEF ReadPatiently, OnScreen
    <3> QED
      BY <3>2, <3>3 DEF PsbtInv
  <2> QED
    BY <2>2, <2>3
<1>7. ASSUME \/ Broadcast
             \/ \E c \in sending : BroadcastSucceeds(c) \/ \E took \in BOOLEAN : BroadcastFails(c, took)
             \/ LeavePsbt
      PROVE  PsbtInv'
  <2>1. UNCHANGED <<field, read, jobs, review, invalid>>
    BY <1>7 DEF Broadcast, BroadcastSucceeds, BroadcastFails, LeavePsbt, psbtVars
  <2>2. signOn' => signOn \/ review # None
    BY <1>7 DEF Broadcast, BroadcastSucceeds, BroadcastFails, LeavePsbt, psbtVars, Paint
  <2>3. OnScreen' => OnScreen
    BY <1>7 DEF Broadcast, BroadcastSucceeds, BroadcastFails, LeavePsbt, OnScreen, Goes, Places
  <2>4. pressed' = pressed \/ pressed' = pressed + 1
    BY <1>7 DEF Broadcast, BroadcastSucceeds, BroadcastFails, LeavePsbt, Press
  <2>5. patient' \in BOOLEAN /\ (patient' => patient)
    <3>1. patient' = patient \/ patient' = (patient /\ jobs = {})
      BY <1>7 DEF Broadcast, BroadcastSucceeds, BroadcastFails, LeavePsbt, Press
    <3>2. patient \in BOOLEAN
      BY <1>0 DEF PsbtTypes
    <3>3. CASE patient' = patient
      BY <3>2, <3>3
    <3>4. CASE patient' = (patient /\ jobs = {})
      BY <3>2, <3>4
    <3> QED
      BY <3>1, <3>3, <3>4
  <2>6. PsbtTypes'
    <3>1. pressed' \in Nat
      BY <2>4, <1>0 DEF PsbtTypes
    <3> QED
      BY <3>1, <2>1, <2>2, <2>5, <1>0 DEF PsbtTypes
  <2>7. FieldIsRead'
    BY <2>1, <1>0 DEF FieldIsRead
  <2>8. ReadPatiently'
    BY <2>1, <2>3, <2>5, <1>0 DEF ReadPatiently
  <2> QED
    BY <2>6, <2>7, <2>8 DEF PsbtInv
<1> QED
  BY <1>1, <1>2, <1>3, <1>4, <1>5, <1>6, <1>7 DEF PsbtNext, PsbtAnswers

\* Nothing this screen does is filed: a broadcast of it takes the next id.
LEMMA PsbtSeparate ==
    ASSUME Separate, builds = {}, pending = {}, PsbtNext
    PROVE  Separate' /\ builds' = {} /\ pending' = {}
<1>1. builds' = {} /\ pending' = {}
  BY DEF PsbtNext, PsbtAnswers, Type, Fetch, Fetched, ImportAnswers, Sign, Signed, Broadcast,
         BroadcastSucceeds, BroadcastFails, LeavePsbt, psbtRest, desk
<1>2. pressed' \in Nat /\ pressed <= pressed'
  <2>1. pressed' = pressed \/ pressed' = pressed + 1
    BY DEF PsbtNext, PsbtAnswers, Type, Fetch, Fetched, ImportAnswers, Sign, Signed, Broadcast,
           BroadcastSucceeds, BroadcastFails, LeavePsbt, Press, desk
  <2> QED
    BY <2>1 DEF Separate
<1>3. \A c \in sending' : c \in sending \/ c.id = pressed'
  <2>1. CASE Broadcast
    <3>1. pressed' = pressed + 1 /\ sending' = sending \cup {[id |-> pressed + 1, text |-> review]}
      BY <2>1 DEF Broadcast, Press
    <3> QED
      BY <3>1
  <2>2. CASE ~Broadcast
    BY <2>2 DEF PsbtNext, PsbtAnswers, Type, Fetch, Fetched, ImportAnswers, Sign, Signed,
         BroadcastSucceeds, BroadcastFails, LeavePsbt, Settles, psbtRest, desk
  <2> QED
    BY <2>1, <2>2
<1>4. \A i \in sent' : i \in sent \/ \E c \in sending : c.id = i
  BY DEF PsbtNext, PsbtAnswers, Type, Fetch, Fetched, ImportAnswers, Sign, Signed, Broadcast,
         BroadcastSucceeds, BroadcastFails, LeavePsbt, Press, Settles, psbtRest, desk
<1>5. \A c \in sending' : c.id \in Nat /\ c.id <= pressed'
  BY <1>2, <1>3 DEF Separate
<1>6. \A i \in sent' : i \in Nat /\ i <= pressed'
  BY <1>2, <1>4 DEF Separate
<1> QED
  BY <1>1, <1>2, <1>5, <1>6 DEF Separate, Distinct

-----------------------------------------------------------------------------
(* Send.                                                                   *)

SendBuilds == [id : Nat, kind : {"max", "review"}, live : BOOLEAN, of : Forms]

\* A build that counts is of the form on screen: Max's altogether, Review's by
\* its recipients and its coins.
OfForm(b, f) ==
    b.live => /\ b.kind = "max" => b.of = f /\ f.lone
              /\ b.kind = "review" => b.of.ver = f.ver /\ b.of.chosen = f.chosen

BuildsOfForm == \A b \in builds : b \in SendBuilds /\ OfForm(b, form)

SendInv ==
    /\ form \in Forms
    /\ drain # None => drain \in Previews
    /\ sheet # None => sheet \in Sheets
    /\ BuildsOfForm
    /\ DrainIsCurrent
    /\ SheetIsOfThisForm

\* A build moved on from keeps its id and counts no more.
LEMMA StaledIs ==
    ASSUME NEW kinds, \A b \in builds : b \in SendBuilds
    PROVE  /\ \A b \in Staled(kinds) : /\ b \in SendBuilds
                                       /\ b.live => b \in builds /\ b.kind \notin kinds
                                       /\ \E a \in builds : a.id = b.id
           /\ Distinct(builds) => Distinct(Staled(kinds))
<1> DEFINE S(a) == IF a.kind \in kinds THEN [a EXCEPT !.live = FALSE] ELSE a
<1>1. ASSUME NEW a \in builds
      PROVE  /\ S(a) \in SendBuilds /\ S(a).id = a.id
             /\ S(a).live => S(a) = a /\ a.kind \notin kinds
  BY DEF SendBuilds
<1>2. Staled(kinds) = {S(a) : a \in builds}
  BY DEF Staled
<1> HIDE DEF S
<1>3. \A b \in Staled(kinds) : /\ b \in SendBuilds
                               /\ b.live => b \in builds /\ b.kind \notin kinds
                               /\ \E a \in builds : a.id = b.id
  BY <1>1, <1>2
<1>4. Distinct(builds) => Distinct(Staled(kinds))
  BY <1>1, <1>2 DEF Distinct
<1> QED
  BY <1>3, <1>4

\* Ids stay apart when builds are moved on from, one may start under the next
\* id, nothing is filed and what was sent may settle.
LEMMA StaledSeparate ==
    ASSUME Separate, NEW kinds, \A b \in builds : b \in SendBuilds,
           NEW new, new = {} \/ (pressed' = pressed + 1 /\ \E n : new = {n} /\ n.id = pressed + 1),
           builds' = Staled(kinds) \cup new,
           pressed' = pressed \/ pressed' = pressed + 1,
           pending' \subseteq pending,
           sending' \subseteq sending,
           \A i \in sent' : i \in sent \/ \E c \in sending : c.id = i
    PROVE  Separate'
<1>1. /\ \A b \in Staled(kinds) : \E a \in builds : a.id = b.id
      /\ Distinct(Staled(kinds))
  BY StaledIs DEF Separate
<1>2. \A b \in Staled(kinds) : b.id # pressed + 1
  <2>1. \A a \in builds : a.id # pressed + 1
    BY DEF Separate
  <2> QED
    BY <1>1, <2>1
<1>3. Distinct(builds')
  BY <1>1, <1>2 DEF Distinct
<1>4. \A b \in builds' : FreshOrOld(b)
  BY <1>1 DEF FreshOrOld
<1> QED
  BY <1>3, <1>4, SeparateStays

LEMMA SendStep ==
    ASSUME SendInv, Separate, SendNext
    PROVE  SendInv' /\ Separate'
<1>0. /\ form \in Forms /\ form.ver \in Nat /\ form.rate \in Rates
      /\ form.lone \in BOOLEAN /\ form.chosen \in BOOLEAN
      /\ BuildsOfForm /\ DrainIsCurrent /\ SheetIsOfThisForm
      /\ drain # None => drain \in Previews
      /\ sheet # None => sheet \in Sheets
      /\ \A b \in builds : b \in SendBuilds
      /\ pressed \in Nat
  BY DEF SendInv, Forms, BuildsOfForm, Separate
\* The form moves on, and nothing of the old one counts.
<1>1. ASSUME Edit \/ LetWalletChoose \/ TypeRate \/ ChooseTarget PROVE SendInv' /\ Separate'
  <2>1. form' \in Forms
    <3>1. CASE Edit
      <4>1. PICK lone \in BOOLEAN : form' = [form EXCEPT !.ver = @ + 1, !.lone = lone]
        BY <3>1 DEF Edit, Rows
      <4>2. form.ver + 1 \in Nat
        BY <1>0
      <4>3. PICK ver \in Nat : form' = [form EXCEPT !.ver = ver, !.lone = lone]
        BY <4>1, <4>2
      <4>4. [form EXCEPT !.ver = ver] \in Forms
        BY <1>0 DEF Forms
      <4> QED
        BY <4>3, <4>4 DEF Forms
    <3>2. CASE LetWalletChoose
      BY <3>2, <1>0 DEF LetWalletChoose, Forms
    <3>3. CASE TypeRate \/ ChooseTarget
      <4>1. PICK r \in Rates : form' = [form EXCEPT !.rate = r]
        BY <3>3 DEF TypeRate, ChooseTarget
      <4> QED
        BY <4>1, <1>0 DEF Forms
    <3> QED
      BY <1>1, <3>1, <3>2, <3>3
  <2>2. MovesOn({}) /\ Editable /\ UNCHANGED <<pressed, sending, sent>>
    BY <1>1 DEF Edit, LetWalletChoose, TypeRate, ChooseTarget
  <2>3. /\ builds' = Staled({"max", "review"}) \cup {}
        /\ drain' = None /\ sheet' = None
        /\ pending' \subseteq pending
    BY <2>2 DEF MovesOn, Editable, Desktop
  <2>4. BuildsOfForm'
    <3>1. \A b \in builds' : b \in SendBuilds /\ ~b.live
      <4>1. \A b \in Staled({"max", "review"}) : b \in SendBuilds /\ ~b.live
        BY StaledIs, <1>0 DEF SendBuilds
      <4> QED
        BY <4>1, <2>3
    <3> QED
      BY <3>1 DEF BuildsOfForm, OfForm
  <2>5. Separate'
    BY <2>2, <2>3, <1>0, StaledSeparate
  <2> QED
    BY <2>1, <2>3, <2>4, <2>5 DEF SendInv, DrainIsCurrent, SheetIsOfThisForm
<1>2. ASSUME Refresh PROVE SendInv' /\ Separate'
  <2>1. UNCHANGED <<place, pressed, builds, pending, sending, sent, form, drain, sheet>>
    BY <1>2 DEF Refresh, desk
  <2>2. Separate'
    BY <2>1, SeparateUnchanged
  <2> QED
    BY <2>1, <2>2 DEF SendInv, BuildsOfForm, OfForm, DrainIsCurrent, SheetIsOfThisForm, OnScreen
<1>3. ASSUME EstimateAnswers PROVE SendInv' /\ Separate'
  <2>1. UNCHANGED <<place, pressed, sending, sent>>
    BY <1>3 DEF EstimateAnswers
  <2>2. CASE UNCHANGED <<form, builds, pending, drain, preview, sheet>>
    <3>1. Separate'
      BY <2>1, <2>2, SeparateUnchanged
    <3> QED
      BY <2>1, <2>2, <3>1 DEF SendInv, BuildsOfForm, OfForm, DrainIsCurrent, SheetIsOfThisForm, OnScreen
  <2>3. CASE \E r \in Rates : form' = [form EXCEPT !.rate = r] /\ LeaveDrain
    <3>1. PICK r \in Rates : form' = [form EXCEPT !.rate = r] /\ LeaveDrain
      BY <2>3
    <3>2. form' \in Forms /\ form'.ver = form.ver /\ form'.chosen = form.chosen
      BY <3>1, <1>0 DEF Forms
    <3>3. PICK kinds : "max" \in kinds /\ builds' = Staled(kinds) \cup {}
      BY <3>1 DEF LeaveDrain
    <3>4. drain' = None /\ sheet' = sheet /\ pending' \subseteq pending
      BY <3>1 DEF LeaveDrain
    <3>5. Separate'
      BY <2>1, <3>3, <3>4, <1>0, StaledSeparate
    <3>6. BuildsOfForm'
      <4>1. \A b \in Staled(kinds) : /\ b \in SendBuilds
                                     /\ b.live => b \in builds /\ b.kind # "max"
        BY <3>3, StaledIs, <1>0
      <4> QED
        BY <4>1, <3>2, <3>3, <1>0 DEF BuildsOfForm, OfForm
    <3> QED
      BY <3>2, <3>4, <3>5, <3>6, <1>0 DEF SendInv, DrainIsCurrent, SheetIsOfThisForm
  <2>4. UNCHANGED <<form, builds, pending, drain, preview, sheet>>
        \/ \E r \in Rates : form' = [form EXCEPT !.rate = r] /\ LeaveDrain
    <3>1. CASE UNCHANGED <<form, builds, pending, drain, preview, sheet>>
      BY <3>1
    <3>2. CASE \E r \in Rates : RateArrives(r)
      <4>1. PICK r \in Rates : RateArrives(r)
        BY <3>2
      <4>2. form' = form \/ r # form.rate
        BY <4>1, <1>0 DEF RateArrives, Forms
      <4> QED
        BY <4>1, <4>2 DEF RateArrives
    <3> QED
      BY <1>3, <3>1, <3>2, RatesAssumption DEF EstimateAnswers
  <2> QED
    BY <2>2, <2>3, <2>4
<1>4. ASSUME PressMax PROVE SendInv' /\ Separate'
  <2>1. /\ MovesOn({NewBuild("max")}) /\ pressed' = pressed + 1
        /\ UNCHANGED <<place, form, sending, sent>> /\ form.lone
    BY <1>4 DEF PressMax, Press
  <2>2. /\ builds' = Staled({"max", "review"}) \cup {NewBuild("max")}
        /\ drain' = None /\ (sheet' = sheet \/ sheet' = None) /\ pending' \subseteq pending
    BY <2>1 DEF MovesOn
  <2>3. /\ NewBuild("max") \in SendBuilds /\ NewBuild("max").id = pressed + 1
        /\ NewBuild("max").of = form /\ NewBuild("max").kind = "max"
    BY <1>0 DEF NewBuild, SendBuilds
  <2>4. Separate'
    <3>1. \E n : {NewBuild("max")} = {n} /\ n.id = pressed + 1
      BY <2>3
    <3> QED
      BY <2>1, <2>2, <3>1, <1>0, StaledSeparate
  <2>5. BuildsOfForm'
    <3>1. \A b \in Staled({"max", "review"}) : b \in SendBuilds /\ ~b.live
      BY StaledIs, <1>0 DEF SendBuilds
    <3>2. NewBuild("max").kind # "review"
      BY <2>3
    <3> QED
      BY <3>1, <3>2, <2>1, <2>2, <2>3 DEF BuildsOfForm, OfForm
  <2> QED
    BY <2>1, <2>2, <2>4, <2>5, <1>0 DEF SendInv, DrainIsCurrent, SheetIsOfThisForm
<1>5. ASSUME PressReview PROVE SendInv' /\ Separate'
  <2>1. /\ pressed' = pressed + 1
        /\ UNCHANGED <<place, form, sending, sent, pending, drain, sheet>>
    BY <1>5 DEF PressReview, Press
  <2>2. PICK kinds : builds' = Staled(kinds) \cup {NewBuild("review")}
    <3>1. Staled({}) = builds
      BY DEF Staled
    <3> QED
      BY <3>1, <1>5 DEF PressReview
  <2>3. /\ NewBuild("review") \in SendBuilds /\ NewBuild("review").id = pressed + 1
        /\ NewBuild("review").of = form /\ NewBuild("review").kind = "review"
    BY <1>0 DEF NewBuild, SendBuilds
  <2>4. Separate'
    <3>1. \E n : {NewBuild("review")} = {n} /\ n.id = pressed + 1
      BY <2>3
    <3> QED
      BY <2>1, <2>2, <3>1, <1>0, StaledSeparate
  <2>5. BuildsOfForm'
    <3>1. \A b \in Staled(kinds) : b \in SendBuilds /\ (b.live => b \in builds)
      BY StaledIs, <1>0
    <3>2. NewBuild("review").kind # "max"
      BY <2>3
    <3> QED
      BY <3>1, <3>2, <2>1, <2>2, <2>3, <1>0 DEF BuildsOfForm, OfForm
  <2> QED
    BY <2>1, <2>4, <2>5, <1>0 DEF SendInv, DrainIsCurrent, SheetIsOfThisForm, OnScreen
<1>6. ASSUME NEW b \in builds, NEW ok \in BOOLEAN, MaxAnswers(b, ok) PROVE SendInv' /\ Separate'
  <2>1. /\ builds' = builds \ {b} /\ b.kind = "max"
        /\ UNCHANGED <<place, pressed, sending, sent, form, sheet>>
        /\ pending' = pending \/ pending' = pending \cup {b.id}
    BY <1>6 DEF MaxAnswers
  <2>2. drain' = drain \/ (drain' = Preview(b) /\ b.live)
    BY <1>6 DEF MaxAnswers, Counts
  <2>3. Preview(b) \in Previews /\ Preview(b).of = b.of
    BY <1>0 DEF Preview, Previews, SendBuilds
  <2>4. Separate'
    BY <2>1, AnswerSeparate
  <2>5. b.live => b.of = form /\ form.lone
    BY <2>1, <1>0 DEF BuildsOfForm, OfForm
  <2>6. DrainIsCurrent' /\ (drain' # None => drain' \in Previews)
    BY <2>1, <2>2, <2>3, <2>5, <1>0 DEF DrainIsCurrent, OnScreen
  <2>7. BuildsOfForm' /\ SheetIsOfThisForm'
    BY <2>1, <1>0 DEF BuildsOfForm, OfForm, SheetIsOfThisForm
  <2> QED
    BY <2>1, <2>4, <2>6, <2>7, <1>0 DEF SendInv
<1>7. ASSUME NEW b \in builds, NEW ok \in BOOLEAN, ReviewAnswers(b, ok) PROVE SendInv' /\ Separate'
  <2>1. /\ builds' = builds \ {b} /\ b.kind = "review"
        /\ UNCHANGED <<place, pressed, sending, sent, form, drain>>
        /\ pending' = pending \/ pending' = pending \cup {b.id}
    BY <1>7 DEF ReviewAnswers
  <2>2. sheet' = sheet \/ (sheet' = Shown(b) /\ b.live)
    BY <1>7 DEF ReviewAnswers, Counts
  <2>3. Shown(b) \in Sheets /\ Shown(b).of = b.of
    BY <1>0 DEF Shown, Sheets, SendBuilds
  <2>4. Separate'
    BY <2>1, AnswerSeparate
  <2>5. b.live => b.of.ver = form.ver /\ b.of.chosen = form.chosen
    BY <2>1, <1>0 DEF BuildsOfForm, OfForm
  <2>6. SheetIsOfThisForm' /\ (sheet' # None => sheet' \in Sheets)
    BY <2>1, <2>2, <2>3, <2>5, <1>0 DEF SheetIsOfThisForm
  <2>7. BuildsOfForm' /\ DrainIsCurrent'
    BY <2>1, <1>0 DEF BuildsOfForm, OfForm, DrainIsCurrent, OnScreen
  <2> QED
    BY <2>1, <2>4, <2>6, <2>7, <1>0 DEF SendInv
<1>8. ASSUME ReviewMax PROVE SendInv' /\ Separate'
  <2>1. /\ OnScreen /\ drain # None /\ sheet' = Shown(drain) /\ pressed' = pressed + 1
        /\ UNCHANGED <<place, pending, sending, sent, form, builds, drain>>
    BY <1>8 DEF ReviewMax, Press
  <2>2. Shown(drain) \in Sheets /\ Shown(drain).of = form
    BY <2>1, <1>0 DEF Shown, Sheets, Previews, DrainIsCurrent
  <2>3. SheetIsOfThisForm' /\ (sheet' # None => sheet' \in Sheets)
    BY <2>1, <2>2 DEF SheetIsOfThisForm
  <2>4. Separate'
    <3>1. Staled({}) = builds
      BY DEF Staled
    <3>2. builds' = Staled({}) \cup {}
      BY <2>1, <3>1
    <3> QED
      BY <2>1, <3>2, <1>0, StaledSeparate
  <2> QED
    BY <2>1, <2>3, <2>4, <1>0 DEF SendInv, BuildsOfForm, OfForm, DrainIsCurrent, OnScreen
<1>9. ASSUME Confirm PROVE SendInv' /\ Separate'
  <2>1. /\ sheet # None /\ sheet' = [sheet EXCEPT !.busy = TRUE]
        /\ sheet.id \in pending
        /\ pending' = pending \ {sheet.id} /\ sending' = sending \cup {[id |-> sheet.id]}
        /\ drain' = drain \/ drain' = None
        /\ UNCHANGED <<place, pressed, sent, form, builds>>
    BY <1>9 DEF Confirm, SignAndBroadcast
  <2>2. sheet' \in Sheets /\ sheet'.of = sheet.of
    BY <2>1, <1>0 DEF Sheets
  <2>3. SheetIsOfThisForm' /\ DrainIsCurrent' /\ BuildsOfForm'
    BY <2>1, <2>2, <1>0 DEF SheetIsOfThisForm, DrainIsCurrent, BuildsOfForm, OfForm, OnScreen
  <2>4. Separate'
    <3>1. \A b \in builds' : b.id # sheet.id /\ FreshOrOld(b)
      BY <2>1 DEF Separate, FreshOrOld
    <3>2. Distinct(builds')
      BY <2>1 DEF Separate, Distinct
    <3>3. \A c \in sending' : c \in sending \/ c.id = sheet.id
      BY <2>1
    <3> QED
      BY <2>1, <3>1, <3>2, <3>3, SeparateStays
  <2> QED
    BY <2>1, <2>2, <2>3, <2>4, <1>0 DEF SendInv
\* What is shown goes, or nothing but the map changes, and nothing is filed.
<1>10. ASSUME \/ ConfirmExpired \/ EditAgain \/ Leave
              \/ \E c \in sending : SendSucceeds(c) \/ \E took \in BOOLEAN : SendFails(c, took)
       PROVE  SendInv' /\ Separate'
  <2>1. /\ UNCHANGED <<pressed, form>>
        /\ sheet' = sheet \/ sheet' = None
        /\ drain' = drain \/ drain' = None
        /\ OnScreen' => OnScreen
        /\ pending' \subseteq pending
    <3>1. CASE ConfirmExpired \/ \E c \in sending, took \in BOOLEAN : SendFails(c, took)
      BY <3>1 DEF ConfirmExpired, SendFails, Unsent, OnScreen
    <3>2. CASE EditAgain
      BY <3>2 DEF EditAgain, ClearPreview, OnScreen
    <3>3. CASE Leave
      BY <3>3 DEF Leave, DiscardOnLeave, Goes, Places, OnScreen
    <3>4. CASE \E c \in sending : SendSucceeds(c)
      BY <3>4 DEF SendSucceeds, AfterSend, OnScreen
    <3> QED
      BY <1>10, <3>1, <3>2, <3>3, <3>4
  <2>2. PICK kinds : builds' = Staled(kinds) \cup {}
    <3>1. Staled({}) = builds
      BY DEF Staled
    <3>2. \E kinds : builds' = Staled(kinds)
      <4>1. CASE ConfirmExpired \/ \E c \in sending, took \in BOOLEAN : SendFails(c, took)
        BY <3>1, <4>1 DEF ConfirmExpired, SendFails, Unsent
      <4>2. CASE EditAgain
        BY <3>1, <4>2 DEF EditAgain, ClearPreview
      <4>3. CASE Leave
        BY <4>3 DEF Leave, DiscardOnLeave
      <4>4. CASE \E c \in sending : SendSucceeds(c)
        BY <3>1, <4>4 DEF SendSucceeds, AfterSend
      <4> QED
        BY <1>10, <4>1, <4>2, <4>3, <4>4
    <3> QED
      BY <3>2
  <2>3. /\ sending' \subseteq sending
        /\ \A i \in sent' : i \in sent \/ \E c \in sending : c.id = i
    BY <1>10 DEF ConfirmExpired, EditAgain, Leave, SendSucceeds, SendFails, Settles
  <2>4. Separate'
    BY <2>1, <2>2, <2>3, <1>0, StaledSeparate
  <2>5. BuildsOfForm'
    <3>1. \A b \in Staled(kinds) : b \in SendBuilds /\ (b.live => b \in builds)
      BY StaledIs, <1>0
    <3> QED
      BY <3>1, <2>1, <2>2, <1>0 DEF BuildsOfForm, OfForm
  <2> QED
    BY <2>1, <2>4, <2>5, <1>0 DEF SendInv, DrainIsCurrent, SheetIsOfThisForm
<1> QED
  BY <1>1, <1>2, <1>3, <1>4, <1>5, <1>6, <1>7, <1>8, <1>9, <1>10 DEF SendNext, SendAnswers

\* Pressed with nothing running, one build runs at a time, what the map holds
\* is Max's preview, or with it that of the Review on screen, and nothing while
\* a broadcast is out.
Tidy ==
    patient =>
        /\ \A a, b \in builds : a = b
        /\ builds # {} => sending = {} /\ sheet = None /\ drain = None
        /\ sending # {} => pending = {}
        /\ pending \subseteq IdOf(drain) \cup IdOf(preview)
        /\ sheet = None => pending \subseteq IdOf(drain)
        /\ sheet # None => IdOf(drain) \cup IdOf(preview) \subseteq {sheet.id}

LEMMA TidyStep ==
    ASSUME SendInv, Tidy, patient \in BOOLEAN, SendNext
    PROVE  Tidy' /\ patient' \in BOOLEAN
<1> USE DEF IdOf
<1>0. /\ \A b \in builds : b \in SendBuilds
      /\ drain # None => drain \in Previews
      /\ sheet # None => sheet \in Sheets
      /\ form \in Forms
  BY DEF SendInv, BuildsOfForm
<1>1. patient' \in BOOLEAN /\ (patient' => patient)
  <2>1. \/ patient' = patient
        \/ patient' = (patient /\ NothingRuns)
    BY DEF SendNext, SendAnswers, Edit, LetWalletChoose, TypeRate, ChooseTarget, Refresh, EstimateAnswers,
           PressMax, PressReview, ReviewMax, Confirm, ConfirmExpired, EditAgain, Leave, MaxAnswers,
           ReviewAnswers, SendSucceeds, SendFails, Press, desk
  <2>2. CASE patient' = patient
    BY <2>2
  <2>3. CASE patient' = (patient /\ NothingRuns)
    BY <2>3
  <2> QED
    BY <2>1, <2>2, <2>3
<1> SUFFICES ASSUME patient, patient' PROVE Tidy'
  BY <1>1 DEF Tidy
<1>2. /\ \A a, b \in builds : a = b
      /\ builds # {} => sending = {} /\ sheet = None /\ drain = None
      /\ sending # {} => pending = {}
      /\ pending \subseteq IdOf(drain) \cup IdOf(preview)
      /\ sheet = None => pending \subseteq IdOf(drain)
      /\ sheet # None => IdOf(drain) \cup IdOf(preview) \subseteq {sheet.id}
  BY DEF Tidy
<1> HIDE DEF Tidy
\* A step that moves builds on keeps them one.
<1>3. ASSUME NEW kinds, builds' = Staled(kinds)
      PROVE  (\A a, b \in builds' : a = b) /\ (builds' # {} => builds # {})
  BY <1>2, <1>3 DEF Staled
<1>4. ASSUME Edit \/ LetWalletChoose \/ TypeRate \/ ChooseTarget PROVE Tidy'
  <2>1. MovesOn({}) /\ Editable /\ UNCHANGED sending
    BY <1>4 DEF Edit, LetWalletChoose, TypeRate, ChooseTarget
  <2>2. /\ builds' = Staled({"max", "review"})
        /\ drain' = None /\ sheet' = None
        /\ pending' = pending \ (IdOf(drain) \cup (IF Desktop THEN {} ELSE IdOf(preview)))
    BY <2>1 DEF MovesOn, Editable, Desktop
  <2>3. pending' = {}
    BY <2>1, <2>2, <1>2 DEF Editable
  <2> QED
    BY <2>1, <2>2, <2>3, <1>2, <1>3 DEF Tidy
<1>5. ASSUME Refresh PROVE Tidy'
  BY <1>2, <1>5 DEF Refresh, desk, Tidy
<1>6. ASSUME EstimateAnswers PROVE Tidy'
  <2>1. UNCHANGED sending
    BY <1>6 DEF EstimateAnswers
  <2>2. CASE UNCHANGED <<builds, pending, drain, preview, sheet>>
    BY <2>1, <2>2, <1>2 DEF Tidy
  <2>3. CASE LeaveDrain
    <3>1. PICK kinds : builds' = Staled(kinds)
      BY <2>3 DEF LeaveDrain
    <3>2. /\ drain' = None /\ UNCHANGED <<preview, sheet>>
          /\ pending' = pending \ IdOf(drain)
      BY <2>3 DEF LeaveDrain
    <3> QED
      BY <2>1, <3>1, <3>2, <1>2, <1>3 DEF Tidy
  <2>4. UNCHANGED <<builds, pending, drain, preview, sheet>> \/ LeaveDrain
    BY <1>6 DEF EstimateAnswers, RateArrives
  <2> QED
    BY <2>2, <2>3, <2>4
<1>7. ASSUME PressMax PROVE Tidy'
  <2>1. /\ MovesOn({NewBuild("max")}) /\ NothingRuns /\ UNCHANGED sending
    BY <1>7 DEF PressMax, Press
  <2>2. /\ builds' = {NewBuild("max")} /\ drain' = None /\ sheet' = None
        /\ pending' = pending \ (IdOf(drain) \cup (IF Desktop THEN {} ELSE IdOf(preview)))
    BY <2>1 DEF MovesOn, NothingRuns, Staled
  <2>3. pending' = {}
    BY <2>1, <2>2, <1>2 DEF NothingRuns
  <2> QED
    BY <2>1, <2>2, <2>3 DEF Tidy, NothingRuns
<1>8. ASSUME PressReview PROVE Tidy'
  <2>1. /\ NothingRuns /\ drain = None
        /\ UNCHANGED <<pending, sending, drain, preview, sheet>>
        /\ builds' = {NewBuild("review")}
    BY <1>8 DEF PressReview, Press, NothingRuns, Staled
  <2> QED
    BY <2>1, <1>2 DEF Tidy, NothingRuns
<1>9. ASSUME NEW b \in builds, NEW ok \in BOOLEAN, MaxAnswers(b, ok) PROVE Tidy'
  <2>1. /\ builds' = {} /\ sending = {} /\ sheet = None /\ drain = None /\ pending = {}
        /\ UNCHANGED <<sending, preview, sheet>>
        /\ \/ UNCHANGED <<drain, pending>>
           \/ drain' = Preview(b) /\ pending' = pending \cup {b.id}
    BY <1>2, <1>9 DEF MaxAnswers
  <2>2. Preview(b) # None /\ Preview(b).id = b.id
    BY <1>0, PreviewsAssumption DEF Preview, Previews, SendBuilds
  <2> QED
    BY <2>1, <2>2 DEF Tidy
<1>10. ASSUME NEW b \in builds, NEW ok \in BOOLEAN, ReviewAnswers(b, ok) PROVE Tidy'
  <2>1. /\ builds' = {} /\ sending = {} /\ sheet = None /\ drain = None /\ pending = {}
        /\ UNCHANGED <<sending, drain>>
        /\ \/ UNCHANGED <<sheet, preview, pending>>
           \/ sheet' = Shown(b) /\ preview' = Preview(b) /\ pending' = pending \cup {b.id}
    BY <1>2, <1>10 DEF ReviewAnswers
  <2>2. /\ Preview(b) # None /\ Preview(b).id = b.id
        /\ Shown(b) # None /\ Shown(b).id = b.id
    <3>1. Preview(b) \in Previews /\ Preview(b).id = b.id
      BY <1>0 DEF Preview, Previews, SendBuilds
    <3>2. Shown(b) \in Sheets /\ Shown(b).id = b.id
      BY <1>0 DEF Shown, Sheets, SendBuilds
    <3> QED
      BY <3>1, <3>2, PreviewsAssumption
  <2> QED
    BY <2>1, <2>2 DEF Tidy
<1>11. ASSUME ReviewMax PROVE Tidy'
  <2>1. /\ NothingRuns /\ drain # None
        /\ sheet' = Shown(drain) /\ preview' = drain
        /\ UNCHANGED <<pending, sending, builds, drain>>
    BY <1>11 DEF ReviewMax, Press
  <2>2. Shown(drain) # None /\ Shown(drain).id = drain.id
    <3>1. Shown(drain) \in Sheets /\ Shown(drain).id = drain.id
      BY <1>0, <2>1 DEF Previews, Shown, Sheets
    <3> QED
      BY <3>1, PreviewsAssumption
  <2> QED
    BY <2>1, <2>2, <1>2 DEF Tidy, NothingRuns
<1>12. ASSUME Confirm PROVE Tidy'
  <2>1. /\ sheet # None /\ sheet' = [sheet EXCEPT !.busy = TRUE]
        /\ pending' = pending \ {sheet.id} /\ sending' = sending \cup {[id |-> sheet.id]}
        /\ drain' = drain \/ drain' = None
        /\ preview' = preview \/ preview' = None
        /\ UNCHANGED builds
    BY <1>12 DEF Confirm, SignAndBroadcast
  <2>2. sheet' # None /\ sheet'.id = sheet.id
    BY <1>0, <2>1, PreviewsAssumption DEF Sheets
  <2>3. pending' = {} /\ builds' = {}
    BY <2>1, <1>2
  <2> QED
    BY <2>1, <2>2, <2>3, <1>2 DEF Tidy
<1>13. ASSUME ConfirmExpired PROVE Tidy'
  <2>1. /\ sheet # None /\ sheet.id \notin pending
        /\ Unsent(None, None) /\ UNCHANGED sending
    BY <1>13 DEF ConfirmExpired
  <2>2. pending = {} /\ builds = {}
    BY <2>1, <1>2
  <2>3. pending' = {} /\ drain' = None /\ preview' = None
    BY <2>1, <2>2 DEF Unsent
  <2>4. builds' = {}
    BY <2>1, <2>2 DEF Unsent, Staled
  <2> QED
    BY <2>1, <2>3, <2>4 DEF Tidy
<1>14. ASSUME EditAgain PROVE Tidy'
  <2>1. sheet # None /\ UNCHANGED <<sending, drain>> /\ preview' = None /\ sheet' = None
    BY <1>14 DEF EditAgain, ClearPreview
  <2>2. builds' = {}
    BY <1>14, <1>2 DEF EditAgain, ClearPreview, Staled
  <2>3. pending' \subseteq pending /\ pending' \subseteq IdOf(drain)
    <3>1. CASE Desktop
      BY <1>14, <3>1, <2>1, <1>2 DEF EditAgain
    <3>2. CASE ~Desktop
      BY <1>14, <3>2, <2>1, <1>2 DEF EditAgain, ClearPreview
    <3> QED
      BY <3>1, <3>2
  <2> QED
    BY <2>1, <2>2, <2>3, <1>2 DEF Tidy
<1>15. ASSUME Leave PROVE Tidy'
  <2>1. /\ builds' = Staled({"max", "review"}) /\ UNCHANGED sending
        /\ pending' = pending \ (IdOf(drain) \cup IdOf(preview))
        /\ drain' = None /\ preview' = None /\ sheet' = None
    BY <1>15 DEF Leave, DiscardOnLeave
  <2>2. pending' = {}
    BY <2>1, <1>2
  <2> QED
    BY <2>1, <2>2, <1>2, <1>3 DEF Tidy
<1>16. ASSUME NEW c \in sending,
              SendSucceeds(c) \/ \E took \in BOOLEAN : SendFails(c, took)
       PROVE  Tidy'
  <2>1. pending = {} /\ builds = {} /\ sending' = sending \ {c}
    BY <1>2, <1>16 DEF SendSucceeds, SendFails, Settles
  <2>2. pending' = {}
    BY <1>16, <2>1 DEF SendSucceeds, AfterSend, SendFails, Unsent
  <2>3. builds' = {}
    BY <1>16, <2>1 DEF SendSucceeds, AfterSend, SendFails, Unsent, Staled
  <2>4. sheet' # None => UNCHANGED sheet /\ (drain' = drain \/ drain' = None) /\ (preview' = preview \/ preview' = None)
    BY <1>16 DEF SendSucceeds, AfterSend, SendFails, Unsent
  <2> QED
    BY <2>2, <2>3, <2>4, <1>2 DEF Tidy
<1> QED
  BY <1>4, <1>5, <1>6, <1>7, <1>8, <1>9, <1>10, <1>11, <1>12, <1>13, <1>14, <1>15, <1>16
  DEF SendNext, SendAnswers

-----------------------------------------------------------------------------
(* The offers of a transaction.                                            *)

Calls == [id : Nat, row : Nat \cup {None}, kind : {"bump", "child", "cancel"}]

TxTypes ==
    /\ row \in Nat \cup {None}
    /\ rows \in Nat
    /\ target \in Targets
    /\ builds \subseteq Offered
    /\ sending \subseteq Calls
    /\ held # None => held \in Offered /\ held.kind # "bump"

\* heldPreview answers for one build at most, and has dropped what it held to
\* start it; a child of it is for the target chosen.
OneBuild ==
    /\ \A a, b \in builds : a.live /\ b.live /\ a.kind # "bump" /\ b.kind # "bump" => a = b
    /\ \A b \in builds : b.live /\ b.kind # "bump" => held = None
    /\ \A b \in builds : b.live /\ b.kind = "child" => b.target = target

\* The map holds what the screen holds, and what it sends from the open row is
\* what the numbers on screen are of.
Mine ==
    /\ place # "closed" => pending = IdOf(held)
    /\ ~OnScreen => held = None
    /\ OnScreen /\ held # None => held.row = row /\ (held.kind = "child" => held.target = target)
    /\ OnScreen /\ card # None => card \in IdOf(held) \cup {c.id : c \in sending}
    /\ OnScreen => \A c \in sending : card = c.id => c.row = row /\ c.kind # "bump"

TxInv == TxTypes /\ OneBuild /\ Mine

\* heldPreview's drop, and the hold that may follow under the next id.
Dropped(new) ==
    /\ builds' = Outdated \cup new
    /\ pending' = pending \ IdOf(held)
    /\ held' = None
    /\ card' = None
    /\ \/ new = {}
       \/ /\ pressed' = pressed + 1
          /\ \E n \in Offered : new = {n} /\ n.id = pressed' /\ n.kind # "bump" /\ n.target = target'

LEMMA DropIs == Drop => Dropped({})
  BY DEF Drop, Dropped

LEMMA HoldIs ==
    ASSUME NEW kind \in {"child", "cancel"}, NEW wakes \in BOOLEAN, Hold(kind, wakes),
           pressed \in Nat, pressed' = pressed + 1, row \in Nat \cup {None}, target' \in Targets
    PROVE  \E new : Dropped(new)
<1> DEFINE n == [id |-> pressed', kind |-> kind, live |-> TRUE,
                 row |-> row, target |-> target', wakes |-> wakes]
<1>1. n \in Offered /\ n.id = pressed' /\ n.kind # "bump" /\ n.target = target'
  BY DEF Offered
<1>2. /\ builds' = Outdated \cup {n} /\ pending' = pending \ IdOf(held)
      /\ held' = None /\ card' = None
  BY DEF Hold
<1> HIDE DEF n
<1>3. Dropped({n})
  BY <1>1, <1>2 DEF Dropped
<1> QED
  BY <1>3

LEMMA RepriceIs ==
    ASSUME NEW wakes \in BOOLEAN, Reprice(wakes),
           pressed \in Nat, pressed' = pressed + 1, row \in Nat \cup {None}, target' \in Targets
    PROVE  \E new : Dropped(new)
<1>1. CASE Hold("child", wakes)
  BY <1>1, HoldIs
<1>2. CASE Drop
  BY <1>2, DropIs
<1> QED
  BY <1>1, <1>2 DEF Reprice

LEMMA OutdatedIs ==
    ASSUME builds \subseteq Offered
    PROVE  /\ \A b \in Outdated : /\ b \in Offered
                                  /\ b.live => b.kind = "bump"
                                  /\ \E a \in builds : a.id = b.id
           /\ Distinct(builds) => Distinct(Outdated)
<1> DEFINE S(a) == IF a.kind = "bump" THEN a ELSE [a EXCEPT !.live = FALSE]
<1>1. ASSUME NEW a \in builds
      PROVE  S(a) \in Offered /\ S(a).id = a.id /\ (S(a).live => S(a).kind = "bump")
  BY DEF Offered
<1>2. Outdated = {S(a) : a \in builds}
  BY DEF Outdated
<1> HIDE DEF S
<1>3. Distinct(builds) => Distinct(Outdated)
  BY <1>1, <1>2 DEF Distinct
<1> QED
  BY <1>1, <1>2, <1>3

\* What drops what is held, whatever it does to the row, the target and the
\* broadcasts in flight, leaves nothing to answer for but what it starts.
LEMMA Drops ==
    ASSUME TxInv, Separate, NEW new, Dropped(new),
           pressed' = pressed \/ pressed' = pressed + 1,
           row' \in Nat \cup {None}, rows' \in Nat, target' \in Targets,
           place' = place \/ OnScreen,
           sending' \subseteq sending,
           \A i \in sent' : i \in sent \/ \E c \in sending : c.id = i
    PROVE  TxInv' /\ Separate'
<1>0. /\ builds \subseteq Offered /\ sending \subseteq Calls /\ pressed \in Nat
      /\ \A b \in Outdated : /\ b \in Offered
                             /\ b.live => b.kind = "bump"
                             /\ \E a \in builds : a.id = b.id
      /\ Distinct(Outdated)
      /\ \A b \in builds : b.id <= pressed /\ b.id \in Nat
  BY OutdatedIs DEF TxInv, TxTypes, Separate
<1>1. /\ new \subseteq Offered
      /\ \A n \in new : pressed' = pressed + 1 /\ n.id = pressed' /\ n.kind # "bump" /\ n.target = target'
      /\ \A m, n \in new : m = n
  BY DEF Dropped
<1>2. /\ builds' = Outdated \cup new /\ held' = None /\ card' = None
      /\ pending' = pending \ IdOf(held)
  BY DEF Dropped
<1>3. TxTypes'
  BY <1>0, <1>1, <1>2 DEF TxTypes
<1>4. OneBuild'
  BY <1>0, <1>1, <1>2 DEF OneBuild
<1>5. Mine'
  <2>1. place' # "closed" => pending' = {}
    BY <1>2 DEF TxInv, Mine, OnScreen
  <2>2. \A c \in sending' : c.id \in Nat
    BY <1>0 DEF Calls
  <2>3. IdOf(None) = {}
    BY DEF IdOf
  <2> QED
    BY <1>2, <2>1, <2>2, <2>3, NoneAssumption DEF Mine, IdOf
<1>6. Separate'
  <2>1. \A b \in builds' : FreshOrOld(b)
    BY <1>0, <1>1, <1>2 DEF FreshOrOld
  <2>2. \A b \in Outdated, n \in new : b.id # n.id
    <3>1. ASSUME NEW b \in Outdated, NEW n \in new PROVE b.id # n.id
      <4>1. PICK a \in builds : a.id = b.id
        BY <1>0
      <4> QED
        BY <4>1, <1>0, <1>1
    <3> QED
      BY <3>1
  <2>3. Distinct(builds')
    BY <1>0, <1>1, <1>2, <2>2 DEF Distinct
  <2> QED
    BY <1>2, <2>1, <2>3, SeparateStays
<1> QED
  BY <1>3, <1>4, <1>5, <1>6 DEF TxInv

\* What leaves the row and what is held alone, and puts the numbers away with
\* the broadcast they were of.
LEMMA Spares ==
    ASSUME TxInv, Separate,
           UNCHANGED <<place, builds, pending, held, row, rows, target>>,
           pressed' = pressed \/ pressed' = pressed + 1,
           card' = card \/ card' = None,
           sending' \subseteq sending,
           OnScreen /\ card' # None => \A c \in sending \ sending' : c.id # card,
           \A i \in sent' : i \in sent \/ \E c \in sending : c.id = i
    PROVE  TxInv' /\ Separate'
<1>1. TxTypes'
  BY DEF TxInv, TxTypes
<1>2. OneBuild'
  BY DEF TxInv, OneBuild
<1>3. Mine'
  <2>1. \A c \in sending : c.id \in Nat
    BY DEF TxInv, TxTypes, Calls
  <2>2. IdOf(held') = IdOf(held) /\ OnScreen' = OnScreen
    BY DEF IdOf, OnScreen
  <2> QED
    BY <2>1, <2>2, NoneAssumption DEF TxInv, Mine
<1>4. Separate'
  <2>1. Distinct(builds') /\ \A b \in builds' : FreshOrOld(b)
    BY DEF Separate, Distinct, FreshOrOld
  <2> QED
    BY <2>1, SeparateStays
<1> QED
  BY <1>1, <1>2, <1>3, <1>4 DEF TxInv

LEMMA TxStep ==
    ASSUME TxInv, Separate, TxNext
    PROVE  TxInv' /\ Separate'
<1>0. /\ row \in Nat \cup {None} /\ rows \in Nat /\ target \in Targets /\ pressed \in Nat
      /\ None \in Nat \cup {None} /\ "preset" \in Targets
  BY DEF TxInv, TxTypes, Separate, Targets
\* The row is closed, another opened, the history drawn anew or the screen left.
<1>1. ASSUME CloseRow \/ OpenRow \/ KeepIt \/ LeaveTx PROVE TxInv' /\ Separate'
  <2>1. Dropped({})
    BY <1>1, DropIs DEF CloseRow, OpenRow, KeepIt, LeaveTx, Fold
  <2>2. /\ OnScreen
        /\ UNCHANGED <<pressed, sending, sent>>
        /\ row' = row \/ row' = None \/ row' = rows + 1
        /\ rows' = rows \/ rows' = rows + 1
        /\ target' = target \/ target' = "preset"
    BY <1>1 DEF CloseRow, OpenRow, KeepIt, LeaveTx
  <2> QED
    BY <2>1, <2>2, <1>0, Drops
<1>2. ASSUME Retarget \/ SpeedUpAgain PROVE TxInv' /\ Separate'
  <2>1. /\ pressed' = pressed + 1 /\ target' \in Targets
        /\ UNCHANGED <<place, sending, sent, row, rows>>
    BY <1>2, <1>0 DEF Retarget, SpeedUpAgain, Press, Targets
  <2>2. \E wakes \in BOOLEAN : Reprice(wakes)
    BY <1>2 DEF Retarget, SpeedUpAgain
  <2>3. PICK new : Dropped(new)
    BY <2>1, <2>2, <1>0, RepriceIs
  <2> QED
    BY <2>1, <2>3, <1>0, Drops
<1>3. ASSUME AskCancel PROVE TxInv' /\ Separate'
  <2>1. UNCHANGED <<place, sending, sent, row, rows, target>>
    BY <1>3 DEF AskCancel
  <2>2. CASE OnDesktop
    <3>1. pressed' = pressed + 1 /\ Hold("cancel", FALSE)
      BY <1>3, <2>2 DEF AskCancel, Press
    <3>2. PICK new : Dropped(new)
      BY <2>1, <3>1, <1>0, HoldIs
    <3> QED
      BY <2>1, <3>1, <3>2, <1>0, Drops
  <2>3. CASE ~OnDesktop
    <3>1. UNCHANGED <<pressed, builds, pending, held, card>>
      BY <1>3, <2>3 DEF AskCancel
    <3> QED
      BY <2>1, <3>1, Spares
  <2> QED
    BY <2>2, <2>3
<1>4. ASSUME CancelPriced PROVE TxInv' /\ Separate'
  <2>1. UNCHANGED <<place, sending, sent, row, rows, target>> /\ pressed' = pressed + 1
    BY <1>4 DEF CancelPriced
  <2>2. CASE OnScreen
    <3>1. Hold("cancel", FALSE)
      BY <1>4, <2>2 DEF CancelPriced
    <3>2. PICK new : Dropped(new)
      BY <2>1, <3>1, <1>0, HoldIs
    <3> QED
      BY <2>1, <3>2, <1>0, Drops
  <2>3. CASE ~OnScreen
    <3>1. UNCHANGED <<builds, pending, held, card>>
      BY <1>4, <2>3 DEF CancelPriced
    <3> QED
      BY <2>1, <3>1, Spares
  <2> QED
    BY <2>2, <2>3
<1>5. ASSUME EstimateArrives PROVE TxInv' /\ Separate'
  <2>1. UNCHANGED <<place, sending, sent, row, rows, target>> /\ pressed' = pressed + 1
    BY <1>5 DEF EstimateArrives
  <2>2. CASE Reprice(FALSE)
    <3>1. PICK new : Dropped(new)
      BY <2>1, <2>2, <1>0, RepriceIs
    <3> QED
      BY <2>1, <3>1, <1>0, Drops
  <2>3. CASE UNCHANGED <<builds, pending, held, card>>
    BY <2>1, <2>3, Spares
  <2> QED
    BY <1>5, <2>2, <2>3 DEF EstimateArrives
<1>6. ASSUME NEW d \in loads, NEW kind \in {None, "replace", "child", "none"}, DetailAnswers(d, kind)
      PROVE  TxInv' /\ Separate'
  <2>1. /\ UNCHANGED <<place, sending, sent, rows, target>>
        /\ pressed' = (IF kind = "child" THEN pressed + 1 ELSE pressed)
    BY <1>6 DEF DetailAnswers
  <2>2. CASE OnScreen /\ row = d /\ kind = "child"
    <3>1. Reprice(FALSE) /\ row' = row
      BY <1>6, <2>2, OfferedAssumption DEF DetailAnswers
    <3>2. PICK new : Dropped(new)
      BY <2>1, <2>2, <3>1, <1>0, RepriceIs
    <3> QED
      BY <2>1, <3>1, <3>2, <1>0, Drops
  <2>3. CASE OnScreen /\ row = d /\ kind = None
    <3>1. Drop /\ row' \in {row, None} /\ pressed' = pressed
      BY <1>6, <2>1, <2>3, OfferedAssumption DEF DetailAnswers
    <3> QED
      BY <2>1, <3>1, <1>0, DropIs, Drops
  <2>4. CASE OnScreen /\ row = d /\ kind # "child" /\ kind # None
    <3>1. UNCHANGED <<row, builds, pending, held, card>>
      BY <1>6, <2>4 DEF DetailAnswers
    <3> QED
      BY <2>1, <3>1, Spares
  <2>5. CASE ~(OnScreen /\ row = d)
    <3>1. UNCHANGED <<row, builds, pending, held, card>>
      BY <1>6, <2>5 DEF DetailAnswers
    <3> QED
      BY <2>1, <3>1, Spares
  <2> QED
    BY <2>2, <2>3, <2>4, <2>5
<1>7. ASSUME NEW b \in builds, NEW ok \in BOOLEAN, HeldAnswers(b, ok) PROVE TxInv' /\ Separate'
  <2>1. /\ builds' = builds \ {b} /\ b.kind # "bump" /\ b \in Offered
        /\ UNCHANGED <<place, pressed, sending, sent, row, rows, target>>
        /\ \/ UNCHANGED <<held, card, pending>>
           \/ Current(b) /\ held' = b /\ card' = b.id /\ pending' = pending \cup {b.id}
    BY <1>7 DEF HeldAnswers, TxInv, TxTypes
  <2>2. Separate'
    BY <2>1, AnswerSeparate
  <2>3. TxTypes'
    BY <2>1 DEF TxInv, TxTypes
  <2>4. CASE UNCHANGED <<held, card, pending>>
    <3>1. OneBuild' /\ Mine'
      BY <2>1, <2>4 DEF TxInv, OneBuild, Mine, IdOf, OnScreen
    <3> QED
      BY <2>2, <2>3, <3>1 DEF TxInv
  <2>5. CASE Current(b) /\ held' = b /\ card' = b.id /\ pending' = pending \cup {b.id}
    <3>1. b # None /\ b.live /\ OnScreen /\ row = b.row
      BY <2>1, <2>5, OfferedAssumption DEF Current
    <3>2. OneBuild'
      BY <2>1, <3>1 DEF TxInv, OneBuild
    <3>3. IdOf(held) = {} /\ IdOf(held') = {b.id}
      BY <2>1, <2>5, <3>1 DEF IdOf, TxInv, OneBuild
    <3>4. \A c \in sending : c.id # b.id
      BY DEF Separate
    <3>5. place' # "closed" => pending' = IdOf(held')
      BY <2>1, <2>5, <3>3 DEF TxInv, Mine
    <3>6. held'.row = row' /\ (held'.kind = "child" => held'.target = target')
      BY <2>1, <2>5, <3>1 DEF TxInv, OneBuild
    <3>7. Mine'
      BY <2>1, <2>5, <3>1, <3>3, <3>4, <3>5, <3>6 DEF Mine, OnScreen
    <3> QED
      BY <2>2, <2>3, <3>2, <3>7 DEF TxInv
  <2> QED
    BY <2>1, <2>4, <2>5
<1>8. ASSUME SendHeld PROVE TxInv' /\ Separate'
  <2> DEFINE call == [id |-> held.id, row |-> row, kind |-> held.kind]
  <2>1. /\ OnScreen /\ held # None /\ held.id \in pending
        /\ held' = None
        /\ pending' = pending \ {held.id} /\ sending' = sending \cup {call}
        /\ UNCHANGED <<place, pressed, sent, row, rows, target, builds, card>>
    BY <1>8 DEF SendHeld, SignAndBroadcast, Call
  <2>2. call \in Calls /\ call.id = held.id /\ call.row = row /\ call.kind # "bump"
    BY <2>1, <1>0 DEF TxInv, TxTypes, Calls, Offered
  <2> HIDE DEF call
  <2>3. TxTypes'
    BY <2>1, <2>2 DEF TxInv, TxTypes
  <2>4. OneBuild'
    BY <2>1 DEF TxInv, OneBuild
  <2>5. Mine'
    <3>1. IdOf(held) = {held.id} /\ IdOf(held') = {} /\ OnScreen'
      BY <2>1 DEF IdOf, OnScreen
    <3>2. place' # "closed" => pending' = IdOf(held')
      BY <2>1, <3>1 DEF TxInv, Mine
    <3>3. card' # None => card' \in {c.id : c \in sending'}
      BY <2>1, <2>2, <3>1 DEF TxInv, Mine
    <3>4. \A c \in sending' : card' = c.id => c.row = row' /\ c.kind # "bump"
      BY <2>1, <2>2 DEF TxInv, Mine
    <3> QED
      BY <2>1, <3>1, <3>2, <3>3, <3>4 DEF Mine
  <2>6. Separate'
    <3>1. Distinct(builds') /\ \A b \in builds' : FreshOrOld(b) /\ b.id # held.id
      BY <2>1 DEF Separate, Distinct, FreshOrOld
    <3>2. \A c \in sending' : c \in sending \/ c.id = held.id
      BY <2>1, <2>2
    <3> QED
      BY <2>1, <3>1, <3>2, SeparateStays
  <2> QED
    BY <2>3, <2>4, <2>5, <2>6 DEF TxInv
<1>9. ASSUME Bump PROVE TxInv' /\ Separate'
  <2> DEFINE new == [id |-> pressed + 1, kind |-> "bump", live |-> TRUE,
                     row |-> row, target |-> target, wakes |-> FALSE]
  <2>1. /\ pressed' = pressed + 1 /\ builds' = builds \cup {new}
        /\ UNCHANGED <<place, pending, sending, sent, row, rows, target, held, card>>
    BY <1>9 DEF Bump, Press
  <2>2. new \in Offered /\ new.id = pressed + 1 /\ new.kind = "bump"
    BY <1>0 DEF Offered
  <2> HIDE DEF new
  <2>3. TxTypes'
    BY <2>1, <2>2 DEF TxInv, TxTypes
  <2>4. OneBuild'
    BY <2>1, <2>2 DEF TxInv, OneBuild
  <2>5. Mine'
    BY <2>1 DEF TxInv, Mine, IdOf, OnScreen
  <2>6. Separate'
    <3>1. \A b \in builds : b.id # new.id
      BY <2>2 DEF Separate
    <3>2. Distinct(builds') /\ \A b \in builds' : FreshOrOld(b)
      BY <2>1, <2>2, <3>1 DEF Separate, Distinct, FreshOrOld
    <3> QED
      BY <2>1, <3>2, SeparateStays
  <2> QED
    BY <2>3, <2>4, <2>5, <2>6 DEF TxInv
<1>10. ASSUME NEW b \in builds, NEW ok \in BOOLEAN, BumpBuilt(b, ok) PROVE TxInv' /\ Separate'
  <2> DEFINE call == [id |-> b.id, row |-> b.row, kind |-> "bump"]
  <2>1. /\ builds' = builds \ {b} /\ b \in Offered
        /\ UNCHANGED <<place, pressed, sent, row, rows, target, held, card>>
        /\ \/ UNCHANGED <<pending, sending>>
           \/ place = "closed" /\ pending' = pending \cup {b.id} /\ UNCHANGED sending
           \/ sending' = sending \cup {call} /\ UNCHANGED pending
    BY <1>10 DEF BumpBuilt, TxInv, TxTypes
  <2>2. call \in Calls /\ call.id = b.id
    BY <2>1 DEF Calls, Offered
  <2> HIDE DEF call
  <2>3. TxTypes' /\ OneBuild'
    BY <2>1, <2>2 DEF TxInv, TxTypes, OneBuild
  <2>4. CASE UNCHANGED sending /\ (UNCHANGED pending \/ (place = "closed" /\ pending' = pending \cup {b.id}))
    <3>1. Mine'
      BY <2>1, <2>4 DEF TxInv, Mine, IdOf, OnScreen
    <3>2. Separate'
      BY <2>1, <2>4, AnswerSeparate
    <3> QED
      BY <2>3, <3>1, <3>2 DEF TxInv
  <2>5. CASE sending' = sending \cup {call} /\ UNCHANGED pending
    <3>1. OnScreen /\ card # None => card # b.id
      <4>1. b.id \notin pending /\ \A c \in sending : c.id # b.id
        BY DEF Separate
      <4> QED
        BY <4>1 DEF TxInv, Mine, OnScreen
    <3>2. b.id # None
      BY <2>1, NoneAssumption DEF Offered
    <3>3. Mine'
      <4>1. OnScreen' => \A c \in sending' : card' = c.id => c.row = row' /\ c.kind # "bump"
        BY <2>1, <2>2, <2>5, <3>1, <3>2 DEF TxInv, Mine, OnScreen
      <4>2. OnScreen' /\ card' # None => card' \in IdOf(held') \cup {c.id : c \in sending'}
        BY <2>1, <2>5 DEF TxInv, Mine, OnScreen, IdOf
      <4> QED
        BY <2>1, <2>5, <4>1, <4>2 DEF TxInv, Mine, OnScreen, IdOf
    <3>4. Separate'
      <4>1. Distinct(builds') /\ \A a \in builds' : FreshOrOld(a) /\ a.id # b.id
        BY <2>1 DEF Separate, Distinct, FreshOrOld
      <4>2. b.id \notin pending
        BY DEF Separate
      <4>3. \A c \in sending' : c \in sending \/ c.id = b.id
        BY <2>2, <2>5
      <4> QED
        BY <2>1, <2>5, <4>1, <4>2, <4>3, SeparateStays
    <3> QED
      BY <2>3, <3>3, <3>4 DEF TxInv
  <2> QED
    BY <2>1, <2>4, <2>5
<1>11. ASSUME NEW c \in sending, OfferSent(c) PROVE TxInv' /\ Separate'
  <2>1. /\ UNCHANGED <<pressed, rows, target>>
        /\ sending' = sending \ {c} /\ sent' = sent \cup {c.id}
    BY <1>11 DEF OfferSent, Settles
  <2>2. CASE OnScreen /\ row = c.row
    <3>1. Dropped({}) /\ row' = None
      BY <1>11, <2>2, DropIs DEF OfferSent
    <3> QED
      BY <2>1, <2>2, <3>1, <1>0, Drops
  <2>3. CASE ~(OnScreen /\ row = c.row)
    <3>1. UNCHANGED <<place, builds, pending, held, card, row>>
      BY <1>11, <2>3 DEF OfferSent
    <3>2. OnScreen /\ card' # None => \A e \in sending \ sending' : e.id # card
      BY <2>1, <2>3, <3>1 DEF TxInv, Mine
    <3> QED
      BY <2>1, <3>1, <3>2, Spares
  <2> QED
    BY <2>2, <2>3
<1>12. ASSUME NEW c \in sending, NEW took \in BOOLEAN, OfferFails(c, took) PROVE TxInv' /\ Separate'
  <2>1. /\ UNCHANGED <<place, row, rows, target>>
        /\ pressed' = (IF c.kind = "child" THEN pressed + 1 ELSE pressed)
        /\ sending' = sending \ {c} /\ sent' = (IF took THEN sent \cup {c.id} ELSE sent)
    BY <1>12 DEF OfferFails, Settles
  <2>2. \A i \in sent' : i \in sent \/ \E e \in sending : e.id = i
    BY <2>1
  <2>3. c.kind \in {"bump", "child", "cancel"}
    BY DEF TxInv, TxTypes, Calls
  <2>4. CASE OnScreen /\ row = c.row /\ c.kind = "child"
    <3>1. Reprice(TRUE) /\ pressed' = pressed + 1
      BY <1>12, <2>1, <2>4 DEF OfferFails, Afresh
    <3>2. PICK new : Dropped(new)
      BY <2>1, <3>1, <1>0, RepriceIs
    <3> QED
      BY <2>1, <2>2, <3>1, <3>2, <1>0, Drops
  <2>5. CASE OnScreen /\ row = c.row /\ c.kind = "cancel" /\ ~OnDesktop
    <3>1. Dropped({}) /\ pressed' = pressed
      BY <1>12, <2>1, <2>5, DropIs DEF OfferFails, Afresh
    <3> QED
      BY <2>1, <2>2, <3>1, <1>0, Drops
  <2>6. CASE OnScreen /\ row = c.row /\ c.kind = "cancel" /\ OnDesktop
    <3>1. card' = None /\ UNCHANGED <<builds, pending, held>> /\ pressed' = pressed
      BY <1>12, <2>1, <2>6 DEF OfferFails, Afresh
    <3> QED
      BY <2>1, <2>2, <3>1, Spares
  <2>7. CASE ~(OnScreen /\ row = c.row) \/ c.kind = "bump"
    <3>1. UNCHANGED <<builds, pending, held, card>>
      BY <1>12, <2>7 DEF OfferFails, Afresh
    <3>2. OnScreen /\ card' # None => \A e \in sending \ sending' : e.id # card
      BY <2>1, <2>7, <3>1 DEF TxInv, Mine
    <3> QED
      BY <2>1, <2>2, <3>1, <3>2, Spares
  <2> QED
    BY <2>3, <2>4, <2>5, <2>6, <2>7
<1>13. ASSUME NEW kind \in {"silent", "asked"}, StartSync(kind) PROVE TxInv' /\ Separate'
  BY <1>13, Spares DEF StartSync, desk
<1>14. ASSUME NEW kind \in syncs, NEW ok \in BOOLEAN, SyncAnswers(kind, ok) PROVE TxInv' /\ Separate'
  <2>1. UNCHANGED <<place, pressed, sending, sent, rows, target>>
    BY <1>14 DEF SyncAnswers
  <2>2. CASE RenderTxs
    <3>1. Dropped({}) /\ row' = None
      BY <2>2, DropIs DEF RenderTxs
    <3> QED
      BY <2>1, <3>1, <1>0, Drops
  <2>3. CASE UNCHANGED <<builds, pending, held, card, row>>
    BY <2>1, <2>3, Spares
  <2> QED
    BY <1>14, <2>2, <2>3 DEF SyncAnswers
<1> QED
  BY <1>1, <1>2, <1>3, <1>4, <1>5, <1>6, <1>7, <1>8, <1>9, <1>10, <1>11, <1>12, <1>13, <1>14
  DEF TxNext, TxAnswers

-----------------------------------------------------------------------------
(* The screens over one map.                                               *)

\* What the screen opened keeps, and that the others are as they began.
Inv ==
    /\ Separate
    /\ CASE screen = "send" -> SendInv /\ Tidy /\ patient \in BOOLEAN
         [] screen = "tx" -> TxInv
         [] screen = "psbt" -> PsbtInv /\ builds = {} /\ pending = {}
         [] OTHER -> TRUE
    /\ screen # "psbt" => review = None
    /\ screen # "send" => drain = None /\ sheet = None

LEMMA InvInit == Init => Inv
<1> SUFFICES ASSUME Init PROVE Inv
  OBVIOUS
<1>1. /\ builds = {} /\ pending = {} /\ sending = {} /\ sent = {} /\ pressed = 0
      /\ patient = TRUE /\ place = "on"
  BY DEF Init, DeskInit
<1>2. Separate
  BY <1>1 DEF Separate, Distinct
<1>3. /\ drain = None /\ sheet = None /\ review = None /\ held = None /\ card = None
      /\ field = Empty /\ read = Empty /\ jobs = {} /\ invalid = FALSE /\ signOn = FALSE
  BY DEF Init, SendInit, PsbtInit, TxInit
<1>4. SendInv
  <2>1. form \in Forms
    <3>1. form \in [ver : {0}, lone : {TRUE}, rate : {1}, chosen : BOOLEAN]
      BY DEF Init, SendInit
    <3>2. form = [ver |-> form.ver, lone |-> form.lone, rate |-> form.rate, chosen |-> form.chosen]
      BY <3>1
    <3>3. form.ver \in Nat /\ form.rate \in Rates /\ form.chosen \in BOOLEAN
      BY <3>1, RatesAssumption
    <3>4. form.lone \in BOOLEAN
      BY <3>1
    <3> QED
      BY <3>2, <3>3, <3>4 DEF Forms
  <2> QED
    BY <1>1, <1>3, <2>1 DEF SendInv, BuildsOfForm, DrainIsCurrent, SheetIsOfThisForm
<1>5. PsbtInv
  BY <1>1, <1>3 DEF PsbtInv, PsbtTypes, FieldIsRead, ReadPatiently, Texts, Refused
<1>6. TxInv
  <2>1. row \in Nat \cup {None} /\ rows \in Nat /\ target \in Targets
    BY DEF Init, TxInit, Targets
  <2>2. pending = IdOf(held)
    BY <1>1, <1>3 DEF IdOf
  <2> QED
    BY <1>1, <1>3, <2>1, <2>2 DEF TxInv, TxTypes, OneBuild, Mine, OnScreen
<1>7. Tidy
  BY <1>1, <1>3 DEF Tidy, IdOf
<1> QED
  BY <1>1, <1>2, <1>3, <1>4, <1>5, <1>6, <1>7 DEF Inv

LEMMA InvNext == Inv /\ [Next]_vars => Inv'
<1> SUFFICES ASSUME Inv, [Next]_vars PROVE Inv'
  OBVIOUS
<1>1. CASE screen = "send" /\ SendNext /\ UNCHANGED <<screen, psbtVars, txVars, feeVars>>
  BY <1>1, SendStep, TidyStep DEF Inv, psbtVars
<1>2. CASE screen = "psbt" /\ PsbtNext /\ UNCHANGED <<screen, sendVars, txVars, feeVars>>
  BY <1>2, PsbtStep, PsbtSeparate DEF Inv, sendVars
<1>3. CASE screen = "tx" /\ TxNext /\ UNCHANGED <<screen, sendVars, psbtVars, feeVars>>
  BY <1>3, TxStep DEF Inv, sendVars, psbtVars
<1>4. CASE screen = "fees" /\ UNCHANGED <<screen, desk, sendVars, psbtVars, txVars>>
  <2>1. Separate'
    BY <1>4, SeparateUnchanged DEF Inv, desk
  <2> QED
    BY <1>4, <2>1 DEF Inv, sendVars, psbtVars
<1>5. CASE UNCHANGED vars
  <2>1. Separate' /\ UNCHANGED <<desk, screen, sendVars, psbtVars, txVars>>
    BY <1>5, SeparateUnchanged DEF Inv, desk, vars
  <2>2. screen = "send" => SendInv' /\ Tidy' /\ patient' \in BOOLEAN
    BY <2>1 DEF Inv, Tidy, IdOf, SendInv, BuildsOfForm, OfForm, DrainIsCurrent, SheetIsOfThisForm, OnScreen, desk, sendVars
  <2>3. screen = "psbt" => PsbtInv' /\ builds' = {} /\ pending' = {}
    BY <2>1 DEF Inv, PsbtInv, PsbtTypes, FieldIsRead, ReadPatiently, OnScreen, desk, psbtVars
  <2>4. screen = "tx" => TxInv'
    BY <2>1 DEF Inv, TxInv, TxTypes, OneBuild, Mine, IdOf, OnScreen, desk, txVars
  <2> QED
    BY <2>1, <2>2, <2>3, <2>4 DEF Inv, sendVars, psbtVars
<1> QED
  BY <1>1, <1>2, <1>3, <1>4, <1>5 DEF Next

LEMMA Invariance == Spec => []Inv
  BY InvInit, InvNext, PTL DEF Spec

-----------------------------------------------------------------------------
(* The values of the variables, screen by screen; what they have together  *)
(* (ids, builds, reviews) is in Inv.                                       *)

DeskTypes ==
    /\ shell \in Shells
    /\ place \in Places
    /\ result \in Nat \cup {None}
    /\ patient \in BOOLEAN

SendTypes ==
    /\ form \in [ver : 0 .. MaxEdits, lone : BOOLEAN, rate : Rates, chosen : BOOLEAN]
    /\ feeFrom \in {"target", "custom"}
    /\ estimate \in {"asked", "known", "failed"}
    /\ reviewOn \in BOOLEAN
    /\ maxOn \in BOOLEAN

FieldTypes ==
    /\ field \in Texts
    /\ read \in Texts
    /\ review \in (Texts \ Refused) \cup {None}
    /\ invalid \in BOOLEAN
    /\ signOn \in BOOLEAN
    /\ sendOn \in BOOLEAN

RowTypes ==
    /\ rows \in 0 .. MaxRows
    /\ row \in (1 .. MaxRows) \cup {None}
    /\ offer \in {None, "replace", "child", "none"}
    /\ syncs \subseteq {"local", "silent", "asked"}
    /\ goOn \in BOOLEAN
    /\ priced \in BOOLEAN
    /\ asking \in BOOLEAN
    /\ listed \in BOOLEAN

FeeTypes ==
    /\ original \in Originals
    /\ market \in Nat
    /\ entered \in Nat
    /\ quote.fee \in Nat
    /\ quote.rate \in Nat
    /\ advised \in BOOLEAN

Types ==
    /\ DeskTypes /\ SendTypes /\ FieldTypes /\ RowTypes /\ FeeTypes
    /\ \A b \in builds : b.live \in BOOLEAN
    /\ screen \in {"send", "tx", "psbt", "fees"}

\* Conjunctions of Boolean values are Boolean.
LEMMA BothBoolean ==
    ASSUME NEW a \in BOOLEAN, NEW b \in BOOLEAN
    PROVE  (a /\ b) \in BOOLEAN /\ (a \/ b) \in BOOLEAN
  OBVIOUS

LEMMA SendTypesStep ==
    ASSUME SendTypes, SendNext
    PROVE  SendTypes'
<1>1. form \in [ver : 0 .. MaxEdits, lone : BOOLEAN, rate : Rates, chosen : BOOLEAN]
  BY DEF SendTypes
<1>2. form' \in [ver : 0 .. MaxEdits, lone : BOOLEAN, rate : Rates, chosen : BOOLEAN]
  <2>1. ASSUME NEW r \in Rates, form' = [form EXCEPT !.rate = r]
        PROVE  form' \in [ver : 0 .. MaxEdits, lone : BOOLEAN, rate : Rates, chosen : BOOLEAN]
    BY <1>1, <2>1
  <2>2. CASE Edit
    <3>1. PICK lone \in BOOLEAN : form' = [form EXCEPT !.ver = @ + 1, !.lone = lone]
      BY <2>2 DEF Edit, Rows
    <3>2. form.ver + 1 \in 0 .. MaxEdits
      BY <1>1, <2>2, SendBoundsAssumption DEF Edit
    <3> QED
      BY <1>1, <3>1, <3>2
  <2>3. CASE LetWalletChoose
    BY <1>1, <2>3 DEF LetWalletChoose
  <2>4. CASE TypeRate \/ ChooseTarget
    <3>1. \E r \in Rates : form' = [form EXCEPT !.rate = r]
      BY <2>4 DEF TypeRate, ChooseTarget
    <3> QED
      BY <2>1, <3>1
  <2>5. CASE EstimateAnswers
    <3>1. form' = form \/ \E r \in Rates : form' = [form EXCEPT !.rate = r]
      BY <2>5, RatesAssumption DEF EstimateAnswers, RateArrives
    <3> QED
      BY <1>1, <2>1, <3>1
  <2>6. CASE form' = form
    BY <1>1, <2>6
  <2> QED
    BY <2>2, <2>3, <2>4, <2>5, <2>6
    DEF SendNext, SendAnswers, Refresh, PressMax, PressReview, ReviewMax, Confirm, ConfirmExpired,
        EditAgain, Leave, MaxAnswers, ReviewAnswers, SendSucceeds, SendFails
<1>3. feeFrom' \in {"target", "custom"} /\ estimate' \in {"asked", "known", "failed"}
  BY DEF SendTypes, SendNext, SendAnswers, Edit, LetWalletChoose, TypeRate, ChooseTarget, Refresh,
         EstimateAnswers, PressMax, PressReview, ReviewMax, Confirm, ConfirmExpired, EditAgain, Leave,
         MaxAnswers, ReviewAnswers, SendSucceeds, SendFails
<1>4. maxOn' \in BOOLEAN
  BY DEF SendTypes, SendNext, SendAnswers, Edit, LetWalletChoose, TypeRate, ChooseTarget, Refresh,
         EstimateAnswers, PressMax, PressReview, ReviewMax, Confirm, ConfirmExpired, EditAgain, Leave,
         MaxAnswers, ReviewAnswers, SendSucceeds, SendFails, Unsent
<1>5. reviewOn' \in BOOLEAN
  BY DEF SendTypes, SendNext, SendAnswers, Edit, LetWalletChoose, TypeRate, ChooseTarget, Refresh,
         EstimateAnswers, RateArrives, PressMax, PressReview, ReviewMax, Confirm, ConfirmExpired, EditAgain,
         Leave, MaxAnswers, ReviewAnswers, SendSucceeds, SendFails, Unsent
<1> QED
  BY <1>2, <1>3, <1>4, <1>5 DEF SendTypes

LEMMA DeskTypesStep ==
    ASSUME DeskTypes, Separate, SendNext \/ PsbtNext \/ TxNext
    PROVE  DeskTypes'
<1>1. shell' = shell
  <2>1. CASE SendNext
    BY <2>1 DEF SendNext, SendAnswers, Edit, LetWalletChoose, TypeRate, ChooseTarget, Refresh, desk,
         EstimateAnswers, PressMax, PressReview, ReviewMax, Confirm, ConfirmExpired, EditAgain, Leave,
         MaxAnswers, ReviewAnswers, SendSucceeds, SendFails
  <2>2. CASE PsbtNext
    BY <2>2 DEF PsbtNext, PsbtAnswers, Type, Fetch, Fetched, ImportAnswers, Sign, Signed, Broadcast,
         BroadcastSucceeds, BroadcastFails, LeavePsbt, psbtRest, desk
  <2>3. CASE TxNext
    BY <2>3 DEF TxNext, TxAnswers, CloseRow, OpenRow, DetailAnswers, EstimateArrives, Retarget, AskCancel,
         CancelPriced, HeldAnswers, KeepIt, SendHeld, SpeedUpAgain, Bump, BumpBuilt, OfferSent, OfferFails,
         StartSync, SyncAnswers, LeaveTx, desk
  <2> QED
    BY <2>1, <2>2, <2>3
<1>2. place' \in {place} \cup Places
  <2>0. "left" \in Places
    BY DEF Places
  <2>1. CASE SendNext
    BY <2>0, <2>1 DEF SendNext, SendAnswers, Edit, LetWalletChoose, TypeRate, ChooseTarget, Refresh, desk,
         EstimateAnswers, PressMax, PressReview, ReviewMax, Confirm, ConfirmExpired, EditAgain, Leave,
         MaxAnswers, ReviewAnswers, SendSucceeds, SendFails, AfterSend, DiscardOnLeave, Goes
  <2>2. CASE PsbtNext
    BY <2>0, <2>2 DEF PsbtNext, PsbtAnswers, Type, Fetch, Fetched, ImportAnswers, Sign, Signed, Broadcast,
         BroadcastSucceeds, BroadcastFails, LeavePsbt, Goes, desk
  <2>3. CASE TxNext
    BY <2>0, <2>3 DEF TxNext, TxAnswers, CloseRow, OpenRow, DetailAnswers, EstimateArrives, Retarget, AskCancel,
         CancelPriced, HeldAnswers, KeepIt, SendHeld, SpeedUpAgain, Bump, BumpBuilt, OfferSent, OfferFails,
         StartSync, SyncAnswers, LeaveTx, Goes, desk
  <2> QED
    BY <2>1, <2>2, <2>3
<1>3. result' = result \/ \E c \in sending : result' = c.id
  <2>1. CASE SendNext
    BY <2>1 DEF SendNext, SendAnswers, Edit, LetWalletChoose, TypeRate, ChooseTarget, Refresh, desk,
         EstimateAnswers, PressMax, PressReview, ReviewMax, Confirm, ConfirmExpired, EditAgain, Leave,
         MaxAnswers, ReviewAnswers, SendSucceeds, SendFails, RecordSent
  <2>2. CASE PsbtNext
    BY <2>2 DEF PsbtNext, PsbtAnswers, Type, Fetch, Fetched, ImportAnswers, Sign, Signed, Broadcast,
         BroadcastSucceeds, BroadcastFails, LeavePsbt, RecordSent, psbtRest, desk
  <2>3. CASE TxNext
    BY <2>3 DEF TxNext, TxAnswers, CloseRow, OpenRow, DetailAnswers, EstimateArrives, Retarget, AskCancel,
         CancelPriced, HeldAnswers, KeepIt, SendHeld, SpeedUpAgain, Bump, BumpBuilt, OfferSent, OfferFails,
         StartSync, SyncAnswers, LeaveTx, RecordSent, desk
  <2> QED
    BY <2>1, <2>2, <2>3
<1>4. patient' = patient \/ \E idle \in BOOLEAN : patient' = (patient /\ idle)
  <2>1. CASE SendNext
    BY <2>1 DEF SendNext, SendAnswers, Edit, LetWalletChoose, TypeRate, ChooseTarget, Refresh, desk,
         EstimateAnswers, PressMax, PressReview, ReviewMax, Confirm, ConfirmExpired, EditAgain, Leave,
         MaxAnswers, ReviewAnswers, SendSucceeds, SendFails, Press, NothingRuns
  <2>2. CASE PsbtNext
    BY <2>2 DEF PsbtNext, PsbtAnswers, Type, Fetch, Fetched, ImportAnswers, Sign, Signed, Broadcast,
         BroadcastSucceeds, BroadcastFails, LeavePsbt, Press, psbtRest, desk
  <2>3. CASE TxNext
    BY <2>3 DEF TxNext, TxAnswers, CloseRow, OpenRow, DetailAnswers, EstimateArrives, Retarget, AskCancel,
         CancelPriced, HeldAnswers, KeepIt, SendHeld, SpeedUpAgain, Bump, BumpBuilt, OfferSent, OfferFails,
         StartSync, SyncAnswers, LeaveTx, Press, desk
  <2> QED
    BY <2>1, <2>2, <2>3
<1>5. result' \in Nat \cup {None}
  BY <1>3 DEF DeskTypes, Separate
<1>6. patient' \in BOOLEAN
  BY <1>4, BothBoolean DEF DeskTypes
<1> QED
  BY <1>1, <1>2, <1>5, <1>6 DEF DeskTypes

LEMMA FieldTypesStep ==
    ASSUME FieldTypes, PsbtInv', FieldIsRead', PsbtNext
    PROVE  FieldTypes'
<1>1. field' \in Texts /\ read' \in Texts /\ review' \in (Texts \ Refused) \cup {None} /\ invalid' \in BOOLEAN
  BY DEF PsbtInv, PsbtTypes, FieldIsRead
<1> DEFINE Fine == signOn' \in BOOLEAN /\ sendOn' \in BOOLEAN
<1>0. signOn \in BOOLEAN /\ sendOn \in BOOLEAN
  BY DEF FieldTypes
<1>2. ASSUME NEW r, Paint(r) PROVE Fine
  BY <1>2, Zenon DEF Paint, Final
<1>3. ASSUME UNCHANGED <<signOn, sendOn>> PROVE Fine
  BY <1>0, <1>3
<1>4. ASSUME NEW t, NEW left, Describe(t, left) PROVE Fine
  BY <1>2, <1>3, <1>4, Zenon DEF Describe
<1>5. Fine
  <2>1. CASE \/ Type
             \/ \E j \in jobs : Fetched(j)
    BY <1>3, <1>4, <2>1, Zenon DEF Type, Fetched
  <2>2. CASE \/ \E kind \in {"paste", "load"} : Fetch(kind)
             \/ LeavePsbt
    BY <1>3, <2>2, Zenon DEF Fetch, LeavePsbt, psbtVars
  <2>3. CASE Sign \/ Broadcast
    BY <1>0, <2>3 DEF Sign, Broadcast
  <2>4. CASE \E j \in jobs : ImportAnswers(j) \/ \E ok \in BOOLEAN : Signed(j, ok)
    BY <1>2, <1>3, <2>4, Zenon DEF ImportAnswers, Signed
  <2>5. CASE \E c \in sending : BroadcastSucceeds(c) \/ \E took \in BOOLEAN : BroadcastFails(c, took)
    BY <1>2, <2>5, Zenon DEF BroadcastSucceeds, BroadcastFails
  <2> QED
    BY <2>1, <2>2, <2>3, <2>4, <2>5, Zenon DEF PsbtNext, PsbtAnswers
<1> QED
  BY <1>1, <1>5 DEF FieldTypes

LEMMA RowTypesStep ==
    ASSUME RowTypes, TxTypes, TxNext
    PROVE  RowTypes'
<1>1. \/ UNCHANGED <<row, rows>>
      \/ row' = None /\ rows' = rows
      \/ rows < MaxRows /\ rows' = rows + 1 /\ row' = rows + 1
  BY DEF TxNext, TxAnswers, CloseRow, OpenRow, DetailAnswers, EstimateArrives, Retarget, AskCancel,
         CancelPriced, HeldAnswers, KeepIt, SendHeld, SpeedUpAgain, Bump, BumpBuilt, OfferSent, OfferFails,
         StartSync, SyncAnswers, LeaveTx, RenderTxs
<1>2. rows' \in 0 .. MaxRows /\ row' \in (1 .. MaxRows) \cup {None}
  BY <1>1, RowsAssumption DEF RowTypes
<1>3. offer' \in {None, "replace", "child", "none"}
  BY DEF RowTypes, TxNext, TxAnswers, CloseRow, OpenRow, DetailAnswers, EstimateArrives, Retarget, AskCancel,
         CancelPriced, HeldAnswers, KeepIt, SendHeld, SpeedUpAgain, Bump, BumpBuilt, OfferSent, OfferFails,
         StartSync, SyncAnswers, LeaveTx, RenderTxs
<1>4. syncs' \subseteq {"local", "silent", "asked"}
  BY DEF RowTypes, TxNext, TxAnswers, CloseRow, OpenRow, DetailAnswers, EstimateArrives, Retarget, AskCancel,
         CancelPriced, HeldAnswers, KeepIt, SendHeld, SpeedUpAgain, Bump, BumpBuilt, OfferSent, OfferFails,
         StartSync, SyncAnswers, LeaveTx
<1>5. priced' \in BOOLEAN
  BY DEF RowTypes, TxNext, TxAnswers, CloseRow, OpenRow, DetailAnswers, EstimateArrives, Retarget, AskCancel,
         CancelPriced, HeldAnswers, KeepIt, SendHeld, SpeedUpAgain, Bump, BumpBuilt, OfferSent, OfferFails,
         StartSync, SyncAnswers, LeaveTx
<1>6. asking' \in BOOLEAN
  BY DEF RowTypes, TxNext, TxAnswers, CloseRow, OpenRow, DetailAnswers, EstimateArrives, Retarget, AskCancel,
         CancelPriced, HeldAnswers, KeepIt, SendHeld, SpeedUpAgain, Bump, BumpBuilt, OfferSent, OfferFails,
         StartSync, SyncAnswers, LeaveTx
<1>7. listed' \in BOOLEAN
  BY DEF RowTypes, TxNext, TxAnswers, CloseRow, OpenRow, DetailAnswers, EstimateArrives, Retarget, AskCancel,
         CancelPriced, HeldAnswers, KeepIt, SendHeld, SpeedUpAgain, Bump, BumpBuilt, OfferSent, OfferFails,
         StartSync, SyncAnswers, LeaveTx
<1>8. goOn' \in BOOLEAN
  <2>1. ASSUME NEW wakes \in BOOLEAN, Reprice(wakes) PROVE goOn' \in BOOLEAN
    BY <2>1 DEF Reprice, RowTypes
  <2>2. \/ \E wakes \in BOOLEAN : Reprice(wakes)
        \/ goOn' = goOn
        \/ goOn' = TRUE
        \/ goOn' = (goOn /\ offer # "child")
        \/ \E b \in builds : goOn' = (goOn \/ (b.wakes /\ b.row = row))
        \/ \E c \in sending : goOn' = (goOn \/ (c.kind = "child" /\ c.row = row))
    BY DEF TxNext, TxAnswers, CloseRow, OpenRow, DetailAnswers, EstimateArrives, Retarget, AskCancel,
         CancelPriced, HeldAnswers, KeepIt, SendHeld, SpeedUpAgain, Bump, BumpBuilt, OfferSent, OfferFails,
         StartSync, SyncAnswers, LeaveTx, Afresh
  <2>3. \A b \in builds : b.wakes \in BOOLEAN
    BY DEF TxTypes, Offered
  <2> QED
    BY <2>1, <2>2, <2>3 DEF RowTypes
<1> QED
  BY <1>2, <1>3, <1>4, <1>5, <1>6, <1>7, <1>8 DEF RowTypes

-----------------------------------------------------------------------------
(* Amounts.                                                                *)

LEMMA UpToAre ==
    ASSUME NEW a \in Nat
    PROVE  CeilDiv(a, 4) \in Nat /\ CeilDiv(a, 100) \in Nat /\ CeilDiv(a, 1000) \in Nat
  BY DEF CeilDiv

LEMMA RateAmounts ==
    ASSUME NEW t \in Originals, NEW rate \in Nat
    PROVE  /\ t.fee \in Nat /\ Vsize(t) \in Nat /\ OwnKwu(t) \in Nat /\ ShownRate(t) \in Nat
           /\ PerKwu(rate) \in Nat /\ Typeable(rate) \in Nat
<1>1. t.fee \in Nat /\ t.weight \in Nat \ {0}
  BY OriginalsAssumption
<1>2. t.fee * 1000 \in Nat
  BY <1>1
<1>3. OwnKwu(t) \in Nat
  BY <1>1, <1>2 DEF OwnKwu
<1>4. ShownRate(t) \in Nat
  BY <1>3 DEF ShownRate
<1>5. Larger(rate, OneSatVb) \in Nat
  BY DEF Larger, OneSatVb
<1>6. Typeable(rate) \in Nat
  <2>1. 100 * CeilDiv(rate, 100) \in Nat
    BY UpToAre
  <2> QED
    BY <2>1 DEF Typeable, Larger, OneSatVb
<1> QED
  BY <1>1, <1>3, <1>4, <1>5, <1>6, UpToAre DEF Vsize, PerKwu

LEMMA OfferAmounts ==
    ASSUME NEW t \in Originals, NEW rate \in Nat
    PROVE  Outbid(rate, t) \in Nat /\ Named(t) \in Nat
<1>1. /\ ShownRate(t) \in Nat /\ OwnKwu(t) \in Nat
      /\ \A r \in Nat : Typeable(r) \in Nat
  BY RateAmounts
<1>2. Larger(rate, IF ShownRate(t) > 0 THEN ShownRate(t) + OneSatVb ELSE 0) \in Nat
  BY <1>1 DEF Larger, OneSatVb
<1>3. 4 * RequiredKwu(t) \in Nat
  BY <1>1 DEF RequiredKwu, Minimum
<1> QED
  BY <1>1, <1>2, <1>3 DEF Outbid, Named

LEMMA FeeAmounts ==
    ASSUME NEW t \in Originals, NEW rate \in Nat, NEW vsize \in Sizes
    PROVE  CancelFee(t, rate, vsize) \in Nat /\ ChildFee(t, rate, vsize) \in Nat
<1>1. /\ t.fee \in Nat /\ Vsize(t) \in Nat /\ PerKwu(rate) \in Nat /\ vsize \in Nat
  BY RateAmounts, SizesAssumption
<1>2. ASSUME NEW kwu \in Nat, NEW size \in Nat PROVE FeeAt(kwu, size) \in Nat
  <2>1. kwu * size * 4 \in Nat
    OBVIOUS
  <2> QED
    BY <2>1, UpToAre DEF FeeAt
<1>3. /\ FeeAt(PerKwu(rate), vsize) \in Nat
      /\ FeeAt(Minimum, vsize) \in Nat
      /\ FeeAt(PerKwu(rate), Vsize(t) + vsize) \in Nat
  <2>1. Minimum \in Nat /\ Vsize(t) + vsize \in Nat
    BY <1>1 DEF Minimum
  <2> QED
    BY <1>1, <1>2, <2>1
<1> QED
  BY <1>1, <1>3 DEF CancelFee, ChildFee, Larger

LEMMA FeeTypesStep ==
    ASSUME FeeTypes, FeesNext
    PROVE  FeeTypes'
<1>0. /\ original \in Originals /\ market \in Nat /\ entered \in Nat
      /\ Outbid(market, original) \in Nat /\ Named(original) \in Nat
      /\ \A r \in Asked : r \in Nat
  BY OfferAmounts, AskedAssumption DEF FeeTypes
<1>1. ASSUME NEW rate \in Asked, Estimated(rate) \/ EnterRate(rate) PROVE FeeTypes'
  BY <1>0, <1>1 DEF FeeTypes, Estimated, EnterRate
<1>2. CASE Prefill \/ EnterNamed
  BY <1>0, <1>2 DEF FeeTypes, Prefill, EnterNamed
<1>3. ASSUME NEW q, Quotes(q), q.fee \in Nat, q.rate \in Nat PROVE FeeTypes'
  BY <1>3 DEF FeeTypes, Quotes
<1>4. CASE PressBump
  BY <1>0, <1>3, <1>4 DEF PressBump, Quote
<1>5. ASSUME NEW vsize \in Sizes, PressCancel(vsize) PROVE FeeTypes'
  <2>1. CancelFee(original, Outbid(market, original), vsize) \in Nat
    BY <1>0, FeeAmounts
  <2> QED
    BY <1>0, <1>3, <1>5, <2>1 DEF PressCancel, Quote
<1>6. ASSUME NEW vsize \in Sizes, SpeedUp(vsize) PROVE FeeTypes'
  <2>1. PICK rate \in {Outbid(market, original)} \cup (IF entered > 0 /\ ~advised THEN {Typeable(entered)} ELSE {}) :
           Quotes(Quote("child", rate, vsize, ChildFee(original, rate, vsize)))
    BY <1>6 DEF SpeedUp
  <2>2. rate \in Nat
    BY <1>0, <2>1, RateAmounts
  <2>3. ChildFee(original, rate, vsize) \in Nat
    BY <1>0, <2>2, FeeAmounts
  <2> QED
    BY <1>3, <2>1, <2>2, <2>3 DEF Quote
<1> QED
  BY <1>1, <1>2, <1>4, <1>5, <1>6 DEF FeesNext

LEMMA TypesInit == Init => Types
<1> SUFFICES ASSUME Init PROVE Types
  OBVIOUS
<1>1. DeskTypes /\ builds = {}
  BY DEF Init, DeskInit, DeskTypes, Places
<1>2. SendTypes
  <2>1. form \in [ver : {0}, lone : {TRUE}, rate : {1}, chosen : BOOLEAN]
    BY DEF Init, SendInit
  <2>2. 0 \in 0 .. MaxEdits /\ 1 \in Rates
    BY SendBoundsAssumption, RatesAssumption
  <2>3. form \in [ver : 0 .. MaxEdits, lone : BOOLEAN, rate : Rates, chosen : BOOLEAN]
    BY <2>1, <2>2
  <2> QED
    BY <2>3 DEF Init, SendInit, SendTypes
<1>3. FieldTypes
  BY DEF Init, PsbtInit, FieldTypes, Texts, Refused
<1>4. RowTypes
  <2>1. rows \in 0 .. MaxRows
    BY RowsAssumption DEF Init, TxInit
  <2>2. row \in (1 .. MaxRows) \cup {None}
    BY RowsAssumption DEF Init, TxInit
  <2>3. offer = None /\ syncs \subseteq {"local", "silent", "asked"}
    BY DEF Init, TxInit
  <2>4. goOn = TRUE /\ priced = FALSE /\ asking = FALSE /\ listed = FALSE
    BY DEF Init, TxInit
  <2> QED
    BY <2>1, <2>2, <2>3, <2>4 DEF RowTypes
<1>5. FeeTypes
  BY DEF Init, FeesInit, FeeTypes, Nothing, Quote
<1> QED
  BY <1>1, <1>2, <1>3, <1>4, <1>5 DEF Types, Init

LEMMA TypesNext == Inv /\ Inv' /\ Types /\ [Next]_vars => Types'
<1> SUFFICES ASSUME Inv, Inv', Types, [Next]_vars PROVE Types'
  OBVIOUS
<1>0. /\ DeskTypes /\ SendTypes /\ FieldTypes /\ RowTypes /\ FeeTypes
      /\ screen \in {"send", "tx", "psbt", "fees"} /\ Separate
  BY DEF Types, Inv
<1>1. screen' = screen
  BY DEF Next, vars
<1>2. DeskTypes'
  <2>1. CASE UNCHANGED desk
    BY <1>0, <2>1 DEF DeskTypes, desk
  <2>2. CASE SendNext \/ PsbtNext \/ TxNext
    BY <1>0, <2>2, DeskTypesStep
  <2> QED
    BY <2>1, <2>2 DEF Next, vars
<1>3. SendTypes'
  <2>1. CASE UNCHANGED sendVars
    BY <1>0, <2>1 DEF SendTypes, sendVars
  <2> QED
    BY <1>0, <2>1, SendTypesStep DEF Next, vars
<1>4. FieldTypes'
  <2>1. CASE UNCHANGED psbtVars
    BY <1>0, <2>1 DEF FieldTypes, psbtVars
  <2>2. CASE screen = "psbt" /\ PsbtNext
    <3>1. PsbtInv' /\ FieldIsRead'
      BY <1>1, <2>2 DEF Inv, PsbtInv
    <3> QED
      BY <1>0, <2>2, <3>1, FieldTypesStep
  <2> QED
    BY <2>1, <2>2 DEF Next, vars
<1>5. RowTypes'
  <2>1. CASE UNCHANGED txVars
    BY <1>0, <2>1 DEF RowTypes, txVars
  <2>2. CASE screen = "tx" /\ TxNext
    BY <1>0, <2>2, RowTypesStep DEF Inv, TxInv
  <2> QED
    BY <2>1, <2>2 DEF Next, vars
<1>6. FeeTypes'
  <2>1. CASE UNCHANGED feeVars
    BY <1>0, <2>1 DEF FeeTypes, feeVars
  <2> QED
    BY <1>0, <2>1, FeeTypesStep DEF Next, vars
<1>7. \A b \in builds' : b.live \in BOOLEAN
  <2>1. CASE screen = "send"
    BY <1>1, <2>1 DEF Inv, SendInv, BuildsOfForm, SendBuilds
  <2>2. CASE screen = "tx"
    BY <1>1, <2>2 DEF Inv, TxInv, TxTypes, Offered
  <2>3. CASE screen = "psbt"
    BY <1>1, <2>3 DEF Inv
  <2>4. CASE screen = "fees"
    BY <1>0, <2>4 DEF Types, Next, vars, desk
  <2> QED
    BY <1>0, <2>1, <2>2, <2>3, <2>4
<1> QED
  BY <1>0, <1>1, <1>2, <1>3, <1>4, <1>5, <1>6, <1>7 DEF Types

-----------------------------------------------------------------------------
(* What a disabled button waits for.                                       *)

Runs(kind) == \E b \in builds : b.kind = kind

\* Send: Review's and Max's buttons wait for their build, or Max's for the
\* desktop's Review to go; a Review being sent is; and none outlives its screen.
SendOwed ==
    /\ ~reviewOn => Runs("review")
    /\ OnScreen /\ ~maxOn => (Desktop /\ sheet # None) \/ Runs("max")
    /\ sheet # None /\ sheet.busy => \E c \in sending : c.id = sheet.id
    /\ ~OnScreen => sheet = None

LEMMA StaledRuns ==
    ASSUME NEW kinds, NEW kind, \A b \in builds : b \in SendBuilds
    PROVE  Runs(kind) => \E b \in Staled(kinds) : b.kind = kind
<1> DEFINE S(a) == IF a.kind \in kinds THEN [a EXCEPT !.live = FALSE] ELSE a
<1>1. ASSUME NEW a \in builds PROVE S(a).kind = a.kind
  BY DEF SendBuilds
<1>2. Staled(kinds) = {S(a) : a \in builds}
  BY DEF Staled
<1> HIDE DEF S
<1> QED
  BY <1>1, <1>2 DEF Runs

\* What moves the form on, or starts a build, on this screen.
LEMMA MovesOwed ==
    ASSUME SendOwed, SendInv, NEW kinds, NEW new, UNCHANGED <<shell, place, sending>>,
           builds' = Staled(kinds) \cup new,
           sheet' = sheet \/ (~Desktop /\ sheet' = None),
           reviewOn' \/ UNCHANGED reviewOn,
           maxOn' = maxOn \/ maxOn' \/ (\E n \in new : n.kind = "max")
    PROVE  SendOwed'
<1>1. \A kind : Runs(kind) => Runs(kind)'
  BY StaledRuns DEF Runs, SendInv, BuildsOfForm
<1>2. OnScreen' = OnScreen /\ Desktop' = Desktop
  BY DEF OnScreen, Desktop
<1>3. (\E n \in new : n.kind = "max") => Runs("max")'
  BY DEF Runs
<1> QED
  BY <1>1, <1>2, <1>3 DEF SendOwed

LEMMA SendOwedStep ==
    ASSUME SendOwed, SendInv, SendNext
    PROVE  SendOwed'
<1>0. /\ \A b \in builds : b \in SendBuilds
      /\ sheet # None => sheet \in Sheets
  BY DEF SendInv, BuildsOfForm
<1>1. ASSUME Edit \/ LetWalletChoose \/ TypeRate \/ ChooseTarget PROVE SendOwed'
  <2>1. /\ UNCHANGED <<shell, place, sending, maxOn>>
        /\ reviewOn' \/ UNCHANGED reviewOn
        /\ MovesOn({})
    BY <1>1 DEF Edit, LetWalletChoose, TypeRate, ChooseTarget
  <2> QED
    BY <2>1, MovesOwed DEF MovesOn
<1>2. ASSUME PressMax PROVE SendOwed'
  <2>1. /\ UNCHANGED <<shell, place, sending>>
        /\ reviewOn' \/ UNCHANGED reviewOn
        /\ MovesOn({NewBuild("max")})
    BY <1>2 DEF PressMax
  <2>2. NewBuild("max").kind = "max"
    BY DEF NewBuild
  <2> QED
    BY <2>1, <2>2, MovesOwed DEF MovesOn
<1>3. ASSUME Refresh \/ EstimateAnswers PROVE SendOwed'
  <2>1. /\ UNCHANGED <<shell, place, sending, maxOn, sheet>>
        /\ reviewOn' \/ UNCHANGED reviewOn
        /\ builds' = builds \/ \E kinds : builds' = Staled(kinds)
    BY <1>3 DEF Refresh, EstimateAnswers, RateArrives, LeaveDrain, desk
  <2>2. CASE builds' = builds
    BY <2>1, <2>2 DEF SendOwed, Runs, OnScreen, Desktop
  <2>3. CASE \E kinds : builds' = Staled(kinds)
    <3>1. PICK kinds : builds' = Staled(kinds) \cup {}
      BY <2>3
    <3> QED
      BY <2>1, <3>1, MovesOwed
  <2> QED
    BY <2>1, <2>2, <2>3
<1>4. ASSUME PressReview PROVE SendOwed'
  <2>1. /\ NewBuild("review") \in builds' /\ NewBuild("review").kind = "review"
        /\ builds' = builds \cup {NewBuild("review")} \/ \E kinds : builds' = Staled(kinds) \cup {NewBuild("review")}
        /\ UNCHANGED <<shell, place, sending, maxOn, sheet>>
    BY <1>4 DEF PressReview, NewBuild
  <2>2. Runs("review")' /\ (Runs("max") => Runs("max")')
    BY <2>1, <1>0, StaledRuns DEF Runs
  <2> QED
    BY <2>1, <2>2 DEF SendOwed, OnScreen, Desktop
<1>5. ASSUME ReviewMax PROVE SendOwed'
  <2>1. /\ OnScreen /\ UNCHANGED <<shell, place, builds, reviewOn>>
        /\ sheet' = Shown(drain)
        /\ maxOn' = maxOn \/ Desktop
    BY <1>5 DEF ReviewMax
  <2>2. drain \in Previews
    BY <1>5 DEF ReviewMax, SendInv
  <2>3. Shown(drain) \in Sheets /\ Shown(drain).busy = FALSE
    BY <2>2 DEF Shown, Sheets, Previews
  <2> QED
    BY <2>1, <2>3, PreviewsAssumption DEF SendOwed, Runs, OnScreen, Desktop
<1>13. ASSUME Confirm PROVE SendOwed'
  <2>1. /\ OnScreen /\ UNCHANGED <<shell, place, builds, reviewOn, maxOn>>
        /\ sheet \in Sheets /\ sheet' = [sheet EXCEPT !.busy = TRUE]
        /\ sending' = sending \cup {[id |-> sheet.id]}
    BY <1>13, <1>0 DEF Confirm, SignAndBroadcast
  <2>2. sheet' \in Sheets /\ \E c \in sending' : c.id = sheet'.id
    BY <2>1 DEF Sheets
  <2> QED
    BY <2>1, <2>2, PreviewsAssumption DEF SendOwed, Runs, OnScreen, Desktop
<1>6. ASSUME EditAgain PROVE SendOwed'
  <2>1. CASE Desktop
    <3>1. sheet' = None /\ maxOn' /\ reviewOn'
      BY <1>6, <2>1 DEF EditAgain
    <3> QED
      BY <3>1 DEF SendOwed
  <2>2. CASE ~Desktop
    <3>1. /\ UNCHANGED <<shell, place, sending, maxOn, reviewOn>>
          /\ builds' = Staled({"review"}) \cup {} /\ sheet' = None
      BY <1>6, <2>2 DEF EditAgain, ClearPreview
    <3> QED
      BY <3>1, <2>2, MovesOwed
  <2> QED
    BY <2>1, <2>2
<1>7. ASSUME Leave PROVE SendOwed'
  <2>1. /\ ~OnScreen' /\ sheet' = None /\ UNCHANGED reviewOn
        /\ \E kinds : builds' = Staled(kinds)
    BY <1>7 DEF Leave, DiscardOnLeave, Goes, OnScreen
  <2>2. Runs("review") => Runs("review")'
    BY <2>1, <1>0, StaledRuns DEF Runs
  <2> QED
    BY <2>1, <2>2 DEF SendOwed
\* A Confirm that failed, at once or when its broadcast did.
<1>8. ASSUME UNCHANGED <<shell, place>>, NEW held1, NEW max, Unsent(held1, max) PROVE SendOwed'
  <2>1. CASE Desktop /\ OnScreen
    <3>1. sheet' = None /\ maxOn' /\ reviewOn'
      BY <1>8, <2>1 DEF Unsent
    <3> QED
      BY <1>8, <2>1, <3>1 DEF SendOwed, OnScreen
  <2>2. CASE Desktop /\ ~OnScreen
    <3>1. UNCHANGED <<sheet, maxOn, reviewOn, builds>>
      BY <1>8, <2>2 DEF Unsent
    <3> QED
      BY <1>8, <2>2, <3>1 DEF SendOwed, OnScreen, Runs
  <2>3. CASE ~Desktop
    <3>1. builds' = Staled({"review"}) /\ sheet' = None /\ UNCHANGED <<maxOn, reviewOn>>
      BY <1>8, <2>3 DEF Unsent
    <3>2. \A kind : Runs(kind) => Runs(kind)'
      BY <3>1, <1>0, StaledRuns DEF Runs
    <3> QED
      BY <1>8, <2>3, <3>1, <3>2 DEF SendOwed, OnScreen, Desktop
  <2> QED
    BY <2>1, <2>2, <2>3
<1>9. ASSUME ConfirmExpired \/ \E c \in sending, took \in BOOLEAN : SendFails(c, took) PROVE SendOwed'
  BY <1>8, <1>9, Zenon DEF ConfirmExpired, SendFails
<1>10. ASSUME NEW c \in sending, SendSucceeds(c) PROVE SendOwed'
  <2>1. UNCHANGED <<reviewOn, maxOn>> /\ AfterSend(c)
    BY <1>10 DEF SendSucceeds
  <2>2. CASE OnScreen
    <3>1. ~OnScreen' /\ sheet' = None /\ \E kinds : builds' = Staled(kinds)
      BY <2>1, <2>2 DEF AfterSend, OnScreen
    <3>2. Runs("review") => Runs("review")'
      BY <3>1, <1>0, StaledRuns DEF Runs
    <3> QED
      BY <2>1, <3>1, <3>2 DEF SendOwed
  <2>3. CASE ~OnScreen
    BY <2>1, <2>3 DEF SendOwed, AfterSend, OnScreen, Runs
  <2> QED
    BY <2>2, <2>3
\* A build answers: its button, and no other, is enabled again.
<1>11. ASSUME NEW b \in builds, NEW ok \in BOOLEAN, MaxAnswers(b, ok) PROVE SendOwed'
  <2>1. /\ maxOn'
        /\ reviewOn' \/ UNCHANGED reviewOn
        /\ builds' = builds \ {b} /\ b.kind = "max"
        /\ UNCHANGED <<place, sending, sheet>>
    BY <1>11 DEF MaxAnswers
  <2>2. Runs("review") => Runs("review")'
    BY <2>1 DEF Runs
  <2> QED
    BY <2>1, <2>2 DEF SendOwed, OnScreen
<1>12. ASSUME NEW b \in builds, NEW ok \in BOOLEAN, ReviewAnswers(b, ok) PROVE SendOwed'
  <2>1. /\ reviewOn' /\ builds' = builds \ {b} /\ b.kind = "review"
        /\ UNCHANGED <<shell, place, sending>>
    BY <1>12 DEF ReviewAnswers
  <2>2. Runs("max") => Runs("max")'
    BY <2>1 DEF Runs
  <2>3. CASE ok /\ Counts(b)
    <3>1. /\ OnScreen /\ sheet' = Shown(b)
          /\ maxOn' = (IF Desktop THEN FALSE ELSE maxOn)
      BY <1>12, <2>3 DEF ReviewAnswers, Counts
    <3>2. b \in SendBuilds
      BY <1>0
    <3>3. Shown(b) \in Sheets /\ Shown(b).busy = FALSE
      BY <3>2 DEF Shown, Sheets, SendBuilds
    <3> QED
      BY <2>1, <2>2, <3>1, <3>3, PreviewsAssumption DEF SendOwed, OnScreen, Desktop
  <2>4. CASE ~(ok /\ Counts(b))
    BY <1>12, <2>1, <2>2, <2>4 DEF ReviewAnswers, SendOwed, OnScreen, Desktop
  <2> QED
    BY <2>3, <2>4
<1> QED
  BY <1>1, <1>2, <1>3, <1>4, <1>5, <1>6, <1>7, <1>9, <1>10, <1>11, <1>12, <1>13 DEF SendNext, SendAnswers

\* Import PSBT: Sign waits for its signature and Broadcast for its broadcast.
PsbtOwed ==
    /\ review # None /\ ~Final(review) /\ ~signOn => \E j \in jobs : j.kind = "sign"
    /\ Final(review) /\ ~sendOn => sending # {}

LEMMA PsbtOwedStep ==
    ASSUME PsbtOwed, PsbtInv, PsbtNext
    PROVE  PsbtOwed'
<1> DEFINE Signs(S) == \E j \in S : j.kind = "sign"
<1>0. \A j \in jobs : j \in Jobs
  BY DEF PsbtInv, PsbtTypes, JobIs
\* Both buttons follow the review that has just been drawn.
<1>1. ASSUME Paint(review') PROVE PsbtOwed'
  BY <1>1, Zenon DEF Paint, PsbtOwed, Final
<1>2. ASSUME UNCHANGED <<review, signOn, sendOn>>, Signs(jobs) => Signs(jobs'), sending \subseteq sending'
      PROVE  PsbtOwed'
  <2>1. Final(review') = Final(review)
    BY <1>2 DEF Final
  <2>2. sending # {} => sending' # {}
    BY <1>2
  <2> QED
    BY <1>2, <2>1, <2>2, Zenon DEF PsbtOwed
\* A read moved on from is still the read it was.
<1>3. ASSUME NEW left \in SUBSET jobs PROVE Signs(left) => Signs({[j EXCEPT !.live = FALSE] : j \in left})
  <2>1. \A j \in left : [j EXCEPT !.live = FALSE].kind = j.kind
    BY <1>0 DEF Jobs
  <2> QED
    BY <2>1
<1>4. ASSUME NEW t, NEW left \in SUBSET jobs, Signs(jobs) => Signs(left), Describe(t, left), UNCHANGED sending
      PROVE  PsbtOwed'
  <2>1. CASE t = read
    BY <1>2, <1>4, <2>1 DEF Describe
  <2>2. CASE t # read
    BY <1>1, <1>4, <2>2 DEF Describe
  <2> QED
    BY <2>1, <2>2
<1>5. ASSUME Type PROVE PsbtOwed'
  <2>1. (\E t : Describe(t, jobs)) /\ UNCHANGED sending
    BY <1>5 DEF Type, psbtRest
  <2> QED
    BY <1>4, <2>1
<1>6. ASSUME NEW kind \in {"paste", "load"}, Fetch(kind) PROVE PsbtOwed'
  <2>1. UNCHANGED <<review, signOn, sendOn, sending>> /\ Behind \subseteq jobs'
    BY <1>6 DEF Fetch, psbtRest
  <2> QED
    BY <1>2, <1>3, <2>1 DEF Behind
<1>7. ASSUME NEW j \in jobs, Fetched(j) PROVE PsbtOwed'
  <2>1. UNCHANGED sending /\ (Signs(jobs) => Signs(jobs \ {j}))
    BY <1>7 DEF Fetched, desk
  <2>2. CASE \E t : Describe(t, jobs \ {j})
    BY <1>4, <2>1, <2>2
  <2>3. CASE jobs' = jobs \ {j} /\ UNCHANGED <<field, read, review, invalid, signOn, sendOn>>
    BY <1>2, <2>1, <2>3
  <2> QED
    BY <1>7, <2>2, <2>3 DEF Fetched
<1>8. ASSUME NEW j \in jobs, ImportAnswers(j) PROVE PsbtOwed'
  <2>1. UNCHANGED sending /\ jobs' = jobs \ {j} /\ (Signs(jobs) => Signs(jobs'))
    BY <1>8 DEF ImportAnswers, desk
  <2>2. Paint(review') \/ UNCHANGED <<review, signOn, sendOn>>
    BY <1>8, Zenon DEF ImportAnswers
  <2> QED
    BY <1>1, <1>2, <2>1, <2>2
<1>9. ASSUME Sign PROVE PsbtOwed'
  <2>1. /\ UNCHANGED <<review, sendOn, sending>>
        /\ [id |-> pressed + 1, kind |-> "sign", live |-> TRUE, text |-> review] \in jobs'
    BY <1>9 DEF Sign, psbtRest
  <2>2. Signs(jobs')
    BY <2>1
  <2>3. Final(review') = Final(review)
    BY <2>1 DEF Final
  <2> QED
    BY <2>1, <2>2, <2>3, Zenon DEF PsbtOwed
<1>10. ASSUME NEW j \in jobs, NEW ok \in BOOLEAN, Signed(j, ok) PROVE PsbtOwed'
  <2>1. Paint(review')
    BY <1>10, Zenon DEF Signed
  <2> QED
    BY <1>1, <2>1
<1>11. ASSUME Broadcast PROVE PsbtOwed'
  <2>1. UNCHANGED <<review, signOn, jobs>> /\ sending' # {}
    BY <1>11 DEF Broadcast
  <2>2. Final(review') = Final(review)
    BY <2>1 DEF Final
  <2> QED
    BY <2>1, <2>2, Zenon DEF PsbtOwed
<1>12. ASSUME \E c \in sending : BroadcastSucceeds(c) \/ \E took \in BOOLEAN : BroadcastFails(c, took)
       PROVE  PsbtOwed'
  <2>1. Paint(review) /\ review' = review
    BY <1>12 DEF BroadcastSucceeds, BroadcastFails
  <2> QED
    BY <1>1, <2>1
<1>13. ASSUME LeavePsbt PROVE PsbtOwed'
  BY <1>2, <1>13 DEF LeavePsbt, psbtRest, psbtVars
<1> QED
  BY <1>5, <1>6, <1>7, <1>8, <1>9, <1>10, <1>11, <1>12, <1>13 DEF PsbtNext, PsbtAnswers

\* The offers: a row is numbered once, what is built for it or sent from it
\* comes after its detail was read, and is of the kind it offers.
RowsKept ==
    /\ row \in (1 .. rows) \cup {None}
    /\ loads \subseteq 1 .. rows
    /\ \A x \in builds \cup sending : x.row \in (1 .. rows) \ loads
    /\ offer # None => row # None
    /\ row \in loads => offer = None /\ goOn
    /\ asking /\ OnScreen => offer = "replace" /\ ~OnDesktop
    /\ ~OnDesktop => syncs = {}
    /\ \A b \in builds : b.kind = "bump" => ~b.wakes
    /\ \A b \in builds : b.kind = "cancel" /\ b.row = row => offer = "replace"
    /\ held # None /\ held.kind = "cancel" => offer = "replace"

\* Speed up waits for a build that will enable it, or for its broadcast.
Woken == \/ \E b \in builds : b.wakes /\ b.row = row
         \/ \E c \in sending : c.kind = "child" /\ c.row = row
GoOnOwed == OnScreen /\ offer = "child" /\ ~goOn => Woken

LEMMA OutdatedKeeps ==
    ASSUME builds \subseteq Offered
    PROVE  /\ \A b \in Outdated : \E a \in builds : b.row = a.row /\ b.kind = a.kind /\ b.wakes = a.wakes
           /\ \A a \in builds : \E b \in Outdated : b.row = a.row /\ b.kind = a.kind /\ b.wakes = a.wakes
<1> DEFINE S(a) == IF a.kind = "bump" THEN a ELSE [a EXCEPT !.live = FALSE]
<1>1. ASSUME NEW a \in builds PROVE S(a).row = a.row /\ S(a).kind = a.kind /\ S(a).wakes = a.wakes
  BY DEF Offered
<1>2. Outdated = {S(a) : a \in builds}
  BY DEF Outdated
<1> HIDE DEF S
<1> QED
  BY <1>1, <1>2

\* What a step may build and send while the row stays open.
LEMMA RowsStay ==
    ASSUME RowsKept, UNCHANGED <<shell, row, rows, loads, offer>>,
           OnScreen' => OnScreen,
           row \in loads => (goOn => goOn'),
           asking' => asking \/ (offer = "replace" /\ ~OnDesktop),
           syncs' \subseteq syncs \/ OnDesktop,
           \A b \in builds' : \/ \E a \in builds : b.row = a.row /\ b.kind = a.kind /\ b.wakes = a.wakes
                              \/ /\ b.row = row /\ offer # None
                                 /\ b.kind = "bump" => ~b.wakes
                                 /\ b.kind = "cancel" => offer = "replace",
           \A c \in sending' : \/ c \in sending \/ \E b \in builds : c.row = b.row
                               \/ c.row = row /\ offer # None,
           held' # None => held' = held \/ (held'.kind = "cancel" => offer = "replace")
    PROVE  RowsKept'
<1>0. offer # None => row \in (1 .. rows) \ loads
  BY DEF RowsKept
<1>1. OnDesktop' = OnDesktop
  BY DEF OnDesktop
<1>2. \A x \in builds' \cup sending' : x.row \in (1 .. rows) \ loads
  BY <1>0 DEF RowsKept
<1>3. /\ \A b \in builds' : b.kind = "bump" => ~b.wakes
      /\ \A b \in builds' : b.kind = "cancel" /\ b.row = row => offer = "replace"
  BY DEF RowsKept
<1>4. held' # None /\ held'.kind = "cancel" => offer = "replace"
  BY DEF RowsKept
<1>5. asking' /\ OnScreen' => offer = "replace" /\ ~OnDesktop
  BY DEF RowsKept
<1>6. ~OnDesktop => syncs' = {}
  BY DEF RowsKept
<1> QED
  BY <1>1, <1>2, <1>3, <1>4, <1>5, <1>6 DEF RowsKept

\* The row is closed, with what is held for it.
LEMMA RowsGo ==
    ASSUME RowsKept, builds \subseteq Offered, UNCHANGED <<shell, rows, asking>>,
           row' = None, offer' = None, held' = None,
           builds' = Outdated, sending' \subseteq sending, loads' \subseteq loads,
           OnScreen' => OnScreen /\ OnDesktop,
           syncs' \subseteq syncs
    PROVE  RowsKept'
<1>1. OnDesktop' = OnDesktop
  BY DEF OnDesktop
<1>2. \A b \in builds' : \E a \in builds : b.row = a.row /\ b.kind = a.kind /\ b.wakes = a.wakes
  BY OutdatedKeeps
<1>3. \A x \in builds' \cup sending' : x.row \in (1 .. rows) \ loads'
  BY <1>2 DEF RowsKept
<1>4. row' \notin 1 .. rows
  BY NoneAssumption
<1>5. row' \notin loads' /\ loads' \subseteq 1 .. rows
  BY <1>4 DEF RowsKept
<1>6. \A b \in builds' : b.row # row' /\ (b.kind = "bump" => ~b.wakes)
  BY <1>2, <1>3, <1>4 DEF RowsKept
<1>7. ~(asking' /\ OnScreen') /\ (~OnDesktop' => syncs' = {})
  BY <1>1 DEF RowsKept
<1> QED
  BY <1>3, <1>5, <1>6, <1>7 DEF RowsKept

\* What waits keeps waiting, or is done.
LEMMA WokenStays ==
    ASSUME GoOnOwed,
           OnScreen' /\ offer' = "child" => OnScreen /\ UNCHANGED <<row, offer>>,
           goOn => goOn',
           \A a \in builds : a.wakes /\ a.row = row => goOn' \/ \E b \in builds' : b.wakes /\ b.row = row,
           \A c \in sending : c.kind = "child" /\ c.row = row => goOn' \/ c \in sending'
    PROVE  GoOnOwed'
  BY DEF GoOnOwed, Woken

LEMMA RepriceKeeps ==
    ASSUME NEW wakes \in BOOLEAN, Reprice(wakes), builds \subseteq Offered
    PROVE  /\ held' = None
           /\ \A b \in builds' : \/ \E a \in builds : b.row = a.row /\ b.kind = a.kind /\ b.wakes = a.wakes
                                 \/ b.row = row /\ b.kind = "child"
           /\ \A a \in builds : \E b \in builds' : b.row = a.row /\ b.wakes = a.wakes
           /\ \/ goOn' \/ (~wakes /\ (goOn => goOn'))
              \/ wakes /\ \E b \in builds' : b.wakes /\ b.row = row
<1>1. CASE Hold("child", wakes) /\ goOn' = (~wakes /\ goOn)
  <2>1. PICK n : /\ n = [id |-> pressed', kind |-> "child", live |-> TRUE,
                         row |-> row, target |-> target', wakes |-> wakes]
                 /\ builds' = Outdated \cup {n} /\ held' = None
    BY <1>1 DEF Hold
  <2>2. n.row = row /\ n.kind = "child" /\ n.wakes = wakes
    BY <2>1
  <2> QED
    BY <1>1, <2>1, <2>2, OutdatedKeeps
<1>2. CASE Drop /\ goOn' = (wakes \/ goOn)
  <2>1. builds' = Outdated /\ held' = None
    BY <1>2 DEF Drop
  <2> QED
    BY <1>2, <2>1, OutdatedKeeps
<1> QED
  BY <1>1, <1>2 DEF Reprice

LEMMA TxOwedStep ==
    ASSUME RowsKept, GoOnOwed, TxInv, goOn \in BOOLEAN, rows \in Nat, TxNext
    PROVE  RowsKept' /\ GoOnOwed'
<1>0. /\ builds \subseteq Offered /\ builds \subseteq {b \in builds : b.wakes \in BOOLEAN}
      /\ held # None => held \in Offered /\ held.kind # "bump"
      /\ OnScreen /\ held # None => held.row = row
      /\ offer # None => row \in (1 .. rows) \ loads
  BY DEF TxInv, TxTypes, Mine, RowsKept, Offered
<1>1. ASSUME CloseRow PROVE RowsKept' /\ GoOnOwed'
  <2>1. RowsKept'
    BY <1>1, <1>0, RowsGo DEF CloseRow, Drop, OnScreen
  <2>2. offer' = None
    BY <1>1 DEF CloseRow
  <2> QED
    BY <2>1, <2>2, OfferedAssumption DEF GoOnOwed
<1>2. ASSUME OpenRow PROVE RowsKept' /\ GoOnOwed'
  <2>1. /\ row' = rows + 1 /\ rows' = rows + 1 /\ loads' = loads \cup {rows + 1}
        /\ offer' = None /\ goOn' = TRUE /\ held' = None /\ builds' = Outdated
        /\ UNCHANGED <<shell, place, sending, asking, syncs>> /\ OnScreen /\ OnDesktop
    BY <1>2 DEF OpenRow, Drop
  <2>2. \A b \in builds' : \E a \in builds : b.row = a.row /\ b.kind = a.kind /\ b.wakes = a.wakes
    BY <2>1, <1>0, OutdatedKeeps
  <2>3. \A x \in builds' \cup sending' : x.row \in (1 .. rows) \ loads
    BY <2>1, <2>2 DEF RowsKept
  <2>4. \A x \in builds' \cup sending' : x.row \in (1 .. rows') \ loads' /\ x.row # row'
    BY <2>1, <2>3
  <2>5. row' \in 1 .. rows' /\ loads' \subseteq 1 .. rows'
    BY <2>1 DEF RowsKept
  <2>6. ~(asking' /\ OnScreen') /\ (~OnDesktop' => syncs' = {})
    BY <2>1 DEF RowsKept, OnScreen, OnDesktop
  <2>7. \A b \in builds' : b.kind = "bump" => ~b.wakes
    BY <2>2 DEF RowsKept
  <2>8. RowsKept'
    BY <2>1, <2>4, <2>5, <2>6, <2>7 DEF RowsKept
  <2> QED
    BY <2>1, <2>8 DEF GoOnOwed
\* Speed up is priced anew, by its button or not.
<1>3. ASSUME NEW wakes \in BOOLEAN, Reprice(wakes), offer = "child", OnScreen,
             UNCHANGED <<shell, place, row, rows, loads, offer, asking, syncs>>, sending' \subseteq sending,
             ~wakes => sending' = sending
      PROVE  RowsKept' /\ GoOnOwed'
  <2>1. /\ held' = None
        /\ \A b \in builds' : \/ \E a \in builds : b.row = a.row /\ b.kind = a.kind /\ b.wakes = a.wakes
                              \/ b.row = row /\ b.kind = "child"
        /\ \A a \in builds : \E b \in builds' : b.row = a.row /\ b.wakes = a.wakes
        /\ \/ goOn' \/ (~wakes /\ (goOn => goOn'))
           \/ \E b \in builds' : b.wakes /\ b.row = row
    BY <1>3, <1>0, RepriceKeeps
  <2>2. RowsKept'
    BY <1>3, <1>0, <2>1, RowsStay, OfferedAssumption DEF OnScreen
  <2>3. CASE goOn' \/ \E b \in builds' : b.wakes /\ b.row = row
    BY <1>3, <2>2, <2>3 DEF GoOnOwed, Woken
  <2>4. CASE ~wakes /\ (goOn => goOn')
    BY <1>3, <2>1, <2>2, <2>4, WokenStays DEF OnScreen
  <2> QED
    BY <2>1, <2>3, <2>4
<1>4. ASSUME Retarget \/ SpeedUpAgain PROVE RowsKept' /\ GoOnOwed'
  BY <1>3, <1>4 DEF Retarget, SpeedUpAgain
<1>5. ASSUME EstimateArrives PROVE RowsKept' /\ GoOnOwed'
  <2>1. CASE OnScreen /\ target # "custom"
    BY <1>3, <1>5, <2>1 DEF EstimateArrives
  <2>2. CASE ~(OnScreen /\ target # "custom")
    <3>1. UNCHANGED <<shell, place, row, rows, loads, offer, asking, syncs, sending, builds, held, goOn>>
      BY <1>5, <2>2 DEF EstimateArrives
    <3>2. RowsKept'
      BY <3>1, RowsStay DEF OnScreen
    <3> QED
      BY <3>1, <3>2 DEF GoOnOwed, Woken, OnScreen
  <2> QED
    BY <2>1, <2>2
\* A build or a broadcast on a row that stays open, Speed up's button left alone.
<1>6. ASSUME Hold("cancel", FALSE), offer = "replace",
             UNCHANGED <<shell, place, row, rows, loads, offer, syncs, sending, goOn>>, asking' => asking
      PROVE  RowsKept' /\ GoOnOwed'
  <2>1. PICK n : /\ n = [id |-> pressed', kind |-> "cancel", live |-> TRUE,
                         row |-> row, target |-> target', wakes |-> FALSE]
                 /\ builds' = Outdated \cup {n} /\ held' = None
    BY <1>6 DEF Hold
  <2>2. n.row = row /\ n.kind = "cancel"
    BY <2>1
  <2>3. RowsKept'
    BY <1>6, <1>0, <2>1, <2>2, OutdatedKeeps, RowsStay, OfferedAssumption DEF OnScreen
  <2> QED
    BY <1>6, <2>3 DEF GoOnOwed
<1>7. ASSUME AskCancel PROVE RowsKept' /\ GoOnOwed'
  <2>1. /\ OnScreen /\ offer = "replace"
        /\ UNCHANGED <<shell, place, row, rows, loads, offer, syncs, sending, goOn>>
    BY <1>7 DEF AskCancel
  <2>2. CASE OnDesktop
    BY <1>6, <1>7, <2>1, <2>2 DEF AskCancel
  <2>3. CASE ~OnDesktop
    <3>1. UNCHANGED <<builds, held>>
      BY <1>7, <2>3 DEF AskCancel
    <3>2. RowsKept'
      BY <2>1, <2>3, <3>1, RowsStay DEF OnScreen
    <3> QED
      BY <2>1, <3>2 DEF GoOnOwed
  <2> QED
    BY <2>2, <2>3
<1>8. ASSUME CancelPriced PROVE RowsKept' /\ GoOnOwed'
  <2>1. /\ asking /\ asking' = FALSE
        /\ UNCHANGED <<shell, place, row, rows, loads, offer, syncs, sending, goOn>>
    BY <1>8 DEF CancelPriced
  <2>2. CASE OnScreen
    <3>1. Hold("cancel", FALSE) /\ offer = "replace"
      BY <1>8, <2>1, <2>2 DEF CancelPriced, RowsKept
    <3> QED
      BY <1>6, <2>1, <3>1
  <2>3. CASE ~OnScreen
    <3>1. UNCHANGED <<builds, held>>
      BY <1>8, <2>3 DEF CancelPriced
    <3>2. RowsKept'
      BY <2>1, <2>3, <3>1, RowsStay DEF OnScreen
    <3> QED
      BY <2>1, <2>3, <3>2 DEF GoOnOwed, OnScreen
  <2> QED
    BY <2>2, <2>3
<1>9. ASSUME KeepIt \/ LeaveTx PROVE RowsKept' /\ GoOnOwed'
  <2>1. /\ UNCHANGED <<shell, row, rows, loads, offer, asking, syncs, sending, goOn>>
        /\ OnScreen' => offer = "replace"
        /\ OnScreen' => OnScreen
        /\ builds' = Outdated /\ held' = None
    BY <1>9 DEF KeepIt, LeaveTx, Goes, Fold, Drop, OnScreen
  <2>2. RowsKept'
    BY <1>0, <2>1, OutdatedKeeps, RowsStay
  <2> QED
    BY <2>1, <2>2 DEF GoOnOwed
<1>10. ASSUME SendHeld PROVE RowsKept' /\ GoOnOwed'
  <2>1. /\ UNCHANGED <<shell, place, row, rows, loads, offer, asking, syncs, builds>>
        /\ OnScreen /\ held # None /\ held' = None /\ offer \in {"replace", "child"}
        /\ sending' = sending \cup {Call(held.id, held.kind)}
        /\ offer # "child" => goOn' = goOn
    BY <1>10, <1>0 DEF SendHeld, SignAndBroadcast
  <2>2. Call(held.id, held.kind).row = row /\ Call(held.id, held.kind).kind = held.kind
    BY DEF Call
  <2>3. row \notin loads
    BY <1>0, <2>1, OfferedAssumption DEF RowsKept
  <2>4. RowsKept'
    BY <2>1, <2>2, <2>3, RowsStay, OfferedAssumption DEF OnScreen, RowsKept
  <2>5. offer = "child" => held.kind = "child"
    BY <1>0, <2>1 DEF RowsKept, Offered
  <2> QED
    BY <2>1, <2>2, <2>4, <2>5 DEF GoOnOwed, Woken
<1>11. ASSUME Bump PROVE RowsKept' /\ GoOnOwed'
  <2>1. /\ UNCHANGED <<shell, place, row, rows, loads, offer, asking, syncs, sending, held, goOn>>
        /\ OnScreen /\ offer = "replace"
    BY <1>11 DEF Bump
  <2>2. PICK n : /\ n = [id |-> pressed + 1, kind |-> "bump", live |-> TRUE,
                         row |-> row, target |-> target, wakes |-> FALSE]
                 /\ builds' = builds \cup {n}
    BY <1>11 DEF Bump
  <2>3. n.row = row /\ n.kind = "bump" /\ ~n.wakes
    BY <2>2
  <2>4. RowsKept'
    BY <2>1, <2>2, <2>3, RowsStay, OfferedAssumption DEF OnScreen, RowsKept
  <2> QED
    BY <2>1, <2>4 DEF GoOnOwed
<1>12. ASSUME NEW b \in builds, NEW ok \in BOOLEAN, HeldAnswers(b, ok) PROVE RowsKept' /\ GoOnOwed'
  <2>1. /\ UNCHANGED <<shell, place, row, rows, loads, offer, asking, syncs, sending>>
        /\ builds' = builds \ {b}
        /\ goOn' = (goOn \/ (b.wakes /\ b.row = row))
    BY <1>12 DEF HeldAnswers
  <2>2. held' = held \/ (held' = b /\ b.row = row)
    BY <1>12 DEF HeldAnswers, Current
  <2>3. RowsKept'
    BY <2>1, <2>2, RowsStay DEF OnScreen, RowsKept
  <2>4. GoOnOwed'
    BY <2>1, WokenStays DEF OnScreen
  <2> QED
    BY <2>3, <2>4
<1>13. ASSUME NEW b \in builds, NEW ok \in BOOLEAN, BumpBuilt(b, ok) PROVE RowsKept' /\ GoOnOwed'
  <2>1. /\ UNCHANGED <<shell, place, row, rows, loads, offer, asking, syncs, held, goOn>>
        /\ builds' = builds \ {b} /\ b.kind = "bump"
    BY <1>13 DEF BumpBuilt
  <2>2. \/ sending' = sending
        \/ \E c : sending' = sending \cup {c} /\ c = [id |-> b.id, row |-> b.row, kind |-> "bump"]
    BY <1>13 DEF BumpBuilt
  <2>3. sending \subseteq sending' /\ \A c \in sending' : c \in sending \/ c.row = b.row
    BY <2>2
  <2>4. RowsKept'
    BY <2>1, <2>3, RowsStay DEF OnScreen
  <2>5. ~b.wakes
    BY <2>1 DEF RowsKept
  <2>6. GoOnOwed'
    BY <2>1, <2>3, <2>5, WokenStays DEF OnScreen
  <2> QED
    BY <2>4, <2>6
<1>14. ASSUME NEW c \in sending, OfferSent(c) PROVE RowsKept' /\ GoOnOwed'
  <2>1. /\ UNCHANGED <<shell, rows, loads, asking, syncs>>
        /\ sending' = sending \ {c}
        /\ goOn' = (goOn \/ (c.kind = "child" /\ c.row = row))
    BY <1>14 DEF OfferSent, Settles
  <2>2. CASE OnScreen /\ row = c.row
    <3>1. place' = "left" /\ row' = None /\ offer' = None /\ builds' = Outdated /\ held' = None
      BY <1>14, <2>2 DEF OfferSent, Drop
    <3>2. RowsKept'
      BY <1>0, <2>1, <3>1, RowsGo DEF OnScreen
    <3> QED
      BY <3>1, <3>2 DEF GoOnOwed, OnScreen
  <2>3. CASE ~(OnScreen /\ row = c.row)
    <3>1. UNCHANGED <<place, builds, held, row, offer>>
      BY <1>14, <2>3 DEF OfferSent
    <3>2. RowsKept'
      BY <2>1, <3>1, RowsStay DEF OnScreen
    <3>3. GoOnOwed'
      BY <2>1, <3>1, WokenStays DEF OnScreen
    <3> QED
      BY <3>2, <3>3
  <2> QED
    BY <2>2, <2>3
<1>15. ASSUME NEW c \in sending, NEW took \in BOOLEAN, OfferFails(c, took) PROVE RowsKept' /\ GoOnOwed'
  <2>1. /\ UNCHANGED <<shell, place, row, rows, loads, offer, asking, syncs>>
        /\ sending' = sending \ {c}
    BY <1>15 DEF OfferFails, Settles
  <2>2. CASE ~(OnScreen /\ row = c.row)
    <3>1. /\ UNCHANGED <<builds, held>>
          /\ goOn' = (goOn \/ (c.kind = "child" /\ c.row = row))
      BY <1>15, <2>2 DEF OfferFails
    <3>2. RowsKept'
      BY <2>1, <3>1, RowsStay DEF OnScreen
    <3>3. GoOnOwed'
      BY <2>1, <3>1, WokenStays DEF OnScreen
    <3> QED
      BY <3>2, <3>3
  <2>3. CASE OnScreen /\ row = c.row /\ c.kind = "child"
    <3>1. Reprice(TRUE)
      BY <1>15, <2>3 DEF OfferFails, Afresh
    <3>2. /\ held' = None
          /\ \A b \in builds' : \/ \E a \in builds : b.row = a.row /\ b.kind = a.kind /\ b.wakes = a.wakes
                                \/ b.row = row /\ b.kind = "child"
          /\ goOn' \/ \E b \in builds' : b.wakes /\ b.row = row
      BY <1>0, <3>1, RepriceKeeps
    <3>3. row \in (1 .. rows) \ loads
      BY <2>3 DEF RowsKept
    <3>4. \A x \in builds' \cup sending' : x.row \in (1 .. rows) \ loads
      BY <2>1, <3>2, <3>3 DEF RowsKept
    <3>5. /\ \A b \in builds' : b.kind = "bump" => ~b.wakes
          /\ \A b \in builds' : b.kind = "cancel" /\ b.row = row => offer = "replace"
      BY <3>2 DEF RowsKept
    <3>6. RowsKept'
      BY <2>1, <3>2, <3>3, <3>4, <3>5 DEF RowsKept, OnScreen, OnDesktop
    <3> QED
      BY <2>1, <3>2, <3>6 DEF GoOnOwed, Woken
  <2>4. CASE OnScreen /\ row = c.row /\ c.kind # "child"
    <3>1. /\ UNCHANGED goOn
          /\ builds' = builds \/ builds' = Outdated
          /\ held' = held \/ held' = None
      BY <1>15, <2>4 DEF OfferFails, Afresh, Drop
    <3>2. RowsKept'
      BY <1>0, <2>1, <3>1, OutdatedKeeps, RowsStay DEF OnScreen
    <3>3. GoOnOwed'
      BY <1>0, <2>1, <2>4, <3>1, OutdatedKeeps, WokenStays DEF OnScreen
    <3> QED
      BY <3>2, <3>3
  <2> QED
    BY <2>2, <2>3, <2>4
<1>16. ASSUME NEW kind, NEW ok, SyncAnswers(kind, ok) PROVE RowsKept' /\ GoOnOwed'
  <2>1. /\ UNCHANGED <<shell, place, rows, loads, asking, sending, goOn>>
        /\ syncs' \subseteq syncs /\ syncs # {}
    BY <1>16 DEF SyncAnswers
  <2>2. OnDesktop
    BY <2>1 DEF RowsKept
  <2>3. CASE ok /\ OnScreen
    <3>1. row' = None /\ offer' = None /\ builds' = Outdated /\ held' = None
      BY <1>16, <2>3 DEF SyncAnswers, RenderTxs, Drop
    <3>2. RowsKept'
      BY <1>0, <2>1, <2>2, <2>3, <3>1, RowsGo
    <3> QED
      BY <3>1, <3>2, OfferedAssumption DEF GoOnOwed
  <2>4. CASE ~(ok /\ OnScreen)
    <3>1. UNCHANGED <<builds, held, row, offer>>
      BY <1>16, <2>4 DEF SyncAnswers
    <3>2. RowsKept'
      BY <2>1, <3>1, RowsStay DEF OnScreen
    <3> QED
      BY <2>1, <3>1, <3>2 DEF GoOnOwed, Woken, OnScreen
  <2> QED
    BY <2>3, <2>4
<1>17. ASSUME NEW kind, StartSync(kind) PROVE RowsKept' /\ GoOnOwed'
  <2>1. /\ UNCHANGED <<shell, place, row, rows, loads, offer, asking, sending, builds, held, goOn>>
        /\ OnDesktop
    BY <1>17 DEF StartSync, desk
  <2>2. RowsKept'
    BY <2>1, RowsStay DEF OnScreen
  <2> QED
    BY <2>1, <2>2 DEF GoOnOwed, Woken, OnScreen
\* A detail answers: nothing was built for its row or sent from it yet.
<1>18. ASSUME NEW d \in loads, NEW kind \in {None, "replace", "child", "none"}, DetailAnswers(d, kind)
       PROVE  RowsKept' /\ GoOnOwed'
  <2>1. /\ UNCHANGED <<shell, place, rows, asking, syncs, sending>>
        /\ loads' = loads \ {d}
    BY <1>18 DEF DetailAnswers
  <2>2. CASE ~(OnScreen /\ row = d)
    <3>1. UNCHANGED <<offer, row, builds, held, goOn>>
      BY <1>18, <2>2 DEF DetailAnswers
    <3>2. RowsKept'
      BY <2>1, <3>1 DEF RowsKept, OnScreen, OnDesktop
    <3> QED
      BY <2>1, <3>1, <3>2 DEF GoOnOwed, Woken, OnScreen
  <2>3. CASE OnScreen /\ row = d
    <3>1. /\ offer = None /\ goOn /\ ~asking
          /\ row \in 1 .. rows /\ row # None /\ \A x \in builds \cup sending : x.row # row
          /\ held # None => held.kind # "cancel"
      <4>1. offer = None /\ goOn /\ row \in 1 .. rows
        BY <2>3 DEF RowsKept
      <4>2. row # None
        BY <4>1, NoneAssumption
      <4>3. ~asking /\ (held # None => held.kind # "cancel")
        BY <2>3, <4>1, OfferedAssumption DEF RowsKept
      <4>4. \A x \in builds \cup sending : x.row # row
        BY <2>3 DEF RowsKept
      <4> QED
        BY <4>1, <4>2, <4>3, <4>4
    <3>2. offer' = kind
      BY <1>18, <2>3 DEF DetailAnswers
    <3>3. /\ held' = held \/ held' = None
          /\ \A b \in builds' : \/ \E a \in builds : b.row = a.row /\ b.kind = a.kind /\ b.wakes = a.wakes
                                \/ b.row = row /\ b.kind = "child" /\ kind = "child"
          /\ kind = "child" => goOn'
      <4>1. CASE kind = "child"
        <5>1. Reprice(FALSE)
          BY <1>18, <2>3, <4>1, OfferedAssumption DEF DetailAnswers
        <5> QED
          BY <1>0, <3>1, <5>1, RepriceKeeps, <4>1
      <4>2. CASE kind = None
        <5>1. Drop
          BY <1>18, <2>3, <4>2, OfferedAssumption DEF DetailAnswers
        <5> QED
          BY <1>0, <4>2, <5>1, OutdatedKeeps, OfferedAssumption DEF Drop
      <4>3. CASE kind \notin {"child", None}
        <5>1. UNCHANGED <<builds, held>>
          BY <1>18, <2>3, <4>3 DEF DetailAnswers
        <5> QED
          BY <4>3, <5>1
      <4> QED
        BY <4>1, <4>2, <4>3
    <3>4. GoOnOwed'
      BY <3>2, <3>3 DEF GoOnOwed
    <3>5. /\ \A x \in builds' \cup sending' : x.row \in (1 .. rows) \ loads'
          /\ \A b \in builds' : b.kind = "bump" => ~b.wakes
          /\ \A b \in builds' : b.kind = "cancel" => b.row # row
      BY <2>1, <2>3, <3>1, <3>3 DEF RowsKept
    <3>6. CASE row' = row
      <4>1. row' \in 1 .. rows' /\ row' \notin loads' /\ loads' \subseteq 1 .. rows'
        BY <2>1, <2>3, <3>1, <3>6 DEF RowsKept
      <4> QED
        BY <2>1, <3>1, <3>3, <3>4, <3>5, <3>6, <4>1 DEF RowsKept, OnDesktop
    <3>7. CASE row' # row
      <4>1. row' = None /\ kind = None
        BY <1>18, <2>3, <3>7 DEF DetailAnswers
      <4>2. row' \notin 1 .. rows /\ loads' \subseteq 1 .. rows
        <5>1. row' \notin 1 .. rows
          BY <4>1, NoneAssumption
        <5> QED
          BY <2>1, <5>1 DEF RowsKept
      <4>3. \A b \in builds' : b.row # row'
        BY <3>5, <4>2
      <4> QED
        BY <2>1, <3>1, <3>2, <3>3, <3>4, <3>5, <4>1, <4>2, <4>3 DEF RowsKept, OnDesktop
    <3> QED
      BY <3>6, <3>7
  <2> QED
    BY <2>2, <2>3
<1> QED
  BY <1>1, <1>2, <1>4, <1>5, <1>7, <1>8, <1>9, <1>10, <1>11, <1>12, <1>13, <1>14, <1>15, <1>16, <1>17, <1>18
  DEF TxNext, TxAnswers

Owed ==
    /\ screen = "send" => SendOwed
    /\ screen = "tx" => RowsKept /\ GoOnOwed
    /\ screen = "psbt" => PsbtOwed

LEMMA OwedInit == Init => Owed
<1> SUFFICES ASSUME Init PROVE Owed
  OBVIOUS
<1>1. /\ builds = {} /\ sending = {} /\ place = "on" /\ reviewOn = TRUE /\ maxOn = TRUE
      /\ sheet = None /\ review = None
  BY DEF Init, DeskInit, SendInit, PsbtInit
<1>2. SendOwed
  BY <1>1 DEF SendOwed, OnScreen
<1>3. PsbtOwed
  BY <1>1 DEF PsbtOwed, Final
<1>4. /\ offer = None /\ goOn = TRUE /\ asking = FALSE /\ held = None
      /\ row \in (1 .. rows) \cup {None} /\ loads \subseteq 1 .. rows
      /\ ~OnDesktop => syncs = {}
  BY DEF Init, TxInit
<1>5. RowsKept /\ GoOnOwed
  BY <1>1, <1>4, OfferedAssumption DEF RowsKept, GoOnOwed
<1> QED
  BY <1>2, <1>3, <1>5 DEF Owed

LEMMA OwedNext == Inv /\ Types /\ Owed /\ [Next]_vars => Owed'
<1> SUFFICES ASSUME Inv, Types, Owed, [Next]_vars PROVE Owed'
  OBVIOUS
<1>1. CASE screen = "send" /\ SendNext /\ UNCHANGED screen
  BY <1>1, SendOwedStep DEF Inv, Owed
<1>2. CASE screen = "psbt" /\ PsbtNext /\ UNCHANGED screen
  BY <1>2, PsbtOwedStep DEF Inv, Owed
<1>3. CASE screen = "tx" /\ TxNext /\ UNCHANGED screen
  <2>1. goOn \in BOOLEAN /\ rows \in Nat
    BY RowsAssumption DEF Types, RowTypes
  <2> QED
    BY <1>3, <2>1, TxOwedStep DEF Inv, Owed
<1>4. CASE screen = "fees" /\ UNCHANGED screen
  BY <1>4 DEF Owed
<1>5. CASE UNCHANGED vars
  <2>1. UNCHANGED <<desk, screen, sendVars, psbtVars, txVars>>
    BY <1>5 DEF vars
  <2>2. SendOwed => SendOwed'
    BY <2>1 DEF SendOwed, Runs, OnScreen, Desktop, desk, sendVars
  <2>3. PsbtOwed => PsbtOwed'
    BY <2>1 DEF PsbtOwed, Final, desk, psbtVars
  <2>4. RowsKept => RowsKept'
    BY <2>1 DEF RowsKept, OnScreen, OnDesktop, desk, txVars
  <2>5. GoOnOwed => GoOnOwed'
    BY <2>1 DEF GoOnOwed, Woken, OnScreen, desk, txVars
  <2> QED
    BY <2>1, <2>2, <2>3, <2>4, <2>5 DEF Owed
<1> QED
  BY <1>1, <1>2, <1>3, <1>4, <1>5 DEF Next

\* Every variable of the spending screens has the values the code gives it, for
\* every number of presses and every fee: no sum, quotient or counter of theirs
\* leaves its range.
THEOREM TypeCorrect == Spec => []TypeOK
<1>1. Inv /\ Types => TypeOK
  <2> SUFFICES ASSUME Inv, Types PROVE TypeOK
    OBVIOUS
  <2>1. pressed \in Nat /\ pending \cup sent \subseteq Nat
    BY DEF Inv, Separate
  <2>2. \A on \in {reviewOn, maxOn, signOn, sendOn, goOn, invalid, priced, asking, listed, advised} : on \in BOOLEAN
    BY DEF Types, SendTypes, FieldTypes, RowTypes, FeeTypes
  <2> QED
    BY <2>1, <2>2 DEF Types, DeskTypes, SendTypes, FieldTypes, RowTypes, FeeTypes, TypeOK
<1> QED
  BY <1>1, TypesInit, TypesNext, Invariance, PTL DEF Spec

\* However often Confirm, Speed up and Bump are pressed, and whatever their
\* broadcasts come to, api.ts's map never holds again what was signed.
THEOREM SignsOnce == Spec => []SignedOnce
<1>1. Inv => SignedOnce
  BY SeparateSigns DEF Inv
<1> QED
  BY <1>1, Invariance, PTL

\* Send in Max mode would send the amount it shows: the drain was built for the
\* recipient, rate and coins of the form, whenever its estimate arrived.
THEOREM MaxIsCurrent == Spec => []DrainIsCurrent
<1>1. Inv => DrainIsCurrent
  BY DEF Inv, SendInv, DrainIsCurrent
<1> QED
  BY <1>1, Invariance, PTL

\* A Review names the recipients and the coins of the form it stands over.
THEOREM ReviewIsCurrent == Spec => []SheetIsOfThisForm
<1>1. Inv => SheetIsOfThisForm
  BY DEF Inv, SendInv, SheetIsOfThisForm
<1> QED
  BY <1>1, Invariance, PTL

\* An offer's screen leaves nothing in the map but the preview it holds, and
\* nothing when it is left.
THEOREM HoldsOne == Spec => []OnlyTheHeldIsPending
<1>1. Inv => OnlyTheHeldIsPending
  BY DEF Inv, TxInv, Mine, OnlyTheHeldIsPending
<1> QED
  BY <1>1, Invariance, PTL

\* What Speed up or Cancel would sign is for the open row and the target
\* chosen, and the numbers on screen are of it, or of what is being sent.
THEOREM ShowsTheHeld == Spec => []HeldIsShown
<1>1. Inv => HeldIsShown
  BY DEF Inv, TxInv, Mine, HeldIsShown
<1> QED
  BY <1>1, Invariance, PTL

\* Import PSBT signs and broadcasts what is in its field.
THEOREM ReviewsTheField == Spec => []ReviewIsOfField
<1>1. Inv => ReviewIsOfField
  BY DEF Inv, PsbtInv, FieldIsRead, ReviewIsOfField
<1> QED
  BY <1>1, Invariance, PTL

\* Import PSBT, pressed with nothing unfinished, describes or refuses what is
\* in its field.
THEOREM ReadsTheField == Spec => []PatientIsRead
<1>1. Inv => PatientIsRead
  BY DEF Inv, PsbtInv, ReadPatiently, PatientIsRead
<1> QED
  BY <1>1, Invariance, PTL

\* Send, pressed with nothing unfinished, leaves no PSBT in the map that
\* neither Max nor Review holds.
THEOREM StrandsNothing == Spec => []PatientStrandsNothing
<1>1. Inv => PatientStrandsNothing
  BY DEF Inv, Tidy, PatientStrandsNothing
<1> QED
  BY <1>1, Invariance, PTL

\* A button disabled for its own work has that work in flight, whose answer
\* enables it again: what PressesAreAnswered waits for is under way
\* (PressReview, Confirm, SpeedUpAgain, OfferFails, Sign, Broadcast).
THEOREM WhatIsAwaitedRuns == Spec => []ButtonsAreOwed
<1>1. Inv /\ Owed => ButtonsAreOwed
  <2> SUFFICES ASSUME Inv, Owed PROVE ButtonsAreOwed
    OBVIOUS
  <2>1. /\ screen = "send" /\ ~reviewOn => \E b \in builds : b.kind = "review"
        /\ screen = "send" /\ OnScreen /\ ~maxOn => sheet # None \/ \E b \in builds : b.kind = "max"
        /\ sheet # None /\ sheet.busy => \E c \in sending : c.id = sheet.id
    BY DEF Inv, Owed, SendOwed, Runs
  <2>2. screen = "tx" /\ OnScreen /\ offer = "child" /\ ~goOn =>
            \/ \E b \in builds : b.wakes /\ b.row = row
            \/ \E c \in sending : c.kind = "child" /\ c.row = row
    BY DEF Owed, GoOnOwed, Woken
  <2>3. screen = "psbt" /\ review # None =>
            /\ ~signOn /\ ~Final(review) => \E j \in jobs : j.kind = "sign"
            /\ ~sendOn /\ Final(review) => sending # {}
    BY DEF Owed, PsbtOwed
  <2> QED
    BY <2>1, <2>2, <2>3 DEF ButtonsAreOwed
<1>2. Inv /\ Inv' /\ Types /\ Owed /\ [Next]_vars => Types' /\ Owed'
  BY TypesNext, OwedNext
<1> QED
  BY <1>1, <1>2, Invariance, TypesInit, OwedInit, PTL DEF Spec
=============================================================================
