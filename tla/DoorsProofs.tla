---------------------------- MODULE DoorsProofs -----------------------------
(***************************************************************************)
(* Doors, proved for every set of keys, networks and routes visited and    *)
(* every number of calls in flight: its types, that a wallet's page has a  *)
(* wallet, that secrets go with their screen, and that what the session    *)
(* holds is of the open wallet.                                            *)
(*                                                                         *)
(* None of these is inductive alone.  A page has its wallet because the    *)
(* guards were read when it was drawn (GuardsProofs) and because every way *)
(* a wallet goes leaves an event due (Rest); the words of Create are shown *)
(* on Create because a job whose guard is live was started on the page     *)
(* that is up (JobOK).                                                     *)
(***************************************************************************)
EXTENDS Doors, GuardsProofs

Pages == [route : Routes \cup {"blank"}, of : Wallets \cup {None},
          coins : Wallets \cup {None}, torn : BOOLEAN, forgets : BOOLEAN]
Kinds == {"generate", "open", "follow", "unlock", "setup", "forget", "send"}
Stages == {"asked", "checking", "opening", "keeping", "recording"}
AnyJob == [kind : Kinds, route : Routes, live : BOOLEAN, stage : Stages,
           w : Wallets \cup Configs \cup {None}, remember : BOOLEAN, newest : BOOLEAN]

\* An open has its wallet and its settings once it begins, a save has settings,
\* and a job whose screen is up was started on it.
JobOK(j) ==
    /\ j \in AnyJob
    /\ j.stage # "asked" => j.w \in Wallets /\ config # None
    /\ j.kind = "setup" => j.w \in Configs
    /\ j.live => j.route = page.route

JobsOK == \A j \in jobs : JobOK(j)

Types ==
    /\ shell \in Shells
    /\ hash \in Routes
    /\ due \in Nat
    /\ page \in Pages
    /\ config \in Configs \cup {None}
    /\ wallet \in Wallets \cup {None}
    /\ remembered \in Wallets \cup {None}
    /\ result \in Wallets \cup {None}
    /\ chosen \in Wallets \cup {None}
    /\ {keeps, now, row, phrase, crossed} \subseteq BOOLEAN
    /\ secrets \subseteq {"typed", "words", "left"}
    /\ wallet # None => config # None
    /\ remembered # None => config # None

\* With no event due the page is the one the address names, and a page that
\* needs a wallet has one.
Rest ==
    AtRest => /\ page.route = hash
              /\ page.route \in NeedsWallet(shell) => wallet # None \/ page.torn

Inv == Types /\ JobsOK /\ Rest /\ SecretsGoWithTheScreen /\ SessionIsOfOneWallet

-----------------------------------------------------------------------------
(* What a step may do, and what it then leaves in place.                   *)

\* A wallet or settings is not None.
LEMMA NotNone == None \notin Wallets /\ None \notin Configs
  BY NoneAssumption

\* A navigation leaves an event due.
LEMMA Moves ==
    ASSUME hash \in Routes, due \in Nat, now \in BOOLEAN, NEW r \in Routes, Navigate(r)
    PROVE  hash' \in Routes /\ due' \in Nat /\ now' \in BOOLEAN /\ ~AtRest'
<1>1. hash' = r /\ now' = (now \/ r = hash) /\ due' = IF r = hash THEN due ELSE due + 1
  BY DEF Navigate
<1>2. now' \in BOOLEAN
  BY <1>1
<1>3. CASE r = hash
  <2>1. now' = TRUE /\ due' = due
    BY <1>1, <1>3
  <2> QED
    BY <1>1, <2>1 DEF AtRest
<1>4. CASE r # hash
  <2>1. due' = due + 1
    BY <1>1, <1>4
  <2>2. due' \in Nat /\ due' # 0
    BY <2>1
  <2> QED
    BY <1>1, <1>2, <2>2 DEF AtRest
<1> QED
  BY <1>3, <1>4

LEMMA JobsStay ==
    ASSUME \A j \in jobs' : JobOK(j),
           page'.route = page.route, config # None => config' # None
    PROVE  JobsOK'
  BY DEF JobsOK, JobOK

LEMMA RestStays ==
    ASSUME Rest,
           ~AtRest' \/ UNCHANGED route,
           shell' = shell, page'.route = page.route,
           page.torn => page'.torn,
           \/ wallet' = wallet
           \/ wallet' # None
           \/ page'.torn
           \/ ~AtRest'
    PROVE  Rest'
  BY DEF Rest, AtRest, route

\* A press starts a job on the page that is up.
LEMMA JobIsOK ==
    ASSUME Types, Rest, AtRest, NEW kind \in Kinds, NEW w \in Wallets \cup Configs \cup {None},
           kind = "setup" => w \in Configs
    PROVE  JobOK(Job(kind, w))
  BY DEF JobOK, Job, AnyJob, Types, Rest, Stages

LEMMA SupersededAreOK ==
    ASSUME JobsOK
    PROVE  \A j \in Superseded : JobOK(j)
<1> SUFFICES ASSUME NEW i \in Superseded PROVE JobOK(i)
  OBVIOUS
<1>1. PICK j \in jobs : i = IF j.kind \in OpenKinds THEN [j EXCEPT !.newest = FALSE] ELSE j
  BY DEF Superseded
<1>2. JobOK(j)
  BY DEF JobsOK
<1>3. /\ i \in AnyJob
      /\ i.kind = j.kind /\ i.stage = j.stage /\ i.w = j.w /\ i.live = j.live /\ i.route = j.route
  BY <1>1, <1>2 DEF JobOK, AnyJob
<1> QED
  BY <1>2, <1>3 DEF JobOK

\* A job moved on to another stage, for a wallet.
LEMMA StagedIsOK ==
    ASSUME NEW j, JobOK(j), NEW stage \in Stages, j.w \in Wallets, config # None, j.kind # "setup"
    PROVE  JobOK([j EXCEPT !.stage = stage])
<1> DEFINE i == [j EXCEPT !.stage = stage]
<1>1. /\ i \in AnyJob
      /\ i.kind = j.kind /\ i.w = j.w /\ i.live = j.live /\ i.route = j.route
  BY DEF JobOK, AnyJob
<1> QED
  BY <1>1 DEF JobOK

\* openAndEnter's end.
LEMMA EntersIs ==
    ASSUME Types, NEW j, Enters(j)
    PROVE  /\ jobs' \subseteq jobs
           /\ hash' \in Routes /\ due' \in Nat /\ now' \in BOOLEAN
           /\ ~AtRest' \/ UNCHANGED route
           /\ secrets' \subseteq secrets
           /\ phrase' \in BOOLEAN /\ (phrase' => phrase)
<1>1. "dashboard" \in Routes
  BY DEF Routes, NeedsWallet
<1>2. /\ hash' \in Routes /\ due' \in Nat /\ now' \in BOOLEAN
      /\ ~AtRest' \/ UNCHANGED route
  <2>1. CASE OnScreen(j)
    BY <1>1, <2>1, Moves DEF Enters, Types
  <2>2. CASE ~OnScreen(j)
    BY <2>2 DEF Enters, Types, route
  <2> QED
    BY <2>1, <2>2
<1>3. phrase' \in BOOLEAN /\ (phrase' => phrase)
  BY DEF Enters, Types
<1> QED
  BY <1>2, <1>3 DEF Enters

\* A press of a door's button.
LEMMA OpeningIs ==
    ASSUME Types, JobsOK, Rest, NEW kind \in Kinds \ {"setup"}, NEW key \in Keys,
           NEW remember \in BOOLEAN, NEW stage \in Stages, Opening(kind, key, remember, stage)
    PROVE  /\ \A i \in jobs' : JobOK(i)
           /\ UNCHANGED <<route, page, held, kept, secrets, phrase>>
<1> DEFINE w == [key |-> key, net |-> config.net]
           new == [Job(kind, w) EXCEPT !.remember = remember, !.stage = stage]
<1>1. w \in Wallets
  BY DEF Opening, Types, Wallets, Configs
<1>2. JobOK(Job(kind, w)) /\ config # None
  BY <1>1, JobIsOK DEF Opening, Press
<1>3. /\ new \in AnyJob
      /\ new.kind = kind /\ new.w = w /\ new.live = Job(kind, w).live /\ new.route = Job(kind, w).route
  BY <1>2 DEF JobOK, AnyJob, Job
<1>4. JobOK(new)
  BY <1>1, <1>2, <1>3 DEF JobOK
<1>5. jobs' = (IF stage = "opening" THEN Superseded ELSE jobs) \cup {new}
  BY DEF Opening
<1> QED
  BY <1>4, <1>5, SupersededAreOK DEF Opening, JobsOK

LEMMA SecretsStay ==
    ASSUME SecretsGoWithTheScreen, secrets' \subseteq secrets \cup {"typed", "words"},
           phrase' => phrase, page'.route = page.route
    PROVE  SecretsGoWithTheScreen'
  BY DEF SecretsGoWithTheScreen

LEMMA SessionStays ==
    ASSUME SessionIsOfOneWallet,
           page'.of = page.of, page'.coins = page.coins, crossed' = crossed,
           \/ UNCHANGED <<wallet, result, chosen>>
           \/ result' = None /\ chosen' = None
    PROVE  SessionIsOfOneWallet'
  BY DEF SessionIsOfOneWallet

-----------------------------------------------------------------------------
LEMMA InvInit == Init => Inv
<1> SUFFICES ASSUME Init PROVE Inv
  OBVIOUS
<1>1. PICK r \in Visits \cup {"setup"} :
         \/ hash = "unlock" /\ due = 1 /\ now = FALSE
         \/ hash = r /\ due = 0 /\ now = TRUE
  BY DEF Init
<1>2. hash \in Routes /\ due \in Nat /\ now \in BOOLEAN /\ ~AtRest
  <2>1. {r, "unlock"} \subseteq Routes
    BY VisitsAssumption DEF Routes, KeyRoutes
  <2>2. CASE due = 1 /\ now = FALSE /\ hash = "unlock"
    <3>1. due \in Nat /\ due # 0
      BY <2>2
    <3> QED
      BY <2>1, <2>2, <3>1 DEF AtRest
  <2>3. CASE due = 0 /\ now = TRUE /\ hash = r
    BY <2>1, <2>3 DEF AtRest
  <2> QED
    BY <1>1, <2>2, <2>3
<1>3. Types
  BY <1>2 DEF Init, Types, Blank, Pages
<1> QED
  BY <1>2, <1>3 DEF Init, Inv, JobsOK, Rest, SecretsGoWithTheScreen, SessionIsOfOneWallet, Blank

LEMMA InvNext == Inv /\ [Next]_vars => Inv'
<1> SUFFICES ASSUME Inv, [Next]_vars PROVE Inv'
  OBVIOUS
<1> USE DEF Inv
<1>1. ASSUME NEW r \in Visits, Navigate(r), UNCHANGED <<page, held, kept, asks>> PROVE Inv'
  <2>0. hash' \in Routes /\ due' \in Nat /\ now' \in BOOLEAN /\ ~AtRest'
    BY <1>1, VisitsAssumption, Moves DEF Types
  <2>1. \A i \in jobs' : JobOK(i)
    BY <1>1 DEF JobsOK, asks, route, held, kept
  <2>2. Types'
    BY <1>1, <2>0 DEF Types, asks, route, held, kept
  <2>3. JobsOK' /\ Rest'
    BY <1>1, <2>0, <2>1, JobsStay, RestStays DEF asks, route, held, kept
  <2>4. SecretsGoWithTheScreen' /\ SessionIsOfOneWallet'
    BY <1>1, SecretsStay, SessionStays DEF asks, route, held, kept
  <2> QED
    BY <2>2, <2>3, <2>4
<1>2. ASSUME Type PROVE Inv'
  <2>1. \A i \in jobs' : JobOK(i)
    BY <1>2 DEF Type, JobsOK, asks, route, held, kept
  <2>2. Types'
    BY <1>2 DEF Type, Types, asks, route, held, kept
  <2>3. JobsOK' /\ Rest'
    BY <1>2, <2>1, JobsStay, RestStays DEF Type, asks, route, held, kept
  <2>4. SecretsGoWithTheScreen' /\ SessionIsOfOneWallet'
    BY <1>2, SecretsStay, SessionStays DEF Type, asks, route, held, kept
  <2> QED
    BY <2>2, <2>3, <2>4
<1>3. ASSUME Generate PROVE Inv'
  <2>1. \A i \in jobs' : JobOK(i)
    BY <1>3, JobIsOK DEF Generate, Press, JobsOK, Kinds, asks, route, held, kept
  <2>2. Types'
    BY <1>3 DEF Generate, Types, asks, route, held, kept
  <2>3. JobsOK' /\ Rest'
    BY <1>3, <2>1, JobsStay, RestStays DEF Generate, asks, route, held, kept
  <2>4. SecretsGoWithTheScreen' /\ SessionIsOfOneWallet'
    BY <1>3, SecretsStay, SessionStays DEF Generate, asks, route, held, kept
  <2> QED
    BY <2>2, <2>3, <2>4
<1>4. ASSUME PressUnlock PROVE Inv'
  <2>1. \A i \in jobs' : JobOK(i)
    BY <1>4, JobIsOK DEF PressUnlock, Press, JobsOK, Kinds, asks, route, held, kept, Types
  <2>2. Types'
    BY <1>4 DEF PressUnlock, Types, asks, route, held, kept
  <2>3. JobsOK' /\ Rest'
    BY <1>4, <2>1, JobsStay, RestStays DEF PressUnlock, asks, route, held, kept
  <2>4. SecretsGoWithTheScreen' /\ SessionIsOfOneWallet'
    BY <1>4, SecretsStay, SessionStays DEF PressUnlock, asks, route, held, kept
  <2> QED
    BY <2>2, <2>3, <2>4
<1>5. ASSUME PressForget PROVE Inv'
  <2>1. \A i \in jobs' : JobOK(i)
    BY <1>5, JobIsOK DEF PressForget, Press, JobsOK, Kinds, asks, route, held, kept
  <2>2. Types'
    BY <1>5 DEF PressForget, Types, asks, route, held, kept
  <2>3. JobsOK' /\ Rest'
    BY <1>5, <2>1, JobsStay, RestStays DEF PressForget, asks, route, held, kept
  <2>4. SecretsGoWithTheScreen' /\ SessionIsOfOneWallet'
    BY <1>5, SecretsStay, SessionStays DEF PressForget, asks, route, held, kept
  <2> QED
    BY <2>2, <2>3, <2>4
<1>6. ASSUME PressSend PROVE Inv'
  <2>1. \A i \in jobs' : JobOK(i)
    BY <1>6, JobIsOK DEF PressSend, Press, JobsOK, Kinds, asks, route, held, kept, Types
  <2>2. Types'
    BY <1>6 DEF PressSend, Types, asks, route, held, kept
  <2>3. JobsOK' /\ Rest'
    BY <1>6, <2>1, JobsStay, RestStays DEF PressSend, asks, route, held, kept
  <2>4. SecretsGoWithTheScreen' /\ SessionIsOfOneWallet'
    BY <1>6, SecretsStay, SessionStays DEF PressSend, asks, route, held, kept
  <2> QED
    BY <2>2, <2>3, <2>4
<1>7. ASSUME NEW net \in Nets, SaveSetup(net) PROVE Inv'
  <2>1. \A i \in jobs' : JobOK(i)
    BY <1>7, JobIsOK DEF SaveSetup, Press, JobsOK, Kinds, asks, route, held, kept, Configs
  <2>2. Types'
    BY <1>7 DEF SaveSetup, Types, asks, route, held, kept
  <2>3. JobsOK' /\ Rest'
    BY <1>7, <2>1, JobsStay, RestStays DEF SaveSetup, asks, route, held, kept
  <2>4. SecretsGoWithTheScreen' /\ SessionIsOfOneWallet'
    BY <1>7, SecretsStay, SessionStays DEF SaveSetup, asks, route, held, kept
  <2> QED
    BY <2>2, <2>3, <2>4
<1>8. ASSUME NEW key \in Keys, NEW remember \in BOOLEAN, PressOpen(key, remember) PROVE Inv'
  <2>0. /\ \A i \in jobs' : JobOK(i)
        /\ UNCHANGED <<route, page, held, kept, secrets, phrase>>
    BY <1>8, OpeningIs DEF PressOpen, Kinds, Stages
  <2>1. \A i \in jobs' : JobOK(i)
    BY <2>0
  <2>2. Types'
    BY <2>0 DEF Types, asks, route, held, kept
  <2>3. JobsOK' /\ Rest'
    BY <2>0, JobsStay, RestStays DEF asks, route, held, kept
  <2>4. SecretsGoWithTheScreen' /\ SessionIsOfOneWallet'
    BY <2>0, SecretsStay, SessionStays DEF asks, route, held, kept
  <2> QED
    BY <2>2, <2>3, <2>4
<1>9. ASSUME NEW key \in Keys, NEW remember \in BOOLEAN, PressFollow(key, remember) PROVE Inv'
  <2>0. /\ \A i \in jobs' : JobOK(i)
        /\ UNCHANGED <<route, page, held, kept, secrets, phrase>>
    BY <1>9, OpeningIs DEF PressFollow, Kinds, Stages
  <2>1. \A i \in jobs' : JobOK(i)
    BY <2>0
  <2>2. Types'
    BY <2>0 DEF Types, asks, route, held, kept
  <2>3. JobsOK' /\ Rest'
    BY <2>0, JobsStay, RestStays DEF asks, route, held, kept
  <2>4. SecretsGoWithTheScreen' /\ SessionIsOfOneWallet'
    BY <2>0, SecretsStay, SessionStays DEF asks, route, held, kept
  <2> QED
    BY <2>2, <2>3, <2>4
<1>10. ASSUME NEW key \in Keys, NEW remember \in BOOLEAN, PressRestore(key, remember) PROVE Inv'
  <2>0. /\ \A i \in jobs' : JobOK(i)
        /\ UNCHANGED <<route, page, held, kept, secrets, phrase>>
    BY <1>10, OpeningIs DEF PressRestore, Kinds, Stages
  <2>1. \A i \in jobs' : JobOK(i)
    BY <2>0
  <2>2. Types'
    BY <2>0 DEF Types, asks, route, held, kept
  <2>3. JobsOK' /\ Rest'
    BY <2>0, JobsStay, RestStays DEF asks, route, held, kept
  <2>4. SecretsGoWithTheScreen' /\ SessionIsOfOneWallet'
    BY <2>0, SecretsStay, SessionStays DEF asks, route, held, kept
  <2> QED
    BY <2>2, <2>3, <2>4
<1>11. ASSUME CloseThis PROVE Inv'
  <2>0. hash' \in Routes /\ due' \in Nat /\ now' \in BOOLEAN /\ ~AtRest'
    <3>1. (IF remembered # None THEN "unlock" ELSE "key") \in Routes
      BY DEF Routes, NeedsWallet, KeyRoutes
    <3> QED
      BY <1>11, <3>1, Moves DEF CloseThis, Types
  <2>1. \A i \in jobs' : JobOK(i)
    BY <1>11 DEF CloseThis, JobsOK, asks, route, held, kept
  <2>2. Types'
    BY <1>11, <2>0 DEF CloseThis, Releases, Types, asks, route, held, kept
  <2>3. JobsOK' /\ Rest'
    BY <1>11, <2>1, JobsStay, RestStays, <2>0 DEF CloseThis, asks, route, held, kept
  <2>4. SecretsGoWithTheScreen' /\ SessionIsOfOneWallet'
    BY <1>11, SecretsStay, SessionStays DEF CloseThis, Releases, asks, route, held, kept
  <2> QED
    BY <2>2, <2>3, <2>4
<1>12. ASSUME NEW throws \in BOOLEAN, CloseForSetup(throws) PROVE Inv'
  <2>0. /\ hash' \in Routes /\ due' \in Nat /\ now' \in BOOLEAN
        /\ ~AtRest' \/ (UNCHANGED route /\ page'.torn)
        /\ page'.route = page.route /\ page'.of = page.of /\ page'.coins = page.coins
        /\ page.torn => page'.torn
    <3>1. CASE throws
      BY <1>12, <3>1 DEF CloseForSetup, Torn, Types, Pages, route
    <3>2. CASE ~throws
      <4>1. "setup" \in Routes
        BY DEF Routes
      <4> QED
        BY <1>12, <3>2, <4>1, Moves DEF CloseForSetup, Types
    <3> QED
      BY <3>1, <3>2
  <2>1. \A i \in jobs' : JobOK(i)
    BY <1>12 DEF CloseForSetup, JobsOK, asks, route, held, kept
  <2>2. Types'
    BY <1>12, <2>0 DEF CloseForSetup, Releases, Torn, Types, Pages, asks, route, held, kept
  <2>3. JobsOK' /\ Rest'
    BY <1>12, <2>0, <2>1, JobsStay, RestStays DEF CloseForSetup, asks, route, held, kept
  <2>4. SecretsGoWithTheScreen' /\ SessionIsOfOneWallet'
    BY <1>12, <2>0, SecretsStay, SessionStays DEF CloseForSetup, Releases, asks, route, held, kept
  <2> QED
    BY <2>2, <2>3, <2>4
<1>13. ASSUME Lock PROVE Inv'
  <2>0. hash' \in Routes /\ due' \in Nat /\ now' \in BOOLEAN /\ ~AtRest'
    <3>1. "unlock" \in Routes
      BY DEF Routes, NeedsWallet, KeyRoutes
    <3> QED
      BY <1>13, <3>1, Moves DEF Lock, OpensUnlock, Types
  <2>1. \A i \in jobs' : JobOK(i)
    BY <1>13 DEF Lock, JobsOK, asks, route, held, kept
  <2>2. Types'
    BY <1>13, <2>0 DEF Lock, OpensUnlock, Releases, Types, asks, route, held, kept
  <2>3. JobsOK' /\ Rest'
    BY <1>13, <2>1, JobsStay, RestStays, <2>0 DEF Lock, asks, route, held, kept
  <2>4. SecretsGoWithTheScreen' /\ SessionIsOfOneWallet'
    BY <1>13, SecretsStay, SessionStays DEF Lock, Releases, asks, route, held, kept
  <2> QED
    BY <2>2, <2>3, <2>4
<1>14. ASSUME BackToWallet PROVE Inv'
  <2>0. hash' \in Routes /\ due' \in Nat /\ now' \in BOOLEAN /\ ~AtRest'
    <3>1. "dashboard" \in Routes
      BY DEF Routes, NeedsWallet, KeyRoutes
    <3> QED
      BY <1>14, <3>1, Moves DEF BackToWallet, Types
  <2>1. \A i \in jobs' : JobOK(i)
    BY <1>14 DEF BackToWallet, JobsOK, asks, route, held, kept
  <2>2. Types'
    BY <1>14, <2>0 DEF BackToWallet, Types, asks, route, held, kept
  <2>3. JobsOK' /\ Rest'
    BY <1>14, <2>1, JobsStay, RestStays, <2>0 DEF BackToWallet, asks, route, held, kept
  <2>4. SecretsGoWithTheScreen' /\ SessionIsOfOneWallet'
    BY <1>14, SecretsStay DEF BackToWallet, SessionIsOfOneWallet, asks, route, held, kept
  <2> QED
    BY <2>2, <2>3, <2>4
<1>15. ASSUME ShowTransaction PROVE Inv'
  <2>0. hash' \in Routes /\ due' \in Nat /\ now' \in BOOLEAN /\ ~AtRest'
    <3>1. "tx" \in Routes
      BY DEF Routes, NeedsWallet, PhoneOnly
    <3> QED
      BY <1>15, <3>1, Moves DEF ShowTransaction, Types
  <2>1. \A i \in jobs' : JobOK(i)
    BY <1>15 DEF ShowTransaction, JobsOK, asks, route, held, kept
  <2>2. Types'
    BY <1>15, <2>0 DEF ShowTransaction, Types, asks, route, held, kept
  <2>3. JobsOK' /\ Rest'
    BY <1>15, <2>1, JobsStay, RestStays, <2>0 DEF ShowTransaction, asks, route, held, kept
  <2>4. SecretsGoWithTheScreen' /\ SessionIsOfOneWallet'
    BY <1>15, SecretsStay, SessionStays DEF ShowTransaction, asks, route, held, kept
  <2> QED
    BY <2>2, <2>3, <2>4
<1>16. ASSUME SendSelected PROVE Inv'
  <2>0. hash' \in Routes /\ due' \in Nat /\ now' \in BOOLEAN /\ ~AtRest'
    <3>1. "send" \in Routes
      BY DEF Routes, NeedsWallet, KeyRoutes
    <3> QED
      BY <1>16, <3>1, Moves DEF SendSelected, Types
  <2>1. \A i \in jobs' : JobOK(i)
    BY <1>16 DEF SendSelected, JobsOK, asks, route, held, kept
  <2>2. Types'
    BY <1>16, <2>0 DEF SendSelected, Types, Pages, asks, route, held, kept
  <2>3. JobsOK' /\ Rest'
    BY <1>16, <2>1, JobsStay, RestStays, <2>0 DEF SendSelected, asks, route, held, kept
  <2>4. SecretsGoWithTheScreen' /\ SessionIsOfOneWallet'
    BY <1>16, SecretsStay DEF SendSelected, SessionIsOfOneWallet, Types, asks, route, held, kept
  <2> QED
    BY <2>2, <2>3, <2>4
<1>17. ASSUME NEW j \in jobs, NEW ok \in BOOLEAN, GenerateAnswers(j, ok) PROVE Inv'
  <2>0. /\ secrets' \subseteq secrets \cup {"words"}
        /\ phrase' \in BOOLEAN
        /\ phrase' => phrase \/ page.route = "create"
    <3>1. ShowsIt(j) => j.live /\ j.route = page.route
      BY DEF ShowsIt, OnScreen, JobsOK, JobOK
    <3> QED
      BY <1>17, <3>1 DEF GenerateAnswers, Types
  <2>1. \A i \in jobs' : JobOK(i)
    BY <1>17 DEF GenerateAnswers, JobsOK, asks, route, held, kept
  <2>2. Types'
    BY <1>17, <2>0 DEF GenerateAnswers, Types, asks, route, held, kept
  <2>3. JobsOK' /\ Rest'
    BY <1>17, <2>1, JobsStay, RestStays DEF GenerateAnswers, asks, route, held, kept
  <2>4. SecretsGoWithTheScreen' /\ SessionIsOfOneWallet'
    BY <1>17, <2>0, SessionStays DEF GenerateAnswers, SecretsGoWithTheScreen, asks, route, held, kept
  <2> QED
    BY <2>2, <2>3, <2>4
<1>18. ASSUME NEW j \in jobs, WordsRead(j) PROVE Inv'
  <2>0. JobOK(j) /\ j.w \in Wallets /\ config # None /\ j.kind # "setup"
    <3>1. JobOK(j) /\ j.w \in Wallets /\ config # None /\ (j.kind = "setup" => j.w \in Configs)
      BY <1>18 DEF WordsRead, JobsOK, JobOK
    <3> QED
      BY <3>1 DEF Wallets, Configs
  <2>1. \A i \in jobs' : JobOK(i)
    BY <1>18, <2>0, SupersededAreOK, StagedIsOK DEF WordsRead, Stages
  <2>2. Types'
    BY <1>18 DEF WordsRead, Types, asks, route, held, kept
  <2>3. JobsOK' /\ Rest'
    BY <1>18, <2>1, JobsStay, RestStays DEF WordsRead, asks, route, held, kept
  <2>4. SecretsGoWithTheScreen' /\ SessionIsOfOneWallet'
    BY <1>18, SecretsStay, SessionStays DEF WordsRead, asks, route, held, kept
  <2> QED
    BY <2>2, <2>3, <2>4
<1>19. ASSUME NEW j \in jobs, KeyLoaded(j) PROVE Inv'
  <2>0. JobOK([j EXCEPT !.stage = "opening", !.newest = TRUE, !.w = remembered])
    BY <1>19 DEF KeyLoaded, JobsOK, JobOK, AnyJob, Types, Stages
  <2>1. \A i \in jobs' : JobOK(i)
    BY <1>19, <2>0, SupersededAreOK DEF KeyLoaded
  <2>2. Types'
    BY <1>19 DEF KeyLoaded, Types, asks, route, held, kept
  <2>3. JobsOK' /\ Rest'
    BY <1>19, <2>1, JobsStay, RestStays DEF KeyLoaded, asks, route, held, kept
  <2>4. SecretsGoWithTheScreen' /\ SessionIsOfOneWallet'
    BY <1>19, SecretsStay, SessionStays DEF KeyLoaded, asks, route, held, kept
  <2> QED
    BY <2>2, <2>3, <2>4
<1>20. ASSUME NEW j \in jobs, Installed(j) PROVE Inv'
  <2>0. /\ j.w \in Wallets /\ config # None
        /\ \A i \in jobs' : i \in jobs \/ JobOK(i)
        /\ hash' \in Routes /\ due' \in Nat /\ now' \in BOOLEAN
        /\ ~AtRest' \/ UNCHANGED route
        /\ secrets' \subseteq secrets
        /\ phrase' \in BOOLEAN /\ (phrase' => phrase)
    <3>1. JobOK(j) /\ j.w \in Wallets /\ config # None /\ (j.kind = "setup" => j.w \in Configs)
      BY <1>20 DEF Installed, JobsOK, JobOK
    <3>2. CASE j.remember /\ j.kind # "setup"
      <4>1. JobOK([j EXCEPT !.stage = "keeping"])
        BY <3>1, <3>2, StagedIsOK DEF Stages
      <4> QED
        BY <1>20, <3>1, <3>2, <4>1 DEF Installed, Types, route
    <3>3. CASE ~j.remember
      BY <1>20, <3>1, <3>3, EntersIs DEF Installed
    <3>4. j.kind # "setup"
      BY <3>1 DEF Wallets, Configs
    <3> QED
      BY <3>2, <3>3, <3>4
  <2>1. \A i \in jobs' : JobOK(i)
    BY <1>20, <2>0 DEF JobsOK
  <2>2. Types'
    BY <1>20, <2>0 DEF Installed, Releases, Types, asks, route, held, kept
  <2>3. JobsOK' /\ Rest'
    BY <1>20, <2>0, <2>1, NotNone, JobsStay, RestStays DEF Installed, Releases, asks, route, held, kept
  <2>4. SecretsGoWithTheScreen' /\ SessionIsOfOneWallet'
    BY <1>20, <2>0, SecretsStay, SessionStays DEF Installed, Releases, asks, route, held, kept
  <2> QED
    BY <2>2, <2>3, <2>4
<1>21. ASSUME NEW j \in jobs, InstallThrows(j) PROVE Inv'
  <2>0. page'.torn /\ page'.route = page.route /\ page'.of = page.of /\ page'.coins = page.coins
    BY <1>21 DEF InstallThrows, Torn, Types, Pages
  <2>1. \A i \in jobs' : JobOK(i)
    BY <1>21 DEF InstallThrows, JobsOK, asks, route, held, kept
  <2>2. Types'
    BY <1>21 DEF InstallThrows, Releases, Torn, Types, Pages, asks, route, held, kept
  <2>3. JobsOK' /\ Rest'
    BY <1>21, <2>0, <2>1, JobsStay, RestStays DEF InstallThrows, asks, route, held, kept
  <2>4. SecretsGoWithTheScreen' /\ SessionIsOfOneWallet'
    BY <1>21, <2>0, SecretsStay, SessionStays DEF InstallThrows, Releases, asks, route, held, kept
  <2> QED
    BY <2>2, <2>3, <2>4
<1>22. ASSUME NEW j \in jobs, SecretStored(j) PROVE Inv'
  <2>0. JobOK([j EXCEPT !.stage = "recording"])
    <3>1. JobOK(j) /\ j.w \in Wallets /\ config # None /\ (j.kind = "setup" => j.w \in Configs)
      BY <1>22 DEF SecretStored, JobsOK, JobOK
    <3>2. j.kind # "setup"
      BY <3>1 DEF Wallets, Configs
    <3> QED
      BY <3>1, <3>2, StagedIsOK DEF Stages
  <2>1. \A i \in jobs' : JobOK(i)
    BY <1>22, <2>0 DEF SecretStored, JobsOK
  <2>2. Types'
    BY <1>22 DEF SecretStored, Types, asks, route, held, kept
  <2>3. JobsOK' /\ Rest'
    BY <1>22, <2>1, JobsStay, RestStays DEF SecretStored, asks, route, held, kept
  <2>4. SecretsGoWithTheScreen' /\ SessionIsOfOneWallet'
    BY <1>22, SecretsStay, SessionStays DEF SecretStored, asks, route, held, kept
  <2> QED
    BY <2>2, <2>3, <2>4
<1>23. ASSUME NEW j \in jobs, Recorded(j) PROVE Inv'
  <2>0. /\ jobs' \subseteq jobs
        /\ hash' \in Routes /\ due' \in Nat /\ now' \in BOOLEAN
        /\ ~AtRest' \/ UNCHANGED route
        /\ secrets' \subseteq secrets
        /\ phrase' \in BOOLEAN /\ (phrase' => phrase)
        /\ j.w \in Wallets /\ config # None
    BY <1>23, EntersIs DEF Recorded, JobsOK, JobOK
  <2>1. \A i \in jobs' : JobOK(i)
    BY <1>23, <2>0 DEF JobsOK
  <2>2. Types'
    BY <1>23, <2>0 DEF Recorded, Types, asks, route, held, kept
  <2>3. JobsOK' /\ Rest'
    BY <1>23, <2>0, <2>1, JobsStay, RestStays DEF Recorded, asks, route, held, kept
  <2>4. SecretsGoWithTheScreen' /\ SessionIsOfOneWallet'
    BY <1>23, <2>0, SecretsStay, SessionStays DEF Recorded, asks, route, held, kept
  <2> QED
    BY <2>2, <2>3, <2>4
<1>24. ASSUME NEW j \in jobs, OpenFails(j) PROVE Inv'
  <2>1. \A i \in jobs' : JobOK(i)
    BY <1>24 DEF OpenFails, JobsOK, asks, route, held, kept
  <2>2. Types'
    BY <1>24 DEF OpenFails, Types, asks, route, held, kept
  <2>3. JobsOK' /\ Rest'
    BY <1>24, <2>1, JobsStay, RestStays DEF OpenFails, asks, route, held, kept
  <2>4. SecretsGoWithTheScreen' /\ SessionIsOfOneWallet'
    BY <1>24, SecretsStay, SessionStays DEF OpenFails, asks, route, held, kept
  <2> QED
    BY <2>2, <2>3, <2>4
<1>25. ASSUME NEW j \in jobs, NEW ok \in BOOLEAN, SetupSaved(j, ok) PROVE Inv'
  <2>0. /\ hash' \in Routes /\ due' \in Nat /\ now' \in BOOLEAN
        /\ ~AtRest' \/ UNCHANGED route
        /\ config' \in Configs \/ config' = config
    <3>1. j.w \in Configs /\ config' = (IF ok THEN j.w ELSE config)
      BY <1>25 DEF SetupSaved, Applies, JobsOK, JobOK
    <3>2. CASE ok
      <4>1. (IF CanUnlockHere(remembered, j.w) THEN "unlock" ELSE "key") \in Routes
        BY DEF Routes, KeyRoutes
      <4> QED
        BY <1>25, <3>1, <3>2, <4>1, Moves DEF SetupSaved, Types
    <3>3. CASE ~ok
      BY <1>25, <3>1, <3>3 DEF SetupSaved, Types, route
    <3> QED
      BY <3>2, <3>3
  <2>1. \A i \in jobs' : JobOK(i)
    BY <1>25 DEF SetupSaved, JobsOK
  <2>2. Types'
    BY <1>25, <2>0, NotNone DEF SetupSaved, Types, asks, route, held, kept
  <2>3. JobsOK' /\ Rest'
    BY <1>25, <2>0, <2>1, NotNone, JobsStay, RestStays DEF SetupSaved, asks, route, held, kept
  <2>4. SecretsGoWithTheScreen' /\ SessionIsOfOneWallet'
    BY <1>25, SecretsStay, SessionStays DEF SetupSaved, asks, route, held, kept
  <2> QED
    BY <2>2, <2>3, <2>4
<1>26. ASSUME NEW j \in jobs, NEW ok \in BOOLEAN, SendAnswers(j, ok) PROVE Inv'
  <2>0. /\ hash' \in Routes /\ due' \in Nat /\ now' \in BOOLEAN
        /\ ~AtRest' \/ UNCHANGED route
    <3>1. CASE ok /\ wallet = j.w /\ OnScreen(j)
      <4>1. "result" \in Routes
        BY DEF Routes
      <4> QED
        BY <1>26, <3>1, <4>1, Moves DEF SendAnswers, Types
    <3>2. CASE ~(ok /\ wallet = j.w /\ OnScreen(j))
      BY <1>26, <3>2 DEF SendAnswers, Types, route
    <3> QED
      BY <3>1, <3>2
  <2>1. \A i \in jobs' : JobOK(i)
    BY <1>26 DEF SendAnswers, JobsOK, asks, route, held, kept
  <2>2. Types'
    BY <1>26, <2>0 DEF SendAnswers, Types, asks, route, held, kept
  <2>3. JobsOK' /\ Rest'
    BY <1>26, <2>0, <2>1, JobsStay, RestStays DEF SendAnswers, asks, route, held, kept
  <2>4. SecretsGoWithTheScreen' /\ SessionIsOfOneWallet'
    BY <1>26, SecretsStay DEF SendAnswers, SessionIsOfOneWallet, asks, route, held, kept
  <2> QED
    BY <2>2, <2>3, <2>4
<1>27. ASSUME NEW j \in jobs, NEW outcome \in {"fails", "throws", "done"}, ForgetEnds(j, outcome) PROVE Inv'
  <2>0. /\ hash' \in Routes /\ due' \in Nat /\ now' \in BOOLEAN
        /\ ~AtRest' \/ UNCHANGED route
        /\ page' \in Pages /\ page'.route = page.route /\ page'.of = page.of /\ page'.coins = page.coins
        /\ page.torn => page'.torn
        /\ wallet' = wallet \/ page'.torn \/ ~AtRest'
    <3>1. CASE outcome = "fails"
      BY <1>27, <3>1 DEF ForgetEnds, Types, route, held
    <3>2. CASE outcome = "throws"
      BY <1>27, <3>2 DEF ForgetEnds, Torn, Types, Pages, route
    <3>3. CASE outcome = "done"
      <4>1. (IF shell = "phone" /\ j.route = "settings" THEN "setup" ELSE "key") \in Routes
        BY DEF Routes, KeyRoutes
      <4> QED
        BY <1>27, <3>3, <4>1, Moves DEF ForgetEnds, Types
    <3> QED
      BY <3>1, <3>2, <3>3
  <2>1. \A i \in jobs' : JobOK(i)
    BY <1>27 DEF ForgetEnds, JobsOK
  <2>2. Types'
    BY <1>27, <2>0 DEF ForgetEnds, Releases, Types, asks, route, held, kept
  <2>3. JobsOK' /\ Rest'
    BY <1>27, <2>0, <2>1, JobsStay, RestStays DEF ForgetEnds, asks, route, held, kept
  <2>4. SecretsGoWithTheScreen' /\ SessionIsOfOneWallet'
    BY <1>27, <2>0, SecretsStay, SessionStays DEF ForgetEnds, Releases, asks, route, held, kept
  <2> QED
    BY <2>2, <2>3, <2>4
<1>28. ASSUME Arrive PROVE Inv'
  <2> DEFINE to == GuardRoute(hash, Reads, shell)
             shows == Shows(hash, Reads, shell)
  <2>1. Reads \in GuardStates
    BY DEF Reads, GuardStates, CanUnlockHere, Types
  <2>2. to \in Routes /\ Step(to, Reads, shell) = to
    BY <2>1, GuardSettles DEF Types
  <2>3. shows \in Routes
    BY DEF Shows, Types, Routes, KeyRoutes, NeedsWallet
  <2>4. ~AtRest /\ now' = FALSE /\ phrase' = FALSE /\ secrets' = secrets \ {"typed", "words"}
        /\ UNCHANGED <<kept, wallet, result>>
    BY <1>28 DEF Arrive
  <2>5. \A i \in Retired : i \in AnyJob /\ ~i.live
                           /\ (i.stage # "asked" => i.w \in Wallets /\ config # None)
                           /\ (i.kind = "setup" => i.w \in Configs)
    <3> SUFFICES ASSUME NEW j \in jobs, NEW i, i = [j EXCEPT !.live = FALSE]
                 PROVE  i \in AnyJob /\ ~i.live
                        /\ (i.stage # "asked" => i.w \in Wallets /\ config # None)
                        /\ (i.kind = "setup" => i.w \in Configs)
      BY DEF Retired
    <3>1. JobOK(j)
      BY DEF JobsOK
    <3>2. i \in AnyJob /\ i.live = FALSE /\ i.stage = j.stage /\ i.w = j.w /\ i.kind = j.kind
      BY <3>1 DEF JobOK, AnyJob
    <3> QED
      BY <3>1, <3>2 DEF JobOK
  <2>6. ASSUME NEW r \in Routes, SendsOn(r), jobs' = Retired,
               page' \in {page, Blank}, chosen' = chosen
        PROVE  Inv'
    <3>1. due' \in Nat /\ due' # 0 /\ hash' \in Routes
      BY <2>4, <2>6 DEF SendsOn, AtRest, Types
    <3>2. page' \in Pages
      <4>1. page \in Pages
        BY DEF Types
      <4>2. Blank \in Pages
        BY DEF Blank, Pages
      <4> QED
        BY <2>6, <4>1, <4>2
    <3>3. Types'
      BY <2>4, <2>6, <3>1, <3>2 DEF Types, kept
    <3>4. JobsOK'
      BY <2>4, <2>5, <2>6 DEF JobsOK, JobOK, kept
    <3>5. Rest'
      BY <3>1 DEF Rest, AtRest
    <3>6. SecretsGoWithTheScreen' /\ SessionIsOfOneWallet'
      BY <2>4, <2>6 DEF SecretsGoWithTheScreen, SessionIsOfOneWallet, Blank, kept
    <3> QED
      BY <3>3, <3>4, <3>5, <3>6
  <2>7. CASE to # hash /\ SendsOn(to) /\ jobs' = Retired /\ UNCHANGED <<page, chosen>>
    BY <2>2, <2>6, <2>7
  <2>8. CASE SendsOn(shows) /\ jobs' = Retired /\ page' = Blank /\ UNCHANGED chosen
    BY <2>3, <2>6, <2>8
  <2>9. CASE /\ to = hash
             /\ due' = (IF now THEN due ELSE due - 1)
             /\ jobs' = Retired \cup (IF hash = "create" THEN {Job("generate", None)} ELSE {})
             /\ page' = Page(hash, IF hash = "send" THEN chosen ELSE None)
             /\ chosen' = (IF hash = "send" THEN None ELSE chosen)
             /\ hash' = hash
    <3>1. due' \in Nat
      BY <2>4, <2>9 DEF AtRest, Types
    <3>2. /\ page' \in Pages
          /\ page'.route = hash /\ page'.of = wallet
          /\ page'.coins = (IF hash = "send" THEN chosen ELSE None)
      BY <2>9 DEF Page, Pages, Types
    <3>3. Types'
      BY <2>4, <2>9, <3>1, <3>2 DEF Types, kept
    <3>4. JobsOK'
      <4>1. /\ Job("generate", None) \in AnyJob
            /\ Job("generate", None).route = hash
            /\ Job("generate", None).stage = "asked"
            /\ Job("generate", None).kind = "generate"
        BY DEF Job, AnyJob, Kinds, Stages, Types
      <4> QED
        BY <2>4, <2>5, <2>9, <3>2, <4>1 DEF JobsOK, JobOK, kept
    <3>5. Rest'
      <4>1. hash \in NeedsWallet(shell) => Reads.wallet # "none"
        BY <2>1, <2>2, <2>9, LandsWhereItMay DEF Types
      <4>2. hash \in NeedsWallet(shell) => wallet # None
        BY <4>1 DEF Reads
      <4> QED
        BY <2>4, <2>9, <3>2, <4>2 DEF Rest, kept
    <3>6. SecretsGoWithTheScreen' /\ SessionIsOfOneWallet'
      BY <2>4, <2>9, <3>2 DEF SecretsGoWithTheScreen, SessionIsOfOneWallet, kept
    <3> QED
      BY <3>3, <3>4, <3>5, <3>6
  <2> QED
    BY <1>28, <2>7, <2>8, <2>9 DEF Arrive
<1>29. CASE UNCHANGED vars
  <2>1. Types' /\ JobsOK' /\ Rest'
    BY <1>29 DEF vars, asks, route, held, kept, Types, JobsOK, JobOK, Rest, AtRest
  <2> QED
    BY <1>29, <2>1 DEF vars, asks, route, held, kept, SecretsGoWithTheScreen, SessionIsOfOneWallet
<1>30. ASSUME Presses PROVE Inv'
  BY <1>30, <1>1, <1>2, <1>3, <1>4, <1>5, <1>6, <1>7, <1>8, <1>9, <1>10, <1>11, <1>12,
     <1>14, <1>15, <1>16 DEF Presses, Go
<1>31. ASSUME Answers PROVE Inv'
  BY <1>31, <1>17, <1>18, <1>19, <1>20, <1>21, <1>22, <1>23, <1>24, <1>25, <1>26, <1>27 DEF Answers
<1> QED
  BY <1>13, <1>28, <1>29, <1>30, <1>31 DEF Next

LEMMA Invariance == Spec => []Inv
  BY InvInit, InvNext, PTL DEF Spec

-----------------------------------------------------------------------------
\* Every variable keeps its type, and a wallet is open only under settings,
\* which are never unset.
THEOREM TypeCorrect == Spec => []TypeOK
<1>1. Inv => TypeOK
  <2> SUFFICES ASSUME Inv PROVE TypeOK
    OBVIOUS
  <2>1. page.torn \in BOOLEAN /\ page.forgets \in BOOLEAN /\ page.route \in Routes \cup {"blank"}
        /\ page.of \in Wallets \cup {None} /\ page.coins \in Wallets \cup {None}
    BY DEF Inv, Types, Pages
  <2>2. \A j \in jobs : j.route \in Routes /\ {j.live, j.newest, j.remember} \subseteq BOOLEAN
    BY DEF Inv, JobsOK, JobOK, AnyJob
  <2> QED
    BY <2>1, <2>2 DEF Inv, Types, TypeOK
<1> QED
  BY <1>1, Invariance, PTL

\* However a wallet goes, by a press, a late answer or the background lock,
\* its pages are left, except where freeing it threw (guards.ts, app.ts).
THEOREM PagesHaveAWallet == Spec => []WalletPagesHaveAWallet
<1>1. Inv => WalletPagesHaveAWallet
  BY DEF Inv, Rest, WalletPagesHaveAWallet
<1> QED
  BY <1>1, Invariance, PTL

\* No secret outlives its screen, whenever the words or the key generated for
\* it arrive (screens/create.ts, ui/words.ts).
THEOREM SecretsGo == Spec => []SecretsGoWithTheScreen
<1>1. Inv => SecretsGoWithTheScreen
  BY DEF Inv
<1> QED
  BY <1>1, Invariance, PTL

\* The result and the chosen coins of the session are of the wallet open,
\* whatever answers after another one took its place (api.ts).
THEOREM OneWalletsSession == Spec => []SessionIsOfOneWallet
<1>1. Inv => SessionIsOfOneWallet
  BY DEF Inv
<1> QED
  BY <1>1, Invariance, PTL
=============================================================================
