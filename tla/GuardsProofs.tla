---------------------------- MODULE GuardsProofs ----------------------------
(***************************************************************************)
(* What the route rules of Guards promise, for every route and state.      *)
(***************************************************************************)
EXTENDS Guards, TLAPS

\* Every rule answers with a route.
LEMMA StepTyped ==
    ASSUME NEW r \in Routes, NEW s, NEW sh
    PROVE  Step(r, s, sh) \in Routes
  BY DEF Step, Routes, KeyRoutes, NeedsWallet, PhoneOnly

\* The rules, followed from any route.
LEMMA Unfold ==
    ASSUME NEW r \in Routes, NEW s, NEW sh
    PROVE  GuardRoute(r, s, sh) = Step(Step(Step(r, s, sh), s, sh), s, sh)
  <1> DEFINE next == [q \in Routes |-> Step(q, s, sh)]
  <1>1. next[r] = Step(r, s, sh) /\ Step(r, s, sh) \in Routes
    BY StepTyped
  <1>2. next[next[r]] = Step(Step(r, s, sh), s, sh) /\ Step(Step(r, s, sh), s, sh) \in Routes
    BY <1>1, StepTyped
  <1> QED
    BY <1>1, <1>2 DEF GuardRoute

\* The rules chain at most twice before one that settles: from the result page
\* to the wallet, to Unlock, to Setup.
LEMMA SettlesInThree ==
    ASSUME NEW r \in Routes, NEW s \in GuardStates, NEW sh \in Shells
    PROVE  Step(Step(Step(Step(r, s, sh), s, sh), s, sh), s, sh) = Step(Step(Step(r, s, sh), s, sh), s, sh)
  <1> DEFINE next(q) == Step(q, s, sh)
  <1> USE DEF Step, Routes, KeyRoutes, NeedsWallet, PhoneOnly, GuardStates, Shells
  <1>1. next(r) \in {r, "dashboard", "unlock", "setup", "settings", "key"}
    OBVIOUS
  <1>2. CASE s.wallet = "none"
    <2>1. next("setup") = "setup"
      BY <1>2
    <2>2. \/ next("key") = "key" /\ next("unlock") \in {"unlock", "key"}
          \/ next("key") = "setup" /\ next("unlock") = "setup"
      BY <1>2
    <2>3. next("dashboard") \in {"unlock", "setup"} /\ next("settings") \in {"unlock", "setup"}
      BY <1>2
    <2> HIDE DEF next
    <2>4. next(next(next(next(r)))) = next(next(next(r)))
      BY <1>1, <2>1, <2>2, <2>3
    <2> QED
      BY <2>4 DEF next
  <1>3. CASE s.wallet # "none"
    <2>1. next("dashboard") = "dashboard" /\ next("settings") = "settings" /\ next("setup") = "settings"
      BY <1>3
    <2>2. \/ next("key") = "key" /\ next("unlock") \in {"unlock", "key"}
          \/ next("key") = "setup" /\ next("unlock") = "setup"
      BY <1>3
    <2> HIDE DEF next
    <2>3. next(next(next(next(r)))) = next(next(next(r)))
      BY <1>1, <2>1, <2>2
    <2> QED
      BY <2>3 DEF next
  <1> QED
    BY <1>2, <1>3

\* guardRoute answers with a route that no rule moves: a shell lands on it with
\* one navigation, and the error for a cycle is never thrown.
THEOREM GuardSettles ==
    ASSUME NEW r \in Routes, NEW s \in GuardStates, NEW sh \in Shells
    PROVE  /\ GuardRoute(r, s, sh) \in Routes
           /\ Step(GuardRoute(r, s, sh), s, sh) = GuardRoute(r, s, sh)
           /\ GuardRoute(GuardRoute(r, s, sh), s, sh) = GuardRoute(r, s, sh)
  <1> DEFINE end == GuardRoute(r, s, sh)
  <1>1. end \in Routes
    BY Unfold, StepTyped
  <1>2. Step(end, s, sh) = end
    BY Unfold, SettlesInThree
  <1>3. GuardRoute(end, s, sh) = Step(Step(Step(end, s, sh), s, sh), s, sh)
    BY <1>1, Unfold
  <1> QED
    BY <1>1, <1>2, <1>3

\* A screen the rules let through is drawn: with settings whenever a wallet is
\* open, none of the screens' own checks sends the user on again.
THEOREM ScreensAreShown ==
    ASSUME NEW r \in Routes, NEW s \in GuardStates, NEW sh \in Shells, Consistent(s),
           Step(r, s, sh) = r
    PROVE  Shows(r, s, sh) = r
  BY DEF Step, Shows, Consistent, Routes, KeyRoutes, NeedsWallet, PhoneOnly, GuardStates, Shells

\* What the landing may be: a page that needs a wallet only with one, Send only
\* with one that signs, Setup only with none, and Unlock only where it can open.
THEOREM LandsWhereItMay ==
    ASSUME NEW r \in Routes, NEW s \in GuardStates, NEW sh \in Shells,
           Step(r, s, sh) = r
    PROVE  /\ r \in NeedsWallet(sh) => s.wallet # "none"
           /\ r = "send" => s.wallet = "spends"
           /\ r = "setup" => s.wallet = "none"
           /\ r = "unlock" => s.unlockable /\ s.config = "usable"
  BY DEF Step, Routes, KeyRoutes, NeedsWallet, PhoneOnly, GuardStates, Shells
=============================================================================
