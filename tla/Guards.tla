------------------------------- MODULE Guards -------------------------------
(***************************************************************************)
(* Which screen a route may show (packages/wallet-ui/src/guards.ts), and   *)
(* what each screen does when it is drawn without what it shows.  Pure: a  *)
(* shell reads the session into a guard state.                             *)
(***************************************************************************)
EXTENDS Integers

Shells == {"desktop", "phone"}
PhoneOnly == {"receive", "scan", "tx", "export", "coins"}
KeyRoutes == {"key", "create", "restore", "unlock"}
NeedsWallet(sh) ==
    {"dashboard", "send", "settings", "psbt"} \cup (IF sh = "phone" THEN PhoneOnly ELSE {})
Routes == {"setup", "result"} \cup KeyRoutes \cup NeedsWallet("phone")

\* wallet: what is open; config: whether the settings name a type to open.
GuardStates ==
    [wallet : {"none", "watch", "spends"}, config : {"none", "unusable", "usable"},
     unlockable : BOOLEAN, hasResult : BOOLEAN, hasTxid : BOOLEAN]

\* A wallet opens with settings only, and they are never unset.
Consistent(s) == s.wallet # "none" => s.config # "none"

\* One rule's answer, the first that applies; the order is the code's.
Step(route, s, sh) ==
    IF sh = "desktop" /\ route \in PhoneOnly THEN "dashboard"
    ELSE IF route \in NeedsWallet(sh) /\ s.wallet = "none"
         THEN IF s.unlockable THEN "unlock" ELSE "setup"
    ELSE IF route = "setup" /\ s.wallet # "none" THEN "settings"
    ELSE IF \/ route = "send" /\ s.wallet = "watch"
            \/ route = "tx" /\ ~s.hasTxid
            \/ route = "result" /\ ~s.hasResult
         THEN "dashboard"
    ELSE IF route \in KeyRoutes /\ s.config # "usable" THEN "setup"
    ELSE IF route = "unlock" /\ ~s.unlockable THEN "key"
    ELSE route

\* guardRoute follows the rules to a route none of them moves.  Three steps
\* reach it, from any route in any state (GuardsProofs), so that its error for
\* a cycle is never thrown.
GuardRoute(route, s, sh) ==
    LET next == [r \in Routes |-> Step(r, s, sh)]
    IN next[next[next[route]]]

\* The screens' own check as they are drawn (redirect in screen.ts): where the
\* user is sent on to, or the route itself.  `sh` draws Key differently.
Shows(route, s, sh) ==
    IF \/ route \in KeyRoutes /\ s.config = "none" /\ (sh = "desktop" \/ route \in {"create", "restore"})
       \/ route \in NeedsWallet(sh) \ {"tx", "scan"} /\ s.wallet = "none"
       \/ route = "settings" /\ s.config = "none"
       \/ route = "send" /\ s.config = "none" /\ sh = "desktop"
    THEN "setup"
    ELSE IF route = "unlock" /\ ~s.unlockable THEN "key"
    ELSE IF \/ route = "result" /\ ~s.hasResult
            \/ route = "tx" /\ (s.wallet = "none" \/ ~s.hasTxid)
         THEN "dashboard"
    ELSE route
=============================================================================
