------------------------------- MODULE Doors --------------------------------
(***************************************************************************)
(* Getting in and out of a wallet: the router and the guards over the      *)
(* screens that open, lock, close and forget one, of both shells.          *)
(*                                                                         *)
(* A hash change is an event that comes later; navigating to the route     *)
(* already in the hash dispatches one at once.  Each event retires what the *)
(* screen before it had started: a job's `live` is its routeGuard.         *)
(*                                                                         *)
(* ShowsItLate, KeepsTheCoins, UnsetsFirst and LeavesItUp are faulty        *)
(* variants of the definition each stands before.                          *)
(***************************************************************************)
EXTENDS Guards, FiniteSets

CONSTANTS None,
          Keys,      \* what a user may open a wallet from
          WatchOnly, \* those of them that cannot sign
          Nets,
          Visits,    \* the routes a user goes to by a link, Back or the address
          MaxJobs    \* bound on the sends in flight at once, and on the other calls

ASSUME KeysAssumption == WatchOnly \subseteq Keys
ASSUME VisitsAssumption == Visits \subseteq Routes
ASSUME MaxJobsAssumption == MaxJobs \in Nat

VARIABLES shell,      \* which shell runs
          keeps,      \* whether this device keeps keys (canRememberWallet)
          hash,       \* the route in the address
          due,        \* hashchange events not yet dispatched
          now,        \* whether navigate has one to dispatch at once
          page,       \* the screen drawn
          config,     \* session.config
          wallet,     \* session.wallet
          remembered, \* session.remembered
          result,     \* the wallet of session.lastResult
          chosen,     \* the wallet of session.chosenCoins
          row,        \* whether a transaction row was chosen (the phone's)
          jobs,       \* calls in flight
          secrets,    \* secrets in the page: "typed", "words", or "left" in one that is gone
          phrase,     \* whether the desktop's Create holds its phrase
          crossed     \* whether coins were sent on from a page of another wallet

asks == <<jobs, secrets, phrase>>
route == <<hash, due, now>>
held == <<wallet, result, chosen>>
kept == <<shell, keeps, config, remembered, row, crossed>>
vars == <<route, page, held, kept, asks>>

Wallets == [key : Keys, net : Nets]
Configs == [net : Nets, openable : BOOLEAN]

ASSUME NoneAssumption == None \notin Wallets \cup Configs

SecretPages == {"create", "restore", "key", "unlock"}

\* `of`: the wallet it was drawn for; `torn`: its wallet went and freeing it threw.
Page(r, coins) ==
    [route |-> r, of |-> wallet, coins |-> coins, torn |-> FALSE,
     forgets |-> r = "settings" /\ keeps /\ wallet # None /\ remembered = wallet]
Blank == [route |-> "blank", of |-> None, coins |-> None, torn |-> FALSE, forgets |-> FALSE]

CanUnlockHere(record, cfg) == keeps /\ record # None /\ cfg # None /\ record.net = cfg.net

Reads ==
    [wallet |-> IF wallet = None THEN "none" ELSE IF wallet.key \in WatchOnly THEN "watch" ELSE "spends",
     config |-> IF config = None THEN "none" ELSE IF config.openable THEN "usable" ELSE "unusable",
     unlockable |-> CanUnlockHere(remembered, config),
     hasResult |-> result # None,
     hasTxid |-> shell = "phone" /\ row]

\* boot: the settings and the record are read, or count as none, and the hash
\* is whatever the address says.
Init ==
    /\ shell \in Shells
    /\ keeps \in BOOLEAN
    /\ config \in Configs \cup {None}
    /\ remembered \in (IF config = None THEN {} ELSE Wallets) \cup {None}
    /\ \E r \in Visits \cup {"setup"} :
          LET away == r = "setup" /\ CanUnlockHere(remembered, config)
          IN /\ hash = IF away THEN "unlock" ELSE r
             /\ due = IF away THEN 1 ELSE 0
             /\ now = ~away
    /\ page = Blank
    /\ wallet = None
    /\ result = None
    /\ chosen = None
    /\ row = FALSE
    /\ jobs = {}
    /\ secrets = {}
    /\ phrase = FALSE
    /\ crossed = FALSE

-----------------------------------------------------------------------------
(* Navigation.                                                             *)

Navigate(r) ==
    /\ hash' = r
    /\ now' = (now \/ r = hash)
    /\ due' = IF r = hash THEN due ELSE due + 1

AtRest == due = 0 /\ ~now

\* routeGuard's answer for the screen a job was started on.
OnScreen(j) == j.live /\ j.route = hash

Job(kind, w) ==
    [kind |-> kind, route |-> hash, live |-> TRUE, stage |-> "asked", w |-> w,
     remember |-> FALSE, newest |-> TRUE]
Press(kind) ==
    /\ AtRest
    /\ Cardinality({j \in jobs : j.kind = "send" <=> kind = "send"}) < MaxJobs
    /\ ~\E j \in jobs : j.kind = kind /\ j.live
Retired == {[j EXCEPT !.live = FALSE] : j \in jobs}

\* An event arrives (listen's render): the rules send the route on, or the
\* screen is drawn, and what the one before it held is wiped.  Create asks for
\* its words as it is drawn; Send takes the coins handed to it.
SendsOn(to) == hash' = to /\ due' = IF now THEN due + 1 ELSE due

Arrive ==
    /\ ~AtRest
    /\ now' = FALSE
    /\ secrets' = secrets \ {"typed", "words"}
    /\ phrase' = FALSE
    /\ \E s \in {Reads} : \E to \in {GuardRoute(hash, s, shell)} :
          \/ /\ to # hash
             /\ SendsOn(to)
             /\ jobs' = Retired
             /\ UNCHANGED <<page, chosen>>
          \/ /\ to = hash
             /\ Shows(hash, s, shell) # hash
             /\ SendsOn(Shows(hash, s, shell))
             /\ jobs' = Retired
             /\ page' = Blank
             /\ UNCHANGED chosen
          \/ /\ to = hash
             /\ Shows(hash, s, shell) = hash
             /\ due' = IF now THEN due ELSE due - 1
             /\ jobs' = Retired \cup (IF hash = "create" THEN {Job("generate", None)} ELSE {})
             /\ page' = Page(hash, IF hash = "send" THEN chosen ELSE None)
             /\ chosen' = IF hash = "send" THEN None ELSE chosen
             /\ UNCHANGED hash
    /\ UNCHANGED <<kept, wallet, result>>

\* A link, a button, the browser's Back, or an address typed in.
Go ==
    /\ AtRest
    /\ \E r \in Visits : Navigate(r)
    /\ UNCHANGED <<page, held, kept, asks>>

-----------------------------------------------------------------------------
(* What a release does, wherever it is called from.                        *)

\* releaseWallet: what belongs to the wallet goes with it, and then the handle
\* is freed, which throws while a call still runs on it.
KeepsTheCoins(new) == wallet' = new /\ result' = None /\ UNCHANGED chosen
Releases(new) == wallet' = new /\ result' = None /\ chosen' = None
Torn == page' = [page EXCEPT !.torn = TRUE]

-----------------------------------------------------------------------------
(* The screens that open a wallet.                                         *)

\* A key, words, a descriptor, a passphrase or an app password typed in.
Type ==
    /\ AtRest
    /\ page.route \in SecretPages
    /\ ~(page.route = "key" /\ shell = "phone")
    /\ secrets' = secrets \cup {"typed"}
    /\ UNCHANGED <<route, page, held, kept, jobs, phrase>>

\* Generate new key, on the desktop's Key and the phone's single-key Restore.
Generate ==
    /\ Press("generate")
    /\ page.route = (IF shell = "desktop" THEN "key" ELSE "restore")
    /\ jobs' = jobs \cup {Job("generate", None)}
    /\ UNCHANGED <<route, page, held, kept, secrets, phrase>>

\* The words or the key generated: shown, unless the screen that asked is gone.
ShowsItLate(j) == TRUE
ShowsIt(j) == OnScreen(j)

GenerateAnswers(j, ok) ==
    /\ j \in jobs
    /\ j.kind = "generate"
    /\ jobs' = jobs \ {j}
    /\ IF ok /\ ShowsIt(j)
       THEN /\ secrets' = secrets \cup {IF j.live THEN "words" ELSE "left"}
            /\ phrase' = (phrase \/ (shell = "desktop" /\ j.route = "create"))
       ELSE UNCHANGED <<secrets, phrase>>
    /\ UNCHANGED <<route, page, held, kept>>

OpenKinds == {"open", "follow", "unlock"}
Superseded == {IF j.kind \in OpenKinds THEN [j EXCEPT !.newest = FALSE] ELSE j : j \in jobs}

\* The doors: what stands in each for its button to be pressed, and whether it
\* opens a wallet from `key`.  Create: the words shown and typed back.
ThroughCreate(key) ==
    /\ page.route = "create"
    /\ "words" \in secrets
    /\ key \notin WatchOnly
    /\ shell = "desktop" => phrase

\* Restore, every word in its box; on the desktop they were read as typed.
ThroughRestore(key) == page.route = "restore" /\ "typed" \in secrets /\ key \notin WatchOnly

\* The desktop's Key: a private key, or an xpub or descriptor; the core reads
\* any of them in either field.
ThroughKey == shell = "desktop" /\ page.route = "key" /\ "typed" \in secrets

\* The phone's Restore, come to for a single key or a watch-only wallet.
ThroughMode == shell = "phone" /\ page.route = "restore" /\ "typed" \in secrets

\* openAndEnter, up to install.  The network is the settings', and only a device
\* that keeps keys can remember.
Opening(kind, key, remember, stage) ==
    /\ Press(kind)
    /\ remember => keeps
    /\ config # None
    /\ jobs' = (IF stage = "opening" THEN Superseded ELSE jobs) \cup
          {[Job(kind, [key |-> key, net |-> config.net]) EXCEPT !.remember = remember, !.stage = stage]}
    /\ UNCHANGED <<route, page, held, kept, secrets, phrase>>

PressOpen(key, remember) ==
    /\ ThroughCreate(key) \/ (ThroughRestore(key) /\ shell = "desktop") \/ ThroughKey \/ ThroughMode
    /\ Opening("open", key, remember, "opening")

\* Follow this wallet: the desktop's Key has it beside Open wallet.
PressFollow(key, remember) == ThroughKey /\ Opening("follow", key, remember, "opening")

\* Restore wallet on the phone has the words read first, and opens whatever
\* screen is up when they are.
PressRestore(key, remember) ==
    /\ ThroughRestore(key)
    /\ shell = "phone"
    /\ Opening("open", key, remember, "checking")

WordsRead(j) ==
    /\ j \in jobs
    /\ j.stage = "checking"
    /\ jobs' = (Superseded \ {[j EXCEPT !.newest = FALSE]}) \cup {[j EXCEPT !.stage = "opening"]}
    /\ UNCHANGED <<route, page, held, kept, secrets, phrase>>

\* Unlock: the record is read, then its key, and only then an open begins.
PressUnlock ==
    /\ Press("unlock")
    /\ page.route = "unlock"
    /\ jobs' = jobs \cup {Job("unlock", remembered)}
    /\ UNCHANGED <<route, page, held, kept, secrets, phrase>>

KeyLoaded(j) ==
    /\ j \in jobs
    /\ j.kind = "unlock"
    /\ j.stage = "asked"
    /\ remembered # None
    /\ config # None
    /\ remembered.net = config.net
    /\ jobs' = (Superseded \ {[j EXCEPT !.newest = FALSE]})
          \cup {[j EXCEPT !.stage = "opening", !.newest = TRUE, !.w = remembered]}
    /\ UNCHANGED <<route, page, held, kept, secrets, phrase>>

\* The wallet is open: the fields are emptied, and only a screen still shown
\* moves on to it.  `also` drops the phrase of Create, whoever holds it, and the
\* key generated on Key.
Enters(j) ==
    /\ jobs' = jobs \ {j}
    /\ secrets' = IF j.kind = "unlock" \/ ~j.live THEN secrets
                  ELSE IF j.route = "create" THEN secrets \ {"typed"} ELSE secrets \ {"typed", "words"}
    /\ phrase' = (phrase /\ ~(j.kind = "open" /\ j.route = "create"))
    /\ IF OnScreen(j) THEN Navigate("dashboard") ELSE UNCHANGED route

\* install's commit, for the newest open only.
Installed(j) ==
    /\ j \in jobs
    /\ j.stage = "opening"
    /\ j.newest
    /\ Releases(j.w)
    /\ IF j.remember
       THEN /\ jobs' = (jobs \ {j}) \cup {[j EXCEPT !.stage = "keeping"]}
            /\ UNCHANGED <<route, secrets, phrase>>
       ELSE Enters(j)
    /\ UNCHANGED <<page, kept>>

\* Freeing the wallet replaced throws, and the open fails with none open.
InstallThrows(j) ==
    /\ j \in jobs
    /\ j.stage = "opening"
    /\ j.newest
    /\ wallet # None
    /\ Releases(None)
    /\ Torn
    /\ jobs' = jobs \ {j}
    /\ UNCHANGED <<route, kept, secrets, phrase>>

\* The remember step: the key is stored, then the record, by the newest open;
\* one started after that check is not noticed.
SecretStored(j) ==
    /\ j \in jobs
    /\ j.stage = "keeping"
    /\ j.newest
    /\ jobs' = (jobs \ {j}) \cup {[j EXCEPT !.stage = "recording"]}
    /\ UNCHANGED <<route, page, held, kept, secrets, phrase>>

Recorded(j) ==
    /\ j \in jobs
    /\ j.stage = "recording"
    /\ Enters(j)
    /\ remembered' = j.w
    /\ UNCHANGED <<page, held, shell, keeps, config, row, crossed>>

\* A step fails or is superseded: said in the banner of a screen still shown.
OpenFails(j) ==
    /\ j \in jobs
    /\ j.kind \in OpenKinds
    /\ jobs' = jobs \ {j}
    /\ UNCHANGED <<route, page, held, kept, secrets, phrase>>

-----------------------------------------------------------------------------
(* Setup, and the ways out of a wallet.                                    *)

\* Setup's Continue, and the save answering: to Unlock or Key, whichever
\* screen is on top by then.
SaveSetup(net) ==
    /\ Press("setup")
    /\ page.route = "setup"
    /\ jobs' = jobs \cup {Job("setup", [net |-> net, openable |-> TRUE])}
    /\ UNCHANGED <<route, page, held, kept, secrets, phrase>>

UnsetsFirst(cfg, ok) == config' = IF ok THEN cfg ELSE None
Applies(cfg, ok) == config' = IF ok THEN cfg ELSE config

SetupSaved(j, ok) ==
    /\ j \in jobs
    /\ j.kind = "setup"
    /\ jobs' = jobs \ {j}
    /\ Applies(j.w, ok)
    /\ IF ok
       THEN Navigate(IF CanUnlockHere(remembered, j.w) THEN "unlock" ELSE "key")
       ELSE UNCHANGED route
    /\ UNCHANGED <<page, held, shell, keeps, remembered, row, crossed, secrets, phrase>>

\* closeThisWallet: on to Unlock or Key, whether or not the free threw.
CloseThis ==
    /\ AtRest
    /\ page.route \in {"settings"} \cup (IF shell = "desktop" THEN {"dashboard"} ELSE {})
    /\ Releases(None)
    /\ Navigate(IF remembered # None THEN "unlock" ELSE "key")
    /\ UNCHANGED <<page, kept, asks>>

\* closeForSetup: Setup only when the free did not throw.
CloseForSetup(throws) ==
    /\ AtRest
    /\ page.route = "settings"
    /\ throws => wallet # None
    /\ Releases(None)
    /\ IF throws THEN Torn /\ UNCHANGED route ELSE Navigate("setup") /\ UNCHANGED page
    /\ UNCHANGED <<kept, asks>>

\* The background lock's close, of a remembered wallet.
LeavesItUp == UNCHANGED route
OpensUnlock == Navigate("unlock")

Lock ==
    /\ keeps
    /\ wallet # None
    /\ remembered = wallet
    /\ Releases(None)
    /\ OpensUnlock
    /\ UNCHANGED <<page, kept, asks>>

\* Forget this wallet, from Unlock, or from the Settings of the wallet remembered.
PressForget ==
    /\ Press("forget")
    /\ page.route = "unlock" \/ page.forgets
    /\ jobs' = jobs \cup {Job("forget", None)}
    /\ UNCHANGED <<route, page, held, kept, secrets, phrase>>

\* Its end: the wallet is released, and the session's record goes unless that
\* threw.  Any earlier step that fails leaves all as it is.
ForgetEnds(j, outcome) ==
    /\ j \in jobs
    /\ j.kind = "forget"
    /\ jobs' = jobs \ {j}
    /\ \/ outcome = "fails" /\ UNCHANGED <<held, remembered, route, page>>
       \/ /\ outcome = "throws"
          /\ wallet # None
          /\ Releases(None)
          /\ Torn
          /\ UNCHANGED <<remembered, route>>
       \/ /\ outcome = "done"
          /\ Releases(None)
          /\ remembered' = None
          /\ Navigate(IF shell = "phone" /\ j.route = "settings" THEN "setup" ELSE "key")
          /\ UNCHANGED page
    /\ UNCHANGED <<shell, keeps, config, row, crossed, secrets, phrase>>

-----------------------------------------------------------------------------
(* What the wallet's pages hand on.                                        *)

\* A broadcast from Send, Import PSBT, or an offer of the desktop's Wallet or
\* the phone's transaction, by the wallet open.
PressSend ==
    /\ Press("send")
    /\ page.route \in {"send", "psbt"} \cup (IF shell = "desktop" THEN {"dashboard"} ELSE {"tx"})
    /\ wallet # None
    /\ page.of = wallet
    /\ jobs' = jobs \cup {Job("send", wallet)}
    /\ UNCHANGED <<route, page, held, kept, secrets, phrase>>

\* It answers: recordSent, for the same wallet only, and Result where the user
\* still is on the screen.
SendAnswers(j, ok) ==
    /\ j \in jobs
    /\ j.kind = "send"
    /\ jobs' = jobs \ {j}
    /\ IF ok /\ wallet = j.w
       THEN /\ result' = j.w
            /\ IF OnScreen(j) THEN Navigate("result") ELSE UNCHANGED route
       ELSE UNCHANGED <<result, route>>
    /\ UNCHANGED <<page, wallet, chosen, kept, secrets, phrase>>

BackToWallet ==
    /\ AtRest
    /\ page.route = "result"
    /\ result' = None
    /\ Navigate("dashboard")
    /\ UNCHANGED <<page, wallet, chosen, kept, asks>>

\* A row of the phone's Wallet.
ShowTransaction ==
    /\ AtRest
    /\ shell = "phone"
    /\ page.route = "dashboard"
    /\ row' = TRUE
    /\ Navigate("tx")
    /\ UNCHANGED <<page, held, shell, keeps, config, remembered, crossed, asks>>

\* Send selected, of coins of the wallet the page was drawn for.
SendSelected ==
    /\ AtRest
    /\ page.route = (IF shell = "phone" THEN "coins" ELSE "dashboard")
    /\ page.of.key \notin WatchOnly
    /\ chosen' = page.of
    /\ crossed' = (crossed \/ page.of # wallet)
    /\ Navigate("send")
    /\ UNCHANGED <<page, wallet, result, shell, keeps, config, remembered, row, asks>>

-----------------------------------------------------------------------------
Presses ==
    \/ Go \/ Type \/ Generate \/ PressUnlock \/ CloseThis \/ PressForget \/ PressSend
    \/ BackToWallet \/ ShowTransaction \/ SendSelected
    \/ \E key \in Keys, remember \in BOOLEAN :
          PressOpen(key, remember) \/ PressFollow(key, remember) \/ PressRestore(key, remember)
    \/ \E net \in Nets : SaveSetup(net)
    \/ \E throws \in BOOLEAN : CloseForSetup(throws)

Answers ==
    \E j \in jobs :
       \/ WordsRead(j) \/ KeyLoaded(j) \/ Installed(j) \/ InstallThrows(j) \/ SecretStored(j) \/ Recorded(j) \/ OpenFails(j)
       \/ \E ok \in BOOLEAN : GenerateAnswers(j, ok) \/ SetupSaved(j, ok) \/ SendAnswers(j, ok)
       \/ \E outcome \in {"fails", "throws", "done"} : ForgetEnds(j, outcome)

Next == Arrive \/ (~now /\ (Presses \/ Answers \/ Lock))

Spec == Init /\ [][Next]_vars

\* The browser dispatches the events it has queued.
FairSpec == Spec /\ WF_vars(Arrive)

-----------------------------------------------------------------------------
\* Every variable has the values the code gives it, and a wallet is open only
\* under settings, which are never unset: what the rules rely on.
TypeOK ==
    /\ shell \in Shells
    /\ {hash} \subseteq Routes
    /\ due \in Nat
    /\ page.route \in Routes \cup {"blank"}
    /\ config \in Configs \cup {None}
    /\ {wallet, remembered, result, chosen, page.of, page.coins} \subseteq Wallets \cup {None}
    /\ \A on \in {keeps, now, row, phrase, crossed, page.torn, page.forgets} : on \in BOOLEAN
    /\ secrets \subseteq {"typed", "words", "left"}
    /\ \A j \in jobs : j.route \in Routes /\ {j.live, j.newest, j.remember} \subseteq BOOLEAN
    /\ wallet # None => config # None

\* At rest, a page that needs a wallet is not up without one: every way a
\* wallet goes, from whatever screen and whenever it is answered, leads off its
\* pages.  Only a free that throws leaves one up (closeForSetup, forgetWallet,
\* and an open's own failure).
WalletPagesHaveAWallet ==
    AtRest /\ page.route \in NeedsWallet(shell) => wallet # None \/ page.torn

\* No secret outlives its screen: not in the page of a screen left, and not in
\* Create's own variable; an answer that comes late shows nothing.
SecretsGoWithTheScreen == "left" \notin secrets /\ (phrase => page.route = "create")

\* What the session holds for the open wallet is that wallet's: the result of a
\* broadcast answered late, and the coins Send opens with.  (Coins handed on by
\* a page that another open's wallet came in under are apart.)
SessionIsOfOneWallet ==
    /\ result \in {None, wallet}
    /\ ~crossed => chosen \in {None, wallet} /\ page.coins \in {None, page.of}

\* The rules and the screens never send one another on for ever: again and
\* again every event is dispatched and the page is the one the address names.
NavigationSettles == []<>(AtRest /\ page.route = hash)
=============================================================================
