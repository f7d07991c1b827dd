# Formal models of the Bitcoin wallet

TLA+ models of the wallet in this repository: the shared TypeScript front end
(`packages/wallet-ui`) and the Rust core it drives (`crates/wallet-core`, through
`crates/wallet-wasm`). Every definition is translated from the source;
`PROJECT.json` ("map") gives its lines.

The code is sequential almost everywhere and hard to test in few places: a page
that awaits the platform, IndexedDB, the core and the network, with several calls
in flight, whose screens come and go under those calls, in an app that can be
killed or suspended between any two answers. Those places are what the models are
about.

## 1. Inventory

| Component | State | Operations | Talks to | What is hard | What makes it correct |
|---|---|---|---|---|---|
| Session (`api.ts`, `session.ts`, `ui/open.ts`, `ui/settings.ts`) | open handle and its description, unsigned PSBTs, `openAttempt`, the remember queue; `session.config`, `session.remembered` | open, unlock, reset history, remember, forget, close, Setup, boot | key store, record, IndexedDB, core | opens that race; a remember step of several round trips; `free()` that may throw; settings that change under an await; a record that shows before it is saved; restarts | only the newest open is shown; no handle leaks; the last remembered wallet is the recorded one and has its key; every press is answered |
| Background lock (`ui/autolock.ts`, `holdOpen`/`whenIdle` in `api.ts`) | lock time, its saves, deadline, timer, waiting locks | hide, show, timer, choose | session, work in flight, platform | suspended timers, repeated visibility events, work that starts while a lock waits, a wallet reopened meanwhile | closes exactly the wallets out of sight long enough, never under work, in the end always |
| Navigation (`guards.ts`, `router.ts`, `app.ts`, shells, `screen.ts`) | location hash, events due, the screen drawn; what a page hands the next | route rules, render, the screens that open, lock, close and forget a wallet | session | rules that chain; a screen drawn under one session and used under another; words that outlive their screen | navigation settles; no wallet page without a wallet; secrets go with their screen; what is handed on is of the open wallet |
| Send (`screens/send.ts`, `mobile/screens/send.ts`) | form, estimate, Max preview, Review, sheet | edit, target, Max, Review, Back, Confirm, leave | session's map of PSBTs, core | builds that answer after the form or the screen moved on; double presses | what would be confirmed is what the form shows; nothing is left in the map that no one can sign or discard |
| Offers of an unconfirmed transaction (`screens/dashboard.ts`, `mobile/screens/tx.ts`, `ui/preview.ts`) | open row, its offer, held preview, numbers on screen, syncs | open a row, Bump fee, Cancel, Speed up, sync | the same | a redraw under a build; a preview taken before its broadcast | the map holds the one preview held; what is shown is what would be signed |
| Import PSBT (`ui/psbt.ts`, both screens) | field, review, reads in flight | type, paste, load, sign, broadcast | the same, clipboard, files | typing, pasting and signing that overtake one another | Sign acts on the text in the field |
| Fees (`feebump.ts`, `ui/format.ts`, fees in `wallet.rs`) | none | offered rate, cancel's and child's fee | core | three roundings | an offer is never refused; a replacement outbids; a child helps |
| Sealed key store (`platform/sealed.ts`, `persist/sealed-secrets.ts`, `persist/idb.ts`) | sealed entries, a connection | remember, load, forget | IndexedDB, WebCrypto | an entry replaced over several awaits; transactions that abort after their request succeeded; two windows | a secret comes back only for its wallet and password; a call that fails changed nothing |
| Core handle (`wallet.rs`, `persist.rs`, `JsPersister`) | BDK wallet, staged changeset, the aggregate the persister writes, async mutex | open, address, new address, freeze, build, bump, cancel, sign, broadcast, sync, rescan | backend, persister | several handles on one record, each replacing it whole; calls that outlive a freed handle; writes that fail, a crash at any await, the network asked outside the mutex, acceptance without a record | what is answered Ok is stored, but for what another handle's write undoes; a handle picks no coin it was told is spent or frozen and gives out no address twice; the mutex is let go |
| Chain backends (`backend/`), `net.ts` | none | full scan, sync, broadcast, fee estimates | Esplora | deadline that passes after acceptance | one answer a call, with its cause |
| Keys and descriptors (`keys.rs`, `keystore.rs`) | none | derive, parse, encrypt | libraries | none concurrent | pure functions |
| Native shell (`apps/native`), browser platform (`apps/web`) | record, settings, OS keychain entries | get, set, scan | OS | writes the browser swallows; native writes that show and are then not saved | answers are true |
| Helpers (`amount.ts`, `bip21.ts`, words, QR, clipboard) | none | parsing, formatting | none | none concurrent | agree with their definitions |
| CLI (`crates/wallet-cli`) | none kept | one command a process | core | none | as the core |

How they interact: a screen calls `api.ts`, which owns the one open handle and the map of
unsigned PSBTs; `api.ts` calls the core through WebAssembly, the platform (settings,
record, key store) and IndexedDB; the core calls back a JavaScript persister and
`fetch`. Screens are told that they were left by `routeGuard` and friends
(`screen.ts`), never by a cancelled call: every answer comes, and what came too late must
find out by itself. That pattern, a counter or guard remembered and compared,
occurs in every front-end module below.

Hazards, each at its line and with the properties that would catch it, are in
`PROJECT.json` ("hazards").

## 2. Modules

| Module | Models |
|---|---|
| `WalletSession` | the session: opens, unlocks, history resets, remember steps, forgets, closes, work in flight, Setup, restarts |
| `NewestWins` | abstract: attempts are numbered, only the newest may be shown. `WalletSession` implements it |
| `Autolock` | the background lock |
| `WalletCore` | one wallet's stored record and the handles open on it |
| `WalletBook` | abstract: each handle is a draft of the record. `WalletCore` implements it |
| `Guards` | the route rules and the screens' own checks, as operators |
| `Doors` | router, events and every screen through which a wallet is opened, locked, closed or forgotten; over `Guards` |
| `PendingPsbts` | what the spending screens share: the render, the map of unsigned PSBTs, broadcasts |
| `SendForm`, `TxOffers`, `PsbtFlow` | Send, the offers of a transaction, Import PSBT, on the desktop and on the phone; each over `PendingPsbts` |
| `Fees` | rates and fees of bumps, cancels and children |
| `Spending` | composes the three screens over one map, with `Fees`; its properties |
| `Keystore` | abstract: what the browser's key store promises its callers |
| `SealedKeystore` | how it keeps that. Implements `Keystore` |
| `*Proofs` | theorems: `WalletSession`, `WalletCore`, `Autolock`, `Guards`, `Doors`, `SealedKeystore`, `Fees`, `Spending` |
| `MC*` | small instances for TLC: symmetry sets and the calls and amounts an instance has |

JavaScript runs one task at a time, so in every front-end module everything between two
awaits is one action, and an await of the platform, of IndexedDB, of WebCrypto or of
the core ends one.

### WalletSession

A press of a button is a member of `Calls` (opens), `Forgets` or `Jobs` and is
used once; `pc`, `forget` and `job` say how far it is. A call of the platform takes
effect in the action that receives its answer. `config`, `handle`, `shown`
(`session.wallet`), `remembered`, `attempts` and `queue` are the module's
variables of the same names in the code; `keystore`, `record`, `disk` and `unreadable`
(whose saved history cannot be read) are what survives `Restart`. A wallet is a pair of what was typed and a network, which
is what its id is made of. `CommitRefused` and the `refused` case of
`RecordForgotten` are a `free()` that throws because a call is still running on
the handle (wasm-bindgen counts it as borrowed): the code after `releaseWallet`
is then skipped, as it is in the code.

`setRemembered` is two calls on native (`writeStore`): `store.set` or `store.delete` changes
`record`, which is what `getRemembered` returns, and `store.save` writes `disk`, the file. So
a remember step goes from "recording" over "saving" to "done", a forget from "clearing"
over "saving", and one that fails at "saving" has changed the record all the same. The
plugin also writes the file by itself (`Autosave`), and a restart reads the record as it was
in memory (the page reloaded, the store still there) or from the file (the app killed).
The browser's record is one write, which is the case of a save that never fails.

`SilentStore` says whether a write of the record may fail unsaid, as the browser
platform's does (`write` swallows the exception). The runs take it FALSE: a store that
says when it fails, which the native one does, and the browser's while it has room. The other
case is seen only through `SetQuietly`, the mutant under which `RememberedIsRecord`
fails, and the theorems that exclude it.

### Autolock

The clock is wall time in ticks of the smallest offered limit. `timers` are the
times at which the running `setTimeout`s go off; nothing forces one to, as on a
suspended phone. `locks` are the calls of `lock` that wait in `whenIdle`, with
the work each of them awaits: `whenIdle` awaits the work there is when it looks,
and looks again. The promise reactions that follow a settled work run before any
other task and belong to its action. `absence` and `overdue` are history
variables: they restate what being out of sight for the limit means, without
looking at `away` or at the timer, and properties are stated with them.

### WalletCore

`view` is what BDK's wallet knows that the properties tell apart: coins,
transactions, frozen coins, the highest revealed index, and whether it was ever
fully scanned (a history bit, kept with the rest). `staged` is whether a change
is not yet written. `JsPersister` merges every delta into the aggregate it writes,
so a successful write leaves the writer's view in the record. `lock` is the async
mutex, held from the change to the store's answer; the network is asked before
it is taken. A call is a member of `Ops`, used once. `Leave` is the page gone at any
moment, with a write under way that reached the store or not.

A record has several handles at a time, and `Open` asks for none to be gone: `install` opens
the new handle before it frees the old, opens race, a second page is a second session, and
`Free` (`releaseWallet`, or a superseded open) ends new calls only. The calls under way hold
the `Rc` of the wallet, go on, and write. No handle reads the record again, so a write
undoes what others wrote since. Three history variables keep the account: `known`, what each
handle was told, by its own answers and by the record it read; `acked`, what the answers
said of the record as it is now, which a write replaces by the writer's `known`; `behind`,
the handles that another one's write has left behind, whose Ok with nothing to write says
nothing of the record.

`Build` is a payment, a sweep or a child that pays for its parent: any set of
spendable coins. `Bump` is a fee bump, which may add coins, or a cancel.
Reorganisations and evictions are BDK's and are left out, so the wallet's set of
transactions only grows; change outputs are left out too, and the coins of a replaced
transaction stay spent.

`WalletBook` is what a caller of a handle may rely on, without mutex, stage, network or
chain. Each handle is a draft of the record (`book`): a call makes its change in its handle's
draft, whole and at one moment between being made and being answered; it is Ok once the
record has the whole draft (`address` alone is Ok whatever the record has); a failed one
takes nothing back, and its change goes with the next draft saved; a handle that goes
leaves the record as it was or with its draft, and the next one starts from there. Between
handles nothing is promised: a draft saved is the record, whatever others saved meanwhile,
and an Ok with nothing to write, on a handle left behind, promises nothing. In the
mapping (`Book`, in `WalletCore`) a draft is the wallet of a handle opening, open or freed,
the book what an open would load, and a call has made its change once it holds the mutex.

### Guards and Doors

`Step` is one rule of `guards.ts`, in the code's order; `GuardRoute` follows the rules,
three times, which `GuardsProofs` shows is as long as the code's loop can run. `Shows` is
the check each screen makes again as it is drawn. A guard state is what a shell
reads off the session.

In `Doors`, `hash` is the address, `due` the `hashchange` events the browser has yet to
dispatch and `now` the one `navigate` dispatches itself when the hash would not change.
`Arrive` is one event: it retires what the screen before had started, wipes the
secrets of the page, and draws a page or navigates on. A job is a call in flight; its
`live` is its `routeGuard`, its `stage` how far an open is and `newest` whether it is
the last attempt, which is all of `WalletSession` that a screen can tell apart.
`secrets` are the inputs and words `wipeSecrets` blanks, `phrase` the desktop's
Create variable that outlives its page, `chosen` and `result` what a page hands the
next one. `crossed` notes a hand-over described under "Known divergences". A page whose
wallet went while `free()` threw is `torn`.

### PendingPsbts, SendForm, TxOffers, PsbtFlow, Spending

A press that builds takes the next id, the `psbt_id` it will be answered with. A build is in
`builds` until it answers, its PSBT then in `pending` until it is signed or discarded, and in
`sending` or `sent` afterwards. The counters the screens compare after an await (`drainSeq`,
`formSeq`, `heldPreview`'s `gen`, `seq`) are here a build's or a read's `live`, set to FALSE
where the code bumps the counter, so that the state stays finite. `place` is where the user
is as the render's guards see it; a render that was left never comes back. `patient` is a
history variable: no press came while an earlier one was unfinished.

* `SendForm`: `form` is the recipients (a version every edit moves on), whether there is
  one, the rate and whether coins were chosen. `drain` is Max as a mode, `preview` and
  `sheet` the Review. Where the shells differ an action asks `Desktop`: the desktop locks
  its form under a Review and has one counter for both builds; the phone has two and a
  sheet the user can close.
* `TxOffers`: `row` is the open detail (the phone's screen is a row open from the start),
  `held` what `heldPreview` holds, `card` whose numbers are on screen, `syncs` the
  automatic and asked syncs that redraw the history.
* `PsbtFlow`: a text is empty, a BC-UR code, unreadable, or a PSBT, signed or not. `read` is
  the text last handed to the core, `jobs` the reads, pastes, loads and signings in flight.
* `Spending` opens one of the screens (`screen`) in either shell. Its fourth screen, "fees", is
  `Fees`: the offers once more, by their amounts alone.

### Fees

A rate is in thousandths of a sat/vB, which holds the screens' tenths, the core's whole
sat per 1000 weight units and the network's whole sats. `Outbid`, `Typeable`, `PerKwu`, `FeeAt`,
`CancelFee` and `ChildFee` are the code's functions; the actions are an estimate that
arrives, a rate typed, prefilled or taken from a refusal, and the three offers pressed. A
refusal is that of a rate too low: rates above `MAX_FEE_RATE_SAT_VB` (`wallet.rs` 498) are not
typed here.

### Keystore and SealedKeystore

`SealedKeystore` has one action from await to await: sealing, waiting for the database,
the transaction, its commit or abort, the answer, unsealing. Transactions on one object
store run in the order they were made, in whichever window (`ahead`). `handle` is each
window's cached connection, which may fail to open or be dropped by the browser.
Encryption is what it promises: a record opens with the password and the wallet id it
was sealed with while its ciphertext is unchanged. `Damages`, `NewerVersion` and
`Copied` are what something else may have written to the disk.

`Keystore` is what a caller may rely on: a call takes effect at one moment between being
made and being answered, or not at all, and a refused or failed one changed nothing.
The refinement maps a record to the entry it opens to, and a call past its commit to "done".

## 3. Runs

| Run | Instance | Shows |
|---|---|---|
| `session_safety` | 2 opens of 2 keys, 1 forget, 1 sync, 1 network | `QueueMovesOn`, `HandlesAccountedFor`, `LastRememberWins`, `RecordingKeyIsKept`, `RememberedIsRecord`, `NewestWinsSpec` |
| `session_answers` | 2 opens, 1 forget, fairness | `EveryPressIsAnswered` |
| `session_key_kept` | 2 opens of 1 key | counterexample to `RememberedKeyIsKept` |
| `session_own_server` | 1 open, 2 networks | counterexample to `OpenOnItsOwnServer` |
| `autolock_safety` | 1 wallet, 2 opens, 2 works, 2 choices in flight, clock to 2, fairness | `NeverBackUnlocked`, `LastChoiceIsKept`, `LocksOnlyOverdue`, `LockInterruptsNothing`, `LocksComeThrough`, `ClosesUnattended` |
| `autolock_out_of_sight` | 1 wallet, 1 open | counterexample to `OutOfSightCloses` |
| `core_safety` | 3 calls of 8 kinds, 2 handles, 2 coins and addresses | `AcknowledgedIsStored`, `NewAddressesAreFresh`, `FrozenStaysOut`, `SpentStaysSpent`, `WalletBookSpec` |
| `core_answers` | 3 calls of any kind on 1 handle, 1 coin and address, fairness | `FirstPassIsFull`, `EveryCallIsAnswered` |
| `core_first_pass` | 2 calls, 1 foreign transaction | counterexample to `FirstPassIsFull` |
| `spending` | both shells; Send: 2 builds, 1 edit, 2 rates; offers: 2 rows, 1 sync, 2 presses; PSBT: 3 reads of 2 texts; fees: 5 originals, 2 sizes, 5 rates; fairness | `DrainIsCurrent`, `SheetIsOfThisForm`, `PatientStrandsNothing`, `OnlyTheHeldIsPending`, `HeldIsShown`, `SignedOnce`, `ReviewIsOfField`, `ButtonsAreOwed`, `PatientIsRead`, `OffersAreBuilt`, `CancelOutbids`, `ChildHelps`, `PressesAreAnswered` |
| `doors` | both shells; 2 keys, one of them watch-only, 1 network, links to Restore, Create and Settings, 1 call and 1 send in flight; fairness | `WalletPagesHaveAWallet`, `SecretsGoWithTheScreen`, `SessionIsOfOneWallet`, `NavigationSettles` |
| `sealed` | 2 wallets remembered in 2 windows, one loaded, one refused for want of a password; fairness | `OpensOnlyItsOwn`, `NobodyLeftWaiting`, `KeepsThePromise` |

No run lists a `TypeOK`: each is a theorem.

### Bounds

Two opens are enough for every race the session distinguishes (older and newer); the third
party is the forget, or a restart. Two keys make the two opens differ, one key makes
them fight for one entry. One job is enough for `free()` to throw.

In `Autolock` two opens give a wallet reopened, two works one that starts as another
ends, and clock 2 with limit 1 an absence that ends before, at and after the
deadline; two choices give saves that could answer in the other order.

In `WalletCore` the initial record is empty or that of an earlier run, so that three
calls reach build, broadcast and build again, or freeze, failed write and build, with a
crash and a second open in between, or beside the first. Two handles are the one that
writes and the one whose changes that undoes. `core_safety` (`MostKinds`) leaves out
`address`, a `newAddress` that promises less, `unfreeze`, the mirror of `freeze`, and the partial
sync, a full one that asks about less; `core_answers` has them, on one handle, where a
call's answer and a first pass are decided.

In `Spending` two builds are an older and a newer one, of Max and of Review in any order, and
the one edit comes before, between or after them; two rows give a row opened over
another's offer; three reads of two texts let a paste, an import and a signing overtake
each other. The originals have a rate of zero, of 1 sat/vB, a rounding off it on either
side, and that of a spend in a hurry, where each of the three roundings tips.

In `Doors` a link may lead to a page with words, to one where one types, and to one that
needs a wallet, at any moment; every other route is reached by pressing. One open and one
send in flight overlap with the locking, closing, forgetting and leaving of any page. A
second call in flight was tried with links to Restore alone (3 396 816 states), and
links to Coins in addition (2 025 668 states): the same properties hold.

In `sealed` the two windows write different slots and one slot is read while it is written,
copied over, damaged or dropped. An entry replaced under another password while it is
loaded (`Presses` of "keep", "change", "load", "bare"; 109 460 states) and one forgotten
meanwhile ("keep", "load", "drop", "bare"; 60 008 states) were checked in the same way; the
proof covers every set of calls.

Deadlock is checked in `sealed` alone, where something outside can always change the
disk. Elsewhere presses are finite, so every instance stops when they are used up; that
nothing stops earlier is what the liveness properties say.

### Fairness

No press is ever owed: fairness is on answers alone.

* `WalletSession` and `WalletCore`: a platform, IndexedDB or core call is answered in the
  end, one way or the other. `net.ts` cuts off every chain request after 30 s (the core
  passes its own deadline on natively), storage requests settle, and the promise queue
  and the async mutex hand on in order.
* `Autolock`: work settles, by the same deadlines; for `ClosesUnattended` alone, timers run
  and time passes (`TimersRun`), which a desktop window has and a phone has not:
  `NeverBackUnlocked` is the phone's property.
* `Spending`: `Answers`, the answers of builds, broadcasts, reads and syncs, as for the session.
* `Doors`: `Arrive`, since the browser dispatches the events it queued. Calls need not be
  answered for navigation to settle.
* `SealedKeystore`: WebCrypto and IndexedDB answer every request, if only to refuse it.

Every property has a mutant in `PROJECT.json`: a plausible bug in one mapped
definition (the variants named in each module's header), under which TLC finds the
property violated in the same run.

### Disagreements found

* **`RememberedKeyIsKept`** (`api.ts` 201-209). The wallet is remembered; the same
  wallet is opened again with Remember and superseded by a third attempt while its
  secret is being stored. It takes "its own" entry back, which is also the earlier
  one's: the record stays, the key is gone, and Unlock cannot open the wallet.
* **`OpenOnItsOwnServer`** (`api.ts` 143-147). `install` reads the settings again,
  after its caller read the network. Setup saved between the two gives a wallet
  of the old network the new network's server.
* **`OutOfSightCloses`** (`ui/autolock.ts` 99-106). The deadline is armed by the
  `hidden` event, for the wallet lockable at that moment. A wallet whose open
  commits, or whose remember step ends, after it is never armed and is still open
  when the page comes back.
* **`FirstPassIsFull`** (`wallet.rs` 752). A transaction made elsewhere that pays
  this wallet, sent from here before any sync, is history: `sync` then never does
  its full pass, and coins beyond the revealed addresses wait for a rescan. Without
  such transactions the property holds, and `core_answers` checks it.

### Known divergences

Met while modelling, with no run of their own. The first three can be reproduced with
`Spending.cfg`, SPECIFICATION `Spec` and the property named, which `Spending` states, the
fourth with `WalletCoreSafety.cfg` and the invariant of that name in `WalletCore`:

* `NothingStranded`: the comment at `screens/send.ts` 556 says a preview nobody confirms is
  discarded. Review pressed again while its sheet is up (`withBusy`'s `finally`, `ui/dom.ts`
  118, enables the button again; the phone's `refresh()` does) overwrites `preview`, and
  the first PSBT stays in the map until its wallet is closed. `PatientStrandsNothing` is what holds.
* `TextIsDescribed`: Paste and Load move `seq` on before they have a text (`ui/psbt.ts`
  194), so an import in flight is dropped; if the clipboard then gives nothing, the text in
  the field is never described. `PatientIsRead` is what holds.
* `NeverRedrawnUnderARow`: `screens/dashboard.ts` 638 keeps an automatic sync from starting
  under an open row, not one that had started before the row was opened.
* `NoneIsUndone`: two handles of one wallet, in one page. A sync or new address under way
  when its wallet is closed, or opened again, goes on: `free()` throws or the call keeps the
  wallet alive (`wallet-wasm/src/lib.rs` 204-206). Its write replaces the record with that
  handle's aggregate (118-122), over an address, a freeze or a payment that the new handle
  was answered Ok. The new handle still knows them, and writes them again with its next
  change; if it goes before, the next open gives the address out again and picks the coins,
  the spent ones until a sync. Against it stand "the revealed index is persisted before
  returning" and "the choice is saved with the wallet" (`wallet.rs`, `new_address`,
  `set_frozen`), and "a sync loses what it found" (`api.ts` 76). Two pages do the same to each other.
* Native `writeStore` (`platform-tauri.ts` 56-61): a remember or forget whose `save` rejects is
  reported as failed with the record changed. After such a remember `session.remembered`
  is still the earlier wallet, while Unlock reads the record and opens the new one, and Forget
  forgets the new one; after a restart from the file it may be the earlier again. A forget
  that drops the record between a remember's write and its save leaves `session.remembered`
  naming a wallet without a record. `RememberedIsRecord` says that there is no other way.
* `screens/create.ts` 115-117 clears `phrase` whenever the open goes through, though 34-37 and
  88-93 say only while it is still the one that was generated.
* `mobile/screens/settings.ts` 96-98: Forget reads the record at that moment, which another
  open's remember may have replaced since the page was drawn.
* `api.ts` 56-61: "Send selected" pressed on a page of one wallet, after another's open
  committed, hands the first one's coins to the other's Send (`crossed`; `SessionIsOfOneWallet`
  holds apart from it).
* `ui/settings.ts` 66-70: `closeForSetup` stays on Settings without a wallet when `free()` throws
  (`torn`).
* A Max that answers while the phone's Review builds leaves the sheet with the amount before
  it; an estimate that arrives late discards the Max drain under a Review shown; a bump
  built after its wallet was closed leaves its PSBT pending (`OnlyTheHeldIsPending` sets
  that one apart).
* `unseal` answers any failure to decrypt as a wrong password; `idb.ts` 49-57 keeps a
  connection the browser dropped, so that every later call of that window fails.
* The desktop's Restore does not move `checking` on when the words are edited
  (`screens/restore.ts` 59-90, 122-127): the answer for the words before enables Open for the
  words now. The core refuses bad words all the same.
* A sync, build or new address that outlives its wallet recreates a deleted history or sets
  the next wallet's address shown (`api.ts` 325, 350); forget takes no turn of the remember
  queue (the comment at `api.ts` 196 says nothing else touches the key store meanwhile); a
  history reset works out its wallet id after the failure it reacts to (`api.ts` 254).

## 4. Proofs

TLC checks the instances above; the theorems hold for every value of the constants. A
proof of an invariant has one step per action of `Next` and is closed by PTL. The assumptions are those of the
modules, and of two kinds: bounds are natural numbers, and `None` (the code's `null`)
is none of the values it is told apart from.

### Session (`WalletSessionProofs`)

For every set of keys, networks, calls, forgets and jobs, and either value of `SilentStore`:

| Theorem | States |
|---|---|
| `TypeCorrect` | `Spec => []TypeOK` |
| `TurnsExclusive` | `Spec => []TurnsAreExclusive` |
| `HandlesCounted` | `Spec => []HandlesAccountedFor` |
| `RecordingKeyKept` | `Spec => []RecordingKeyIsKept` |
| `ImplementsNewestWins` | `Spec => NewestWinsSpec` |
| `LastRemembered` | `~SilentStore` implies `Spec => []LastRememberWins` |
| `RememberedMirrors` | `~SilentStore` implies `Spec => []RememberedIsRecord` |
| `QueueGoesOn` | `Spec => []QueueMovesOn` |
| `OwnServerUnlessSetup` | `Spec /\ SetupWaits => []OpenOnItsOwnServer` |
| `KeyKeptUnlessRememberedAgain` | `Spec /\ RemembersAnother => []RememberedKeyIsKept` |

* `TypeInv` strengthens `TypeOK` with what a call must have been through to be
  where it is: a call past its first step has a wallet, a job that runs has a
  handle. Without it the answer of `SecretLoaded` or `JobDone` would have no type.
* `TurnsAreExclusive` is not inductive: `EndTurn` takes the head off the queue, so
  one must know that the queue holds each waiting call once and that a call is in
  it exactly while it waits or holds its turn.
* `HandlesAccountedFor` rests on the session's handle being a call that has
  committed, so a handle that commits is not yet the session's.
* `RecordingKeyIsKept` uses the exclusion of turns: the only other action that
  removes a key is another call's `EntryTakenBack`, which would hold the turn.
* `ImplementsNewestWins` maps every step to `Start`, `Show`, `Hide`, `Restart` or
  a stutter; `Commit` is `Show` because of `StillCurrent`.
* `LastRememberWins` and `RememberedIsRecord` rest on `Order` and `Showing`. `Order`: attempt
  numbers are given once, the queue is in their order and holds everyone who waits, and
  whoever waits comes after every wallet recorded so far. `Showing`: what the record says
  while a write waits for its save. So a write that shows, saved or not, is of an attempt
  no older than any that finished. `SilentStore` is excluded, since a write that fails
  unsaid breaks both.
* `QueueMovesOn` is the safety half of `EveryPressIsAnswered`: a queue that is not empty has
  its first call in its turn, so the platform's answer is all there is to wait for.
* The last two say that the counterexamples of section 3 are the only ones of their kind.
  `SetupWaits`: no Setup is saved while an Unlock has read the network and not yet opened.
  `RemembersAnother`: no remember step begins for the wallet that the store or its file records.

### Core (`WalletCoreProofs`)

For every set of handles, calls and foreign transactions and every number of addresses:

| Theorem | States |
|---|---|
| `TypeCorrect` | `Spec => []TypeOK` |
| `ChangesAreKept` | `Spec => []StagedUntilStored` |
| `AnswersAreStored` | `Spec => []AcknowledgedIsStored` |
| `AddressesAreFresh` | `Spec => NewAddressesAreFresh` |
| `SpentIsSpent` | `Spec => SpentStaysSpent` |
| `FrozenIsOut` | `Spec => FrozenStaysOut` |
| `FirstPassFull` | `Foreign = {}` implies `Spec => []FirstPassIsFull` |
| `ImplementsWalletBook` | `Spec => WalletBookSpec` |

* `Kept`: a handle's wallet is the record, or its change is staged, or another handle's
  write has left it behind; a write that found nothing to write still leaves the wallet
  in the record, unless behind.
* `KnownShown`: a living handle's wallet has all that the handle was told (`known`): the
  addresses, the payments, and the choices but for one being changed right now. A write
  makes that wallet the record and `known` what is promised of it, so
  `AcknowledgedIsStored` holds after the write of any handle, however stale; it is
  also why a handle's own builds pick nothing it knows to be spent or frozen.
* `ShownWhilePersisting`: while a call waits for the store its change is still in the
  wallet (no other call of the handle may undo it, since the mutex is held), so the write
  that it answers for holds what it promises.
* `GivenOutOnce`: a new address that waits for the store is none its handle was told of,
  because those are all below the revealed index it started from.

None of them speaks of two handles at once: what one handle's write does to another is
`behind`, and an open starts from `acked` as it is then.

Only two kinds of step change the wallet or a call in flight: those that take the
mutex (`CallTakesMutex`) and those that move a call on without it (`CallMoves`).
Eleven of the seventeen actions are instances of these two lemmas; the store's answer,
opening, its answer, freeing, leaving and receiving have a lemma each. `FirstPassFull` adds
`ScannedFirst`: history implies a full scan, of each wallet and of the record, or a
transaction sent that was built by another handle after this one had read the record; for
without foreign transactions whatever can be sent spends a coin that a scan found.

`ImplementsWalletBook` maps each action to one of `WalletBook`'s or to a stutter: `Build` to
`Pay`, `RecordSent` to `Send`, `ApplyUpdate` to `Learn`, `Written` to `Save` or `Refuse`,
`Free` to `Free`, `Leave` and a refused first write to `Shut`. `CallMakes` and `AnswerMakes` cover every call that takes the
mutex. It rests on `Inv`: that `Save` leaves the whole draft is `Kept` where there was nothing to
write.

### Background lock (`AutolockProofs`)

`TypeCorrect`, `ComesBackLocked` (`NeverBackUnlocked`), `LastChoiceKept`, `OnlyOverdueLocked`
(`LocksOnlyOverdue`), `NothingInterrupted` (`LockInterruptsNothing`) and `ClosesOutOfSight`
(`OutOfSightCloses`), for every set of wallets,
works and lock times. `NeverBackUnlocked` says that an overdue wallet in
sight has a lock waiting for it, and that this lock awaits work that still runs (`LocksWait`:
whatever settles the last of it has the lock go on); what makes that inductive is where the deadline is: `OneTimer` (a visible page
has neither deadline nor timer, a hidden one at most the deadline's), `Armed` (the
deadline is no earlier than the absence under way allows), `LocksAreOverdue` (what waits to
be locked was out of sight long enough, and handles are not reused), `Watched` (an overdue
wallet is locked, waited for or still armed). `LastChoiceKept` rests on `Choices`: the saves
in flight are in the order chosen and the last is the one shown. `ClosesOutOfSight` assumes
`[]LeftAtRest`, no open and no remember step in flight while the page is hidden: with it
the property that `autolock_out_of_sight` refutes holds, so those are the only ways past
the lock.

### Screens that spend (`SpendingProofs`)

| Theorem | States |
|---|---|
| `SignsOnce` | `Spec => []SignedOnce` |
| `MaxIsCurrent`, `ReviewIsCurrent` | `DrainIsCurrent`, `SheetIsOfThisForm` |
| `StrandsNothing` | `PatientStrandsNothing` |
| `HoldsOne`, `ShowsTheHeld` | `OnlyTheHeldIsPending`, `HeldIsShown` |
| `ReviewsTheField`, `ReadsTheField` | `ReviewIsOfField`, `PatientIsRead` |
| `WhatIsAwaitedRuns` | `ButtonsAreOwed` |
| `TypeCorrect` | `TypeOK` |

For every number of presses, edits, rows, texts and syncs. Two ideas carry them. `Separate`: a
`psbt_id` lives in one place at a time, in a build, in the map or where it was sent; it is
proved once (`SeparateStays`) for any step that starts, files, sends or settles, and each
action is an instance. And of each screen, the builds that still count are of what it shows,
because whatever moves the form, the row or the text on leaves none counting: `BuildsOfForm`
and `Tidy` in `SendInv`, `OneBuild` and `Mine` in `TxInv`, `FieldIsRead` and `ReadPatiently` in `PsbtInv`.
The three are proved apart, over the actions of their screen, and put together in `Inv`.
`ButtonsAreOwed` is the safety half of `PressesAreAnswered`: what disables a button, or leaves
numbers awaited, is still running.

### Navigation (`GuardsProofs`, `DoorsProofs`)

`GuardSettles`: from any route, in any state, the rules reach in three steps a route none
of them moves, so the cycle error is never thrown. `ScreensAreShown`: in a state the program can
be in, the screen of that route does not redirect again. `LandsWhereItMay`: a wallet's page
only with a wallet, Send only with one that signs, Setup only with none, Unlock only where
it can open. `DoorsProofs` proves `TypeCorrect`, `PagesHaveAWallet`
(`WalletPagesHaveAWallet`), `SecretsGo` (`SecretsGoWithTheScreen`) and `OneWalletsSession`
(`SessionIsOfOneWallet`). A page has its wallet because the guards were read when it was drawn
and because every way a wallet goes leaves an event due (`Rest`); words are shown on Create
alone because a job whose guard is live was started on the page that is up (`JobsOK`).

### Key store (`SealedKeystoreProofs`)

`TypeCorrect`, `OpensItsOwn` (`OpensOnlyItsOwn`), `NobodyIsLeftWaiting` (`NobodyLeftWaiting`: a call
waits for a connection only while its window is opening one) and `KeepsThePromiseSafely`: every behaviour of
`SealedKeystore` is one of `Keystore`, for every set of calls, wallets and windows. What is in a
slot or was read from one was sealed by a call (`AllGenuine`), and a call stands where its
kind can (`WellFormed`). Each action maps to one of `Keystore`'s or to a stutter; the commit
of the transaction is where a call takes effect. The fairness of `Keystore` is TLC's.

### Fees (`FeesProofs`)

`BuildsItsOffers` (`OffersAreBuilt`), `CancelsOutbid` (`CancelOutbids`) and `ChildrenHelp` (`ChildHelps`),
for every fee, weight, size and rate. The inductive part is small (`Advice`: a rate the
wallet put in the field is not too low); the weight is in the lemmas on the roundings, which
say how far a rate in tenths of a sat/vB, rounded up to a whole sat/kwu, can be from the
original's own, rounded down.

### Only model-checked

* Liveness and fairness, with ENABLED: `EveryPressIsAnswered`, `EveryCallIsAnswered`,
  `LocksComeThrough`, `ClosesUnattended`, `PressesAreAnswered`, `NavigationSettles`, and the
  fairness of `KeepsThePromise`. They are out of the prover's reach. What is proved of them is
  safety, that whoever waits waits for something that is running: `QueueMovesOn` for the
  session, `LocksWait` for the locks, `ButtonsAreOwed` for the screens that spend,
  `NobodyLeftWaiting` for the key store.

Every invariant and every action property a run checks is a theorem; those that a run
refutes are theorems under the condition that excludes the counterexample.
No definition computes by recursion over data, so nothing is left for want of induction, and
no module declares a RECURSIVE operator. `TurnsAreExclusive`, `StagedUntilStored` and
`Autolock`'s `TypeOK` are proved and have no run.

## 5. Plan

Done: the session and its abstraction, the background lock, the core handle, navigation, the
screens that spend and their fees, the browser's key store, and the theorems above. What
would add most next:

1. Handles on one record across the session: which of `WalletSession`'s calls and jobs leave a
   later handle behind, and what the user is then shown.
2. The history reset over two networks (`api.ts` 254).
3. The safety halves of `EveryCallIsAnswered` (whoever waits for the mutex waits for a write)
   and of `NavigationSettles` (an event is due or the page is one the guards leave alone).
4. The coin screens' ticks and freezes against the core's.

## 6. Not modelled

* Key derivation, descriptor and address parsing, the key store's format, encryption, PSBT
  contents, signing: pure functions over libraries.
* Coin selection: a build picks any spendable coins.
* The coin list's ticks and freezes on screen; amounts, addresses and BIP21 links as text;
  rendering, words, QR, clipboard, camera.
* The HTTP client, `net.ts` itself (used as the fairness above), BDK and the chain beyond
  what the wallet sees of them; reorganisations and evictions.
* The native key store, which is the operating system's: its answers are those of
  `WalletSession`.
* Two pages as two sessions: that they share a wallet's record is in `WalletCore`, that they
  share the browser's remembered record and settings is not modelled.
* The CLI, which runs one command a process over the same core, and the Go reference,
  kept for comparison.
