# Verification of weft-loom-app-windows

TLA+ models of the Windows tray application in `src/`, TLC runs that check them
on small instances, and TLAPS proofs for every value of the constants.

## 1. The system

One executable, `weft-loom-app-windows.exe`, runs in several modes, each a
process of its own (`main.go` 45-106). The processes share nothing but the
Windows Credential Manager, command lines and environments, one loopback port
and the control server's HTTP endpoint.

| Component | State it keeps | Operations |
|---|---|---|
| Tray (`tray.go` `onReady`) | loop-local `authToken`, menu items (`mOpen`, `mSignIn`, `mSignOut`), the select loop | boot, Open Dashboard, Sign in, Sign out, Switch cluster, Quit |
| Session token (`auth.go`, `keychain_windows.go`) | one Credential Manager entry per `<service>\<account>` | Get, Set, Delete, Expired |
| Sign-in child (`main.go` `runSignIn`, `auth_login.go`) | the login window, `result`/`resultErr`/`resultSet` under a mutex | cache check, window, keypair and OIDC bindings, setResult, exit |
| OIDC round (`auth_oidc.go`) | state nonce, PKCE pair, one-shot listener on the redirect port | startOIDC, awaitCallback, Finish, exchange |
| Keypair (`auth_keypair.go`, `keypair_windows.go`) | one ed25519 key per issuer in its own entry | loadOrCreateKeypair, runKeypair |
| Dashboard (`dashboard.go`) | WebView2 window, token from its environment, datacenter chip | Get, InitScript, Watch, Eval |
| Status loop (`tray.go` `refreshStatus`) | submenu items, `lastActive` | a poll every two seconds |
| Cluster switch (`tray.go` 194-222) | a goroutine per item, the bounded `switchCh` | forward a click, SwitchCluster |
| Shell start-up (`tray.go` `runTray`, `setupShell`, `onSetupError`) | gateway goroutine, control server, the process's context | staged start, error tray, signals, the way out |
| WireGuard mesh (`wgmesh.go`) | the device and the goroutine that closes it | LoadWGConfig, MeshDialer, uapiConfig |
| One-shot modes (`main.go`) | none | `--print-pubkey`, `--store-ssh-passphrase` |
| SSH passphrase (`ssh_passphrase_windows.go`) | one entry per key file | consent, get, set |

How they interact. The tray spawns `--dashboard` and does not wait for it; it
hands its in-memory token down in the environment. It spawns `--sign-in` and
blocks its select loop until the child exits, then reads the token back from the
Credential Manager. Inside the child the WebView2 UI thread, one goroutine per
OIDC round and the operator race for `setResult`. There is no single-instance
lock: several trays of one account, and children that outlive a killed tray, may
run at once.

What is hard here: the token is checked at one moment and used at another; a
write and the report of it are two steps; the loop that serves every click
blocks for minutes; one port serves all rounds of all processes; processes die
between any two steps and the entry survives them. `PROJECT.json` lists these
hazards line by line with the properties that watch them.

What makes each part correct:

* tray: menu, token and blocked loop agree; a dashboard is only opened behind the
  gate; the loop comes back once a sign-in is stored, unless the child waits for a
  server;
* session token: adopted fresh and only from the tray's own entry; forgotten
  everywhere once a sign-out deleted it; clusters do not mix;
* sign-in child and OIDC rounds: what is reported is stored, a round uses only its
  own redirect, the port is always given back, a report ends the process;
* dashboard and status loop: chip and label settle on the current datacenter and
  never go back to an older one;
* picker path: the race ends, loses no callback, leaves no goroutine blocked;
* key pair: only a key that was stored is signed with or printed, and an
  established key is never replaced;
* cluster switch: no click taken is lost or doubled, and the tray comes to rest on
  one of the last clicks;
* start-up: what runs after a failed stage is known and has an owner, the device
  becomes what the mesh config says, and a signal ends the process.

## 2. Modules

* `Session` - the core: any number of trays, their sign-in children and
  dashboards, and the entries they share. One action per menu handler
  (`ClickOpen`, `ClickSignIn`, `ClickSignOut`, `Quit`), `Boot` for
  `main` + `onReady`, `SignInReturns` for the second half of
  `spawnSignInAndReload` (the first half blocks, so the two are separate steps
  with the whole child between them), the stages of the child as `Child...`
  actions (`ChildCalls` and `ChildAnswered`: after the write its UI thread may be
  in a call that a second click made, and cannot leave the window), `Kill`/`ChildDies`
  for crashes at any point. A token is a record: its
  identity, the target it was minted for, its expiry (0 for an omitted
  `expires_in`).
* `TrayLifecycle` - what a tray promises its operator: which face follows which
  and that an auth tray opens dashboards only while signed in, with a token.
  `Session` implements it (`LifecycleSpec`).
* `SignInChild` - the child process as seen from outside: the cache check, the
  window, its writes, the calls of its UI thread from which it does not exit, and
  an end with either exit code. `Session` uses
  children only in that way and `LoginWindow` implements it (both as
  `SignInSpec`), so the two models meet at an interface that both are checked
  against.
* `LoginWindow` - the inside of the children: the main thread
  (`Begin`, `RunReturns`, `CloseWindow`, `Capture`, `Exit`), bound calls on the
  UI thread (`ClickKeypair`, `PostAnswered`, `KeypairWrites`, `KeypairReports`;
  `ClickOIDC`, `DiscoveryFails`, `RoundStarts`), the page (`GoBack`,
  `Redirect`) and the goroutine of each round (`Listen`, `Timeout`, `Wake`,
  `Finish`, `ExchangeAnswered`, `RoundWrites`, `RoundReports`). Every action is
  the code between two points at which another thread or process can be seen to
  act.
* `ActiveDC` - how the active datacenter reaches the operator: the supervisor's
  choice (`Reselect`), the tray's poll (`Poll`, a tick of `refreshStatus` that
  finds a change), `OnSwitch` into the control server (`Publish`), and per
  dashboard the one-shot Get with the init script (`Seed`, `Load`), Watch
  (`FirstPoll`, `NextPoll`) and the dispatched notices (`Eval`). Labels carry the
  number of the switch they stem from, so that old and new can be told apart.
* `PickerAuth` - `Authenticate` with an injected picker and `runOIDC`: two
  goroutines, two channels of capacity one, an outer and an inner select with
  its own timer, a context that may be cancelled.
* `Keypair` - the ed25519 key of the keypair fallback. Sign-in windows (`Open`,
  `Click`, ..., `Answered`) and `--print-pubkey` runs (`PrintPubkey`) go through
  `loadOrCreateKeypair` in two steps, the lookup (`Get`) and the store (`Set`),
  and then `Use` the key they hold in memory: print its public half or sign an
  assertion (`SignFails` if that fails). `Gated` are the windows with a gateway in
  their config; without one a click shows an error and touches no key. `End` ends a process anywhere. A key is told apart by the process
  and the try that made it; an entry may also hold a blob of the wrong length.
* `MeshConfig` - the pure part of `wgmesh.go` as operators: `uapiConfig` as the
  sequence of lines it writes, `IpcSet` for what the device makes of them one
  after the other, and `Intended` for what the config means, written without
  lines.
* `Startup` - `runTray`, `setupShell`, `MeshDialer` and `onSetupError`: one action
  per stage with its error return, the goroutines and the listener bound to the
  context, signals, `systray.Quit`, `onExit` and the end of the process.
* `TrayProcess` - `Startup` with the cluster menu: a forwarder per item
  (`ClickCluster`, `Forward`, `ForwarderEnds`), the bounded `switchCh` and the
  select loop (`SwitchCluster`, `ClickSignIn`/`SignInReturns`, `LoopEnds`). It
  implements `Startup`: a step of the menu is a step of the way out or a stutter
  there. `Session` has the rest of the same loop; of a sign-in only its
  blocking of the loop matters here.
* `SessionProofs`, `LoginWindowProofs`, `ActiveDCProofs`, `KeypairProofs`,
  `MeshConfigProofs`, `StartupProofs`, `TrayProcessProofs`, `PickerAuthProofs` -
  theorems about the modules they are named for.
* `MCSession`, `MCLoginWindow`, `MCActiveDC`, `MCKeypair`, `MCTrayProcess` - the
  instances TLC checks (`PickerAuth` is finite as it stands).

Operators named as mutants in a comment are variants of the definition below
them with a plausible bug; no specification uses them. They show that each
property can be broken by a change to the code.


## 3. What the runs check

| Run | Module | Checks | Shows |
|---|---|---|---|
| `session_shared` | `MCSession` | `TypeOK`, `MenuAgrees`, `SignedOutForgotten`, `AdoptsOnlyFresh` | two trays sharing one entry, reads and deletes failing |
| `session_clusters` | `MCSession` | `TargetsStayApart`, `LifecycleSpec`, `SignInSpec`, `PersistedSignInReturns` | a second cluster, failing config, reads and deletes, liveness of the blocked loop |
| `login_window` | `MCLoginWindow` | `TypeOK`, `ReportedIsPersisted`, `OwnSuccessIsNoFailure`, `AwaitEnds`, `ResultEndsProcess` | one window, a keypair flow and two rounds racing into setResult |
| `login_two` | `MCLoginWindow` | `OwnStateOnly`, `PortAccounted`, `SignInSpec` | two processes, one redirect port |
| `activedc` | `MCActiveDC` | `TypeOK`, `SettledChip`, `ChipGoesForward`, `LabelFollows` | switches, outages, a failing Get, reloads, closed dashboards |
| `picker` | `PickerAuth` | `TypeOK`, `NobodyIsStuck`, `BailsWhenBothFailed`, `RaceEnds` | the race of the legacy path |
| `keypair` | `MCKeypair` | `TypeOK`, `UsedWasStored`, `OneKeyEach`, `SettledKeyStays` | three windows, one without a gateway, and a printer on one key, with every failure, retries and kills |
| `tray_process` | `MCTrayProcess` | `TrayTypeOK`, `DeviceHasOwner`, `ErrorTrayLeftovers`, `MeshAsConfigured`, `ClicksAccounted`, `QuietOnAClick`, `ClicksReachShell`, `SignalEnds` | a whole tray process, each start-up stage failing, many mesh configs, signals, clicks around a sign-in |

Four more runs state what a document, comment or message of the repository says,
and TLC finds a behaviour of the code against it:

| Run | Statement | What the code does instead |
|---|---|---|
| `session_expired_open` | README 66-69: Open Dashboard "can never land on the dex sign-in page" | expiry is checked when the token enters memory, not when the item is clicked |
| `session_config_lost` | tray.go 258-260: the child's token is read "back into the tray's in-memory cache" | the child gets no `--config` and signs in to the default one |
| `login_rival_error` | auth_login.go 36-38: returns the token cached by whichever flow | a second round's error fits between `store.Set` and `setResult` |
| `activedc_chip_stale` | dashboard.go 77-78: the chip "stays accurate after a switch" | a switch before Watch's first poll is never shown; a reload stamps the label of start-up again |

Divergences met while reading that have no run of their own:

* a failed `Delete` on sign-out is only logged (tray.go 236): the menu says
  signed out, and the next sign-in adopts the old session without a login
  (the item's tooltip, tray.go 170, promises "re-authenticate"). `SignedOutForgotten`
  therefore speaks of the sessions that a sign-out deleted; deletes fail in the run
  that checks it and in the theorem;
* a stored sign-in does not always bring the tray back: if the operator went Back
  and clicked again just before, the UI thread is inside OIDC discovery or the
  keypair POST on `http.DefaultClient`, which has no timeout; `w.Run`
  (auth_login.go 152) returns only after it, and the tray waits in `cmd.Run`
  (tray.go 271). `ResultEndsProcess` and `PersistedSignInReturns` except this case;
* the OpenPubkey button reports an error where README (auth section) says the
  flow falls back to OIDC; only the picker path does (auth.go 229-241);
* login.html navigates to the identity provider as soon as `weftStartOIDC`
  returned, before the goroutine has bound the listener (auth_login.go 109): an
  identity provider that answers at once meets a closed port. `LoginWindow` has
  this (page `refused`); the round then waits for its timer;
* `setResult` may call `Terminate` on a window that Run's return has already
  destroyed (auth_login.go 81-83);
* a Quit, Open Dashboard or Sign out clicked while the loop is inside `cmd.Run`
  is dropped by systray (README 82: Quit terminates), but a cluster clicked then
  is taken by its forwarder and applied when the child is gone (tray.go 199-208);
* a Ctrl-C is not noticed either while a sign-in child is up: `NotifyContext`
  (tray.go 30) has taken the signal's default action away;
* the page "Signed in to weft. You can close this window" (auth_oidc.go 368) is
  sent before the code has been looked at; a window closed then stores nothing;
* the cluster clicked last need not be the one switched to last: two forwarders
  race for `switchCh` (`QuietOnAClick` says what does hold);
* two first uses of the keypair at the same moment print or register a key that is
  then overwritten (`SettledKeyStays` says from when on that cannot happen);
* the device takes endpoints as IP:port only; a `WGPeer` endpoint is documented as
  host:port (wgmesh.go 37), wireguard.example.json 12 has a name, and it is passed
  on as it is, so such a config ends in the error tray (`NotAnIP` in `MeshConfig`);
* before the first active datacenter the label says "unknown" also when none is
  reachable, because `lastActive` starts as the label of an outage.

## 4. Bounds

* `session_shared`: two trays and one target, two tokens, clock 0..2, skew 1,
  lifetimes 0 (omitted) and 2. Two tokens are the least with which an entry can
  be replaced behind a tray's back. A token of lifetime 2 minted at 0 is fresh at
  0 and 1 and within the skew at 2, so both outcomes of `Expired` occur on
  entries and on tokens in memory; trays are symmetric, and the run has no
  liveness property, so symmetry is sound.
* `session_clusters`: two targets, one tray each, so that the child of the second
  tray (which always uses the default config) meets a foreign target; clock 0..1,
  because an expired entry acts as a failed read, which is a fault here; a tray
  without auth arises when the config does not load.
* `session_expired_open` and the other violation runs are as small as their
  counterexample allows. In the one TLC prints for `login_rival_error` the round
  that was started first finds the port taken by the second; with the roles
  exchanged the behaviour is possible too.
* `login_window`: two rounds and the keypair flow of one window: a third round
  adds no new pair of racing reports. `login_two`: one round in each of two
  processes, which is where the port is contended across processes, beside the
  keypair flow, so that a UI thread can be inside a call when a round stores. All five
  kinds of failure are on in both; a failing `listen` is a redirect URI without a
  host or a port that a foreign program holds.
* `activedc`: two datacenters, one dashboard, three published switches: enough
  for a switch away and back and one in flight. Dashboards do not touch each
  other, hence one.
* `picker`: no bound; each goroutine of `runOIDC` runs once.
* `keypair`: two windows with a gateway, one without, and one printer, so that a key
  can be lost to a window and to a printer while a third process looks on; two tries each (`MaxTries`), the
  least with which a retry can meet what its own first try left; a config error
  moves the printer to a second account, so entries of two accounts occur.
* `tray_process`: two clusters clicked twice each (`MaxClicks`) fill the channel of
  two places and both forwarders behind a sign-in. The mesh configs are all
  pairs of well-formed peers over two public keys, two networks and set or unset
  optional fields, one config per field that is wrong, four private keys, and
  nine address lists: 149 of them, and no config. Public and private keys
  share one set of model values, because no property compares them.
* `minted`, the clock, the switches, the tries and the clicks are the only
  counters; `MaxTokens`, `MaxNow`, `MaxSwitches`, `MaxTries` and `MaxClicks` cap
  them. `switched` needs no bound: it follows `taken`.

The runs of `LoginWindow`, `PickerAuth` and `TrayProcess` switch the deadlock
check off: their processes are meant to end.

## 5. Fairness

* `Session`: weak fairness of `SignInReturns`, `ChildStarts`, `ChildFinishes`:
  code that runs without a human or a server. `ChildFinishes` is enabled only while
  the child's UI thread is in no call; that such a child exits once a token is
  stored is what `ResultEndsProcess` shows of `LoginWindow`. Clicks, the login
  window, the answers of servers (`ChildAnswered`), kills and the clock are not fair,
  so `PersistedSignInReturns` excepts a child that waits for a server.
* `LoginWindow`: weak fairness of the process's own steps and of awaitCallback's
  five-minute timer. Answers of the identity provider and the gateway are not
  fair: `http.DefaultClient` has no timeout. Hence the way out in
  `ResultEndsProcess` for a UI thread inside `discover` or `post`, and hence
  `AwaitEnds` speaks of the port only.
* `ActiveDC`: the two-second ticker, the Watch goroutine and the UI thread.
  `LabelFollows` has the supervisor's settling as its premise.
* `TrayProcess`: weak fairness of the start-up's stages, of the error tray's and the
  menu's way out once the context is cancelled, of `onExit` and the process's
  end. Strong fairness of `SwitchCluster`, because Go picks a ready arm of a
  select at random, and of each `Forward`, because a blocked send waits in the
  channel's own queue. Clicks, signals and the sign-in child are not fair, which
  is why `ClicksReachShell` has a loop that keeps coming back as its premise and
  `SignalEnds` excepts a loop inside `cmd.Run`.
* `PickerAuth`: the caller's selects (the inner timer is one of its arms), the
  listener's timer and sends with room. A picker that never returns is allowed.

## 6. Proofs

All theorems hold for every value of the constants that satisfies the named
assumptions; these only type the constants and tell names apart. One of them
types the mesh configs: `ConfigsAssumption` says that each is what `encoding/json`
can make of the file (`IsWGConfig`), with any texts, any number in the keepalive
and any number of peers and networks.

Three of the four statements that a run refutes (section 3) hold under a premise,
and the theorem names it: that premise is what the document leaves unsaid. TLC
checked each of the three on an instance where the premise holds and the case the
statement is about occurs. The fourth, that Open Dashboard never lands on a
sign-in page, has no such premise short of tokens that do not expire.

`SessionProofs` (any number of trays, targets and tokens, any lifetimes, skew,
clock and faults):

* `SessionTypeCorrect`, `SessionMenuAgrees`, `SessionTargetsStayApart` from the
  inductive invariant `PlaceInv` = `TypeOK`, `MenuAgrees`, `Grounded`,
  `TargetsStayApart`. None of the last three is inductive alone: that a token
  read back belongs to the tray's target needs the entry's own placement
  (`TargetsStayApart`), that the target exists at all needs `Grounded`, and that
  the handler runs in a tray with auth needs `MenuAgrees`.
* `SessionAdoptsOnlyFresh`: a step property, from `PlaceInv`.
* `SessionSignedOutForgotten`: from `PlaceInv` and `IdInv` = `OneEntryPerSession`
  and `SignedOutForgotten`, whatever fails. The extra
  conjunct says that a session's identity is in one entry only; without it,
  signing out in one tray would not clear a copy elsewhere.
* `SessionSignInReachesDefaultTray`: what `session_config_lost` refutes holds in
  trays that run with the default config, as long as entries can be read. The loop
  leaves `cmd.Run` only by `SignInReturns` (`ReturnStep`), which then reads the
  entry the child wrote.
* `SessionImplementsLifecycle`: `Session` implements `TrayLifecycle` under the
  mapping `Shown`, `Windows`; each action is mapped to one abstract action or a
  stutter under `PlaceInv`.
* `SessionImplementsSignIn`: `Session` uses its children as `SignInChild` allows.

`LoginWindowProofs` (any processes, rounds, owners and faults):

* `LoginTypeCorrect` and `LoginOwnStateOnly`: inductive as they stand; the second
  needs that a captured request is never replaced (`DeliverKeeps`).
* `LoginPortAccounted`: with `Fresh` (a process that has not looked at its cache
  has started nothing); else a process that begins could come alive over a round
  that already awaits.
* `LoginReportedIsPersisted`: with `WriteOnce`, which ties each flow's report to
  its write; `ResultStep` lists what a step may do to a result.
* `LoginOwnSuccessIsNoFailure`: from `ErrorsElsewhere`, the stronger fact that an
  error stems from a finished round that wrote nothing.
* `LoginErrorStoresNothingAlone`: what `login_rival_error` refutes holds in windows
  with one OIDC round and no keypair flow, for any number of them beside each
  other. The round behind an error wrote nothing (`ErrorsElsewhere`), there is no
  other flow (`KeypairUnused`), and the process exits with the error of its own
  window (`ErrorReported`).
* `LoginImplementsSignIn`: `LoginWindow` implements `SignInChild`. With the
  theorem above about `Session` both sides of that interface are proved. The
  count of writes is the cardinality of `written`, so each flow must be seen to
  write for the first time; that is `WriteOnce` again.

`ActiveDCProofs` (any datacenters, dashboards and number of switches):

* `ActiveDCSettledChip` from `InFlight`: the last notice under way is the last
  poll, or the chip already shows the poll or the seed.
* `ActiveDCChipGoesForward` from `InOrder`: published label, last poll, queued
  notices, chip and seed are in the order of the switches. The queue lemmas
  (`AppendLast`, `TailLast`, `OrderedAppend`, `OrderedTail`) say what one more or
  one fewer notice does to that order.
* `ActiveDCAccurateUnlessReloaded`: what `activedc_chip_stale` refutes holds, through
  any number of switches, if the first poll finds the label of the seed and no
  document is loaded while the watched label is another one (`FindsSeed`). So a Get
  that the first poll contradicts (a switch in between, or a failed Get) and a load
  after a switch are the only gaps. `InTouch` is the invariant: the chip shows the
  last poll, or the last notice under way does.

`KeypairProofs` (any windows, printers, issuers, tries and faults):

* `KeypairTyped`, `OnlyStoredKeysAreUsed`, `RetriesKeepTheKey` from `KeypairInv`.
  `OneKeyEach` is not inductive alone: a process about to store must hold a key of
  its own and have none under that account (`OwnInHand`), which a miss implies
  only because a key once stored is never gone from the entry (`EntryBacked`).
* `RegisteredKeyStays`: a step property, from the same invariant.

`MeshConfigProofs` (any texts as keys, endpoints and networks, any number of peers):

* `MeshRendering`: for every config that can be rendered and every one that cannot,
  `IpcSet(uapiConfig(c))` is `Intended(c)` if the config is acceptable and
  `Rejected` if not. One side goes line by line, the other never mentions a line.
  The difficulty is that the lines are flattened from one list per peer, and that
  the device decides by the largest position of a line what the config decides by
  the largest index of a peer.
* `LeastNatural` and `SetInduction` give induction over the naturals without a
  theorem that takes an operator: the library states that inclusion of finite sets
  is well-founded, and `0 .. n` is a finite set. With it, `FlattenCoordinates` says
  of the fold in `FlattenSeq` that every position of the result has coordinates (a
  list and a place in it), in lexicographic order and each once.
* `Rendered` turns this into the order of the lines; `Opener` finds the
  `public_key` line that a line belongs to, `LastLine` and `FieldValue` the line
  that has the last word on a field. `TakeableIff` (the device takes all lines
  exactly if the config is acceptable) and `DeviceIs` (what it then becomes) are
  the two halves of the theorem.

`StartupProofs`, `TrayProcessProofs` (any configs, clusters, clicks and faults):

* `TrayImplementsStartup`: every step of `TrayProcess` is one of `Startup` or leaves
  its variables alone, so the invariants of `Startup` carry over:
  `TrayDeviceHasOwner` and `TrayErrorLeftovers` from `StartupInv` = `TypeOK`,
  `Started` (how far the start is tells what runs), `Paired` (the closing
  goroutine and the device go together), `Left` (what ran when a stage failed),
  `Meshed` (the mesh stages are only reached with a mesh config).
* `TrayMeshAsConfigured`: with `Meshed` and `ConfigsAssumption` the config at hand is
  one `MeshRendering` speaks of. `TrayBringsUpAcceptable` follows: `dev.Up` is only
  called for a config that is acceptable as a whole.
* `TrayTyped` from `MenuInv`, which adds that no forwarder runs before `onReady`.
* `ClicksAreAccounted`: the count of a cluster's names in the channel goes up by
  one with an append and down by one with a receive (`WaitingAppend`,
  `WaitingTail`, by a bijection of positions).
* `RestsOnAClick` from `OnItsWay`: every click on its way is of the batch.

`PickerAuthProofs` (any faults):

* `PickerTyped`, `BothMustFail`, `NoRacerIsStuck` from `PickerInv`: no goroutine
  reports twice (`OneReport`), and the caller only leaves the outer select with
  a report in hand (`Progress`, `InSecond`), so at most one is left to send and
  each channel has a place.

Only model-checked: the liveness properties (`PersistedSignInReturns`, `AwaitEnds`,
`ResultEndsProcess`, `LabelFollows`, `RaceEnds`, `ClicksReachShell`, `SignalEnds`),
because the prover has no rules for fairness and ENABLED. Every invariant and
every step property that a passing run checks is proved.

## 7. What is external, and not modelled

External behaviour the models rely on: systray delivers a click only to a
waiting receiver; bound WebView2 calls run on the UI thread; `Terminate` and
`Dispatch` may be called from any goroutine; process exit closes the listener;
Credential Manager operations are atomic; a Watch's first poll only sets its
baseline and later ones compare labels; OnSwitch is called with the datacenter
switched to.

A WireGuard `public_key` line opens the peer that the following lines configure,
a later value of a field replaces an earlier one, and a network belongs to the
peer that claimed it last; the device checks the length and form of values. That
is wireguard-go's `IpcSet`, which is a dependency and not in this repository.

Abstracted: token contents (bearer, refresh token, JSON), PKCE and URLs, UTF-16
and blob limits (a failing write), menu wording, the per-datacenter dots, the
mesh's mtu and dial function, decoding of base64 and addresses beyond whether it
succeeds.

Not modelled, and why:

* the OpenPubkey flow is a stub that returns one error;
* the SSH passphrase store and Windows Hello: one guarded read and one write under
  one key, without state between them here; who asks, and for what path, is
  decided in weft-app-core. A model would restate the lines. Seen while
  reading: `--store-ssh-passphrase` with piped input that ends without a newline
  stores nothing, since the console reader returns the EOF as its error;
* non-Windows stubs, icon, version, packaging and CI: no behaviour.

## 8. Plan

The plan of the first stage is done: `Keypair`, the cluster switch and the
start-up have modules, runs and proofs. What could still be added:

1. the per-datacenter rows of `refreshStatus` beside the label in `ActiveDC`;
2. `Session` and `TrayProcess` as one loop, with sign-out and dashboards racing
   with cluster switches; today they meet at `signin` only;
3. `Keypair`'s key under the flow of `LoginWindow`, so that the token minted is
   tied to the key that is stored.
