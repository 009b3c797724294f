# Town OS in TLA+

Town OS is an appliance: a system controller (Go, `src/src/svc/systemcontroller`)
that installs packages as podman containers under systemd, keeps their data in
btrfs subvolumes, names them in DNS, and opens ports for them; and a web
interface (React, `src/ui/src`) from which it is operated. This directory
models the parts of both whose correctness depends on the order in which
goroutines, processes, requests, callbacks, crashes and files get their turn, checks the
models with TLC and proves theorems about them with TLAPS. `PROJECT.json` maps
every definition to the lines it models, and lists the runs, the mutations each
property must detect, the hazards and the theorems.

## Inventory

| Component | State | Operations | Talks to | What makes it correct |
|---|---|---|---|---|
| Boot status stream (`boot_status.go`, `boot_handler.go`, `root_handler.go`) | history, subscriber channels, the delegate of the root handler | Step, Done, Subscribe, cancel, Swap | the boot publishes; one goroutine per browser reads | replay and live events join without gap or duplicate; a stuck client never stalls the boot; streams end |
| Package install, upgrade, uninstall (`controller_install.go`, `controller_install_volumes.go`, `controller_package_installed.go`) | per-package mutex, request state | install, reinstall, upgrade, reuse, uninstall, keep, purge, disable, enable | records, systemd, btrfs | one handler per package; a unit has its record; no data lost; one version runs |
| Install records (`packages/install.go`) | `installed/<repo>/<pkg>/<version>.yaml`, `disabled` | Install, Uninstall, SetDisabled, GetInstalledVersion | handlers, boot | agree with units and volumes after every crash |
| systemd units (`systemd/manager.go`, `controller_unit.go`) | unit files, active services | InstallUnit, UninstallUnit, SetStatus | handlers, boot, unit API | a running service can be stopped |
| Volumes (`storage/btrfs.go`) | subvolumes | create, rename, remove | handlers | what was written is somewhere |
| Boot reconciliation, freshness (`reconcile.go`, `freshness.go`, `boot.go`, `main.go`) | boot stage, pending starts, version file, restart marker | reconcile in two phases, restarts, marker handling, swap | everything above | every enabled package runs; disabled ones do not; the API comes up |
| Per-package network controller (`networkcontroller/`) | state, forwarders, mappings, retry back-off, two channels | Run loop, reconcile, renew, Shutdown, reapers and timers | state file, socat, router, caddy supervisor | no stray processes; applies the file; replaces what dies |
| Caddy supervisor (`caddysup/`) | child, last content | Start, Reload, Shutdown, reaper | network controller, ingress | one child at a time; a reload is effective |
| Shared ingress (`ingress/`, `ingress_program.go`) | route map | SetRoutes, AddRoute, RemoveRoute | controller over gRPC, caddy supervisor | the newest route set wins |
| Overlay networks (`controller_networks*.go`, `wireguard/`, `account/network_sqlite.go`) | networks, peers, WireGuard configuration files | create, remove, enable, enrol, refresh, reap, apply | SQLite, wg-quick units, DNS | addresses unique; the interface has exactly the stored peers |
| Dependencies (`controller_install_dependencies.go`) | dependency files | install and uninstall in order, roll-back | install handlers | a package's dependencies are there, and go with it |
| Login throttle and sessions (`controller_auth*.go`, `account/session_sqlite.go`) | attempts per source, hashing slots, session rows | allow, reset, sweep, acquire, release | HTTP | bounds hold; slots come back |
| Self-update (`self_update.go`, `image_refresh.go`) | marker with an image id | refresh, restart | podman, systemd | at most one restart per image |
| Languages of the interface (`ui/src/i18n`) | catalogues, locale and pin of a page, `localStorage`, the global setting | match, load, ping, pick, save | status ping, settings page | a pick outlives pings and other administrators; matching does not depend on declaration order; no raw keys |
| Watching a restart, sessions (`client-boot.js`, `session-guard.js`, `hooks.js`, `SystemManagement.jsx`, `BootStatusStepper.jsx`) | observer with two clocks and a back-off, suspension counter, dialog, session pings | refresh, observe, reconnect, probe, suspend, release, log in and out | boot stream, ping, UI container | the outgoing controller is not taken for its successor; the poll does not evict the operator; every watch ends |
| Polled views (`usePolling` in `hooks.js`) | generation, data, loading | mount, tick, refresh, change of dependencies | every page | shows an answer to the last question |
| Pages that list and change (routes and components of storage, accounts, pages, services, DNS, networks, object storage, settings, repositories, audit, home) | a polled view, a dialog, busy flags, hidden rows | the handlers that send a change | the HTTP API, polled views | a change that succeeded is seen; answers reach their own dialog; controls come back |
| Packages page (`PackageManagement.jsx`, `components/packages`) | seven dialogs, progress toast, purge tick box, device flow | install chain, uninstall, refresh, info, manifest | progress streams, `pollOAuth` | what is sent is what was chosen; the toasts tell the truth |
| The rest | | | | see the components of `PROJECT.json`: DNS, git repositories, package compilation, pages, object storage, certificates, OAuth, metrics, audit, settings, server messages, journal viewer, charts |

Hard behaviours, and where they are: handlers interleaving on one package and
the unit API going around their lock; a client whose disconnect cancels the
context of a handler in the middle; crashes and reboots between any two steps;
renames that fail; channels closed under a sender; reapers of earlier processes
that run late; sends that are dropped when a channel is full; a file read while
it is being written; a watch that is not there. In the interface: answers in
another order than the requests; state captured before an `await` and used after
it; a handler that goes on when its page or dialog is gone or shows something
else; one dialog, toast or flag shared by several operations; requests that fail
or whose answer is lost after the server has acted. The hazards of `PROJECT.json`
list them line by line.

## Modules

| Module | Models | Proofs |
|---|---|---|
| `BootStatus` | the boot progress stream | `BootStatusProofs` |
| `PackageLifecycle` | records, units, volumes, handlers and boot | `PackageLifecycleProofs` |
| `CaddySupervisor` | the supervisor, on its own specification `CaddySpec` | `NetworkControllerProofs` |
| `NetworkController` (extends `CaddySupervisor`) | the per-package network controller | `NetworkControllerProofs` |
| `Locale` | languages of the interface | `LocaleProofs` |
| `RestartWatch` | a tab that restarts the controller and watches it come back | `RestartWatchProofs` |
| `FreshView` | abstract: what a polled view promises | |
| `Polling` | `usePolling`, with `FreshView` as its specification | `PollingProofs` |
| `Pages` (extends `FreshView`) | the pages that list and change | `PagesProofs` |
| `InstallFlow` | the packages page | `InstallFlowProofs` |
| `MCBootStatus`, `MCPackageLifecycle`, `MCNetworkController`, `MCLocale`, `MCRestartWatch`, `MCPolling`, `MCPages`, `MCInstallFlow` | instances for TLC | |

`NetworkController` composes two components: its loop performs the calls of the
supervisor (`Reload`, `ReloadStep`, `Return`, `Shutdown`) inside its own steps,
and the children and reapers of the supervisor run beside it. `CaddySpec` is
what the supervisor promises any caller; the theorem `Implements` shows that the
controller stays within it.

`FreshView`, `Polling` and `Pages` are layered the other way: `Polling` has the
generation counter and the requests in flight, `FreshView` has only the promise
(an answer to the last question, no older than it), `PollingIsFresh` proves that
the first implements the second, and `Pages` composes the promise with the
handlers of the pages, so that the mechanism need not be interleaved with them.
`RestartWatch` meets the boot stream, and `InstallFlow` the install handlers, as
external parties that answer in any order the modules above allow.

### BootStatus

`publish` is split where the code lets go of the mutex: `Publish` appends to the
history and copies the subscribers under the lock, `Send` is one non-blocking
send after the unlock, `DropSlow`, `CloseAll` and `Finish` are the locked tail.
`Subscribe` sizes the channel (`BufferFor`), replays the history and registers in one
locked step; a replay that does not fit would stay in it with the mutex held, which every
locked step waits for (`MuFree`). A connection is dispatched to the handler that is installed at that moment
(`Dispatch`, `Swap`), then reads (`Receive`), sees the end of the stream
(`EndOfStream`), or goes away (`Disconnect`) and runs its deferred `Cancel`. A
channel is a bounded buffer with a closed flag; a send on a closed one panics
and ends the process.

### PackageLifecycle

One step of a handler is one call that changes the disk, systemd or the
records; `pc` names the next one. `LockPackage` takes the mutex and reads the
active version, which later steps use as the code does. `uninstallPackageUnits` is
`ListUnits`, which looks its files up once, and then for every name on that list
`StopCurrent` and `UninstallUnit`. `PrepareActiveVersion`, `ReuseVolumes`,
`ProvisionVolumes`, `SaveInstall`, `DropOldRecord`, `InstallUnits`, `StartUnit`
are the other steps of install and upgrade in the order of the code; `RemoveInstall`,
`KeepVolumes`, `PurgeInstalled`, `PurgeUninstalled`, `SetDisabled`, `HaltUnit`
the rest. The boot is `ReconcilePackage` and `StartPackage` per package,
`RestartPackage` after a version change or with a marker, `EndReconcile`
(freshness) and `Serve`.

What fails: errors that end the request are `Fail`, with what the call may have done
before it failed (`FailMeta`: a record linked or unlinked, `FailUnit`: a unit file
written and not loaded, `FailDisk`: part of a purge). Errors the code only logs are
alternatives inside their action: a stop, the removal of a unit file, the removal of the
old record (`HalfRemoved`), the moves of volumes, starts, the version file, the marker
when it is written and when it is removed (`Refresh`, `Serve`), the reading of the marker
or of the records (`FreshnessFails`), the one delayed restart of a refresh
(`SelfRestartFails`). `Disconnect` cancels the context, so that every later call to
systemd fails; `Crash` and `Reboot` may come anywhere.

Abstractions: a package has one volume, its contents are the set of writes made
to it; versions are numbers; which unit files a glob finds beside the right
ones is the constant `Overlap`. The unit API acts without the lock (`SetUnitStatus`).
Ghosts record what the properties except, each for one thing the code does:

| Ghost | Set by |
|---|---|
| `undeleted` | a unit file that `os.Remove` could not delete, until it is written again or deleted |
| `loose` | a service whose stop failed or was cancelled, or that was started between its stop and the removal of its file |
| `taken` | a unit file removed for the glob of another unit (`Overlap`) |
| `split` | a package that a process left with two records when it died between `SaveInstall` and `DropOldRecord` |
| `stale`, `purged`, `mine` | services from before the last update; writes deleted by a purge; writes of the current installation |

`restart` is "missed" once a call that would serve the marker has failed and was logged:
the marker then waits for whatever starts the controller next.

### CaddySupervisor and NetworkController

A `Reload` takes four steps: compare, write the file, start or reload, return;
the child may exit and be reaped between them. A reconcile is one step up to
that call, because `Controller.mu` is held for all of it and nothing outside
sees its middle, then the steps of the call. The reaper of a socat child is two
steps (`Reap` under the lock, `Notify` after it), its success timer another
(`ResetBackoff`). Writing the state file is two steps, because `os.WriteFile`
truncates first. Events of one kind coalesce; a write event and the removal
after it are handled in order. `missed` is a ghost: the file changed while no
watch was there to tell.

Abstractions: `down` and `stuck` choose the ports where starting a child or a
UPnP call fails, one fault per reconcile; process identities are reused once
nothing refers to them (`Slot`, `Child`); delays are kept, time is not; a
Caddyfile is the set of sites it serves. The name of the target container is
left out: the state file of another version is another file, and the early return for an
empty name (`networkcontroller.go:464`) is never taken, since every unit starts its
controller with `--target-container` (`systemd/unit.go:831`).

### Locale

Every catalogue is a definition, a function from four classes of keys (see the
head of the module) to the language its text is in; `derive` builds the country
variants from their base as the code does. `matchLocale` takes the declared
order as an argument, so that `MatchDecided` can compare two orders. The provider
is `resolveInitialLocale` at `Load`, `setLocale` and `syncServerLocale`; a ping is
answered (`Ping`) and delivered (`PingDelivered`) at different times; the language
form asks for the list, may be answered after the locale changed, and saves in
two steps around its `await`. Interpolation of parameters is left out.

### RestartWatch

`observeBootStatus` is `Connect`, `readBootID` (the probe that tells a 404 of the
outgoing controller from one of its successor), `onEvent`, `StreamBreaks`,
`Retry` and `Wake`, with its clocks counted in ticks. `handleRefreshServices` is
split at its two `await`s and may run twice. A session check is sent, answered
and applied in three steps, the last under the guard it reads at that moment.
A token is the boot it was issued in, since a restart ends the sessions of the
one before. Error frames of the stream are left out: no caller publishes one.

### FreshView, Polling and Pages

The server is a counter of its changes; an answer is the value it had when the
request was served, which may be any time before it arrives. A request that
fails blanks the view or leaves it, as the fetchers do with and without a
default. `Polling` has one action per line of the hook that changes state; a
remount drops what is in flight, because its answers reach a component that is
gone.

`Pages` describes each handler by a record with the calls it makes in turn, its
dialog, its flag, and when it closes, refreshes, hides, follows a status and
clears, each record written from the handler of that name; one state machine
runs them. `Init` picks a page and the handlers on it that share a dialog or a
flag. `Perform` is the server acting, `Refuse` a failure before or after that;
`NextCall`, `FollowStatus`, `Succeed` and `Catch` are what the handler does with
the answer. Checks of inputs that return before anything is sent are left out. The rows
of the upgrade notice of the home page are the counts it can show: `lastDismissedRef`
holds one count, so that dismissing another one shows the first again (`Keeps`, `Told`).

### InstallFlow

A slot is a handler in flight: `pc` is the client call it awaits, and each
`...Answered` action is the code from that answer to the next call or dialog.
Dialogs are one per kind, replaced when a second chain opens one; `stack` is the
order in which they cover each other, and only the top one can be used. A stream
ends on the server (`ServerEnds`), reports steps (`StreamStep`) and is read or
breaks (`StreamEnds`). `runOAuth` and its loop are flows that read the component's
cancel flag when they look at it. `Leave` is a change of page: handlers run on
and what they set is lost. A stream that ends in order without `done` is read as a
success, as `progress.js:17` does.

Of the answers of a form the token of an oauth question is part of the model, since it is
state of the dialog and not of its fields: `OpenQuestions` sets it only when the dialog
opens, as the effect of `InstallQuestionsDialog.jsx:103-116` does. Histories: `chose`, in
each handler and dialog of an install, is what the operator has chosen for this very
install so far, updated only by the buttons; `mixed` the other packages that one opening of
the questions dialog has had to do with, because an answer replaced what it is about or a
flow of an earlier opening reached it; `ticked` for which package the box was ticked.

## Runs

| Run | Instance | Shows |
|---|---|---|
| `boot_stream` | 2 connections, both may leave, 3 steps, buffer 1 | replay joins the live stream, publish returns, streams end |
| `boot_stream_panic` | same | violation: `publish` sends on a channel a leaving client closed |
| `lifecycle` | 1 package, 2 versions of which 1 is a prefix of 2, 2 requests (all but the two purges), unit API start, 1 write, 1 failing call | mutual exclusion, unit has record, nothing lost, one version runs |
| `lifecycle_boot` | 1 package, 2 versions, 1 request, disconnect, unit API start, 1 failing call, 2 crashes or reboots | handlers' knowledge stays true, running has unit, installed has unit, upgrades keep data, the boot restores what is enabled and, without an update to apply, nothing else |
| `lifecycle_live` | 1 package, 2 requests, unit API start and stop, refresh, new image, 1 failing call, 2 crashes or reboots | no stale service without marker, requests return, the marker is handled or its restart was missed |
| `network` | 2 ports, states that move, open and terminate ports, 2 writes or removals, 1 death, 1 fault, 2 children per port | no orphans, followed file, one caddy |
| `network_live` | states that flip forwarded/bridged and TLS, 2 deaths, retry channel of 1, delay cap 1 | types and bounds, no lost wake-up, applied state, dead forwarders replaced |
| `ui_locale` | 1 browser with one of 9 preference lists, with or without storage, a setting with and one without a catalogue | precedence, matching, no raw keys |
| `ui_restart` | 2 boots of 2 steps, 2 refresh calls, 1 session ping, envelope and back-off of 2 ticks | the successor is told apart, replays add no rows, no eviction, every watch ends |
| `ui_polling` | 2 queries, up to 4 requests of a mount, 3 versions | only the last request counts, it shows its answer, it is a `FreshView` |
| `ui_pages` | every page, 2 rows, 2 submissions in flight | changes are seen, answers meet their dialog, flags clear |
| `ui_install` | 2 packages that ask for a token, 2 versions, one of which asks nothing, 2 chains, 1 device flow | what is sent was chosen for that install, its token is of this opening of the dialog, purges are chosen, toasts mean work |

Configurations outside the list of runs, each of which gives the behaviour of a
finding (TLC reports the property violated):

| Configuration | Module | Property | Behaviour |
|---|---|---|---|
| `MCLifecycleGone.cfg` | `MCPackageLifecycle` | `NoOrphan` | the client disconnects, the stop fails, the unit file is removed, the service runs on |
| `MCLifecycleInstance.cfg` | `MCPackageLifecycle` | `BootRestores` | an instance is not restored by the boot |
| `MCLifecycleDisabled.cfg` | `MCPackageLifecycle` | `BootLeavesDisabledDown` | a version change or the restart marker makes the boot start a disabled package |
| `MCLifecycleGlob.cfg` | `MCPackageLifecycle` | `UnitsRemovedUnderLock` | the uninstall of a package removes the unit file of another whose name its glob matches |
| `MCNetworkReload.cfg` | `MCNetworkController` | `ReloadSpawns` | a reload with unchanged content leaves no caddy |
| `MCLocaleFull.cfg` | `MCLocale` | `FullyTranslated` | a message without a translation is shown in English |
| `MCRestartWatchLeak.cfg` | `MCRestartWatch` | `SuspensionOwned` | the page is left during the first ping of a refresh, and the session poll stays suspended |
| `MCPagesOffer.cfg` | `MCPages` | `NoDuplicateOffered` | the dialog that adds a user offers one who is there |
| `MCInstallFlowPoll.cfg` | `MCInstallFlow` | `PollHasDialog` | a device flow goes on polling after its dialog was closed |
| `MCInstallFlowToken.cfg` | `MCInstallFlow` | `TokenIsOwn` | the token of one package is sent with the install of another whose questions replaced its dialog |
| `MCInstallFlowDone.cfg` | `MCInstallFlow` | `SuccessIsDone` | a stream that ends without `done` is reported as a success |

Why the bounds are enough. Two requests make every pair of handlers meet on one
lock; two versions are an upgrade, a downgrade and a prefix clash; one write
shows whether data is carried along, since writes are independent tokens; two
crashes make the recovery itself crash; one failing call is every single failure at
every point. Two ports with a channel of one make a
signal be dropped; two child slots per port make an old reaper meet a new
child; two writes make a half-written file be read and then replaced, or a file
be removed and created again. A buffer of one with three steps makes replay
exceed the default size and makes a slow client be dropped. In the interface two
operations in flight make every pair of handlers meet on what it shares, and two
rows, packages or queries make an answer arrive for the other one; a third
version of the server makes an answer be older than the change before the last.
Four requests let three be overtaken by one. Two boots are the outgoing
controller and its successor, two refresh calls a double click. The nine
preference lists are one for each way through `matchLocale`: exact, language
default, region default, script, fallback, later preference and none. Where the run has
counters (`MaxWrites`, `MaxFaults`, `MaxCrash`, `MaxDeaths`...) they bound what
the environment does, never what the code does. The theorems hold without any of
these bounds.

Symmetry is used in `lifecycle` (requests) and `boot_stream_panic`
(connections), both without liveness. Deadlock checking is off where the system
may stop: a boot stream is over, a network controller was shut down, an operator
does nothing more (the bounds on clicks and submissions). A client of
the lifecycle can always ask again.

## Fairness

`BootStatus`: weak fairness of the boot goroutine, which never waits for a client;
`StreamsEnd` takes the scheduling of handler goroutines as an explicit
antecedent. `PackageLifecycle`: weak fairness of each handler's steps and of
the boot, since each is a goroutine that the scheduler runs, and of the delayed restart,
whose goroutine wakes once: it fires or fails, and is not tried again; strong fairness of
taking the lock, because Go's mutex hands over to a waiter that has starved for
a millisecond. `NetworkController`: weak fairness of the loop, of the
goroutines together and of the end of processes that were killed or reaped; a write that began ends.
`RestartWatch`: timers fire, a request is answered or fails, a stream whose process
died ends, and a controller that is down is started again and finishes its boot
(systemd restarts it, and `BootStatus` shows that its boot is not held up by
clients). `Pages`: every request is answered or fails and the code after an
`await` runs; `fetch` has no timeout of its own, so this is the one thing assumed
of the browser and its network, and `BusyClears` is worth as much as it is.
`Locale`, `Polling` and `InstallFlow` assume no fairness. Nothing is assumed about clients, operators, about services or children that were not
killed, or about which of several ready channels `select` picks.

## Proofs

Every invariant and every action property of a passing run is a theorem, for every
value of the constants. The assumptions are the named `ASSUME`s of the modules:
bounds are natural numbers, a buffer or channel has room for at least one element,
model values differ, every package has a latest version (`InstallAssumption`), the
preferences of a browser are lists of non-empty tags (`LocaleAssumption`). Some
theorems on the lifecycle have hypotheses besides; they are given below.

### Boot stream, supervisor, network controller

* `StreamInv` strengthens the two properties of the boot stream with what is true
  in the middle of a broadcast: a subscriber still to be sent to lacks exactly
  the event being published, and a request without a channel is in no set.
  `StreamCorrect` follows for any number of connections and any buffer size.
* `CaddyInv` adds that a child is in `reaping` until its reaper
  is done and that a tracked child was not killed; otherwise a late reaper
  could forget a new child with a reused identity.
* `Implements` maps each step of the network controller to a step of `CaddySpec` or
  a stutter, so `OneChild` carries over. `NoOrphans` and `NoLostWakeup` are
  inductive together with the types, through one lemma on what a reconcile does
  to the processes (`ForwardFacts`). `AppliesState` needs `Keyed` (a forwarder is
  a child of its own port, so that a new child cannot change the target of one
  that stays) and `Mapped` (the noted mappings are those of the state).
  `FollowsFile` needs `InStep`, its form for every point of the loop.

### Lifecycle

`IInv` is the invariant under all of it: the types, the shape of the handlers (which
request can be at which step), `HandlerKnows` (what a handler read after the lock is
still true where it is used), `Serialised` and `UnitHasRecord`. `UnitHasRecord` is not inductive
without the rest: the step that removes a record relies on the units having been
listed and removed some steps earlier by the same handler, with nobody in between, or
being among those that could not be deleted.

| Theorem | Hypotheses | Invariant beside `IInv` |
|---|---|---|
| `LocksCorrect`, `UnitsHaveRecords`, `HandlersKnow` | none | none |
| `DataSafe` | none | `DataHome`: a subvolume that does not exist holds nothing, so that a rename onto it overwrites nothing |
| `BootsLeaveDisabledDown` | none | `BootPlan`: what is in the list of each boot stage |
| `BootsRestore` | no instances | `BootPlan`: what is due is in the list of the stage or runs |
| `RunningHasUnits` | none | `Stopped`: from the stop to the unlink, what was stopped does not run or is in `loose` |
| `OneVersionRunning` | none | `OneRecord`: two records only between two steps of an upgrade, where the handler knows which |
| `InstalledHaveUnits` | none | `Findings`: the files on a handler's list are those its glob matches; `HasUnits`: a record without its unit file has a handler between the two, or is in the list of the boot |
| `UpdatesReachEveryService` | none | `Fresh`: what is old is in the list of the stage, or the marker or version file will bring a stage that lists it |
| `UpgradesKeepData` | `NothingKept` | `Kept`: the one volume of a package is that of its record, or a handler that is moving it knows where it is |

Two theorems have a hypothesis, which excludes something that really breaks the property:

* no instances (`BootsRestore`): the boot does not find them; a finding.
* `NothingKept`, no volume is kept at an uninstall or reused and no refresh has the
  controller restart itself: kept trees can take the place an upgrade was to move to, and
  a restart in the middle of an upgrade strands the data under the old version. Neither
  loses it, and `DataSafe` has no hypothesis.

The other ways in which the code breaks a property are not excluded but named, by the
ghosts above: a client may disconnect, a unit may be started by hand, globs may match
files of other packages and a removal may fail, and the theorem says that nothing but
the unit concerned is affected.

Failing calls are excluded by the property itself (`faults = 0`) in `OneVersionRuns`,
`InstalledHasUnit`, `UpgradeKeepsData`, `BootRestores` and `StaleHasMarker`; the other
properties hold with them.

`StaleHasMarker` was at first not provable, because it was false: with a crash
between the record of the new version and the removal of the old one, the boot
reconciles one of the two records and a service of the other outlives an update. The run
had not found it because its packages had one version. The exception is now stated with
the ghost `split`, in `OneVersionRuns` as well.

### Interface

* `LocaleInv`: what is stored is the last pick; a pick or a detected language is pinned
  and shown; a page that is not pinned shows what the last ping brought.
  `PrecedenceHolds` follows. `MatchIsDecided` rests on the lemma
  `Matched`: for any list that has exactly the 48 catalogues, in whatever order, `matchLocale`
  returns what the tables of defaults say (`Settled`), because every language with
  several catalogues has a default among them. `KeysAreNeverShown` goes from `derive` over the catalogues to `translate`.
* `WatchInv`: the suspensions that are counted are those of mounts that hold one, an
  observer runs only for a dialog that shows a refresh, and a boot id
  that was read is never that of a boot still going on (`Identified`). The last part is what makes
  a 404 of the outgoing controller and of its successor two different things.
* `OnlyTheLast` is inductive with the types (`GenerationInvariant`): no request in
  flight is of a later generation than the counter, at most one is of the current
  one, and the view is loading exactly while that one is in flight. Without the
  second part an older answer could pass the comparison of `hooks.js:36`.
  `PollingIsFresh` maps a request to `Ask`, the accepted answer to `Show` or `Fail`
  and every other step to a stutter; `AnswersOnly` follows for the hook itself.
* `AppSound` shows of every handler of every page, one lemma per group of pages, that one
  that neither asks the view again nor hides its row changes nothing (`Quiet`), and that
  the handlers of a dialog that a flag locks run under that flag and none other is
  submitted from it (`Locks`). The invariant `PagesInv` rests on that and on nothing
  else about the pages: the page was told of no change after its last question (`AckInv`), a
  flag is set exactly by the handler that runs under it (`FlagInv`), and the dialog it
  locks is open on its row (`LockInv`).
* `InstallInv`: the dialogs of the stack are open, each once (`Stacked`), every handler and
  dialog of an install carries what was chosen for it so far (`Agreed`, also of the copy that
  a refused form is restored from), the questions dialog and the flows that can reach it
  have a token of its own package or of one in `mixed` (`Held`), and a tick that is set was
  set for the open dialog (`Ticked`). `Agreed` needs one thing more to be inductive: reuse is
  not chosen before the left-over volumes are offered, so that the button that goes on
  without them changes nothing.

### What is only model-checked, and why

The liveness properties (`PublishReturns`, `StreamsEnd`, `RequestsFinish`,
`MarkerHandled`, `DeadIsReplaced`, `WatchEnds`, `BusyClears`): TLAPS 1.4.5 proves
neither `ENABLED` nor anything that rests on fairness. No module has a RECURSIVE
operator and no theorem needs induction over data; `MatchIsDecided`, which speaks of the
first of a list of any length, uses the finiteness of its domain instead.

## Where code and text disagree

With a run or a configuration that shows it (see `findings`): the panic of
`publish`; a disconnect that leaves a service running without its unit file; a glob
that finds the unit files of other packages; instances that the boot cannot restore; disabled packages that a boot with an
update to apply starts (`reconcile.go:322`, `freshness.go:102`); a reload that
starts no caddy; a suspension nobody releases; catalogues that are not complete;
a dialog that offers duplicates; a poll loop without its dialog; a token sent with the
install of another package; a stream cut short that is reported as a success.

Met while modelling, and kept out of the properties by an antecedent or a ghost
that names them:

* `controller_unit.go:161`: the unit API can start a unit between an uninstall's
  stop and its removal of the file. (`loose`)
* `controller_install.go:166`: a unit file that cannot be deleted outlives its
  record; only a second uninstall of that version, which then answers that it is not
  installed, tries again. (`undeleted`)
* `controller_system_service.go:389`, `freshness.go:110`: a delayed restart, a freshness
  stage or a removal of the marker that fails leaves the marker to the next start of the
  controller, whenever that is. (`restart`)
* `controller_install.go:380-396`: a crash, or the restart of a refresh, between the new
  record and the removal of the old one leaves two versions installed. The boot
  reconciles the later of the two only, so the other may go on running, and runs on
  after an update. (`split`)
* `controller_install.go:634`: a second uninstall that keeps data finds its
  destination taken and leaves the volume under `installed/`.
* `controller_install_volumes.go:200`: reusing kept volumes can take the place
  an upgrade was to move to; a crash in an upgrade can strand the data under the
  old version. Neither loses it (`NothingLost`).
* `networkcontroller.go:291`: a change of the state file between the first read
  and the watch is not noticed, nor one after a removal if the file was not yet
  back when the watch was added again. (`missed`)
* `networkcontroller.go:473`: a socat that cannot be started is not retried.
* `lib/hooks.js:31`: every tick of the interval starts a new generation, so an
  answer slower than the interval is always discarded and the view starves; the
  peers dialog of `Networks.jsx` polls with interval 0.
* `ObjectStorage.jsx`: a load of the panel replaces its tabs by a skeleton, so
  every change mounts the tab anew and loses its dialogs ("remount" in `Pages`).
* `BlocklistsTab.jsx`: switches save the whole configuration from the polled copy
  and have no busy flag, so two quick changes can undo one another.
* `SystemSettings.jsx`: each poll resets inputs that are being edited.
* `DNSManagement.jsx`: a removed record stays hidden if it is added again before
  the page is refreshed (`hidden`).
* `PackageManagement.jsx`: a questions dialog that replaces another keeps its
  page and switches; a refused form comes back without the answers
  typed (the oauth token of one is part of the model, see `InstallFlow`); a manifest that arrives late fills whichever manifest dialog is open.
* `supervisor.go:176`: a failed reload leaves `lastSent` set, so sending the same
  routes again does nothing.

## Not modelled

* The journal viewer (`JournalViewer.jsx`, `use-journal-search.js`,
  `use-follow-mode.js`). Its requests carry neither a generation nor the unit they
  are for: follow ticks that overlap append the same lines twice, a tick or load
  answered after another unit was opened is applied to the new one, whose end
  cursor it then sets, and loading older lines drops the time filter. A model
  would have no property to check that the code keeps.
* Charts, formatting and the widgets of the interface: drawing only.
* Overlay networks, shared ingress, dependencies, login throttle, self-update:
  real concurrency, not modelled yet. Their hazards, for the modules of the plan:
  `controller_networks.go:448` picks a free peer address and inserts it without a
  lock; `controller_networks_reconcile.go:367` lets overlapping renders overwrite
  each other in the wrong order, and `:239` does not repeat a failed one;
  `ingress_program.go:219` builds route sets outside the lock that installs them;
  `controller_install.go:402` appends to the children list of a parent under the
  lock of the child; `controller_auth.go:52` must give back its hashing slot on
  every path; `self_update.go:142` writes its marker before the restart it stands
  for; `archive_handlers.go:82` stops and starts a service without the package lock.
* Parsing, validation, rendering, certificates, git, metrics, SQL rows: sequential
  functions or calls of libraries, see the notes of `PROJECT.json`.

## Plan

1. `OverlayNetworks`: enrolment (list, pick an address, insert), removal and expiry
   of peers against the unlocked re-rendering of the WireGuard configuration.
2. `Ingress` on top of `CaddySupervisor`: rebuilds that read the installed
   packages, then replace the route set; the last one to read should win. The
   supervisor's theorem carries over by the same refinement.
3. Extension of `PackageLifecycle` by dependencies and the children list.
4. `LoginThrottle` and `SelfUpdate`, small modules with bounds at their centre.
5. Proofs: the safety and action properties of the runs are proved, all but two without a
   hypothesis. Left: `UpgradeKeepsData` with kept and reused volumes, which needs a ghost
   for the tree that took the place of another, and the refinement of `CaddySpec` by the
   modules to come.

## Running

    tlc -workers 2 -config MCNetwork.cfg MCNetworkController
    tlapm NetworkControllerProofs.tla

Every run finishes within three minutes on two workers.
