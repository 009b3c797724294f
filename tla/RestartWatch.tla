---------------------------- MODULE RestartWatch ----------------------------
(***************************************************************************)
(* A browser tab that asks the controller to restart and watches it come   *)
(* back (routes/SystemManagement.jsx), through three pieces that share     *)
(* nothing but timing: observeBootStatus, which follows /boot-status over  *)
(* lost connections and tells the outgoing controller from its successor   *)
(* by its boot id; the session poll of useRequireAuth, which must not read *)
(* the restart as an expired session; and the suspension counter that      *)
(* holds the poll back (lib/session-guard.js).                             *)
(*                                                                         *)
(* The controller is external to the interface: it serves the boot stream  *)
(* while it boots, answers 404 there once booted, and every restart makes  *)
(* the tokens issued before it invalid.  A token is the boot it was issued *)
(* in, 0 for none.  Time is counted in ticks.                              *)
(***************************************************************************)
EXTENDS Naturals, FiniteSets, Sequences

CONSTANTS
  Steps,          \* events a boot publishes before it is done
  MaxBoots,       \* bound: restarts of the controller
  MaxMounts,      \* bound: times the services page is opened
  Calls,          \* handleRefreshServices invocations in flight
  Checks,         \* session pings in flight
  maxEnvelope,    \* ticks after which the watch gives up
  baseBackoff, maxBackoff

ASSUME BoundsAssumption ==
  /\ {Steps, MaxBoots, MaxMounts, maxEnvelope, baseBackoff, maxBackoff} \subseteq Nat \ {0}
  /\ baseBackoff <= maxBackoff

VARIABLES
  ctrl,      \* "down", "booting", "up"
  boot,      \* boot id of the running or last controller
  at,        \* events the running boot has published
  asked,     \* the controller has accepted a refresh and will restart
  uiUp,      \* the container that serves the page answers
  token,     \* localStorage: token of this browser
  client,    \* token of the client object, which a logout does not reset
  route,     \* "login", "system" (the services page), "other" (any other page)
  mount,     \* number of the current or last mount of the services page
  page,      \* React state of that mount
  ref,       \* mount -> releaseSessionChecksRef: "null", "held", "released"
  suspendCount,
  obs,       \* observeBootStatus of the mounted stepper
  shown,     \* the stepper: the event shown last, and its reconnect banner
  checks,    \* session pings
  calls      \* handleRefreshServices invocations

server == <<ctrl, boot, at, asked, uiUp>>
auth   == <<token, client>>
guard  == <<ref, suspendCount>>
watch  == <<obs, shown>>
vars   == <<ctrl, boot, at, asked, uiUp, token, client, route, mount, page, ref, suspendCount,
            obs, shown, checks, calls>>

Idle == [pc |-> "idle", m |-> 0, tok |-> 0, id |-> 0]
FreshPage == [dialog |-> FALSE, refreshing |-> FALSE, controllerBack |-> FALSE,
              uiBack |-> FALSE, probing |-> FALSE, previousBootID |-> 0]
NoObserver == [state |-> "off", stream |-> 0, pos |-> 0, backoff |-> baseBackoff,
               sleep |-> 0, elapsed |-> 0, silent |-> 0]
NothingShown == [step |-> 0, reconnect |-> FALSE, rows |-> <<>>]
Min2(a, b) == IF a < b THEN a ELSE b
MaxAge == maxEnvelope + 1      \* bound: ages are only compared with the envelope

Init ==
  /\ ctrl = "up" /\ boot = 1 /\ at = Steps /\ asked = FALSE /\ uiUp = TRUE
  /\ token = 1 /\ client = 1 /\ route = "other" /\ mount = 0
  /\ page = FreshPage /\ ref = [m \in 1..MaxMounts |-> "null"] /\ suspendCount = 0
  /\ obs = NoObserver /\ shown = NothingShown
  /\ checks = [i \in Checks |-> Idle] /\ calls = [i \in Calls |-> Idle]

-----------------------------------------------------------------------------
(* The controller and the container of the interface (external).           *)

ControllerStops ==
  /\ ctrl # "down" /\ boot < MaxBoots
  /\ asked \/ ctrl = "booting"                 \* a restart it accepted, or a boot that dies
  /\ ctrl' = "down" /\ asked' = FALSE /\ uiUp' = FALSE
  /\ UNCHANGED <<boot, at, auth, route, mount, page, guard, watch, checks, calls>>

ControllerStarts ==
  /\ ctrl = "down"
  /\ ctrl' = "booting" /\ boot' = boot + 1 /\ at' = 0
  /\ UNCHANGED <<asked, uiUp, auth, route, mount, page, guard, watch, checks, calls>>

BootStep ==
  /\ ctrl = "booting"
  /\ IF at < Steps THEN at' = at + 1 /\ ctrl' = ctrl ELSE at' = at /\ ctrl' = "up"
  /\ UNCHANGED <<boot, asked, uiUp, auth, route, mount, page, guard, watch, checks, calls>>

UIContainerStarts ==
  /\ ~uiUp /\ ctrl = "up"
  /\ uiUp' = TRUE
  /\ UNCHANGED <<ctrl, boot, at, asked, auth, route, mount, page, guard, watch, checks, calls>>

-----------------------------------------------------------------------------
(* lib/session-guard.js: a suspension and its idempotent release.          *)

suspendSessionChecks(m) ==
  /\ suspendCount' = suspendCount + 1
  /\ ref' = [ref EXCEPT ![m] = "held"]

\* The release function a ref holds is called; the ref then keeps it or is cleared.
Release(m, after) ==
  /\ suspendCount' = IF ref[m] = "held" THEN suspendCount - 1 ELSE suspendCount
  /\ ref' = [ref EXCEPT ![m] = IF ref[m] = "null" THEN "null" ELSE after]

isSessionCheckSuspended == suspendCount > 0

(* The stepper is mounted while the dialog shows a refresh; its effect     *)
(* starts an observer and aborts it when it is unmounted or when the boot  *)
(* id it is given changes.                                                 *)
Watched(p) == p.dialog /\ p.refreshing
BootStatusStepper(old, new) ==
  IF ~Watched(new) THEN obs' = NoObserver /\ shown' = NothingShown
  ELSE IF ~Watched(old) THEN obs' = [NoObserver EXCEPT !.state = "connect"] /\ shown' = NothingShown
  ELSE IF old.previousBootID # new.previousBootID
  THEN obs' = [NoObserver EXCEPT !.state = "connect"] /\ shown' = shown
  ELSE UNCHANGED <<obs, shown>>

\* The services page is unmounted: its cleanup aborts the probe and releases.
Unmount ==
  /\ page' = FreshPage
  /\ obs' = NoObserver /\ shown' = NothingShown
  /\ IF route = "system" THEN Release(mount, "released") ELSE UNCHANGED guard

-----------------------------------------------------------------------------
(* Moving about: routes, login and logout, reload.                         *)

EnterSystem ==
  /\ route = "other" /\ mount < MaxMounts
  /\ route' = "system" /\ mount' = mount + 1
  /\ UNCHANGED <<server, auth, page, guard, watch, checks, calls>>

LeaveSystem ==
  /\ route = "system"
  /\ route' = "other" /\ Unmount
  /\ UNCHANGED <<server, auth, mount, checks, calls>>

Login ==
  /\ route = "login" /\ ctrl = "up"
  /\ token' = boot /\ client' = boot /\ route' = "other"
  /\ UNCHANGED <<server, mount, page, guard, watch, checks, calls>>

Logout ==
  /\ route # "login"
  /\ token' = 0 /\ route' = "login" /\ Unmount
  /\ UNCHANGED <<server, client, mount, checks, calls>>

\* window.location.reload: all script state is gone, the token is not.
Reload ==
  /\ uiUp /\ page.uiBack
  /\ route' = "other" /\ page' = FreshPage /\ obs' = NoObserver /\ shown' = NothingShown
  /\ ref' = [m \in 1..MaxMounts |-> "null"] /\ suspendCount' = 0
  /\ checks' = [i \in Checks |-> Idle] /\ calls' = [i \in Calls |-> Idle]
  /\ client' = token
  /\ UNCHANGED <<server, token, mount>>

-----------------------------------------------------------------------------
(* useRequireAuth: a ping on an interval while nothing suspends it.        *)

check(i) ==
  /\ route # "login" /\ token # 0 /\ ~isSessionCheckSuspended
  /\ checks[i].pc = "idle"
  /\ checks' = [checks EXCEPT ![i] = [Idle EXCEPT !.pc = "asked", !.tok = token]]
  /\ UNCHANGED <<server, auth, route, mount, page, guard, watch, calls>>

\* A booted controller names the user of a valid token; a booting one answers 503
\* and one that is down nothing, which the poll ignores.
CheckAnswered(i) ==
  /\ checks[i].pc = "asked"
  /\ checks' = [checks EXCEPT ![i] =
        IF ctrl = "up" THEN [@ EXCEPT !.pc = IF @ = "asked" /\ checks[i].tok = boot THEN "valid" ELSE "invalid"]
        ELSE Idle]
  /\ UNCHANGED <<server, auth, route, mount, page, guard, watch, calls>>

\* Mutant: the suspension is only looked at when the ping is sent.
CheckApplied_NoGuard(i) ==
  /\ checks[i].pc \in {"valid", "invalid"}
  /\ checks' = [checks EXCEPT ![i] = Idle]
  /\ IF checks[i].pc = "valid"
     THEN UNCHANGED <<token, route, page, guard, obs, shown>>
     ELSE token' = 0 /\ route' = "login" /\ Unmount
  /\ UNCHANGED <<server, client, mount, calls>>

\* The answer reaches the tab; nothing ties it to the token it was asked with.
CheckApplied(i) ==
  /\ checks[i].pc \in {"valid", "invalid"}
  /\ checks' = [checks EXCEPT ![i] = Idle]
  /\ IF checks[i].pc = "valid" \/ isSessionCheckSuspended
     THEN UNCHANGED <<token, route, page, guard, obs, shown>>
     ELSE token' = 0 /\ route' = "login" /\ Unmount
  /\ UNCHANGED <<server, client, mount, calls>>

-----------------------------------------------------------------------------
(* The refresh dialog and handleRefreshServices.                           *)

OpenRefreshDialog ==
  /\ route = "system" /\ ~page.dialog
  /\ page' = [page EXCEPT !.dialog = TRUE]
  /\ BootStatusStepper(page, page')
  /\ UNCHANGED <<server, auth, route, mount, guard, checks, calls>>

\* The cancel button of the dialog, there until the refresh has begun.
CancelRefresh ==
  /\ page.dialog /\ ~page.refreshing
  /\ page' = [page EXCEPT !.dialog = FALSE]
  /\ UNCHANGED <<server, auth, route, mount, guard, watch, checks, calls>>

closeRefreshDialog ==
  /\ page.dialog /\ (page.refreshing => page.controllerBack)
  /\ page' = [FreshPage EXCEPT !.previousBootID = page.previousBootID]
  /\ Release(mount, "null")
  /\ BootStatusStepper(page, page')
  /\ UNCHANGED <<server, auth, route, mount, checks, calls>>

\* The confirm button is not disabled: a second click starts a second invocation.
handleRefreshServices(i) ==
  /\ page.dialog /\ ~page.refreshing /\ calls[i].pc = "idle"
  /\ calls' = [calls EXCEPT ![i] = [Idle EXCEPT !.pc = "ping", !.m = mount]]
  /\ UNCHANGED <<server, auth, route, mount, page, guard, watch, checks>>

Here(i) == route = "system" /\ calls[i].m = mount

\* The controller answers the ping that captures its boot id.
RefreshPinged(i) ==
  /\ calls[i].pc = "ping"
  /\ calls' = [calls EXCEPT ![i] =
                 IF ctrl = "up" THEN [@ EXCEPT !.pc = "pinged", !.id = boot] ELSE [@ EXCEPT !.pc = "failed"]]
  /\ UNCHANGED <<server, auth, route, mount, page, guard, watch, checks>>

\* The handler resumes with the boot id, suspends the poll and posts the request.
RefreshBegins(i) ==
  LET m == calls[i].m IN
  /\ calls[i].pc = "pinged"
  /\ calls' = [calls EXCEPT ![i] = [@ EXCEPT !.pc = "post", !.tok = client]]
  /\ IF ref[m] = "null" THEN suspendSessionChecks(m) ELSE UNCHANGED guard
  /\ IF Here(i)
     THEN /\ page' = [page EXCEPT !.previousBootID = calls[i].id, !.controllerBack = FALSE,
                                  !.uiBack = FALSE, !.refreshing = TRUE]
          /\ BootStatusStepper(page, page')
     ELSE UNCHANGED <<page, obs, shown>>
  /\ UNCHANGED <<server, auth, route, mount, checks>>

\* The controller takes the request, unless the token died with its predecessor.
RefreshPosted(i) ==
  LET accepted == ctrl = "up" /\ calls[i].tok = boot IN
  /\ calls[i].pc = "post"
  /\ asked' = (asked \/ accepted)
  /\ calls' = [calls EXCEPT ![i].pc = IF accepted THEN "posted" ELSE "failed"]
  /\ UNCHANGED <<ctrl, boot, at, uiUp, auth, route, mount, page, guard, watch, checks>>

\* The request was accepted and its answer arrives: a toast.
RefreshStarted(i) ==
  /\ calls[i].pc = "posted"
  /\ calls' = [calls EXCEPT ![i] = Idle]
  /\ UNCHANGED <<server, auth, route, mount, page, guard, watch, checks>>

\* An error of either call, or an answer lost with the controller that died.
RefreshFailed(i) ==
  /\ calls[i].pc = "failed" \/ (calls[i].pc = "posted" /\ ~asked)
  /\ calls' = [calls EXCEPT ![i] = Idle]
  /\ Release(calls[i].m, "null")
  /\ IF Here(i)
     THEN /\ page' = [page EXCEPT !.refreshing = FALSE]
          /\ BootStatusStepper(page, page')
     ELSE UNCHANGED <<page, obs, shown>>
  /\ UNCHANGED <<server, auth, route, mount, checks>>

-----------------------------------------------------------------------------
(* observeBootStatus.                                                      *)

\* onEvent({done: true}): the stepper shows ready and the page starts to probe
\* for the document it was loaded from.
Finish ==
  /\ obs' = [obs EXCEPT !.state = "done"]
  /\ shown' = [shown EXCEPT !.step = Steps + 1]
  /\ page' = [page EXCEPT !.controllerBack = TRUE, !.probing = TRUE]

\* Mutant: no envelope, the observer reconnects for ever.
Retry_NoEnvelope(o) ==
  /\ obs' = [o EXCEPT !.state = "sleep", !.sleep = o.backoff,
                      !.backoff = Min2(2 * o.backoff, maxBackoff), !.silent = 0]
  /\ shown' = [shown EXCEPT !.reconnect = TRUE]
  /\ UNCHANGED page

\* The connection ended without done: give up, or sleep and double the delay.
Retry(o) ==
  /\ obs' = IF o.elapsed + o.backoff > maxEnvelope THEN [o EXCEPT !.state = "gaveup"]
            ELSE [o EXCEPT !.state = "sleep", !.sleep = o.backoff,
                           !.backoff = Min2(2 * o.backoff, maxBackoff)]
  /\ shown' = [shown EXCEPT !.reconnect = TRUE]
  /\ UNCHANGED page

\* GET /boot-status: the stream of a booting controller, 404 of a booted one, or
\* a failure; the network may fail although the controller is there.
Connect ==
  /\ obs.state = "connect"
  /\ \/ Retry(obs)
     \/ /\ ctrl = "booting"
        /\ obs' = [obs EXCEPT !.state = "stream", !.stream = boot, !.pos = 0,
                              !.silent = 0, !.backoff = baseBackoff]
        /\ UNCHANGED <<shown, page>>
     \/ /\ ctrl = "up"
        /\ IF page.previousBootID = 0 THEN Finish
           ELSE obs' = [obs EXCEPT !.state = "probe"] /\ UNCHANGED <<shown, page>>
  /\ UNCHANGED <<server, auth, route, mount, guard, checks, calls>>

\* Mutant: any controller that answers is taken for the successor.
readBootID_AnyAnswer ==
  /\ obs.state = "probe"
  /\ IF ctrl # "down" THEN Finish ELSE Retry(obs)
  /\ UNCHANGED <<server, auth, route, mount, guard, checks, calls>>

\* readBootID: whoever answers the ping now, booted or not, names its boot id.
readBootID ==
  /\ obs.state = "probe"
  /\ IF ctrl # "down" /\ boot # page.previousBootID THEN Finish ELSE Retry(obs)
  /\ UNCHANGED <<server, auth, route, mount, guard, checks, calls>>

\* The stream replays the boot's events and follows it; the last half of them
\* are the packages being restarted, each of which gets one row.
Package(e) == e > Steps \div 2

\* Mutant: a package event appends a row whether or not it has one.
AddRow_Append(rows, e) == Append(rows, e)

AddRow(rows, e) == IF \E j \in DOMAIN rows : rows[j] = e THEN rows ELSE Append(rows, e)

onEvent ==
  /\ obs.state = "stream" /\ obs.stream = boot /\ ctrl # "down"
  /\ \/ /\ obs.pos < at
        /\ obs' = [obs EXCEPT !.pos = @ + 1]
        /\ shown' = [step |-> obs.pos + 1, reconnect |-> FALSE,
                     rows |-> IF Package(obs.pos + 1) THEN AddRow(shown.rows, obs.pos + 1) ELSE shown.rows]
        /\ UNCHANGED page
     \/ /\ obs.pos = Steps /\ ctrl = "up"
        /\ Finish
  /\ UNCHANGED <<server, auth, route, mount, guard, checks, calls>>

StreamBreaks ==
  /\ obs.state = "stream"
  /\ Retry(obs)
  /\ UNCHANGED <<server, auth, route, mount, guard, checks, calls>>

Wake ==
  /\ obs.state = "sleep" /\ obs.sleep = 0
  /\ obs' = [obs EXCEPT !.state = IF obs.silent > maxEnvelope THEN "gaveup" ELSE "connect"]
  /\ UNCHANGED <<server, auth, route, mount, page, guard, shown, checks, calls>>

\* waitForUIDocument: the page's own document answers, or the probe times out.
UIProbe ==
  /\ page.probing
  /\ page' = [page EXCEPT !.probing = FALSE, !.uiBack = uiUp]
  /\ UNCHANGED <<server, auth, route, mount, guard, watch, checks, calls>>

Older(a) == Min2(a + 1, MaxAge)
Tick ==
  /\ obs.state \in {"connect", "probe", "stream", "sleep"}
  /\ obs.state = "sleep" => obs.sleep > 0
  /\ obs' = [obs EXCEPT !.elapsed = Older(@), !.silent = Older(@),
                        !.sleep = IF obs.state = "sleep" THEN @ - 1 ELSE @]
  /\ UNCHANGED <<server, auth, route, mount, page, guard, shown, checks, calls>>

-----------------------------------------------------------------------------
Controller == ControllerStops \/ ControllerStarts \/ BootStep \/ UIContainerStarts
Observer == Connect \/ readBootID \/ onEvent \/ StreamBreaks \/ Wake \/ Tick
Refresh(i) == RefreshPinged(i) \/ RefreshBegins(i) \/ RefreshPosted(i) \/ RefreshStarted(i) \/ RefreshFailed(i)

Next ==
  \/ Controller \/ Observer \/ UIProbe
  \/ EnterSystem \/ LeaveSystem \/ Login \/ Logout \/ Reload
  \/ OpenRefreshDialog \/ CancelRefresh \/ closeRefreshDialog
  \/ \E i \in Checks : check(i) \/ CheckAnswered(i) \/ CheckApplied(i)
  \/ \E i \in Calls : handleRefreshServices(i) \/ Refresh(i)

Spec == Init /\ [][Next]_vars

(* Timers fire, answers come or fail, a controller that is down is started *)
(* again and finishes its boot, and a stream whose process died ends.      *)
Dead == StreamBreaks /\ (ctrl = "down" \/ obs.stream # boot)
FairSpec ==
  /\ Spec
  /\ WF_vars(ControllerStarts) /\ WF_vars(BootStep) /\ WF_vars(Tick) /\ WF_vars(Wake)
  /\ WF_vars(Connect) /\ WF_vars(readBootID) /\ WF_vars(onEvent) /\ WF_vars(Dead)
  /\ \A i \in Calls : WF_vars(Refresh(i))

-----------------------------------------------------------------------------
(* The inductive invariant the proofs use.                                 *)

Pages == [dialog : BOOLEAN, refreshing : BOOLEAN, controllerBack : BOOLEAN, uiBack : BOOLEAN,
          probing : BOOLEAN, previousBootID : Nat]
Observers == [state : {"off", "connect", "probe", "stream", "sleep", "done", "gaveup"}, stream : Nat,
              pos : Nat, backoff : Nat, sleep : Nat, elapsed : Nat, silent : Nat]
Invocations == [pc : {"idle", "ping", "pinged", "post", "posted", "failed"}, m : Nat, tok : Nat, id : Nat]
Pings == [pc : {"idle", "asked", "valid", "invalid"}, m : Nat, tok : Nat, id : Nat]

\* Type invariant.
TypeOK ==
  /\ ctrl \in {"down", "booting", "up"} /\ boot \in Nat \ {0} /\ at \in Nat
  /\ asked \in BOOLEAN /\ uiUp \in BOOLEAN
  /\ token \in Nat /\ client \in Nat
  /\ route \in {"login", "system", "other"} /\ mount \in 0..MaxMounts
  /\ page \in Pages
  /\ ref \in [1..MaxMounts -> {"null", "held", "released"}] /\ suspendCount \in Nat
  /\ obs \in Observers
  /\ shown \in [step : Nat, reconnect : BOOLEAN, rows : Seq(Nat)]
  /\ checks \in [Checks -> Pings] /\ calls \in [Calls -> Invocations]

\* The counter is the number of mounts whose suspension has not been released.
Suspending == {m \in 1..MaxMounts : ref[m] = "held"}
Counted == suspendCount = Cardinality(Suspending)

\* A page that shows a refresh is mounted and holds the suspension of its own mount, which nothing
\* has released for good; mounts to come hold none.
Mounted ==
  /\ route = "system" => mount > 0 /\ ref[mount] # "released"
  /\ route # "system" => page = FreshPage
  /\ page.refreshing => ref[mount] = "held"
  /\ \A m \in 1..MaxMounts : m > mount => ref[m] = "null"
  /\ \A i \in Calls : calls[i].pc # "idle" => calls[i].m \in 1..mount

\* An observer runs for a dialog that shows a refresh.
Observed == obs.state # "off" => Watched(page)

\* A boot id that was read is that of a controller which had booted: none of a boot still going on.
Read(id) == id <= boot /\ (ctrl = "booting" => id < boot)
Identified ==
  /\ Read(page.previousBootID) /\ \A i \in Calls : Read(calls[i].id)
  /\ page.controllerBack => page.previousBootID < boot
  /\ obs.state = "stream" => page.previousBootID < obs.stream

-----------------------------------------------------------------------------
(* Properties.                                                             *)

\* The dialog that reports the refresh complete has seen another controller than
\* the one that was asked to restart: never the outgoing one, which answers the
\* boot stream with the same 404 as its successor (client-boot.js, 404 branch).
DoneMeansSuccessor ==
  (Watched(page) /\ page.controllerBack) => boot > page.previousBootID

\* While the dialog watches a restart, the session poll never throws the operator
\* out of it, whatever pings were in flight when the watch began: leaving the
\* page is left to the operator (lib/session-guard.js and useRequireAuth).
NotEvicted ==
  [][(Watched(page) /\ route' = "login") => checks' = checks]_vars

\* A replay of the boot's history after a reconnect gives no package a second row,
\* and a stream that has shown every event it has read shows the last of them
\* (BootStatusStepper's onEvent).
StepperFollows ==
  /\ \A j, k \in DOMAIN shown.rows : shown.rows[j] = shown.rows[k] => j = k
  /\ obs.state = "stream" /\ obs.pos > 0 => shown.step = obs.pos /\ ~shown.reconnect

\* The inductive invariant of the properties above.
WatchInv == TypeOK /\ Counted /\ Mounted /\ Observed /\ Identified /\ StepperFollows

\* A watch that began ends: the successor is reported, or the observer gives up
\* within its envelope, or the dialog is gone; it never reconnects for ever
\* (observeBootStatus).
WatchEnds ==
  Watched(page) ~> (page.controllerBack \/ obs.state = "gaveup" \/ ~Watched(page))

\* "The suspension is released when the dialog is done" (SystemManagement.jsx:144):
\* no session poll stays suspended when no services page is mounted.
SuspensionOwned == isSessionCheckSuspended => route = "system"
=============================================================================
