------------------------- MODULE RestartWatchProofs -------------------------
(***************************************************************************)
(* Proofs about RestartWatch: WatchInv is inductive, for any number of     *)
(* restarts, mounts of the page, clicks and pings in flight and any        *)
(* envelope, and with it DoneMeansSuccessor, StepperFollows and            *)
(* NotEvicted.  What is needed beyond the properties is where the          *)
(* suspension counter comes from (one for each mount that holds it) and    *)
(* that a boot id, once read, is of a controller that had booted.          *)
(***************************************************************************)
EXTENDS RestartWatch, FiniteSetTheorems, SequenceTheorems, TLAPS

-----------------------------------------------------------------------------
(* lib/session-guard.js.                                                   *)

\* The mounts that hold a suspension can be counted.
LEMMA SuspendingFinite ==
  IsFiniteSet(Suspending) /\ Cardinality(Suspending) \in Nat
<1>1. IsFiniteSet(1..MaxMounts)
  BY FS_Interval, BoundsAssumption
<1>2. IsFiniteSet(Suspending)
  BY <1>1, FS_Subset DEF Suspending
<1> QED
  BY <1>2, FS_CardinalityType

\* suspendSessionChecks, called by a mount that holds no suspension.
LEMMA SuspendKeeps ==
  ASSUME TypeOK, Counted, NEW m \in 1..MaxMounts, ref[m] # "held", suspendSessionChecks(m)
  PROVE  /\ Counted' /\ suspendCount' \in Nat
         /\ ref' \in [1..MaxMounts -> {"null", "held", "released"}]
         /\ ref'[m] = "held" /\ \A n \in 1..MaxMounts : n # m => ref'[n] = ref[n]
<1>1. /\ ref' \in [1..MaxMounts -> {"null", "held", "released"}] /\ suspendCount' \in Nat
      /\ ref'[m] = "held" /\ \A n \in 1..MaxMounts : n # m => ref'[n] = ref[n]
  BY DEF TypeOK, suspendSessionChecks
<1>2. Suspending' = Suspending \cup {m} /\ m \notin Suspending
  BY <1>1 DEF Suspending
<1>3. Cardinality(Suspending') = Cardinality(Suspending) + 1
  BY <1>2, SuspendingFinite, FS_AddElement
<1> QED
  BY <1>1, <1>3 DEF Counted, suspendSessionChecks

\* The release function of a mount: called once or again, with or without a suspension.
LEMMA ReleaseKeeps ==
  ASSUME TypeOK, Counted, NEW m \in 1..MaxMounts, NEW after \in {"null", "released"}, Release(m, after)
  PROVE  /\ Counted' /\ suspendCount' \in Nat
         /\ ref' \in [1..MaxMounts -> {"null", "held", "released"}]
         /\ ref'[m] = IF ref[m] = "null" THEN "null" ELSE after
         /\ \A n \in 1..MaxMounts : n # m => ref'[n] = ref[n]
<1>1. /\ ref' \in [1..MaxMounts -> {"null", "held", "released"}]
      /\ ref'[m] = IF ref[m] = "null" THEN "null" ELSE after
      /\ \A n \in 1..MaxMounts : n # m => ref'[n] = ref[n]
  BY DEF TypeOK, Release
<1>2. Suspending' = Suspending \ {m}
  BY <1>1 DEF Suspending
<1>3. CASE ref[m] = "held"
  <2>1. m \in Suspending
    BY <1>3 DEF Suspending
  <2>2. Cardinality(Suspending') = Cardinality(Suspending) - 1 /\ Cardinality(Suspending') \in Nat
    BY <1>2, <2>1, SuspendingFinite, FS_RemoveElement, FS_CardinalityType
  <2> QED
    BY <1>1, <1>3, <2>2 DEF Counted, Release
<1>4. CASE ref[m] # "held"
  <2>1. Suspending' = Suspending
    BY <1>2, <1>4 DEF Suspending
  <2> QED
    BY <1>1, <1>4, <2>1 DEF Counted, Release, TypeOK
<1> QED
  BY <1>3, <1>4

\* A mount that holds a suspension keeps the session poll back.
LEMMA HeldSuspends ==
  ASSUME Counted, NEW m \in 1..MaxMounts, ref[m] = "held"
  PROVE  isSessionCheckSuspended
<1>1. m \in Suspending
  BY DEF Suspending
<1>2. Cardinality(Suspending) # 0
  BY <1>1, SuspendingFinite, FS_EmptySet
<1> QED
  BY <1>2, SuspendingFinite DEF Counted, isSessionCheckSuspended

-----------------------------------------------------------------------------
(* The stepper and its observer.                                           *)

\* The parts of the invariant that are about them.
WatchOK ==
  /\ obs \in Observers
  /\ shown \in [step : Nat, reconnect : BOOLEAN, rows : Seq(Nat)]
  /\ StepperFollows /\ Observed

\* A fresh observer.
LEMMA NoObserverTyped ==
  /\ NoObserver \in Observers /\ NoObserver.state = "off"
  /\ [NoObserver EXCEPT !.state = "connect"] \in Observers
  /\ [NoObserver EXCEPT !.state = "connect"].state = "connect"
  /\ NothingShown \in [step : Nat, reconnect : BOOLEAN, rows : Seq(Nat)]
  /\ DOMAIN NothingShown.rows = {}
  BY BoundsAssumption DEF NoObserver, Observers, NothingShown

\* What the stepper does when the page changes: the stream it goes on reading is the one it read,
\* for the boot id it was started with.
LEMMA StepperKeeps ==
  ASSUME WatchOK, BootStatusStepper(page, page')
  PROVE  /\ WatchOK'
         /\ obs'.state = "stream" => obs' = obs /\ page'.previousBootID = page.previousBootID
<1>1. CASE obs' = NoObserver /\ shown' = NothingShown
  BY <1>1, NoObserverTyped DEF WatchOK, StepperFollows, Observed
<1>2. CASE /\ obs' = [NoObserver EXCEPT !.state = "connect"] /\ shown' \in {NothingShown, shown}
           /\ Watched(page')
  BY <1>2, NoObserverTyped DEF WatchOK, StepperFollows, Observed, Watched
<1>3. CASE UNCHANGED <<obs, shown>> /\ page'.previousBootID = page.previousBootID /\ Watched(page')
  BY <1>3 DEF WatchOK, StepperFollows, Observed, Watched
<1> QED
  BY <1>1, <1>2, <1>3 DEF BootStatusStepper

\* A connection that ends without done.
LEMMA RetryKeeps ==
  ASSUME WatchOK, Retry(obs), obs.state # "off"
  PROVE  WatchOK' /\ obs'.state # "stream" /\ page' = page
<1>1. Min2(2 * obs.backoff, maxBackoff) \in Nat
  BY BoundsAssumption DEF WatchOK, Observers, Min2
<1>2. obs' \in Observers /\ obs'.state # "stream"
  <2>1. CASE obs' = [obs EXCEPT !.state = "gaveup"]
    BY <2>1 DEF WatchOK, Observers
  <2>2. CASE obs' = [obs EXCEPT !.state = "sleep", !.sleep = obs.backoff,
                                !.backoff = Min2(2 * obs.backoff, maxBackoff)]
    BY <1>1, <2>2 DEF WatchOK, Observers
  <2> QED
    BY <2>1, <2>2 DEF Retry
<1>3. shown' \in [step : Nat, reconnect : BOOLEAN, rows : Seq(Nat)] /\ shown'.rows = shown.rows
  BY DEF Retry, WatchOK
<1> QED
  BY <1>2, <1>3 DEF WatchOK, StepperFollows, Observed, Watched, Retry

\* The observer reports done.
LEMMA FinishKeeps ==
  ASSUME WatchOK, Finish, page \in Pages, obs.state # "off"
  PROVE  /\ WatchOK' /\ obs'.state # "stream"
         /\ page' \in Pages /\ page'.previousBootID = page.previousBootID
         /\ page'.refreshing = page.refreshing /\ page'.dialog = page.dialog
<1>1. obs' \in Observers /\ obs'.state = "done"
  BY DEF Finish, WatchOK, Observers
<1>2. shown' \in [step : Nat, reconnect : BOOLEAN, rows : Seq(Nat)] /\ shown'.rows = shown.rows
  BY BoundsAssumption DEF Finish, WatchOK
<1>3. /\ page' \in Pages /\ page'.previousBootID = page.previousBootID
      /\ page'.refreshing = page.refreshing /\ page'.dialog = page.dialog
  BY DEF Finish, Pages
<1> QED
  BY <1>1, <1>2, <1>3 DEF WatchOK, StepperFollows, Observed, Watched

\* A row is added for a package that has none.
LEMMA AddRowKeeps ==
  ASSUME NEW rows \in Seq(Nat), NEW e \in Nat,
         \A j, k \in DOMAIN rows : rows[j] = rows[k] => j = k
  PROVE  /\ AddRow(rows, e) \in Seq(Nat)
         /\ \A j, k \in DOMAIN AddRow(rows, e) : AddRow(rows, e)[j] = AddRow(rows, e)[k] => j = k
<1>1. CASE \E j \in DOMAIN rows : rows[j] = e
  BY <1>1 DEF AddRow
<1>2. CASE ~ \E j \in DOMAIN rows : rows[j] = e
  <2> DEFINE r == Append(rows, e)
  <2>1. /\ r \in Seq(Nat) /\ Len(r) = Len(rows) + 1 /\ Len(rows) \in Nat
        /\ \A j \in 1..Len(rows) : r[j] = rows[j]
        /\ r[Len(rows) + 1] = e
    BY AppendProperties
  <2>2. DOMAIN r = 1..(Len(rows) + 1) /\ DOMAIN rows = 1..Len(rows)
    BY <2>1
  <2>3. AddRow(rows, e) = r
    BY <1>2 DEF AddRow
  <2> HIDE DEF r
  <2>4. \A j, k \in DOMAIN r : r[j] = r[k] => j = k
    <3>1. \A j \in DOMAIN r : j \in DOMAIN rows \/ j = Len(rows) + 1
      BY <2>1, <2>2
    <3>2. \A j \in DOMAIN rows : r[j] = rows[j] /\ rows[j] # e
      BY <1>2, <2>1, <2>2
    <3> QED
      BY <2>1, <3>1, <3>2
  <2> QED
    BY <2>1, <2>3, <2>4
<1> QED
  BY <1>1, <1>2

-----------------------------------------------------------------------------
(* The invariant is kept by each kind of step.                             *)

\* What is left of the type invariant.
RestOK ==
  /\ ctrl \in {"down", "booting", "up"} /\ boot \in Nat \ {0} /\ at \in Nat
  /\ asked \in BOOLEAN /\ uiUp \in BOOLEAN
  /\ token \in Nat /\ client \in Nat
  /\ checks \in [Checks -> Pings]

\* The page, its mounts and the invocations of the refresh.
PageOK ==
  /\ route \in {"login", "system", "other"} /\ mount \in 0..MaxMounts
  /\ page \in Pages
  /\ ref \in [1..MaxMounts -> {"null", "held", "released"}] /\ suspendCount \in Nat
  /\ calls \in [Calls -> Invocations]
  /\ Counted /\ Mounted

\* The parts make up the invariant.
Inv == RestOK /\ PageOK /\ WatchOK /\ Identified
LEMMA Parts == WatchInv <=> Inv
  BY DEF WatchInv, TypeOK, Inv, RestOK, PageOK, WatchOK

\* The mounts are those of the page.
LEMMA PageStays ==
  ASSUME PageOK, UNCHANGED <<route, mount, page, ref, suspendCount, calls>>
  PROVE  PageOK'
  BY DEF PageOK, Counted, Suspending, Mounted, FreshPage

\* Neither the stepper nor what it watches.
LEMMA WatchStays ==
  ASSUME WatchOK, UNCHANGED <<obs, shown>>, Watched(page) => Watched(page')
  PROVE  WatchOK'
  BY DEF WatchOK, StepperFollows, Observed, Watched

\* The page changes but for the refresh it shows.
LEMMA PageChanges ==
  ASSUME PageOK, UNCHANGED <<route, mount, ref, suspendCount, calls>>, route = "system",
         page' \in Pages, page'.refreshing => page.refreshing
  PROVE  PageOK'
  BY DEF PageOK, Counted, Suspending, Mounted, FreshPage

\* The page is mounted when it shows anything.
LEMMA DialogIsMounted ==
  ASSUME PageOK, page.dialog \/ page.refreshing \/ page.probing
  PROVE  route = "system" /\ mount \in 1..MaxMounts
<1>1. ~FreshPage.dialog /\ ~FreshPage.refreshing /\ ~FreshPage.probing
  BY DEF FreshPage
<1>2. route = "system"
  BY <1>1 DEF PageOK, Mounted
<1> QED
  BY <1>2, BoundsAssumption DEF PageOK, Mounted

\* The controller and the container.
LEMMA ControllerKeeps ==
  ASSUME Inv, Controller
  PROVE  Inv'
<1>1. PageOK' /\ WatchOK'
  BY PageStays, WatchStays DEF Inv, Controller, ControllerStops, ControllerStarts, BootStep,
     UIContainerStarts, auth, guard, watch, Watched
<1>2. RestOK'
  <2>1. CASE ControllerStops
    BY <2>1 DEF Inv, RestOK, ControllerStops, auth
  <2>2. CASE ControllerStarts
    BY <2>2 DEF Inv, RestOK, ControllerStarts, auth
  <2>3. CASE BootStep
    BY <2>3 DEF Inv, RestOK, BootStep, auth
  <2>4. CASE UIContainerStarts
    BY <2>4 DEF Inv, RestOK, UIContainerStarts, auth
  <2> QED
    BY <2>1, <2>2, <2>3, <2>4 DEF Controller
<1>3. Identified'
  <2>1. \A id \in Nat : Read(id) => Read(id)'
    <3>1. CASE ControllerStarts
      BY <3>1 DEF Inv, RestOK, Read, ControllerStarts
    <3>2. CASE ControllerStops \/ BootStep \/ UIContainerStarts
      BY <3>2 DEF Inv, RestOK, Read, ControllerStops, BootStep, UIContainerStarts
    <3> QED
      BY <3>1, <3>2 DEF Controller
  <2>2. boot <= boot' /\ boot \in Nat /\ boot' \in Nat
    BY DEF Inv, RestOK, Controller, ControllerStops, ControllerStarts, BootStep, UIContainerStarts
  <2>3. UNCHANGED <<page, calls, obs>>
    BY DEF Controller, ControllerStops, ControllerStarts, BootStep, UIContainerStarts, watch
  <2>4. page.previousBootID \in Nat /\ \A i \in Calls : calls[i].id \in Nat
    BY DEF Inv, PageOK, Pages, Invocations
  <2> QED
    BY <2>1, <2>2, <2>3, <2>4 DEF Inv, Identified
<1> QED
  BY <1>1, <1>2, <1>3 DEF Inv

\* Steps that leave the controller, the boot ids that were read and the observer alone.
LEMMA IdentifiedStays ==
  ASSUME Identified, UNCHANGED <<ctrl, boot, obs, calls>>,
         page'.previousBootID = page.previousBootID, page'.controllerBack => page.controllerBack
  PROVE  Identified'
  BY DEF Identified, Read

\* Connect and what follows a 404.
LEMMA ConnectKeeps ==
  ASSUME Inv, Connect \/ readBootID \/ onEvent \/ StreamBreaks
  PROVE  Inv'
<1>1. UNCHANGED <<server, auth, route, mount, guard, checks, calls>>
  BY DEF Connect, readBootID, onEvent, StreamBreaks
<1>2. RestOK'
  BY <1>1 DEF Inv, RestOK, server, auth
<1>3. page \in Pages /\ boot \in Nat \ {0} /\ page.previousBootID \in Nat
  BY DEF Inv, PageOK, RestOK, Pages
<1>4. obs.state # "off" /\ route = "system"
  <2>1. obs.state # "off"
    BY DEF Connect, readBootID, onEvent, StreamBreaks
  <2> QED
    BY <2>1, DialogIsMounted DEF Inv, WatchOK, Observed, Watched
<1>5. ASSUME Retry(obs) PROVE Inv'
  <2>1. WatchOK' /\ obs'.state # "stream" /\ page' = page
    BY <1>4, <1>5, RetryKeeps DEF Inv
  <2>2. PageOK'
    BY <1>1, <2>1, PageStays DEF Inv, guard
  <2>3. Identified'
    BY <1>1, <2>1 DEF Inv, Identified, Read, server
  <2> QED
    BY <1>2, <2>1, <2>2, <2>3 DEF Inv
<1>6. ASSUME Finish, page.previousBootID < boot PROVE Inv'
  <2>1. /\ WatchOK' /\ obs'.state # "stream"
        /\ page' \in Pages /\ page'.previousBootID = page.previousBootID
        /\ page'.refreshing = page.refreshing
    BY <1>3, <1>4, <1>6, FinishKeeps DEF Inv
  <2>2. PageOK'
    BY <1>1, <1>4, <2>1, PageChanges DEF Inv, guard
  <2>3. Identified'
    BY <1>1, <1>6, <2>1 DEF Inv, Identified, Read, server
  <2> QED
    BY <1>2, <2>1, <2>2, <2>3 DEF Inv
<1>7. ASSUME UNCHANGED page, WatchOK', obs'.state = "stream" => page.previousBootID < obs'.stream
      PROVE  Inv'
  <2>1. PageOK'
    BY <1>1, <1>7, PageStays DEF Inv, guard
  <2>2. Identified'
    BY <1>1, <1>7 DEF Inv, Identified, Read, server
  <2> QED
    BY <1>2, <1>7, <2>1, <2>2 DEF Inv
<1>8. CASE Connect
  <2>1. CASE /\ ctrl = "booting" /\ UNCHANGED <<shown, page>>
             /\ obs' = [obs EXCEPT !.state = "stream", !.stream = boot, !.pos = 0,
                                   !.silent = 0, !.backoff = baseBackoff]
    <3>1. obs' \in Observers /\ obs'.pos = 0 /\ obs'.stream = boot
      BY <1>3, <2>1, BoundsAssumption DEF Inv, WatchOK, Observers
    <3>2. WatchOK'
      BY <1>4, <2>1, <3>1 DEF Inv, WatchOK, StepperFollows, Observed, Watched
    <3>3. page.previousBootID < boot
      BY <2>1 DEF Inv, Identified, Read
    <3> QED
      BY <1>7, <2>1, <3>1, <3>2, <3>3
  <2>2. CASE page.previousBootID = 0 /\ Finish
    BY <1>3, <1>6, <2>2
  <2>3. CASE obs' = [obs EXCEPT !.state = "probe"] /\ UNCHANGED <<shown, page>>
    <3>1. obs' \in Observers /\ obs'.state = "probe"
      BY <2>3 DEF Inv, WatchOK, Observers
    <3>2. WatchOK'
      BY <1>4, <2>3, <3>1 DEF Inv, WatchOK, StepperFollows, Observed, Watched
    <3> QED
      BY <1>7, <2>3, <3>1, <3>2
  <2> QED
    BY <1>5, <1>8, <2>1, <2>2, <2>3 DEF Connect
<1>9. CASE readBootID
  <2>1. ASSUME boot # page.previousBootID PROVE page.previousBootID < boot
    BY <1>3, <2>1 DEF Inv, Identified, Read
  <2> QED
    BY <1>5, <1>6, <1>9, <2>1 DEF readBootID
<1>10. CASE onEvent
  <2> DEFINE e == obs.pos + 1
  <2>1. obs \in Observers /\ obs.pos \in Nat /\ page.previousBootID < obs.stream /\ obs.stream = boot
    BY <1>10 DEF Inv, WatchOK, Observers, Identified, onEvent
  <2>2. CASE /\ obs' = [obs EXCEPT !.pos = e] /\ UNCHANGED page
             /\ shown' = [step |-> e, reconnect |-> FALSE,
                          rows |-> IF Package(e) THEN AddRow(shown.rows, e) ELSE shown.rows]
    <3>1. obs' \in Observers /\ obs'.pos = e /\ obs'.stream = obs.stream /\ obs'.state = obs.state
      BY <2>1, <2>2 DEF Observers
    <3>2. /\ shown.rows \in Seq(Nat) /\ e \in Nat
          /\ \A j, k \in DOMAIN shown.rows : shown.rows[j] = shown.rows[k] => j = k
      BY <2>1 DEF Inv, WatchOK, StepperFollows
    <3>3. /\ AddRow(shown.rows, e) \in Seq(Nat)
          /\ \A j, k \in DOMAIN AddRow(shown.rows, e) :
               AddRow(shown.rows, e)[j] = AddRow(shown.rows, e)[k] => j = k
      BY <3>2, AddRowKeeps
    <3>4. /\ shown'.rows \in Seq(Nat) /\ shown'.step = e /\ ~shown'.reconnect
          /\ \A j, k \in DOMAIN shown'.rows : shown'.rows[j] = shown'.rows[k] => j = k
      BY <2>2, <3>2, <3>3
    <3>5. shown' \in [step : Nat, reconnect : BOOLEAN, rows : Seq(Nat)]
      BY <2>2, <3>2, <3>4
    <3>6. WatchOK'
      BY <1>4, <2>2, <3>1, <3>4, <3>5 DEF Inv, WatchOK, StepperFollows, Observed, Watched
    <3> QED
      BY <1>7, <2>1, <2>2, <3>1, <3>6
  <2>3. CASE Finish
    BY <1>6, <2>1, <2>3
  <2> QED
    BY <1>10, <2>2, <2>3 DEF onEvent
<1> QED
  BY <1>5, <1>8, <1>9, <1>10 DEF StreamBreaks

\* The timers of the observer.
LEMMA TimersKeep ==
  ASSUME Inv, Wake \/ Tick
  PROVE  Inv'
<1>1. UNCHANGED <<server, auth, route, mount, page, guard, shown, checks, calls>>
  BY DEF Wake, Tick
<1>2. RestOK' /\ PageOK'
  BY <1>1, PageStays DEF Inv, RestOK, server, auth, guard
<1>3. /\ obs' \in Observers /\ obs'.pos = obs.pos /\ obs'.stream = obs.stream
      /\ obs'.state = "stream" => obs.state = "stream"
      /\ obs.state # "off"
  <2>1. CASE Wake
    BY <2>1 DEF Inv, WatchOK, Observers, Wake
  <2>2. CASE Tick
    <3>1. \A a \in Nat : Older(a) \in Nat
      BY BoundsAssumption DEF Older, Min2, MaxAge
    <3> DEFINE s == IF obs.state = "sleep" THEN obs.sleep - 1 ELSE obs.sleep
    <3>2. s \in Nat
      BY <2>2 DEF Inv, WatchOK, Observers, Tick
    <3>3. obs' = [obs EXCEPT !.elapsed = Older(obs.elapsed), !.silent = Older(obs.silent), !.sleep = s]
      BY <2>2 DEF Tick
    <3> HIDE DEF s
    <3> QED
      BY <2>2, <3>1, <3>2, <3>3 DEF Inv, WatchOK, Observers, Tick
  <2> QED
    BY <2>1, <2>2
<1>4. WatchOK'
  BY <1>1, <1>3 DEF Inv, WatchOK, StepperFollows, Observed, Watched
<1>5. Identified'
  BY <1>1, <1>3 DEF Inv, Identified, Read, server
<1> QED
  BY <1>2, <1>4, <1>5 DEF Inv

\* The document of the page answers, or does not.
LEMMA UIProbeKeeps ==
  ASSUME Inv, UIProbe
  PROVE  Inv'
<1>1. /\ page' \in Pages /\ page'.refreshing = page.refreshing /\ page'.dialog = page.dialog
      /\ page'.previousBootID = page.previousBootID /\ page'.controllerBack = page.controllerBack
  BY DEF Inv, PageOK, RestOK, Pages, UIProbe
<1>2. RestOK'
  BY DEF Inv, RestOK, UIProbe, server, auth
<1>3. PageOK'
  BY <1>1, DialogIsMounted, PageChanges DEF Inv, UIProbe, guard
<1>4. WatchOK'
  BY <1>1, WatchStays DEF Inv, UIProbe, watch, Watched
<1>5. Identified'
  BY <1>1, IdentifiedStays DEF Inv, UIProbe, watch, server
<1> QED
  BY <1>2, <1>3, <1>4, <1>5 DEF Inv

\* The services page is opened: the new mount holds nothing yet.
LEMMA EnterSystemKeeps ==
  ASSUME Inv, EnterSystem
  PROVE  Inv'
<1>1. mount' = mount + 1 /\ mount' \in 1..MaxMounts
  BY BoundsAssumption DEF Inv, PageOK, EnterSystem
<1>2. UNCHANGED <<ref, suspendCount, page, obs, shown, calls, ctrl, boot>>
  BY DEF EnterSystem, guard, watch, server
<1>3. Mounted'
  <2>1. ref[mount'] = "null" /\ ~page.refreshing
    BY <1>1 DEF Inv, PageOK, Mounted, FreshPage, EnterSystem
  <2>2. \A m \in 1..MaxMounts : m > mount' => ref[m] = "null"
    BY <1>1 DEF Inv, PageOK, Mounted
  <2>3. \A i \in Calls : calls[i].pc # "idle" => calls[i].m \in 1..mount'
    BY <1>1 DEF Inv, PageOK, Mounted, Invocations
  <2> QED
    BY <1>1, <1>2, <2>1, <2>2, <2>3 DEF Mounted, EnterSystem
<1>4. PageOK'
  BY <1>1, <1>2, <1>3 DEF Inv, PageOK, Counted, Suspending, EnterSystem
<1>5. RestOK' /\ WatchOK' /\ Identified'
  BY <1>2, WatchStays, IdentifiedStays DEF Inv, RestOK, EnterSystem, server, auth, Watched
<1> QED
  BY <1>4, <1>5 DEF Inv

\* A page that has just been mounted.
LEMMA FreshPageFacts ==
  /\ FreshPage \in Pages /\ FreshPage.previousBootID = 0
  /\ ~FreshPage.refreshing /\ ~FreshPage.controllerBack /\ ~FreshPage.dialog
  BY DEF FreshPage, Pages

\* The services page is unmounted, by a route that is left or a session that ended.
LEMMA UnmountKeeps ==
  ASSUME Inv, Unmount, route' \in {"login", "other"}, UNCHANGED <<server, mount, calls>>,
         token' \in Nat, client' \in Nat, checks' \in [Checks -> Pings]
  PROVE  Inv'
<1>1. RestOK'
  BY DEF Inv, RestOK, server
<1>2. page' = FreshPage /\ obs' = NoObserver /\ shown' = NothingShown
  BY DEF Unmount
<1>3. WatchOK'
  BY <1>2, NoObserverTyped DEF WatchOK, StepperFollows, Observed
<1>4. Identified'
  BY <1>2, NoObserverTyped, FreshPageFacts DEF Inv, RestOK, Identified, Read, server
<1>5. /\ ref' \in [1..MaxMounts -> {"null", "held", "released"}] /\ suspendCount' \in Nat /\ Counted'
      /\ \A m \in 1..MaxMounts : m > mount => ref'[m] = "null"
  <2>1. CASE route = "system" /\ Release(mount, "released")
    <3>1. mount \in 1..MaxMounts
      BY <2>1, BoundsAssumption DEF Inv, PageOK, Mounted
    <3>2. TypeOK /\ Counted
      BY Parts DEF Inv, PageOK, WatchInv
    <3>3. /\ ref' \in [1..MaxMounts -> {"null", "held", "released"}] /\ suspendCount' \in Nat /\ Counted'
          /\ \A n \in 1..MaxMounts : n # mount => ref'[n] = ref[n]
      BY <2>1, <3>1, <3>2, ReleaseKeeps
    <3> QED
      BY <3>1, <3>3 DEF Inv, PageOK, Mounted
  <2>2. CASE UNCHANGED guard
    BY <2>2 DEF Inv, PageOK, Mounted, Counted, Suspending, guard
  <2> QED
    BY <2>1, <2>2 DEF Unmount
<1>6. PageOK'
  BY <1>2, <1>5, FreshPageFacts DEF Inv, PageOK, Mounted
<1> QED
  BY <1>1, <1>3, <1>4, <1>6 DEF Inv

\* Routes, login and logout, reload.
LEMMA MovesKeep ==
  ASSUME Inv, LeaveSystem \/ Login \/ Logout \/ Reload
  PROVE  Inv'
<1>1. token \in Nat /\ client \in Nat /\ boot \in Nat /\ checks \in [Checks -> Pings]
  BY DEF Inv, RestOK
<1>2. CASE LeaveSystem
  BY <1>1, <1>2, UnmountKeeps DEF LeaveSystem, auth
<1>3. CASE Logout
  BY <1>1, <1>3, UnmountKeeps DEF Logout
<1>4. CASE Login
  <2>1. RestOK'
    BY <1>1, <1>4 DEF Inv, RestOK, Login, server
  <2>2. UNCHANGED <<page, mount, ref, suspendCount, obs, shown, calls, ctrl, boot>> /\ route' = "other" /\ route = "login"
    BY <1>4 DEF Login, guard, watch, server
  <2>3. PageOK'
    BY <2>2 DEF Inv, PageOK, Counted, Suspending, Mounted, FreshPage
  <2>4. WatchOK' /\ Identified'
    BY <2>2, WatchStays, IdentifiedStays DEF Inv, Watched
  <2> QED
    BY <2>1, <2>3, <2>4 DEF Inv
<1>5. CASE Reload
  <2>1. page' = FreshPage /\ obs' = NoObserver /\ shown' = NothingShown /\ UNCHANGED <<ctrl, boot, mount>>
    BY <1>5 DEF Reload, server
  <2>2. /\ ref' = [m \in 1..MaxMounts |-> "null"] /\ suspendCount' = 0 /\ route' = "other"
        /\ calls' = [i \in Calls |-> Idle]
    BY <1>5 DEF Reload
  <2>3. Idle \in Pings /\ Idle \in Invocations /\ Idle.pc = "idle" /\ Idle.id = 0
    BY DEF Idle, Pings, Invocations
  <2>4. RestOK'
    BY <1>1, <1>5, <2>3 DEF Inv, RestOK, Reload, server
  <2>5. Counted'
    <3>1. Suspending' = {}
      BY <2>2 DEF Suspending
    <3> QED
      BY <2>2, <3>1, FS_EmptySet DEF Counted
  <2>6. PageOK'
    BY <2>1, <2>2, <2>3, <2>5, FreshPageFacts DEF Inv, PageOK, Mounted
  <2>7. WatchOK'
    BY <2>1, NoObserverTyped DEF WatchOK, StepperFollows, Observed
  <2>8. Identified'
    BY <2>1, <2>2, <2>3, NoObserverTyped, FreshPageFacts DEF Inv, RestOK, Identified, Read
  <2> QED
    BY <2>4, <2>6, <2>7, <2>8 DEF Inv
<1> QED
  BY <1>2, <1>3, <1>4, <1>5

\* The session poll.
LEMMA ChecksKeep ==
  ASSUME Inv, NEW i \in Checks, check(i) \/ CheckAnswered(i) \/ CheckApplied(i)
  PROVE  Inv'
<1>1. checks \in [Checks -> Pings] /\ token \in Nat /\ client \in Nat
  BY DEF Inv, RestOK
<1>2. Idle \in Pings
  BY DEF Idle, Pings
<1>3. checks' \in [Checks -> Pings]
  <2>1. CASE check(i)
    <3>1. [Idle EXCEPT !.pc = "asked", !.tok = token] \in Pings
      BY <1>1 DEF Idle, Pings
    <3> QED
      BY <1>1, <2>1, <3>1 DEF check
  <2>2. CASE CheckAnswered(i)
    <3>1. \A pc \in {"valid", "invalid"} : [checks[i] EXCEPT !.pc = pc] \in Pings
      BY <1>1 DEF Pings
    <3>2. PICK x \in Pings : checks' = [checks EXCEPT ![i] = x]
      BY <1>1, <1>2, <2>2, <3>1 DEF CheckAnswered
    <3> QED
      BY <1>1, <3>2
  <2>3. CASE CheckApplied(i)
    BY <1>1, <1>2, <2>3 DEF CheckApplied
  <2> QED
    BY <2>1, <2>2, <2>3
<1>4. ASSUME UNCHANGED <<server, auth, route, mount, page, guard, watch, calls>> PROVE Inv'
  <2>1. RestOK'
    BY <1>3, <1>4 DEF Inv, RestOK, server, auth
  <2>2. PageOK'
    BY <1>4, PageStays DEF Inv, guard
  <2>3. WatchOK' /\ Identified'
    BY <1>4, WatchStays, IdentifiedStays DEF Inv, watch, server, Watched
  <2> QED
    BY <2>1, <2>2, <2>3 DEF Inv
<1>5. CASE CheckApplied(i) /\ token' = 0 /\ route' = "login" /\ Unmount
  BY <1>1, <1>3, <1>5, UnmountKeeps DEF CheckApplied
<1> QED
  BY <1>4, <1>5 DEF check, CheckAnswered, CheckApplied, auth, watch

\* The dialog is opened and, until a refresh has begun, cancelled.
LEMMA DialogKeeps ==
  ASSUME Inv, OpenRefreshDialog \/ CancelRefresh
  PROVE  Inv'
<1>1. /\ UNCHANGED <<server, auth, route, mount, guard, checks, calls>>
      /\ page' \in Pages /\ page'.refreshing = page.refreshing
      /\ page'.previousBootID = page.previousBootID /\ page'.controllerBack = page.controllerBack
  BY DEF Inv, PageOK, Pages, OpenRefreshDialog, CancelRefresh
<1>2. RestOK'
  BY <1>1 DEF Inv, RestOK, server, auth
<1>3. PageOK'
  BY <1>1, DialogIsMounted, PageChanges DEF Inv, OpenRefreshDialog, CancelRefresh, guard
<1>4. WatchOK' /\ (obs'.state = "stream" => obs' = obs)
  <2>1. CASE OpenRefreshDialog
    BY <2>1, StepperKeeps DEF Inv, OpenRefreshDialog
  <2>2. CASE CancelRefresh
    BY <2>2, WatchStays DEF Inv, CancelRefresh, watch, Watched
  <2> QED
    BY <2>1, <2>2
<1>5. Identified'
  BY <1>1, <1>4 DEF Inv, Identified, Read, server
<1> QED
  BY <1>2, <1>3, <1>4, <1>5 DEF Inv

\* The dialog is closed: the page lets go of the suspension.
LEMMA closeRefreshDialogKeeps ==
  ASSUME Inv, closeRefreshDialog
  PROVE  Inv'
<1>1. route = "system" /\ mount \in 1..MaxMounts
  BY DialogIsMounted DEF Inv, closeRefreshDialog
<1>2. /\ page' \in Pages /\ ~page'.refreshing /\ ~page'.controllerBack
      /\ page'.previousBootID = page.previousBootID
  BY DEF Inv, PageOK, Pages, FreshPage, closeRefreshDialog
<1>3. UNCHANGED <<server, auth, route, mount, checks, calls>>
  BY DEF closeRefreshDialog
<1>4. RestOK'
  BY <1>3 DEF Inv, RestOK, server, auth
<1>5. TypeOK /\ Counted
  BY Parts DEF Inv, PageOK, WatchInv
<1>6. /\ ref' \in [1..MaxMounts -> {"null", "held", "released"}] /\ suspendCount' \in Nat /\ Counted'
      /\ ref'[mount] = "null" /\ \A n \in 1..MaxMounts : n # mount => ref'[n] = ref[n]
  BY <1>1, <1>5, ReleaseKeeps DEF closeRefreshDialog
<1>7. PageOK'
  BY <1>1, <1>2, <1>3, <1>6 DEF Inv, PageOK, Mounted
<1>8. WatchOK' /\ (obs'.state = "stream" => obs' = obs)
  BY StepperKeeps DEF Inv, closeRefreshDialog
<1>9. Identified'
  BY <1>2, <1>3, <1>8 DEF Inv, Identified, Read, server
<1> QED
  BY <1>4, <1>7, <1>8, <1>9 DEF Inv

\* An invocation of handleRefreshServices moves on: the page, its mount and boot id stay what they are.
LEMMA CallMoves ==
  ASSUME Inv, NEW i \in Calls, NEW x \in Invocations, calls' = [calls EXCEPT ![i] = x],
         x.pc # "idle" => x.m \in 1..mount, Read(x.id),
         UNCHANGED <<ctrl, boot, at, uiUp, auth, route, mount, page, guard, watch, checks>>,
         asked' \in BOOLEAN
  PROVE  Inv'
<1>1. /\ calls' \in [Calls -> Invocations] /\ calls'[i] = x
      /\ \A j \in Calls : j # i => calls'[j] = calls[j]
  BY DEF Inv, PageOK
<1>2. RestOK'
  BY DEF Inv, RestOK, auth
<1>3. PageOK'
  BY <1>1 DEF Inv, PageOK, Mounted, Counted, Suspending, FreshPage, guard
<1>4. WatchOK'
  BY WatchStays DEF Inv, watch, Watched
<1>5. Identified'
  <2>1. \A j \in Calls : Read(calls'[j].id)
    BY <1>1 DEF Inv, Identified
  <2> QED
    BY <2>1 DEF Inv, Identified, Read, watch
<1> QED
  BY <1>2, <1>3, <1>4, <1>5 DEF Inv

\* What an invocation in flight is like.
LEMMA CallFacts ==
  ASSUME Inv, NEW i \in Calls, calls[i].pc # "idle"
  PROVE  /\ calls[i] \in Invocations /\ calls[i].m \in 1..mount /\ calls[i].m \in 1..MaxMounts
         /\ calls[i].id \in Nat /\ Read(calls[i].id)
<1>1. calls[i] \in Invocations /\ calls[i].m \in 1..mount /\ Read(calls[i].id)
  BY DEF Inv, PageOK, Mounted, Identified
<1>2. mount \in 0..MaxMounts /\ MaxMounts \in Nat
  BY BoundsAssumption DEF Inv, PageOK
<1> QED
  BY <1>1, <1>2 DEF Invocations

\* The steps of an invocation that leave the page alone.
LEMMA CallsKeep ==
  ASSUME Inv, NEW i \in Calls,
         handleRefreshServices(i) \/ RefreshPinged(i) \/ RefreshPosted(i) \/ RefreshStarted(i)
  PROVE  Inv'
<1>1. boot \in Nat \ {0} /\ asked \in BOOLEAN /\ mount \in Nat
  BY DEF Inv, RestOK, PageOK
<1>2. Idle \in Invocations /\ Idle.pc = "idle" /\ Read(Idle.id)
  BY <1>1 DEF Idle, Invocations, Read
<1>3. CASE handleRefreshServices(i)
  <2> DEFINE x == [Idle EXCEPT !.pc = "ping", !.m = mount]
  <2>1. mount \in 1..MaxMounts
    BY <1>3, DialogIsMounted DEF Inv, handleRefreshServices
  <2>2. x \in Invocations /\ x.m \in 1..mount /\ x.id = 0 /\ Read(x.id)
    <3>1. x \in Invocations
      BY <1>1 DEF Idle, Invocations
    <3>2. x.m = mount
      BY DEF Idle
    <3>3. x.id = 0
      BY DEF Idle
    <3>4. mount \in 1..mount /\ Read(0)
      BY <1>1, <2>1 DEF Read
    <3> QED
      BY <3>1, <3>2, <3>3, <3>4
  <2> HIDE DEF x
  <2>3. calls' = [calls EXCEPT ![i] = x]
    BY <1>3 DEF handleRefreshServices, x
  <2> QED
    BY <1>1, <1>3, <2>2, <2>3, CallMoves DEF handleRefreshServices, server
<1>4. CASE RefreshPinged(i)
  <2> DEFINE x == IF ctrl = "up" THEN [calls[i] EXCEPT !.pc = "pinged", !.id = boot]
                  ELSE [calls[i] EXCEPT !.pc = "failed"]
  <2>1. calls[i] \in Invocations /\ calls[i].m \in 1..mount /\ Read(calls[i].id)
    BY <1>4, CallFacts DEF RefreshPinged
  <2>2. x \in Invocations /\ x.m = calls[i].m /\ Read(x.id)
    <3>1. CASE ctrl = "up"
      <4>1. x = [calls[i] EXCEPT !.pc = "pinged", !.id = boot] /\ Read(boot)
        BY <1>1, <3>1 DEF Read
      <4> QED
        BY <1>1, <2>1, <4>1 DEF Invocations
    <3>2. CASE ctrl # "up"
      BY <2>1, <3>2 DEF Invocations
    <3> QED
      BY <3>1, <3>2
  <2> HIDE DEF x
  <2>3. calls' = [calls EXCEPT ![i] = x]
    BY <1>4 DEF RefreshPinged, x
  <2> QED
    BY <1>1, <1>4, <2>1, <2>2, <2>3, CallMoves DEF RefreshPinged, server
<1>5. CASE RefreshPosted(i)
  <2> DEFINE accepted == ctrl = "up" /\ calls[i].tok = boot
             x == [calls[i] EXCEPT !.pc = IF accepted THEN "posted" ELSE "failed"]
  <2>1. calls[i] \in Invocations /\ calls[i].m \in 1..mount /\ Read(calls[i].id)
    BY <1>5, CallFacts DEF RefreshPosted
  <2>2. x \in Invocations /\ x.m = calls[i].m /\ Read(x.id)
    BY <2>1 DEF Invocations
  <2>3. calls' = [calls EXCEPT ![i] = x] /\ asked' = (asked \/ accepted)
    BY <1>5 DEF RefreshPosted
  <2>4. asked' \in BOOLEAN
    BY <2>3
  <2> HIDE DEF x
  <2> QED
    BY <1>5, <2>1, <2>2, <2>3, <2>4, CallMoves DEF RefreshPosted
<1>6. CASE RefreshStarted(i)
  BY <1>1, <1>2, <1>6, CallMoves DEF RefreshStarted, server
<1> QED
  BY <1>3, <1>4, <1>5, <1>6

\* A refresh begins: its mount holds a suspension from here on, the page shows the refresh with the
\* boot id that was read before, if it is still there.
LEMMA RefreshBeginsKeeps ==
  ASSUME Inv, NEW i \in Calls, RefreshBegins(i)
  PROVE  Inv'
<1> DEFINE m == calls[i].m
           x == [calls[i] EXCEPT !.pc = "post", !.tok = client]
<1>1. calls[i] \in Invocations /\ m \in 1..mount /\ m \in 1..MaxMounts /\ calls[i].id \in Nat /\ Read(calls[i].id)
  BY CallFacts DEF RefreshBegins
<1>2. x \in Invocations /\ x.m = m /\ x.id = calls[i].id
  BY <1>1 DEF Invocations, Inv, RestOK
<1> HIDE DEF x
<1>3. calls' = [calls EXCEPT ![i] = x] /\ UNCHANGED <<server, auth, route, mount, checks>>
  BY DEF RefreshBegins, x
<1>4. /\ calls' \in [Calls -> Invocations] /\ calls'[i] = x
      /\ \A j \in Calls : j # i => calls'[j] = calls[j]
  BY <1>2, <1>3 DEF Inv, PageOK
<1>5. RestOK'
  BY <1>3 DEF Inv, RestOK, server, auth
<1>6. /\ ref' \in [1..MaxMounts -> {"null", "held", "released"}] /\ suspendCount' \in Nat /\ Counted'
      /\ ref'[m] = (IF ref[m] = "null" THEN "held" ELSE ref[m])
      /\ \A n \in 1..MaxMounts : n # m => ref'[n] = ref[n]
  <2>1. CASE ref[m] = "null"
    <3>1. TypeOK /\ Counted
      BY Parts DEF Inv, PageOK, WatchInv
    <3> QED
      BY <1>1, <2>1, <3>1, SuspendKeeps DEF RefreshBegins
  <2>2. CASE ref[m] # "null"
    BY <2>2 DEF Inv, PageOK, Counted, Suspending, RefreshBegins, guard
  <2> QED
    BY <2>1, <2>2
<1>7. /\ page' \in Pages
      /\ page' = page \/ /\ route = "system" /\ m = mount
                         /\ page'.previousBootID = calls[i].id /\ ~page'.controllerBack
  <2>1. CASE Here(i)
    BY <1>1, <2>1 DEF RefreshBegins, Here, Inv, PageOK, Pages
  <2>2. CASE ~Here(i)
    BY <2>2 DEF RefreshBegins, Inv, PageOK
  <2> QED
    BY <2>1, <2>2
<1>8. Mounted'
  <2>1. m <= mount /\ \A n \in 1..MaxMounts : n > mount => n # m
    BY <1>1 DEF Inv, PageOK
  <2>2. route = "system" => mount \in 1..MaxMounts /\ ref[mount] # "released"
    BY BoundsAssumption DEF Inv, PageOK, Mounted
  <2>3. \A n \in 1..MaxMounts : n > mount => ref'[n] = "null"
    BY <1>6, <2>1 DEF Inv, PageOK, Mounted
  <2>4. \A j \in Calls : calls'[j].pc # "idle" => calls'[j].m \in 1..mount
    BY <1>1, <1>2, <1>4 DEF Inv, PageOK, Mounted
  <2>5. route = "system" => mount > 0 /\ ref'[mount] # "released"
    BY <1>6, <2>2 DEF Inv, PageOK, Mounted
  <2>6. page'.refreshing => ref'[mount] = "held"
    <3>1. CASE page' = page
      <4>1. ASSUME page.refreshing PROVE mount \in 1..MaxMounts /\ ref[mount] = "held"
        BY <4>1, DialogIsMounted DEF Inv, PageOK, Mounted
      <4> QED
        BY <1>6, <3>1, <4>1
    <3>2. CASE route = "system" /\ m = mount
      BY <1>1, <1>6, <2>2, <3>2 DEF Inv, PageOK
    <3> QED
      BY <1>7, <3>1, <3>2
  <2>7. route # "system" => page' = FreshPage
    BY <1>7 DEF Inv, PageOK, Mounted
  <2> QED
    BY <1>3, <2>3, <2>4, <2>5, <2>6, <2>7 DEF Mounted, FreshPage
<1>9. PageOK'
  BY <1>3, <1>4, <1>6, <1>7, <1>8 DEF Inv, PageOK
<1>10. /\ WatchOK'
       /\ obs'.state = "stream" => obs' = obs /\ page'.previousBootID = page.previousBootID
  <2>1. CASE Here(i)
    BY <2>1, StepperKeeps DEF Inv, RefreshBegins
  <2>2. CASE ~Here(i)
    BY <2>2, WatchStays DEF Inv, RefreshBegins, Watched
  <2> QED
    BY <2>1, <2>2
<1>11. Identified'
  <2>1. \A j \in Calls : Read(calls'[j].id)
    BY <1>1, <1>2, <1>4 DEF Inv, Identified
  <2>2. Read(page'.previousBootID)
    BY <1>1, <1>7 DEF Inv, Identified
  <2>3. page'.controllerBack => page'.previousBootID < boot
    BY <1>7 DEF Inv, Identified
  <2> QED
    BY <1>3, <1>10, <2>1, <2>2, <2>3 DEF Inv, Identified, Read, server
<1> QED
  BY <1>5, <1>9, <1>10, <1>11 DEF Inv

\* A refresh that failed lets go of the suspension of its mount, and of the page if it is still there.
LEMMA RefreshFailedKeeps ==
  ASSUME Inv, NEW i \in Calls, RefreshFailed(i)
  PROVE  Inv'
<1> DEFINE m == calls[i].m
<1>1. calls[i] \in Invocations /\ m \in 1..mount /\ m \in 1..MaxMounts
  BY CallFacts DEF RefreshFailed
<1>2. Idle \in Invocations /\ Idle.pc = "idle" /\ Read(Idle.id)
  BY DEF Idle, Invocations, Read, Inv, RestOK
<1>3. calls' = [calls EXCEPT ![i] = Idle] /\ UNCHANGED <<server, auth, route, mount, checks>>
  BY DEF RefreshFailed
<1>4. /\ calls' \in [Calls -> Invocations] /\ calls'[i] = Idle
      /\ \A j \in Calls : j # i => calls'[j] = calls[j]
  BY <1>2, <1>3 DEF Inv, PageOK
<1>5. RestOK'
  BY <1>3 DEF Inv, RestOK, server, auth
<1>6. /\ ref' \in [1..MaxMounts -> {"null", "held", "released"}] /\ suspendCount' \in Nat /\ Counted'
      /\ ref'[m] = "null" /\ \A n \in 1..MaxMounts : n # m => ref'[n] = ref[n]
  <2>1. TypeOK /\ Counted
    BY Parts DEF Inv, PageOK, WatchInv
  <2> QED
    BY <1>1, <2>1, ReleaseKeeps DEF RefreshFailed
<1>7. /\ page' \in Pages /\ page'.previousBootID = page.previousBootID
      /\ page'.controllerBack = page.controllerBack
      /\ IF Here(i) THEN ~page'.refreshing ELSE page' = page
  BY DEF RefreshFailed, Inv, PageOK, Pages
<1>8. Mounted'
  <2>1. m <= mount /\ \A n \in 1..MaxMounts : n > mount => n # m
    BY <1>1 DEF Inv, PageOK
  <2>2. route = "system" => mount \in 1..MaxMounts /\ ref[mount] # "released"
    BY BoundsAssumption DEF Inv, PageOK, Mounted
  <2>3. \A n \in 1..MaxMounts : n > mount => ref'[n] = "null"
    BY <1>6, <2>1 DEF Inv, PageOK, Mounted
  <2>4. \A j \in Calls : calls'[j].pc # "idle" => calls'[j].m \in 1..mount
    BY <1>2, <1>4 DEF Inv, PageOK, Mounted
  <2>5. route = "system" => mount > 0 /\ ref'[mount] # "released"
    BY <1>6, <2>2 DEF Inv, PageOK, Mounted
  <2>6. page'.refreshing => ref'[mount] = "held"
    <3>1. ASSUME page.refreshing PROVE route = "system" /\ mount \in 1..MaxMounts /\ ref[mount] = "held"
      BY <3>1, DialogIsMounted DEF Inv, PageOK, Mounted
    <3> QED
      BY <1>6, <1>7, <3>1 DEF Here
  <2>7. route # "system" => page' = FreshPage
    BY <1>7 DEF Inv, PageOK, Mounted, Here
  <2> QED
    BY <1>3, <2>3, <2>4, <2>5, <2>6, <2>7 DEF Mounted, FreshPage
<1>9. PageOK'
  BY <1>3, <1>4, <1>6, <1>7, <1>8 DEF Inv, PageOK
<1>10. WatchOK' /\ (obs'.state = "stream" => obs' = obs)
  <2>1. CASE Here(i)
    BY <2>1, StepperKeeps DEF Inv, RefreshFailed
  <2>2. CASE ~Here(i)
    BY <2>2, WatchStays DEF Inv, RefreshFailed, Watched
  <2> QED
    BY <2>1, <2>2
<1>11. Identified'
  <2>1. \A j \in Calls : Read(calls'[j].id)
    BY <1>2, <1>4 DEF Inv, Identified
  <2> QED
    BY <1>3, <1>7, <1>10, <2>1 DEF Inv, Identified, Read, server
<1> QED
  BY <1>5, <1>9, <1>10, <1>11 DEF Inv

-----------------------------------------------------------------------------
\* The tab as it is first opened.
LEMMA InitHolds ==
  ASSUME Init
  PROVE  Inv
<1>1. Idle \in Pings /\ Idle \in Invocations /\ Idle.pc = "idle" /\ Idle.id = 0
  BY DEF Idle, Pings, Invocations
<1>2. RestOK
  <2>1. ctrl = "up" /\ boot \in Nat \ {0} /\ at \in Nat /\ token \in Nat /\ client \in Nat
    BY BoundsAssumption DEF Init
  <2>2. asked \in BOOLEAN /\ uiUp \in BOOLEAN
    BY DEF Init
  <2>3. checks \in [Checks -> Pings]
    BY <1>1 DEF Init
  <2> QED
    BY <2>1, <2>2, <2>3 DEF RestOK
<1>3. Counted
  <2>1. Suspending = {}
    BY DEF Init, Suspending
  <2> QED
    BY <2>1, FS_EmptySet DEF Init, Counted
<1>4. PageOK
  BY <1>1, <1>3, FreshPageFacts, BoundsAssumption DEF Init, PageOK, Mounted
<1>5. WatchOK
  BY NoObserverTyped DEF Init, WatchOK, StepperFollows, Observed
<1>6. Identified
  BY <1>1, NoObserverTyped, FreshPageFacts DEF Init, Identified, Read
<1> QED
  BY <1>2, <1>4, <1>5, <1>6 DEF Inv

\* A step of something else.
LEMMA StutterKeeps ==
  ASSUME Inv, UNCHANGED vars
  PROVE  Inv'
<1>1. PageOK' /\ WatchOK' /\ Identified'
  BY PageStays, WatchStays, IdentifiedStays DEF Inv, vars, Watched
<1>2. RestOK'
  BY DEF Inv, RestOK, vars
<1> QED
  BY <1>1, <1>2 DEF Inv

\* The parts hold in every state.
LEMMA AlwaysInv == Spec => []Inv
<1>1. Init => Inv
  BY InitHolds
<1>2. ASSUME Inv, Next PROVE Inv'
  BY <1>2, ControllerKeeps, ConnectKeeps, TimersKeep, UIProbeKeeps, EnterSystemKeeps, MovesKeep,
     DialogKeeps, closeRefreshDialogKeeps, ChecksKeep, CallsKeep, RefreshBeginsKeeps, RefreshFailedKeeps
     DEF Next, Observer, Refresh
<1>3. Inv /\ [Next]_vars => Inv'
  BY <1>2, StutterKeeps
<1> QED
  BY <1>1, <1>3, PTL DEF Spec

\* The inductive invariant holds in every state of every behaviour.
THEOREM InvariantHolds == Spec => []WatchInv
<1>1. Inv => WatchInv
  BY Parts
<1> QED
  BY <1>1, AlwaysInv, PTL

\* The type invariant of the tab and of the controller it watches.
THEOREM TypeCorrect == Spec => []TypeOK
<1>1. WatchInv => TypeOK
  BY DEF WatchInv
<1> QED
  BY <1>1, InvariantHolds, PTL

\* A dialog that reports the refresh complete has seen another controller than the one it asked to
\* restart, however many restarts, clicks and reconnects there were.
THEOREM DoneAlwaysMeansSuccessor == Spec => []DoneMeansSuccessor
<1>1. WatchInv => DoneMeansSuccessor
  <2>1. WatchInv => page.previousBootID \in Nat /\ boot \in Nat
    BY DEF WatchInv, TypeOK, Pages
  <2> QED
    BY <2>1 DEF WatchInv, Identified, DoneMeansSuccessor
<1> QED
  BY <1>1, InvariantHolds, PTL

\* No replay of a boot's events gives a package a second row, and the stepper shows the last event
\* read.
THEOREM StepperAlwaysFollows == Spec => []StepperFollows
<1>1. WatchInv => StepperFollows
  BY DEF WatchInv
<1> QED
  BY <1>1, InvariantHolds, PTL

\* While the dialog watches a restart its mount holds a suspension, so that no session ping, whenever
\* it was sent, throws the operator out.
THEOREM NeverEvicted == Spec => NotEvicted
<1>1. ASSUME Inv, [Next]_vars, Watched(page), route' = "login", checks' # checks PROVE FALSE
  <2>1. isSessionCheckSuspended
    <3>1. mount \in 1..MaxMounts /\ ref[mount] = "held"
      BY <1>1, DialogIsMounted DEF Inv, PageOK, Mounted, Watched
    <3> QED
      BY <1>1, <3>1, HeldSuspends DEF Inv, PageOK
  <2>2. route = "system"
    BY <1>1, DialogIsMounted DEF Inv, Watched
  <2>3. ASSUME NEW i \in Checks, CheckApplied(i) PROVE FALSE
    BY <1>1, <2>1, <2>2, <2>3 DEF CheckApplied
  <2>4. ASSUME NEW i \in Checks, check(i) \/ CheckAnswered(i) PROVE FALSE
    BY <1>1, <2>2, <2>4 DEF check, CheckAnswered
  <2>5. ASSUME Reload PROVE FALSE
    BY <1>1, <2>5 DEF Reload
  <2>6. ASSUME \/ Controller \/ Observer \/ UIProbe \/ EnterSystem \/ LeaveSystem \/ Login \/ Logout
               \/ OpenRefreshDialog \/ CancelRefresh \/ closeRefreshDialog
               \/ \E i \in Calls : handleRefreshServices(i) \/ Refresh(i)
               \/ UNCHANGED vars
        PROVE  FALSE
    BY <1>1, <2>6 DEF Controller, ControllerStops, ControllerStarts, BootStep, UIContainerStarts,
       Observer, Connect, readBootID, onEvent, StreamBreaks, Wake, Tick, UIProbe, EnterSystem,
       LeaveSystem, Login, Logout, OpenRefreshDialog, CancelRefresh, closeRefreshDialog,
       handleRefreshServices, Refresh, RefreshPinged, RefreshBegins, RefreshPosted, RefreshStarted,
       RefreshFailed, vars
  <2> QED
    BY <1>1, <2>3, <2>4, <2>5, <2>6 DEF Next
<1>2. Inv /\ [Next]_vars => [(Watched(page) /\ route' = "login") => checks' = checks]_vars
  BY <1>1
<1> QED
  BY <1>2, AlwaysInv, PTL DEF Spec, NotEvicted
=============================================================================
