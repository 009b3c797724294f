---------------------- MODULE NetworkControllerProofs ----------------------
(***************************************************************************)
(* Proofs about the caddy supervisor and the network controller, for any   *)
(* ports, states, children, channel capacity and any number of faults,     *)
(* deaths and writes.                                                      *)
(***************************************************************************)
EXTENDS NetworkController, TLAPS

-----------------------------------------------------------------------------
(* The supervisor on its own. *)

(* The supervisor starts without a child. *)
LEMMA CaddyStarts == CaddyInit => CaddyInv
  BY CaddyAssumption DEF CaddyInit, CaddyInv, CaddyTypeOK, OneChild

(* Every step of a caller, of a child and of a reaper keeps the invariant.  *)
LEMMA CaddySteps == CaddyInv /\ [CaddyNext]_cvars => CaddyInv'
<1> SUFFICES ASSUME CaddyInv, [CaddyNext]_cvars
             PROVE  CaddyInv'
  OBVIOUS
<1> USE CaddyAssumption DEF CaddyInv, CaddyTypeOK, OneChild
<1>1. ASSUME NEW content \in Content, Reload(content) PROVE CaddyInv'
  BY <1>1 DEF Reload
<1>2. CASE WriteCaddyfile
  BY <1>2 DEF WriteCaddyfile
<1>3. ASSUME NEW ch \in Child, Start(ch) PROVE CaddyInv'
  BY <1>3 DEF Start
<1>4. CASE RunReload
  BY <1>4 DEF RunReload
<1>5. CASE Return
  BY <1>5 DEF Return
<1>6. CASE Shutdown
  BY <1>6 DEF Shutdown
<1>7. ASSUME NEW ch \in Child, Exit(ch) PROVE CaddyInv'
  BY <1>7 DEF Exit
<1>8. ASSUME NEW ch \in Child, ReapChild(ch) PROVE CaddyInv'
  BY <1>8 DEF ReapChild
<1>9. CASE UNCHANGED cvars
  BY <1>9 DEF cvars
<1> QED
  BY <1>1, <1>2, <1>3, <1>4, <1>5, <1>6, <1>7, <1>8, <1>9 DEF CaddyNext, ReloadStep

(* supervisor.go: whatever its callers do, the supervisor never has a child  *)
(* that runs, was not killed and is not tracked.                             *)
THEOREM SupervisorCorrect == CaddySpec => []OneChild
<1>1. CaddyInv => OneChild
  BY DEF CaddyInv
<1> QED
  BY CaddyStarts, CaddySteps, <1>1, PTL DEF CaddySpec

-----------------------------------------------------------------------------
(* Helpers *)

(* The bounds are numbers, and there is room for one signal in retryCh. *)
LEMMA Bounds ==
  /\ MaxFaults \in Nat /\ MaxDeaths \in Nat /\ MaxWrites \in Nat
  /\ MaxDelay \in Nat /\ MaxDelay > 0 /\ RetryCap \in Nat /\ RetryCap > 0
BY NetworkAssumption

(* A new child belongs to its port and is nobody's yet. *)
LEMMA FreshFacts ==
  ASSUME NEW p \in Port, Free(p) # {}
  PROVE  Fresh(p) \in {p} \X Slot /\ Fresh(p) \notin Busy
BY DEF Free, Fresh

(* The state after a removal asks for nothing. *)
LEMMA EmptyFacts ==
  /\ Empty \in [Port -> PortConfig]
  /\ Sites(Empty) = {}
  /\ \A p \in Port : ~Socat(Empty, p) /\ ~Empty[p].upnp
BY DEF Empty, Closed, PortConfig, Sites, Socat

(* Every port of a state has a configuration. *)
LEMMA StateFacts ==
  ASSUME NEW d \in Desired \cup {Empty}, NEW p \in Port
  PROVE  d[p] \in PortConfig
BY EmptyFacts, NetworkAssumption

(* What reconcile does to the processes: a port's new forwarder is its old   *)
(* one or a new child, and one that does not stay is killed.                 *)
LEMMA ForwardFacts ==
  ASSUME TypeOK, NEW d \in Desired \cup {Empty}, NEW down \in SUBSET Port, Forward(d, down)
  PROVE  \E new \in SUBSET Proc :
           /\ alive' = alive \cup new /\ reaper' = reaper \cup new
           /\ timer' = timer \cup new /\ notify' = notify
           /\ new \cap Busy = {}
           /\ target' = [x \in Proc |-> IF x \in new THEN d[x[1]].int ELSE target[x]]
           /\ forwarders' \in [Port -> Proc \cup {None}]
           /\ killed' \subseteq Proc
           /\ \A x \in killed : x \in killed' \/ x \in new
           /\ \A x \in new : forwarders'[x[1]] = x /\ Socat(d, x[1]) /\ ~Keep(d, x[1])
           /\ \A p \in Port :
                /\ Keep(d, p) => forwarders'[p] = forwarders[p]
                /\ ~Keep(d, p) /\ forwarders[p] # None => forwarders[p] \in killed'
                /\ ~Keep(d, p) => forwarders'[p] = None \/ forwarders'[p] \in new \cap ({p} \X Slot)
                /\ Socat(d, p) /\ p \notin down => forwarders'[p] # None
<1> DEFINE began == {p \in Port : Socat(d, p) /\ ~Keep(d, p)} \ down
           new == {Fresh(p) : p \in began}
<1>1. \A p \in began : Fresh(p) \in {p} \X Slot /\ Fresh(p) \notin Busy
  BY FreshFacts DEF Forward
<1>2. new \in SUBSET Proc /\ new \cap Busy = {}
  BY <1>1 DEF Proc
<1>3. \A x \in new : x[1] \in began /\ x = Fresh(x[1])
  BY <1>1
<1>4. forwarders' = [p \in Port |-> IF Keep(d, p) THEN forwarders[p]
                                    ELSE IF p \in began THEN Fresh(p) ELSE None]
  BY DEF Forward
<1>5. killed' = (killed \ new)
                  \cup {forwarders[p] : p \in {q \in Port : forwarders[q] # None /\ ~Keep(d, q)}}
  BY DEF Forward
<1>6. /\ alive' = alive \cup new /\ reaper' = reaper \cup new
      /\ timer' = timer \cup new /\ notify' = notify
      /\ target' = [x \in Proc |-> IF x \in new THEN d[x[1]].int ELSE target[x]]
  BY DEF Forward
<1>7. \A p \in began : p \in Port /\ Fresh(p) \in Proc /\ Fresh(p) \in new
  BY <1>1 DEF Proc
<1>8. forwarders \in [Port -> Proc \cup {None}] /\ killed \subseteq Proc /\ None \notin Proc
  BY NetworkAssumption DEF TypeOK
<1> HIDE DEF new
<1>9. forwarders' \in [Port -> Proc \cup {None}]
  BY <1>4, <1>7, <1>8
<1>10. killed' \subseteq Proc
  BY <1>5, <1>8
<1>11. \A x \in killed : x \in killed' \/ x \in new
  BY <1>5
<1>12. \A x \in new : forwarders'[x[1]] = x /\ Socat(d, x[1]) /\ ~Keep(d, x[1])
  BY <1>3, <1>4
<1>13. ASSUME NEW p \in Port
       PROVE  /\ Keep(d, p) => forwarders'[p] = forwarders[p]
              /\ ~Keep(d, p) /\ forwarders[p] # None => forwarders[p] \in killed'
              /\ ~Keep(d, p) => forwarders'[p] = None \/ forwarders'[p] \in new \cap ({p} \X Slot)
              /\ Socat(d, p) /\ p \notin down => forwarders'[p] # None
  <2>1. Keep(d, p) => forwarders'[p] = forwarders[p] /\ forwarders[p] # None
    BY <1>4 DEF Keep
  <2>2. ~Keep(d, p) /\ forwarders[p] # None => forwarders[p] \in killed'
    BY <1>5
  <2>3. ~Keep(d, p) /\ p \in began => forwarders'[p] = Fresh(p) /\ Fresh(p) \in new \cap ({p} \X Slot)
    BY <1>1, <1>4, <1>7
  <2>4. ~Keep(d, p) /\ p \notin began => forwarders'[p] = None
    BY <1>4
  <2>5. Socat(d, p) /\ p \notin down => Keep(d, p) \/ p \in began
    OBVIOUS
  <2>6. Fresh(p) \in new => Fresh(p) # None
    BY <1>2, <1>8
  <2> QED
    BY <2>1, <2>2, <2>3, <2>4, <2>5, <2>6
<1> QED
  BY <1>2, <1>6, <1>9, <1>10, <1>11, <1>12, <1>13

-----------------------------------------------------------------------------
(* Types *)

(* A reconcile keeps the types of what it writes. *)
LEMMA ReconcileType ==
  ASSUME TypeOK, NEW d \in Desired \cup {Empty}, Reconcile(d)
  PROVE  /\ state' \in Desired \cup {Empty}
         /\ pc' = "caddy"
         /\ forwarders' \in [Port -> Proc \cup {None}]
         /\ target' \in [Proc -> Nat]
         /\ alive' \subseteq Proc /\ killed' \subseteq Proc /\ reaper' \subseteq Proc
         /\ notify' \subseteq Proc /\ timer' \subseteq Proc
         /\ mappings' \in [Port -> PortConfig \cup {None}]
         /\ gateway' \in [Port -> Nat \cup {None}]
         /\ faults' \in 0 .. MaxFaults
         /\ deaths' = deaths /\ writes' = writes /\ cvars' = cvars
<1>1. PICK down \in SUBSET Port, stuck \in SUBSET Port :
        /\ down \cup stuck # {} => faults < MaxFaults
        /\ faults' = IF down \cup stuck = {} THEN faults ELSE faults + 1
        /\ Forward(d, down)
        /\ MapPorts(d, down, stuck)
  BY DEF Reconcile
<1>2. PICK new \in SUBSET Proc :
        /\ alive' = alive \cup new /\ reaper' = reaper \cup new
        /\ timer' = timer \cup new /\ notify' = notify
        /\ target' = [x \in Proc |-> IF x \in new THEN d[x[1]].int ELSE target[x]]
        /\ forwarders' \in [Port -> Proc \cup {None}]
        /\ killed' \subseteq Proc
  BY <1>1, ForwardFacts
<1>3. \A p \in Port : d[p] \in PortConfig /\ d[p].int \in Nat /\ Inner(d[p]) \in Nat
  BY StateFacts DEF PortConfig, Inner
<1>4. \A x \in Proc : x[1] \in Port
  BY DEF Proc
<1>5. target' \in [Proc -> Nat]
  BY <1>2, <1>3, <1>4 DEF TypeOK
<1>6. mappings' \in [Port -> PortConfig \cup {None}]
  BY <1>1, <1>3 DEF MapPorts, TypeOK
<1>7. gateway' \in [Port -> Nat \cup {None}]
  BY <1>1, <1>3 DEF MapPorts, TypeOK
<1>8. faults' \in 0 .. MaxFaults
  BY <1>1, NetworkAssumption DEF TypeOK
<1>9. state' = d /\ pc' = "caddy" /\ deaths' = deaths /\ writes' = writes /\ cvars' = cvars
  BY DEF Reconcile
<1>10. alive' \subseteq Proc /\ reaper' \subseteq Proc /\ notify' \subseteq Proc /\ timer' \subseteq Proc
  BY <1>2 DEF TypeOK
<1> QED
  BY <1>2, <1>5, <1>6, <1>7, <1>8, <1>9, <1>10

(* A step that leaves the supervisor alone keeps its types. *)
LEMMA CaddyTypeKept ==
  ASSUME CaddyTypeOK, cvars' = cvars
  PROVE  CaddyTypeOK'
BY DEF CaddyTypeOK, cvars

(* The initial state is well typed. *)
LEMMA TypeStarts == Init => TypeOK
<1> SUFFICES ASSUME Init PROVE TypeOK
  OBVIOUS
<1>1. CaddyTypeOK
  BY CaddyAssumption DEF Init, CaddyInit, CaddyTypeOK
<1>2. /\ file \in Desired \cup {Partial, Absent}
      /\ watching \in BOOLEAN /\ events \subseteq {"write", "remove"} /\ missed \in BOOLEAN
      /\ pc = "boot" /\ adding \in BOOLEAN /\ state \in Desired \cup {Empty}
  BY DEF Init
<1>3. /\ forwarders \in [Port -> Proc \cup {None}]
      /\ target \in [Proc -> Nat]
      /\ mappings \in [Port -> PortConfig \cup {None}]
      /\ gateway \in [Port -> Nat \cup {None}]
  BY DEF Init
<1>4. alive \subseteq Proc /\ killed \subseteq Proc /\ reaper \subseteq Proc
      /\ notify \subseteq Proc /\ timer \subseteq Proc
  BY DEF Init
<1>5. backoff \in [Port -> 0 .. MaxDelay] /\ wake \in BOOLEAN /\ timers \in Nat
  <2>1. 0 \in 0 .. MaxDelay
    BY Bounds
  <2>2. backoff = [p \in Port |-> 0] /\ wake = FALSE /\ timers = 0
    BY DEF Init
  <2> QED
    BY <2>1, <2>2
<1>6. retryCh \in Seq(Port) /\ Len(retryCh) <= RetryCap
  BY Bounds DEF Init
<1>7. faults \in 0 .. MaxFaults /\ deaths \in 0 .. MaxDeaths /\ writes \in 0 .. MaxWrites
  BY Bounds DEF Init
<1> QED
  BY <1>1, <1>2, <1>3, <1>4, <1>5, <1>6, <1>7 DEF TypeOK

(* Every step keeps the types. *)
LEMMA TypeSteps == TypeOK /\ [Next]_vars => TypeOK'
<1> SUFFICES ASSUME TypeOK, [Next]_vars
             PROVE  TypeOK'
  OBVIOUS
<1>c. CaddyTypeOK
  BY DEF TypeOK
<1>1. CASE ReadInitial
  <2>1. file \in Desired \cup {Empty} /\ Reconcile(file)
    BY <1>1 DEF ReadInitial
  <2> QED
    BY <1>1, <2>1, <1>c, ReconcileType, CaddyTypeKept DEF ReadInitial, TypeOK, retry
<1>2. CASE CaddyPhase
  <2>1. CaddyTypeOK'
    <3>1. Sites(state) # {} => Sites(state) \in Content
      BY EmptyFacts, NetworkAssumption DEF TypeOK
    <3> QED
      BY <1>2, <1>c, <3>1 DEF CaddyPhase, Shutdown, Reload, CaddyTypeOK
  <2> QED
    BY <1>2, <2>1 DEF CaddyPhase, TypeOK, fvars, procs, retry, upnp, count
<1>3. CASE CaddyReload
  <2>1. CaddyTypeOK'
    BY <1>3, <1>c DEF CaddyReload, ReloadStep, WriteCaddyfile, Start, RunReload, CaddyTypeOK
  <2> QED
    BY <1>3, <2>1 DEF CaddyReload, TypeOK, fvars, procs, retry, upnp, count
<1>4. CASE EndReconcile
  <2>1. CaddyTypeOK'
    BY <1>4, <1>c DEF EndReconcile, Return, CaddyTypeOK
  <2> QED
    BY <1>4, <2>1 DEF EndReconcile, TypeOK, fvars, procs, retry, upnp, count
<1>5. CASE AddWatch
  BY <1>5, <1>c, CaddyTypeKept DEF AddWatch, TypeOK, procs, retry, upnp, count
<1>6. CASE OnWrite
  <2>1. CASE file \in Desired /\ Reconcile(file) /\ missed' = FALSE
    BY <1>6, <2>1, <1>c, ReconcileType, CaddyTypeKept DEF OnWrite, TypeOK, retry
  <2>2. CASE UNCHANGED <<pc, missed, state, procs, upnp, count, cvars>>
    BY <1>6, <2>2, <1>c, CaddyTypeKept DEF OnWrite, TypeOK, retry, procs, upnp, count
  <2> QED
    BY <1>6, <2>1, <2>2 DEF OnWrite
<1>7. CASE OnRemove
  <2>1. Empty \in Desired \cup {Empty} /\ Reconcile(Empty)
    BY <1>7 DEF OnRemove
  <2> QED
    BY <1>7, <2>1, <1>c, ReconcileType, CaddyTypeKept DEF OnRemove, TypeOK, retry
<1>8. CASE OnRetry
  <2>1. Head(retryCh) \in Port /\ Tail(retryCh) \in Seq(Port) /\ Len(Tail(retryCh)) <= RetryCap
    BY <1>8, NetworkAssumption DEF OnRetry, TypeOK
  <2>2. \A b \in 0 .. MaxDelay : (IF b = 0 THEN 1 ELSE Doubled(b)) \in 0 .. MaxDelay
    BY NetworkAssumption DEF Doubled
  <2>3. backoff' \in [Port -> 0 .. MaxDelay]
    BY <1>8, <2>1, <2>2 DEF OnRetry, TypeOK
  <2>4. timers' \in Nat
    BY <1>8 DEF OnRetry, TypeOK
  <2> QED
    BY <1>8, <2>1, <2>3, <2>4, <1>c, CaddyTypeKept DEF OnRetry, TypeOK, fvars, procs, upnp, count
<1>9. CASE OnWake
  <2>1. state \in Desired \cup {Empty} /\ Reconcile(state)
    BY <1>9 DEF OnWake, TypeOK
  <2> QED
    BY <1>9, <2>1, <1>c, ReconcileType, CaddyTypeKept DEF OnWake, TypeOK, fvars
<1>10. CASE RenewUPnP
  <2>1. \A m \in PortConfig : Inner(m) \in Nat
    BY DEF Inner, PortConfig
  <2>2. gateway' \in [Port -> Nat \cup {None}]
    BY <1>10, <2>1 DEF RenewUPnP, TypeOK
  <2> QED
    BY <1>10, <2>2, <1>c, CaddyTypeKept DEF RenewUPnP, TypeOK, fvars, procs, retry, count
<1>11. CASE ShutdownController
  <2>1. CaddyTypeOK'
    BY <1>11, <1>c DEF ShutdownController, Shutdown, CaddyTypeOK
  <2>2. /\ faults' \in 0 .. MaxFaults
        /\ gateway' \in [Port -> Nat \cup {None}]
        /\ killed' \subseteq Proc
    BY <1>11, NetworkAssumption DEF ShutdownController, TypeOK
  <2> QED
    BY <1>11, <2>1, <2>2 DEF ShutdownController, TypeOK, fvars, retry
<1>12. ASSUME NEW x \in Proc, Reap(x) PROVE TypeOK'
  BY <1>12, <1>c, CaddyTypeKept DEF Reap, TypeOK, fvars, retry, upnp, count
<1>13. ASSUME NEW x \in Proc, Notify(x) PROVE TypeOK'
  <2>1. x[1] \in Port
    BY DEF Proc
  <2>2. retryCh' \in Seq(Port) /\ Len(retryCh') <= RetryCap
    BY <1>13, <2>1, NetworkAssumption DEF Notify, TypeOK
  <2> QED
    BY <1>13, <2>2, <1>c, CaddyTypeKept DEF Notify, TypeOK, fvars, upnp, count
<1>14. ASSUME NEW x \in Proc, ResetBackoff(x) PROVE TypeOK'
  <2>1. backoff' \in [Port -> 0 .. MaxDelay]
    <3>1. x[1] \in Port /\ backoff \in [Port -> 0 .. MaxDelay] /\ 0 \in 0 .. MaxDelay
      BY Bounds DEF TypeOK, Proc
    <3>2. backoff' = [backoff EXCEPT ![x[1]] = IF forwarders[x[1]] = x THEN 0 ELSE @]
      BY <1>14 DEF ResetBackoff
    <3> QED
      BY <3>1, <3>2
  <2> QED
    BY <1>14, <2>1, <1>c, CaddyTypeKept DEF ResetBackoff, TypeOK, fvars, upnp, count
<1>15. CASE RetryTimer
  BY <1>15, <1>c, CaddyTypeKept DEF RetryTimer, TypeOK, fvars, procs, upnp, count
<1>16. ASSUME NEW x \in Proc, Die(x) PROVE TypeOK'
  BY <1>16, <1>c, CaddyTypeKept, Bounds DEF Die, TypeOK, fvars, retry, upnp
<1>17. CASE CaddyEnv
  <2>1. CaddyTypeOK'
    BY <1>17, <1>c DEF CaddyEnv, Exit, ReapChild, CaddyTypeOK
  <2> QED
    BY <1>17, <2>1 DEF CaddyEnv, TypeOK, fvars, procs, retry, upnp, count
<1>18. CASE Writer
  <2>1. CASE BeginWrite
    BY <1>c, <2>1, CaddyTypeKept, Bounds DEF BeginWrite, Raise, TypeOK, procs, retry, upnp
  <2>2. CASE FinishWrite
    BY <1>c, <2>2, CaddyTypeKept DEF FinishWrite, Raise, TypeOK, procs, retry, upnp
  <2>3. CASE RemoveFile
    <3>1. writes' \in 0 .. MaxWrites
      BY <2>3, Bounds DEF RemoveFile, TypeOK
    <3>2. /\ file' = Absent /\ watching' = FALSE /\ missed' \in BOOLEAN
          /\ events' \subseteq {"write", "remove"}
      BY <2>3 DEF RemoveFile, Raise, TypeOK
    <3>3. UNCHANGED <<pc, adding, state, procs, retry, upnp, faults, deaths, cvars>>
      BY <2>3 DEF RemoveFile
    <3> QED
      BY <1>c, <3>1, <3>2, <3>3, CaddyTypeKept DEF TypeOK, procs, retry, upnp
  <2> QED
    BY <1>18, <2>1, <2>2, <2>3 DEF Writer
<1>19. CASE UNCHANGED vars
  BY <1>19, <1>c, CaddyTypeKept DEF vars, TypeOK, fvars, procs, retry, upnp, count
<1> QED
  BY <1>1, <1>2, <1>3, <1>4, <1>5, <1>6, <1>7, <1>8, <1>9, <1>10, <1>11, <1>12, <1>13,
     <1>14, <1>15, <1>16, <1>17, <1>18, <1>19 DEF Next, Run, Goroutines

(* The type invariant of the network controller and its supervisor: the      *)
(* retry delay stays within its cap and retryCh within its capacity.         *)
THEOREM TypeCorrect == Spec => []TypeOK
BY TypeStarts, TypeSteps, PTL DEF Spec

-----------------------------------------------------------------------------
(* The supervisor inside the controller *)

(* A step of the controller is a step of the supervisor or leaves it alone. *)
LEMMA CaddyRefined == TypeOK /\ [Next]_vars => [CaddyNext]_cvars
<1> SUFFICES ASSUME TypeOK, [Next]_vars
             PROVE  [CaddyNext]_cvars
  OBVIOUS
<1>1. CASE CaddyPhase
  <2>1. Sites(state) # {} => Sites(state) \in Content
    BY EmptyFacts, NetworkAssumption DEF TypeOK
  <2> QED
    BY <1>1, <2>1 DEF CaddyPhase, CaddyNext
<1>2. CASE CaddyReload
  BY <1>2 DEF CaddyReload, CaddyNext
<1>3. CASE EndReconcile
  BY <1>3 DEF EndReconcile, CaddyNext
<1>4. CASE ShutdownController
  BY <1>4 DEF ShutdownController, CaddyNext
<1>5. CASE CaddyEnv
  BY <1>5 DEF CaddyEnv, CaddyNext
<1>6. CASE ReadInitial \/ OnWrite \/ OnRemove \/ OnWake
  BY <1>6 DEF ReadInitial, OnWrite, OnRemove, OnWake, Reconcile
<1>7. CASE AddWatch \/ OnRetry \/ RenewUPnP \/ RetryTimer \/ Writer
  BY <1>7 DEF AddWatch, OnRetry, RenewUPnP, RetryTimer, Writer, BeginWrite, FinishWrite, RemoveFile
<1>8. CASE \E x \in Proc : Reap(x) \/ Notify(x) \/ ResetBackoff(x) \/ Die(x)
  BY <1>8 DEF Reap, Notify, ResetBackoff, Die
<1>9. CASE UNCHANGED vars
  BY <1>9 DEF vars
<1> QED
  BY <1>1, <1>2, <1>3, <1>4, <1>5, <1>6, <1>7, <1>8, <1>9 DEF Next, Run, Goroutines

(* networkcontroller.go uses the supervisor as it is meant to be used: one   *)
(* call at a time, each one completed.  What is proved of the supervisor     *)
(* therefore holds of the controller's.                                      *)
THEOREM Implements == Spec => CaddySpec
<1>1. Init => CaddyInit
  BY DEF Init
<1> QED
  BY <1>1, CaddyRefined, TypeCorrect, PTL DEF Spec, CaddySpec

(* supervisor.go: in the controller, every caddy that was not killed is the  *)
(* tracked one.                                                              *)
THEOREM ControllerOneChild == Spec => []OneChild
BY Implements, SupervisorCorrect, PTL

-----------------------------------------------------------------------------
(* The steps, by what they do to the processes, the retries and the ports *)

(* A reconcile, one of the steps named, or a step that changes nothing of    *)
(* these.                                                                    *)
LEMMA StepKinds ==
  ASSUME TypeOK, [Next]_vars
  PROVE  \/ pc \in {"boot", "select"} /\ \E d \in Desired \cup {Empty} : Reconcile(d)
         \/ ShutdownController \/ OnRetry \/ RetryTimer \/ RenewUPnP
         \/ \E x \in Proc : Reap(x) \/ Notify(x) \/ ResetBackoff(x) \/ Die(x)
         \/ /\ UNCHANGED <<state, procs, retry, upnp, faults>>
            /\ pc' = "stopped" <=> pc = "stopped"
            /\ pc' = "boot" <=> pc = "boot"
<1>1. CASE ReadInitial \/ OnWrite
  BY <1>1 DEF ReadInitial, OnWrite, count
<1>2. CASE OnRemove
  BY <1>2 DEF OnRemove
<1>3. CASE OnWake
  BY <1>3 DEF OnWake, TypeOK
<1>4. CASE CaddyPhase
  BY <1>4 DEF CaddyPhase, count
<1>5. CASE CaddyReload
  BY <1>5 DEF CaddyReload, count
<1>6. CASE EndReconcile
  BY <1>6 DEF EndReconcile, count
<1>7. CASE AddWatch
  BY <1>7 DEF AddWatch, count
<1>8. CASE CaddyEnv
  BY <1>8 DEF CaddyEnv, count
<1>9. CASE Writer
  BY <1>9 DEF Writer, BeginWrite, FinishWrite, RemoveFile
<1>10. CASE UNCHANGED vars
  BY <1>10 DEF vars, count
<1> QED
  BY <1>1, <1>2, <1>3, <1>4, <1>5, <1>6, <1>7, <1>8, <1>9, <1>10 DEF Next, Run, Goroutines

(* The choices of a reconcile; without a fault there was nothing to go wrong. *)
LEMMA ReconcileChoices ==
  ASSUME TypeOK, NEW d, Reconcile(d)
  PROVE  \E down, stuck \in SUBSET Port :
           /\ faults' = 0 => faults = 0 /\ down = {} /\ stuck = {}
           /\ Forward(d, down)
           /\ MapPorts(d, down, stuck)
<1>1. PICK down \in SUBSET Port, stuck \in SUBSET Port :
        /\ faults' = IF down \cup stuck = {} THEN faults ELSE faults + 1
        /\ Forward(d, down)
        /\ MapPorts(d, down, stuck)
  BY DEF Reconcile
<1>2. faults \in Nat
  BY DEF TypeOK
<1>3. faults' = 0 => faults = 0 /\ down \cup stuck = {}
  BY <1>1, <1>2
<1> QED
  BY <1>1, <1>3

-----------------------------------------------------------------------------
(* No socat child is left behind *)

(* Reconciles kill what they replace, reapers forget only their own child.   *)
LEMMA OrphanSteps == TypeOK /\ NoOrphans /\ [Next]_vars => NoOrphans'
<1> SUFFICES ASSUME TypeOK, NoOrphans, [Next]_vars
             PROVE  NoOrphans'
  OBVIOUS
<1>t. /\ forwarders \in [Port -> Proc \cup {None}] /\ alive \subseteq Proc
      /\ None \notin Proc /\ \A x \in Proc : x[1] \in Port
  BY NetworkAssumption DEF TypeOK, Proc
<1>1. ASSUME NEW d \in Desired \cup {Empty}, Reconcile(d) PROVE NoOrphans'
  <2>1. PICK down \in SUBSET Port : Forward(d, down)
    BY <1>1 DEF Reconcile
  <2>2. PICK new \in SUBSET Proc :
          /\ alive' = alive \cup new
          /\ \A x \in killed : x \in killed' \/ x \in new
          /\ \A x \in new : forwarders'[x[1]] = x /\ Socat(d, x[1]) /\ ~Keep(d, x[1])
          /\ \A p \in Port :
               /\ Keep(d, p) => forwarders'[p] = forwarders[p]
               /\ ~Keep(d, p) /\ forwarders[p] # None => forwarders[p] \in killed'
               /\ ~Keep(d, p) => forwarders'[p] = None \/ forwarders'[p] \in new \cap ({p} \X Slot)
               /\ Socat(d, p) /\ p \notin down => forwarders'[p] # None
    BY <2>1, ForwardFacts
  <2>3. ASSUME NEW x \in alive' \ killed', x \notin new PROVE forwarders'[x[1]] = x
    <3>1. x \in alive \ killed /\ x \in Proc
      BY <2>2, <2>3, <1>t
    <3>2. forwarders[x[1]] = x /\ x # None /\ x[1] \in Port
      BY <3>1, <1>t DEF NoOrphans
    <3> QED
      BY <2>2, <2>3, <3>2
  <2> QED
    BY <2>2, <2>3 DEF NoOrphans
<1>2. CASE ShutdownController
  <2>k. killed' = killed \cup {forwarders[p] : p \in {q \in Port : forwarders[q] # None}}
    BY <1>2 DEF ShutdownController
  <2>1. ASSUME NEW x \in alive \ killed PROVE x \in killed'
    <3>1. x[1] \in Port /\ forwarders[x[1]] = x /\ x # None
      BY <1>t DEF NoOrphans
    <3> QED
      BY <2>k, <3>1
  <2>2. alive' = alive /\ killed \subseteq killed'
    BY <1>2 DEF ShutdownController
  <2> QED
    BY <2>1, <2>2 DEF NoOrphans
<1>3. ASSUME NEW x \in Proc, Reap(x) PROVE NoOrphans'
  BY <1>3, <1>t DEF Reap, NoOrphans
<1>4. ASSUME NEW x \in Proc, Die(x) PROVE NoOrphans'
  BY <1>4 DEF Die, NoOrphans
<1>5. ASSUME NEW x \in Proc, Notify(x) \/ ResetBackoff(x) PROVE NoOrphans'
  BY <1>5 DEF Notify, ResetBackoff, NoOrphans
<1>6. CASE OnRetry \/ RetryTimer \/ RenewUPnP
  BY <1>6 DEF OnRetry, RetryTimer, RenewUPnP, procs, NoOrphans
<1>7. CASE UNCHANGED procs
  BY <1>7 DEF procs, NoOrphans
<1> QED
  BY <1>1, <1>2, <1>3, <1>4, <1>5, <1>6, <1>7, StepKinds

(* networkcontroller.go: for any number of reconciles, deaths and overlapping *)
(* reapers, a socat child that was not killed is the forwarder of its port,   *)
(* so the next change of state, or Shutdown, stops it.                        *)
THEOREM OrphansCorrect == Spec => []NoOrphans
<1>1. Init => NoOrphans
  BY DEF Init, NoOrphans
<1> QED
  BY <1>1, OrphanSteps, TypeCorrect, PTL DEF Spec

-----------------------------------------------------------------------------
(* No wake-up is lost *)

(* A reconcile without a fault leaves no port without its forwarder; a       *)
(* reaper that leaves one signals; the signal becomes a timer, the timer a   *)
(* wake-up, and what a full channel drops is already in it.                  *)
LEMMA WakeupSteps == TypeOK /\ NoLostWakeup /\ [Next]_vars => NoLostWakeup'
<1> SUFFICES ASSUME TypeOK, NoLostWakeup, [Next]_vars
             PROVE  NoLostWakeup'
  OBVIOUS
<1>1. ASSUME NEW d \in Desired \cup {Empty}, Reconcile(d) PROVE NoLostWakeup'
  <2>1. PICK down \in SUBSET Port : (faults' = 0 => down = {}) /\ Forward(d, down)
    BY <1>1, ReconcileChoices
  <2>2. \A p \in Port : Socat(d, p) /\ p \notin down => forwarders'[p] # None
    BY <2>1, ForwardFacts
  <2>3. state' = d
    BY <1>1 DEF Reconcile
  <2>4. \A p \in Port : Socat(state, p)' <=> Socat(d, p)
    BY <2>3 DEF Socat
  <2> QED
    BY <2>1, <2>2, <2>4 DEF NoLostWakeup
<1>2. CASE ShutdownController
  BY <1>2 DEF ShutdownController, NoLostWakeup
<1>3. CASE OnRetry
  <2>1. timers' > 0
    BY <1>3 DEF OnRetry, TypeOK
  <2> QED
    BY <2>1 DEF NoLostWakeup
<1>4. CASE RetryTimer
  BY <1>4 DEF RetryTimer, NoLostWakeup
<1>5. CASE RenewUPnP
  BY <1>5 DEF RenewUPnP, procs, retry, count, NoLostWakeup, Socat
<1>6. ASSUME NEW x \in Proc, Reap(x) PROVE NoLostWakeup'
  <2>1. CASE forwarders[x[1]] = x
    BY <1>6, <2>1 DEF Reap, NoLostWakeup
  <2>2. CASE forwarders[x[1]] # x
    BY <1>6, <2>2 DEF Reap, retry, count, NoLostWakeup, Socat
  <2> QED
    BY <2>1, <2>2
<1>7. ASSUME NEW x \in Proc, Notify(x) PROVE NoLostWakeup'
  <2>1. retryCh' # <<>>
    <3>1. retryCh \in Seq(Port) /\ x[1] \in Port
      BY DEF TypeOK, Proc
    <3>2. CASE Len(retryCh) < RetryCap
      BY <1>7, <3>1, <3>2 DEF Notify
    <3>3. CASE ~(Len(retryCh) < RetryCap)
      BY <1>7, <3>1, <3>3, Bounds DEF Notify
    <3> QED
      BY <3>2, <3>3
  <2> QED
    BY <2>1 DEF NoLostWakeup
<1>8. ASSUME NEW x \in Proc, ResetBackoff(x) \/ Die(x) PROVE NoLostWakeup'
  BY <1>8 DEF ResetBackoff, Die, retry, count, NoLostWakeup, Socat
<1>9. ASSUME UNCHANGED <<state, procs, retry, upnp, faults>>,
             pc' = "stopped" <=> pc = "stopped", pc' = "boot" <=> pc = "boot"
      PROVE  NoLostWakeup'
  BY <1>9 DEF procs, retry, NoLostWakeup, Socat
<1> QED
  BY <1>1, <1>2, <1>3, <1>4, <1>5, <1>6, <1>7, <1>8, <1>9, StepKinds

(* networkcontroller.go: as long as every child could be started, a port     *)
(* whose forwarder died has a signal, a timer or a wake-up on its way to a   *)
(* reconcile, whatever the capacity of retryCh and however many die at once. *)
THEOREM WakeupCorrect == Spec => []NoLostWakeup
<1>1. Init => NoLostWakeup
  BY DEF Init, NoLostWakeup
<1> QED
  BY <1>1, WakeupSteps, TypeCorrect, PTL DEF Spec

-----------------------------------------------------------------------------
(* What runs is what was asked for *)

(* A port's forwarder is one of its own children. *)
Keyed == \A p \in Port : forwarders[p] # None => forwarders[p] \in {p} \X Slot

(* The half of AppliesState about socat. *)
Forwarding ==
  pc # "stopped" =>
    \A p \in Port : forwarders[p] # None =>
      Socat(state, p) /\ target[forwarders[p]] = state[p].int

(* The noted mappings are those of the state, and the router's are the noted. *)
Mapped ==
  pc # "stopped" /\ faults = 0 =>
    \A p \in Port :
      /\ mappings[p] = None => gateway[p] = None /\ ~state[p].upnp
      /\ mappings[p] # None =>
           /\ gateway[p] = Inner(mappings[p])
           /\ state[p].upnp
           /\ mappings[p].forward = state[p].forward
           /\ mappings[p].int = state[p].int

(* The inductive invariant behind AppliesState. *)
Applied == Keyed /\ Forwarding /\ Mapped

(* The socat half of a reconcile. *)
LEMMA ReconcileForwards ==
  ASSUME TypeOK, Keyed, NEW d \in Desired \cup {Empty}, Reconcile(d)
  PROVE  Keyed' /\ Forwarding'
<1>1. PICK down \in SUBSET Port : Forward(d, down)
  BY DEF Reconcile
<1>2. PICK new \in SUBSET Proc :
        /\ new \cap Busy = {}
        /\ target' = [x \in Proc |-> IF x \in new THEN d[x[1]].int ELSE target[x]]
        /\ \A x \in new : Socat(d, x[1]) /\ ~Keep(d, x[1])
        /\ \A p \in Port :
             /\ Keep(d, p) => forwarders'[p] = forwarders[p]
             /\ ~Keep(d, p) => forwarders'[p] = None \/ forwarders'[p] \in new \cap ({p} \X Slot)
  BY <1>1, ForwardFacts
<1>3. state' = d
  BY DEF Reconcile
<1>4. forwarders \in [Port -> Proc \cup {None}] /\ target \in [Proc -> Nat]
  BY DEF TypeOK
<1>5. ASSUME NEW p \in Port, forwarders'[p] # None
      PROVE  /\ forwarders'[p] \in {p} \X Slot
             /\ Socat(d, p) /\ target'[forwarders'[p]] = d[p].int
  <2>1. CASE Keep(d, p)
    <3>1. forwarders'[p] = forwarders[p] /\ forwarders[p] \in {p} \X Slot /\ forwarders[p] \in Proc
      BY <1>2, <1>4, <2>1, <1>5 DEF Keyed
    <3>2. forwarders[p][1] = p
      BY <3>1
    <3>3. forwarders[p] \notin new
      BY <1>2, <2>1, <3>2
    <3> QED
      BY <1>2, <2>1, <3>1, <3>3 DEF Keep
  <2>2. CASE ~Keep(d, p)
    <3>1. forwarders'[p] \in new /\ forwarders'[p] \in {p} \X Slot
      BY <1>2, <1>5, <2>2
    <3>2. forwarders'[p][1] = p
      BY <3>1
    <3> QED
      BY <1>2, <3>1, <3>2
  <2> QED
    BY <2>1, <2>2
<1> QED
  BY <1>3, <1>5 DEF Keyed, Forwarding, Socat

(* The UPnP half. *)
LEMMA ReconcileMaps ==
  ASSUME TypeOK, Mapped, pc # "stopped", NEW d \in Desired \cup {Empty}, Reconcile(d)
  PROVE  Mapped'
<1>1. PICK down, stuck \in SUBSET Port :
        /\ faults' = 0 => faults = 0 /\ down = {} /\ stuck = {}
        /\ MapPorts(d, down, stuck)
  BY ReconcileChoices
<1>2. state' = d
  BY DEF Reconcile
<1>3. ASSUME NEW p \in Port, faults' = 0
      PROVE  /\ mappings'[p] = None => gateway'[p] = None /\ ~d[p].upnp
             /\ mappings'[p] # None =>
                  /\ gateway'[p] = Inner(mappings'[p])
                  /\ d[p].upnp
                  /\ mappings'[p].forward = d[p].forward
                  /\ mappings'[p].int = d[p].int
  <2>1. d[p] # None
    BY StateFacts, NetworkAssumption
  <2>2. /\ mappings'[p] = IF KeepMapping(d, p) THEN mappings[p] ELSE IF d[p].upnp THEN d[p] ELSE None
        /\ gateway'[p] = IF KeepMapping(d, p) THEN gateway[p]
                         ELSE IF d[p].upnp THEN Inner(d[p])
                         ELSE IF mappings[p] = None THEN gateway[p] ELSE None
    BY <1>1, <1>3 DEF MapPorts
  <2>3. /\ mappings[p] = None => gateway[p] = None
        /\ mappings[p] # None => gateway[p] = Inner(mappings[p])
    BY <1>1, <1>3 DEF Mapped
  <2>4. CASE KeepMapping(d, p)
    BY <2>2, <2>3, <2>4 DEF KeepMapping
  <2>5. CASE ~KeepMapping(d, p) /\ d[p].upnp
    BY <2>1, <2>2, <2>5
  <2>6. CASE ~KeepMapping(d, p) /\ ~d[p].upnp
    BY <2>2, <2>3, <2>6
  <2> QED
    BY <2>4, <2>5, <2>6
<1> QED
  BY <1>2, <1>3 DEF Mapped, Inner

(* Reconciles apply the state; other steps forget a forwarder, renew a       *)
(* mapping, or leave the ports as they are.                                  *)
LEMMA AppliedSteps == TypeOK /\ Applied /\ [Next]_vars => Applied'
<1> SUFFICES ASSUME TypeOK, Applied, [Next]_vars
             PROVE  Applied'
  OBVIOUS
<1>t. /\ forwarders \in [Port -> Proc \cup {None}]
      /\ mappings \in [Port -> PortConfig \cup {None}]
      /\ gateway \in [Port -> Nat \cup {None}]
  BY DEF TypeOK
<1>1. ASSUME NEW d \in Desired \cup {Empty}, pc \in {"boot", "select"}, Reconcile(d)
      PROVE  Applied'
  BY <1>1, ReconcileForwards, ReconcileMaps DEF Applied
<1>2. CASE ShutdownController
  BY <1>2 DEF ShutdownController, Applied, Keyed, Forwarding, Mapped
<1>3. CASE OnRetry \/ RetryTimer
  BY <1>3 DEF OnRetry, RetryTimer, procs, upnp, count, Applied, Keyed, Forwarding, Mapped, Socat, Inner
<1>4. CASE RenewUPnP
  <2>1. PICK down \in SUBSET Port :
          gateway' = [p \in Port |-> IF mappings[p] # None /\ p \notin down
                                     THEN Inner(mappings[p]) ELSE gateway[p]]
    BY <1>4 DEF RenewUPnP
  <2>2. mappings' = mappings /\ pc' = pc /\ state' = state /\ procs' = procs /\ faults' = faults
    BY <1>4 DEF RenewUPnP, count
  <2>3. Mapped'
    BY <2>1, <2>2 DEF Applied, Mapped, Inner
  <2>4. Keyed' /\ Forwarding'
    BY <2>2 DEF procs, Applied, Keyed, Forwarding, Socat
  <2> QED
    BY <2>3, <2>4 DEF Applied
<1>5. ASSUME NEW x \in Proc, Reap(x) PROVE Applied'
  <2>1. \A p \in Port : forwarders'[p] = None \/ forwarders'[p] = forwarders[p]
    BY <1>5, <1>t DEF Reap
  <2>2. /\ target' = target /\ state' = state /\ pc' = pc /\ faults' = faults
        /\ mappings' = mappings /\ gateway' = gateway
    BY <1>5 DEF Reap, upnp, count
  <2>3. Keyed' /\ Forwarding'
    BY <2>1, <2>2 DEF Applied, Keyed, Forwarding, Socat
  <2>4. Mapped'
    BY <2>2 DEF Applied, Mapped, Inner
  <2> QED
    BY <2>3, <2>4 DEF Applied
<1>6. ASSUME NEW x \in Proc, Notify(x) \/ ResetBackoff(x) \/ Die(x) PROVE Applied'
  BY <1>6 DEF Notify, ResetBackoff, Die, upnp, count, Applied, Keyed, Forwarding, Mapped, Socat, Inner
<1>7. ASSUME UNCHANGED <<state, procs, retry, upnp, faults>>, pc' = "stopped" <=> pc = "stopped"
      PROVE  Applied'
  BY <1>7 DEF procs, upnp, Applied, Keyed, Forwarding, Mapped, Socat, Inner
<1> QED
  BY <1>1, <1>2, <1>3, <1>4, <1>5, <1>6, <1>7, StepKinds

(* networkcontroller.go: between reconciles, whatever dies and is reaped,    *)
(* forwarders and router mappings are those of the state last applied.       *)
THEOREM StateApplied == Spec => []AppliesState
<1>1. Init => Applied
  BY EmptyFacts DEF Init, Applied, Keyed, Forwarding, Mapped
<1>2. TypeOK /\ Applied => AppliesState
  BY DEF Applied, Forwarding, Mapped, AppliesState, Inner
<1> QED
  BY <1>1, <1>2, AppliedSteps, TypeCorrect, PTL DEF Spec

-----------------------------------------------------------------------------
(* The controller follows the file *)

(* FollowsFile at any point of the loop: a file that decodes and has no      *)
(* event pending is the state; a removed one is noticed unless the removal   *)
(* is still to be handled.                                                   *)
InStep ==
  pc \notin {"boot", "stopped"} /\ ~missed =>
    /\ file \in Desired /\ events = {} => state = file
    /\ file = Absent /\ "remove" \notin events => state = Empty

(* A write after the read the loop acted on has its own event. *)
LEMMA InStepSteps == TypeOK /\ InStep /\ [Next]_vars => InStep'
<1> SUFFICES ASSUME TypeOK, InStep, [Next]_vars
             PROVE  InStep'
  OBVIOUS
<1> USE NetworkAssumption DEF InStep
<1>1. CASE ReadInitial
  BY <1>1 DEF ReadInitial, Reconcile
<1>2. CASE OnWrite
  BY <1>2 DEF OnWrite, Reconcile
<1>3. CASE OnRemove
  BY <1>3 DEF OnRemove, Reconcile
<1>4. CASE OnWake
  BY <1>4 DEF OnWake, Reconcile, fvars
<1>5. CASE BeginWrite
  BY <1>5 DEF BeginWrite
<1>6. CASE FinishWrite
  BY <1>6 DEF FinishWrite, Raise
<1>7. CASE RemoveFile
  BY <1>7 DEF RemoveFile, Raise
<1>8. CASE ShutdownController
  BY <1>8 DEF ShutdownController
<1>9. CASE CaddyPhase \/ CaddyReload \/ EndReconcile \/ AddWatch
  BY <1>9 DEF CaddyPhase, CaddyReload, EndReconcile, AddWatch, fvars
<1>10. CASE OnRetry \/ RenewUPnP \/ RetryTimer \/ CaddyEnv
  BY <1>10 DEF OnRetry, RenewUPnP, RetryTimer, CaddyEnv, fvars
<1>11. CASE \E x \in Proc : Reap(x) \/ Notify(x) \/ ResetBackoff(x) \/ Die(x)
  BY <1>11 DEF Reap, Notify, ResetBackoff, Die, fvars
<1>12. CASE UNCHANGED vars
  BY <1>12 DEF vars, fvars
<1> QED
  BY <1>1, <1>2, <1>3, <1>4, <1>5, <1>6, <1>7, <1>8, <1>9, <1>10, <1>11, <1>12
  DEF Next, Run, Goroutines, Writer

(* networkcontroller.go: when the loop is idle, what it applied is what the  *)
(* file says, however the writes, reads of half-written files and removals   *)
(* interleaved; a change made while there was no watch excepted.             *)
THEOREM FileFollowed == Spec => []FollowsFile
<1>1. Init => InStep
  BY DEF Init, InStep
<1>2. InStep => FollowsFile
  BY DEF InStep, FollowsFile
<1> QED
  BY <1>1, <1>2, InStepSteps, TypeCorrect, PTL DEF Spec
=============================================================================
