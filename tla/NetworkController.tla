-------------------------- MODULE NetworkController --------------------------
(***************************************************************************)
(* The per-package network controller (networkcontroller/                  *)
(* networkcontroller.go): a Run loop that follows the state file the       *)
(* system controller writes, one socat child per plain TCP port, UPnP      *)
(* mappings on the router, and a supervised caddy for the TLS ports.       *)
(*                                                                         *)
(* Concurrent with the loop run a reaper and a success-threshold timer for *)
(* every socat child, and the retry timers.  All of them take Controller.mu*)
(* for what they change; the loop holds it for a whole reconcile, the      *)
(* caddy reload included.  A reconcile is therefore one step up to the     *)
(* call of the supervisor, and the steps of that call after it.            *)
(*                                                                         *)
(* A socat child is <<port, slot>>: Slot bounds how many children of one   *)
(* port can be around at the same time, reapers and timers included.       *)
(* Delays are kept (backoff), the passing of time is not.                  *)
(***************************************************************************)
EXTENDS CaddySupervisor, Integers, Sequences

CONSTANTS
  Port,        \* external ports
  Slot,        \* see above
  None,        \* no forwarder, no mapping
  Desired,     \* the states the system controller writes
  Partial,     \* a state file that does not decode
  Absent,      \* no state file
  RetryCap,    \* the capacity of retryCh
  MaxDelay,    \* the cap of the retry delay
  MaxFaults,   \* reconciles in which a child cannot be started or UPnP fails
  MaxDeaths,   \* unexpected exits of socat
  MaxWrites    \* changes of the state file

Proc == Port \X Slot

(* A port that is not in the state file is a port that asks for nothing.    *)
PortConfig == [int : Nat, forward : BOOLEAN, tls : BOOLEAN, upnp : BOOLEAN]
Closed == [int |-> 0, forward |-> FALSE, tls |-> FALSE, upnp |-> FALSE]
Empty == [p \in Port |-> Closed]

(* CollectCaddySites and RenderCaddyfile: the forwarded TLS ports. *)
Sites(d) == {<<p, d[p].int>> : p \in {q \in Port : d[q].forward /\ d[q].tls}}

ASSUME NetworkAssumption ==
  /\ None \notin Proc \cup PortConfig
  /\ Partial \notin Desired /\ Absent \notin Desired /\ Partial # Absent
  /\ Desired \subseteq [Port -> PortConfig]
  /\ \A d \in Desired : Sites(d) # {} => Sites(d) \in Content
  /\ RetryCap \in Nat \ {0}
  /\ MaxDelay \in Nat \ {0}
  /\ {MaxFaults, MaxDeaths, MaxWrites} \subseteq Nat

VARIABLES
  file,        \* the state file: a state, Partial or Absent
  watching,    \* the inotify watch is on the file
  events,      \* the events it has delivered
  missed,      \* ghost: the file changed, and no event will tell
  pc,          \* where Run is
  adding,      \* watcher.Add follows this reconcile
  state,       \* Controller.state
  forwarders,  \* Controller.forwarders
  target,      \* the internal port each socat child connects to
  alive,       \* socat children that exist
  killed,      \* those Kill was called on
  reaper,      \* children whose reaper waits for them
  notify,      \* children whose reaper is about to signal retryCh
  timer,       \* children whose success-threshold timer runs
  backoff,     \* Controller.retryBackoff (0: no entry)
  retryCh, wake, \* Controller.retryCh and reconcileCh
  timers,      \* retry timers that have not fired
  mappings,    \* Controller.mappings
  gateway,     \* the router's mappings (0: none)
  faults, deaths, writes

fvars == <<file, watching, events, missed>>
procs == <<forwarders, target, alive, killed, reaper, notify, timer>>
retry == <<backoff, retryCh, wake, timers>>
upnp == <<mappings, gateway>>
count == <<faults, deaths, writes>>
vars == <<fvars, pc, adding, state, procs, retry, upnp, count, cvars>>

Busy == alive \cup reaper \cup notify \cup timer

TypeOK ==
  /\ CaddyTypeOK
  /\ file \in Desired \cup {Partial, Absent}
  /\ watching \in BOOLEAN
  /\ events \subseteq {"write", "remove"}
  /\ missed \in BOOLEAN
  /\ pc \in {"boot", "caddy", "reloading", "watch", "select", "stopped"}
  /\ adding \in BOOLEAN
  /\ state \in Desired \cup {Empty}
  /\ forwarders \in [Port -> Proc \cup {None}]
  /\ target \in [Proc -> Nat]
  /\ alive \subseteq Proc
  /\ killed \subseteq Proc
  /\ reaper \subseteq Proc
  /\ notify \subseteq Proc
  /\ timer \subseteq Proc
  /\ backoff \in [Port -> 0 .. MaxDelay]
  /\ retryCh \in Seq(Port) /\ Len(retryCh) <= RetryCap
  /\ wake \in BOOLEAN
  /\ timers \in Nat
  /\ mappings \in [Port -> PortConfig \cup {None}]
  /\ gateway \in [Port -> Nat \cup {None}]
  /\ faults \in 0 .. MaxFaults
  /\ deaths \in 0 .. MaxDeaths
  /\ writes \in 0 .. MaxWrites

Init ==
  /\ CaddyInit
  /\ file \in Desired
  /\ watching = FALSE
  /\ events = {}
  /\ missed = FALSE
  /\ pc = "boot"
  /\ adding = FALSE
  /\ state = Empty
  /\ forwarders = [p \in Port |-> None]
  /\ target = [x \in Proc |-> 0]
  /\ alive = {} /\ killed = {} /\ reaper = {} /\ notify = {} /\ timer = {}
  /\ backoff = [p \in Port |-> 0]
  /\ retryCh = <<>>
  /\ wake = FALSE
  /\ timers = 0
  /\ mappings = [p \in Port |-> None]
  /\ gateway = [p \in Port |-> None]
  /\ faults = 0 /\ deaths = 0 /\ writes = 0

-----------------------------------------------------------------------------
(* reconcile *)

(* The ports served by socat. *)
Socat(d, p) == d[p].forward /\ ~d[p].tls

(* A forwarder that stays. *)
Keep(d, p) ==
  /\ forwarders[p] # None
  /\ Socat(d, p)
  /\ target[forwarders[p]] = d[p].int

Free(p) == {x \in {p} \X Slot : x \notin Busy}
Fresh(p) == CHOOSE x \in {p} \X Slot : x \notin Busy

(* stopForwarderLocked and startForwarderLocked; a child that cannot be     *)
(* started is only logged.  The return for an empty targetContainer is left *)
(* out: every unit starts its controller with --target-container            *)
(* (systemd/unit.go:831), and nothing sets it back to "".                   *)
Forward(d, down) ==
  LET began == {p \in Port : Socat(d, p) /\ ~Keep(d, p)} \ down
      new == {Fresh(p) : p \in began}
  IN  /\ \A p \in began : Free(p) # {}
      /\ forwarders' = [p \in Port |-> IF Keep(d, p) THEN forwarders[p]
                                       ELSE IF p \in began THEN Fresh(p) ELSE None]
      /\ target' = [x \in Proc |-> IF x \in new THEN d[x[1]].int ELSE target[x]]
      /\ alive' = alive \cup new
      /\ killed' = (killed \ new)
                     \cup {forwarders[p] : p \in {q \in Port : forwarders[q] # None /\ ~Keep(d, q)}}
      /\ reaper' = reaper \cup new
      /\ timer' = timer \cup new
      /\ UNCHANGED notify

(* UPnP maps a forwarded port to itself, a bridged one to the service's.    *)
(* The port 0 of a forwarded mapping stands for the external port.          *)
Inner(cfg) == IF cfg.forward THEN 0 ELSE cfg.int

(* Mutant: what the mapping leads to is not compared. *)
KeepMapping_FlagOnly(d, p) == mappings[p] # None /\ d[p].upnp

KeepMapping(d, p) ==
  /\ mappings[p] # None
  /\ d[p].upnp
  /\ mappings[p].forward = d[p].forward
  /\ mappings[p].int = d[p].int

(* removeUPnPMappingLocked and addUPnPMappingLocked: both note their result *)
(* whether or not the router did as it was told.                            *)
MapPorts(d, down, stuck) ==
  /\ mappings' = [p \in Port |-> IF KeepMapping(d, p) THEN mappings[p]
                                 ELSE IF d[p].upnp THEN d[p] ELSE None]
  /\ gateway' = [p \in Port |->
       IF KeepMapping(d, p) THEN gateway[p]
       ELSE IF d[p].upnp /\ p \notin down THEN Inner(d[p])
       ELSE IF mappings[p] = None \/ p \in stuck THEN gateway[p] ELSE None]

(* reconcile, up to the call of the caddy supervisor.  In the ports of down *)
(* starting a child and adding a mapping fail, in those of stuck removing   *)
(* one.                                                                     *)
Reconcile(d) ==
  /\ state' = d
  /\ pc' = "caddy"
  /\ \E down, stuck \in SUBSET Port :
       /\ down \cup stuck # {} => faults < MaxFaults
       /\ faults' = IF down \cup stuck = {} THEN faults ELSE faults + 1
       /\ Forward(d, down)
       /\ MapPorts(d, down, stuck)
  /\ UNCHANGED <<deaths, writes, cvars>>

(* The rest of reconcile; mu is held until the call has returned. *)
CaddyPhase ==
  /\ pc = "caddy"
  /\ IF Sites(state) = {}
     THEN Shutdown /\ pc' = IF adding THEN "watch" ELSE "select"
     ELSE Reload(Sites(state)) /\ pc' = "reloading"
  /\ UNCHANGED <<fvars, adding, state, procs, retry, upnp, count>>

CaddyReload ==
  /\ pc = "reloading"
  /\ ReloadStep
  /\ UNCHANGED <<fvars, pc, adding, state, procs, retry, upnp, count>>

EndReconcile ==
  /\ pc = "reloading"
  /\ Return
  /\ pc' = IF adding THEN "watch" ELSE "select"
  /\ UNCHANGED <<fvars, adding, state, procs, retry, upnp, count>>

MuFree == pc \notin {"caddy", "reloading"}

-----------------------------------------------------------------------------
(* Run *)

(* The initial state is read and reconciled before there is a watch.  With  *)
(* an unreadable file Run returns and systemd starts it again.              *)
ReadInitial ==
  /\ pc = "boot"
  /\ file \in Desired
  /\ Reconcile(file)
  /\ adding' = TRUE
  /\ missed' = FALSE
  /\ UNCHANGED <<file, watching, events, retry>>

(* watcher.Add, the first time and after a removal. *)
AddWatch ==
  /\ pc = "watch"
  /\ pc' = "select"
  /\ adding' = FALSE
  /\ watching' = (file # Absent)
  /\ UNCHANGED <<file, events, missed, state, procs, retry, upnp, count, cvars>>

(* Mutant: the events that are queued behind this one are skipped. *)
OnWrite_Debounced ==
  /\ pc = "select"
  /\ "write" \in events
  /\ events' = {}
  /\ \/ file \in Desired /\ Reconcile(file) /\ missed' = FALSE
     \/ file \notin Desired /\ UNCHANGED <<pc, missed, state, procs, upnp, count, cvars>>
  /\ UNCHANGED <<file, watching, adding, retry>>

(* A write event: the file is read again; a state that does not decode is   *)
(* only logged.                                                             *)
OnWrite ==
  /\ pc = "select"
  /\ "write" \in events
  /\ events' = events \ {"write"}
  /\ \/ file \in Desired /\ Reconcile(file) /\ missed' = FALSE
     \/ file \notin Desired /\ UNCHANGED <<pc, missed, state, procs, upnp, count, cvars>>
  /\ UNCHANGED <<file, watching, adding, retry>>

(* A remove event tears everything down; the watch went with the file. *)
OnRemove ==
  /\ pc = "select"
  /\ events = {"remove"}
  /\ events' = {}
  /\ Reconcile(Empty)
  /\ adding' = TRUE
  /\ missed' = (file # Absent)
  /\ UNCHANGED <<file, watching, retry>>

(* Mutant: the delay is not capped. *)
Doubled_NoCap(delay) == 2 * delay

Doubled(delay) == IF 2 * delay > MaxDelay THEN MaxDelay ELSE 2 * delay

(* Mutant: once the delay is at its cap, there is no further attempt. *)
OnRetry_GivesUp ==
  /\ pc = "select"
  /\ retryCh # <<>>
  /\ LET p == Head(retryCh) IN
       /\ backoff' = [backoff EXCEPT ![p] = IF @ = 0 THEN 1 ELSE Doubled(@)]
       /\ timers' = IF backoff[p] = MaxDelay THEN timers ELSE timers + 1
  /\ retryCh' = Tail(retryCh)
  /\ UNCHANGED <<wake, fvars, pc, adding, state, procs, upnp, count, cvars>>

(* A dead forwarder: a timer will ask for a reconcile. *)
OnRetry ==
  /\ pc = "select"
  /\ retryCh # <<>>
  /\ LET p == Head(retryCh) IN
       backoff' = [backoff EXCEPT ![p] = IF @ = 0 THEN 1 ELSE Doubled(@)]
  /\ retryCh' = Tail(retryCh)
  /\ timers' = timers + 1
  /\ UNCHANGED <<wake, fvars, pc, adding, state, procs, upnp, count, cvars>>

(* Mutant: the wake-up is taken and nothing is reconciled. *)
OnWake_Forgets ==
  /\ pc = "select"
  /\ wake
  /\ wake' = FALSE
  /\ UNCHANGED <<backoff, retryCh, timers, fvars, pc, adding, state, procs, upnp, count, cvars>>

OnWake ==
  /\ pc = "select"
  /\ wake
  /\ wake' = FALSE
  /\ Reconcile(state)
  /\ UNCHANGED <<backoff, retryCh, timers, fvars, adding>>

(* renewUPnP adds every mapping again; any of the calls may fail. *)
RenewUPnP ==
  /\ pc = "select"
  /\ \E down \in SUBSET Port :
       gateway' = [p \in Port |-> IF mappings[p] # None /\ p \notin down
                                  THEN Inner(mappings[p]) ELSE gateway[p]]
  /\ UNCHANGED <<mappings, fvars, pc, adding, state, procs, retry, count, cvars>>

(* ctx.Done: Shutdown. *)
ShutdownController ==
  /\ pc = "select"
  /\ pc' = "stopped"
  /\ Shutdown
  /\ \E stuck \in SUBSET Port :
       /\ stuck # {} => faults < MaxFaults
       /\ faults' = IF stuck = {} THEN faults ELSE faults + 1
       /\ gateway' = [p \in Port |-> IF mappings[p] = None \/ p \in stuck
                                     THEN gateway[p] ELSE None]
  /\ mappings' = [p \in Port |-> None]
  /\ killed' = killed \cup {forwarders[p] : p \in {q \in Port : forwarders[q] # None}}
  /\ forwarders' = [p \in Port |-> None]
  /\ UNCHANGED <<target, alive, reaper, notify, timer, fvars, adding, state, retry, deaths, writes>>

Run ==
  \/ ReadInitial \/ CaddyPhase \/ CaddyReload \/ EndReconcile \/ AddWatch
  \/ OnWrite \/ OnRemove \/ OnRetry \/ OnWake

-----------------------------------------------------------------------------
(* The goroutines of a socat child, and the retry timers *)

(* socat exits: killed, or on its own (the target does not resolve yet, the *)
(* port is taken).                                                          *)
Die(x) ==
  /\ x \in alive
  /\ alive' = alive \ {x}
  /\ \/ x \in killed /\ UNCHANGED deaths
     \/ /\ x \notin killed
        /\ deaths < MaxDeaths
        /\ deaths' = deaths + 1
  /\ UNCHANGED <<forwarders, target, killed, reaper, notify, timer, faults, writes,
                 fvars, pc, adding, state, retry, upnp, cvars>>

(* Mutant: the reaper deletes the port's entry, whoever's it is. *)
Reap_Any(x) ==
  /\ x \in reaper \ alive
  /\ MuFree
  /\ reaper' = reaper \ {x}
  /\ IF forwarders[x[1]] # None
     THEN /\ forwarders' = [forwarders EXCEPT ![x[1]] = None]
          /\ notify' = notify \cup {x}
     ELSE UNCHANGED <<forwarders, notify>>
  /\ UNCHANGED <<target, alive, killed, timer, fvars, pc, adding, state, retry, upnp, count, cvars>>

(* The reaper: a child that is still its port's forwarder died unexpectedly. *)
Reap(x) ==
  /\ x \in reaper \ alive
  /\ MuFree
  /\ reaper' = reaper \ {x}
  /\ IF forwarders[x[1]] = x
     THEN /\ forwarders' = [forwarders EXCEPT ![x[1]] = None]
          /\ notify' = notify \cup {x}
     ELSE UNCHANGED <<forwarders, notify>>
  /\ UNCHANGED <<target, alive, killed, timer, fvars, pc, adding, state, retry, upnp, count, cvars>>

(* The signal is dropped when retryCh is full. *)
Notify(x) ==
  /\ x \in notify
  /\ notify' = notify \ {x}
  /\ retryCh' = IF Len(retryCh) < RetryCap THEN Append(retryCh, x[1]) ELSE retryCh
  /\ UNCHANGED <<forwarders, target, alive, killed, reaper, timer, backoff, wake, timers,
                 fvars, pc, adding, state, upnp, count, cvars>>

(* The success threshold has passed. *)
ResetBackoff(x) ==
  /\ x \in timer
  /\ MuFree
  /\ timer' = timer \ {x}
  /\ backoff' = [backoff EXCEPT ![x[1]] = IF forwarders[x[1]] = x THEN 0 ELSE @]
  /\ UNCHANGED <<forwarders, target, alive, killed, reaper, notify, retryCh, wake, timers,
                 fvars, pc, adding, state, upnp, count, cvars>>

(* A retry timer fires; a wake-up that is pending already is enough. *)
RetryTimer ==
  /\ timers > 0
  /\ timers' = timers - 1
  /\ wake' = TRUE
  /\ UNCHANGED <<backoff, retryCh, fvars, pc, adding, state, procs, upnp, count, cvars>>

Goroutines == (\E x \in Proc : Reap(x) \/ Notify(x) \/ ResetBackoff(x)) \/ RetryTimer

CaddyEnv ==
  /\ \E ch \in Child : Exit(ch) \/ ReapChild(ch)
  /\ UNCHANGED <<fvars, pc, adding, state, procs, retry, upnp, count>>

-----------------------------------------------------------------------------
(* The state file, written by the system controller *)

(* An event, if the watch is there to see it. *)
Raise(e) ==
  /\ events' = IF watching THEN events \cup {e} ELSE events
  /\ missed' = ~watching

(* os.WriteFile truncates, or creates, the file and then fills it. *)
BeginWrite ==
  /\ file # Partial
  /\ writes < MaxWrites
  /\ writes' = writes + 1
  /\ file' = Partial
  /\ Raise("write")
  /\ UNCHANGED <<watching, pc, adding, state, procs, retry, upnp, faults, deaths, cvars>>

FinishWrite ==
  /\ file = Partial
  /\ file' \in Desired
  /\ Raise("write")
  /\ UNCHANGED <<watching, writes, pc, adding, state, procs, retry, upnp, faults, deaths, cvars>>

(* removePackageNetworkState; the watch goes with the file.  (Before there  *)
(* is a first watch, a removal makes Run return: systemd starts it again.)  *)
RemoveFile ==
  /\ file \in Desired
  /\ watching \/ pc = "select"
  /\ writes < MaxWrites
  /\ writes' = writes + 1
  /\ file' = Absent
  /\ Raise("remove")
  /\ watching' = FALSE
  /\ UNCHANGED <<pc, adding, state, procs, retry, upnp, faults, deaths, cvars>>

Writer == BeginWrite \/ FinishWrite \/ RemoveFile

Next ==
  \/ Run \/ RenewUPnP \/ ShutdownController
  \/ Goroutines \/ (\E x \in Proc : Die(x))
  \/ CaddyEnv \/ Writer

Spec == Init /\ [][Next]_vars

(* Goroutines are scheduled and timers fire, the loop serves what is ready, *)
(* a reload ends at its deadline, killed processes exit and are reaped, and *)
(* a write that began ends.  Nothing is assumed of the other processes, nor *)
(* that any one goroutine is ever preferred over another.                   *)
FairSpec ==
  /\ Spec
  /\ WF_vars(Run)
  /\ WF_vars(Goroutines)
  /\ WF_vars(\E x \in killed : Die(x))
  /\ WF_vars(CaddyEnv /\ (children' # children => children \ children' \subseteq doomed))
  /\ WF_vars(FinishWrite)

-----------------------------------------------------------------------------
(* Properties *)

(* A socat child that runs and was not killed is its port's forwarder:      *)
(* reapers of earlier children, retries and state changes never leave one   *)
(* behind that holds the port and that nobody can stop.  After Shutdown     *)
(* none is left.                                                            *)
NoOrphans == \A x \in alive \ killed : forwarders[x[1]] = x

(* What runs is what the last reconcile was asked for: a forwarder belongs  *)
(* to a plain forwarded port and leads to its internal port, and without a  *)
(* failing UPnP call the router maps exactly the ports that ask for it, to  *)
(* the right port.                                                          *)
AppliesState ==
  pc # "stopped" =>
    \A p \in Port :
      /\ forwarders[p] # None =>
           Socat(state, p) /\ target[forwarders[p]] = state[p].int
      /\ faults = 0 => gateway[p] = IF state[p].upnp THEN Inner(state[p]) ELSE None

(* A port that should have a forwarder and has none will be seen to: a      *)
(* reaper is about to signal, a signal or a timer or a wake-up is pending.  *)
(* The sends on retryCh and reconcileCh drop what does not fit, so this is  *)
(* the claim that nothing dropped was needed.                               *)
NoLostWakeup ==
  pc \notin {"boot", "stopped"} /\ faults = 0 =>
    \A p \in Port :
      Socat(state, p) /\ forwarders[p] = None =>
        notify # {} \/ retryCh # <<>> \/ timers > 0 \/ wake

(* When the loop is idle and no event is pending, it has applied what is in *)
(* the file, although it may have read the file half-written; except for a  *)
(* change that came while there was no watch.                               *)
FollowsFile ==
  pc = "select" /\ events = {} /\ ~missed =>
    /\ file \in Desired => state = file
    /\ file = Absent => state = Empty

(* A dead forwarder is replaced.                                            *)
DeadIsReplaced ==
  \A p \in Port :
    Socat(state, p) /\ forwarders[p] = None ~>
      forwarders[p] # None \/ ~Socat(state, p) \/ faults > 0 \/ pc = "stopped"
=============================================================================
