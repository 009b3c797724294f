-------------------------- MODULE PackageLifecycle --------------------------
(***************************************************************************)
(* The life of an installed package: install, upgrade, reinstall, disable, *)
(* enable, uninstall and purge (controller_install.go,                     *)
(* controller_install_volumes.go, controller_package_installed.go), the    *)
(* install records they keep (packages/install.go), the systemd units and  *)
(* the btrfs subvolumes they drive, and the boot that rebuilds the runtime *)
(* state from the records (reconcile.go, freshness.go, boot.go).           *)
(*                                                                         *)
(* Handlers are goroutines: one step of a handler is one call that changes *)
(* the disk, systemd or the records, so a crash, a lost client or another  *)
(* handler can come between any two of them.  Requests for one package are *)
(* serialised by lockPackage; starting and stopping a unit through the     *)
(* unit API is not.  Boot runs alone: the full router is only swapped in   *)
(* once it is over.                                                        *)
(*                                                                         *)
(* A package has one volume, declared by every version.  Its contents are  *)
(* a set of tokens, one per write by a running service.  Versions are      *)
(* numbers: CompareVersions and the directory order agree on them.         *)
(***************************************************************************)
EXTENDS Naturals, FiniteSets

CONSTANTS
  Pkg,        \* effective package names ("repo/name" or "repo/name-instance")
  Instances,  \* those installed with an instance suffix
  MaxVer,     \* versions are 1 .. MaxVer
  Req,        \* concurrent HTTP requests
  Ops,        \* what the clients and the machine do in this instance
  Overlap,    \* pairs <<u, w>>: the file glob for u also matches w's file
  MaxWrites,  \* writes by services
  MaxFaults,  \* storage, registry or bus calls that fail
  MaxCrash,   \* crashes and reboots
  MaxUpdates, \* restarts into a new controller image
  NoReq       \* the holder of a free lock

Ver == 1 .. MaxVer
Unit == Pkg \X Ver
Area == {"installed", "uninstalled"}
Subvol == Area \X Pkg \X Ver
Token == 1 .. MaxWrites

AllOps == {"install", "reuse", "uninstall", "keep", "disable", "enable",
           "purge", "purgeUninstalled", "unitStart", "unitStop", "refresh",
           "disconnect", "reboot"}

ASSUME LifecycleAssumption ==
  /\ Instances \subseteq Pkg
  /\ MaxVer \in Nat \ {0}
  /\ Ops \subseteq AllOps
  /\ Overlap \subseteq Unit \X Unit
  /\ {MaxWrites, MaxFaults, MaxCrash, MaxUpdates} \subseteq Nat
  /\ NoReq \notin Req

VARIABLES
  records,   \* installed/<repo>/<pkg>/<version>.yaml
  disabled,  \* packages with the "disabled" marker file
  unit,      \* unit files in /etc/systemd/system
  running,   \* services systemd has active
  stale,     \* ghost: running since before the last refresh or new image
  undeleted, \* ghost: unit files whose removal failed
  taken,     \* ghost: unit files removed for another unit's glob
  loose,     \* ghost: services a removal of their unit missed
  subvols,   \* the package subvolumes that exist
  data,      \* what each subvolume holds
  written,   \* how many writes there were
  purged,    \* ghost: the writes deleted by an explicit purge
  mine,      \* ghost: the writes of each package's current installation
  split,     \* ghost: packages a process that died left with two records
  lock,      \* packageMu: who holds each package's mutex
  req,       \* the request each goroutine serves
  pc,        \* the next step of its handler
  active,    \* activeVersion of an install (0: none)
  names,     \* unitNames: the unit files it still has to remove
  gone,      \* requests whose client has disconnected
  phase,     \* the boot stage, or "serving"
  todo,      \* what is left of this stage
  pending,   \* pendingStarts of Reconcile
  booted,    \* changedUnits.allServices of Reconcile
  updating,  \* the image differs from the one in the version file
  marker,    \* the restart-pending marker file exists
  restart,   \* the controller's delayed restart of itself
  crashes, faults, updates

meta == <<records, disabled>>
sysd == <<unit, running, stale, undeleted, taken, loose>>
disk == <<subvols, data, purged>>
ghost == <<written, mine, split>>
ctl == <<lock, req, pc, active, names, gone>>
boot == <<phase, todo, pending, booted, updating, marker, restart>>
cnt == <<crashes, faults, updates>>
vars == <<meta, sysd, disk, ghost, ctl, boot, cnt>>

-----------------------------------------------------------------------------
(* Requests and handler steps *)

Idle == [op |-> "none", pkg |-> NoReq, ver |-> 0, flag |-> FALSE]

(* flag is reuse_volumes of an install and purge_volumes of an uninstall. *)
Request ==
  {q \in [op : {"install", "uninstall"}, pkg : Pkg, ver : Ver, flag : BOOLEAN] :
     /\ q.op \in Ops
     /\ q.op = "install" /\ q.flag => "reuse" \in Ops
     /\ q.op = "uninstall" /\ ~q.flag => "keep" \in Ops}
  \cup {[op |-> o, pkg |-> p, ver |-> 0, flag |-> FALSE] :
          o \in Ops \cap {"disable", "enable", "purge", "purgeUninstalled"},
          p \in Pkg}

Step == {"idle", "lock", "list", "stop", "unlink", "migrate", "provision", "save",
         "drop", "units", "start", "unrecord", "volumes", "mark", "halt",
         "purgeInstalled", "purgeUninstalled"}

Phase == {"reconcile", "starts", "restarts", "freshness", "serving"}

(* Nothing scheduled; scheduled; or a call that serves the marker failed and *)
(* was only logged, so that the marker waits for the next start.             *)
Restart == {"none", "due", "missed"}

MetaOK == records \in [Pkg -> SUBSET Ver] /\ disabled \subseteq Pkg

SystemdOK ==
  /\ unit \subseteq Unit
  /\ running \subseteq Unit
  /\ stale \subseteq running
  /\ undeleted \subseteq Unit
  /\ taken \subseteq Unit
  /\ loose \subseteq Unit

DiskOK ==
  /\ subvols \subseteq Subvol
  /\ data \in [Subvol -> SUBSET Token]
  /\ purged \subseteq Token

GhostOK == written \in 0 .. MaxWrites /\ mine \in [Pkg -> SUBSET Token] /\ split \subseteq Pkg

RequestsOK ==
  /\ lock \in [Pkg -> Req \cup {NoReq}]
  /\ req \in [Req -> [op : AllOps \cup {"none"}, pkg : Pkg \cup {NoReq},
                      ver : 0 .. MaxVer, flag : BOOLEAN]]
  /\ pc \in [Req -> Step]
  /\ active \in [Req -> 0 .. MaxVer]
  /\ names \in [Req -> SUBSET Unit]
  /\ gone \subseteq Req

BootOK ==
  /\ phase \in Phase
  /\ todo \subseteq Unit
  /\ pending \subseteq Unit
  /\ booted \subseteq Unit
  /\ updating \in BOOLEAN
  /\ marker \in BOOLEAN
  /\ restart \in Restart

CountersOK ==
  /\ crashes \in 0 .. MaxCrash
  /\ faults \in 0 .. MaxFaults
  /\ updates \in 0 .. MaxUpdates

TypeOK ==
  MetaOK /\ SystemdOK /\ DiskOK /\ GhostOK /\ RequestsOK /\ BootOK /\ CountersOK

Init ==
  /\ records = [p \in Pkg |-> {}]
  /\ disabled = {}
  /\ unit = {} /\ running = {} /\ stale = {}
  /\ undeleted = {} /\ taken = {} /\ loose = {}
  /\ subvols = {}
  /\ data = [s \in Subvol |-> {}]
  /\ written = 0
  /\ purged = {}
  /\ mine = [p \in Pkg |-> {}]
  /\ split = {}
  /\ lock = [p \in Pkg |-> NoReq]
  /\ req = [r \in Req |-> Idle]
  /\ pc = [r \in Req |-> "idle"]
  /\ active = [r \in Req |-> 0]
  /\ names = [r \in Req |-> {}]
  /\ gone = {}
  /\ phase = "reconcile"
  /\ todo = {} /\ pending = {} /\ booted = {}
  /\ updating = FALSE
  /\ marker = FALSE
  /\ restart = "none"
  /\ crashes = 0 /\ faults = 0 /\ updates = 0

Goto(r, step) ==
  /\ pc' = [pc EXCEPT ![r] = step]
  /\ UNCHANGED <<lock, req, active, names, gone>>

(* Every return, with or without an error, runs the deferred unlock. *)
Finish(r) ==
  /\ pc' = [pc EXCEPT ![r] = "idle"]
  /\ lock' = [lock EXCEPT ![req[r].pkg] = NoReq]
  /\ req' = [req EXCEPT ![r] = Idle]
  /\ active' = [active EXCEPT ![r] = 0]
  /\ names' = [names EXCEPT ![r] = {}]
  /\ gone' = gone \ {r}

Fault ==
  /\ faults < MaxFaults
  /\ faults' = faults + 1
  /\ UNCHANGED <<crashes, updates>>

-----------------------------------------------------------------------------
(* What the handlers call: install records, units, subvolumes *)

Least(S) == CHOOSE v \in S : \A w \in S : v <= w

(* The first .yaml of the package's directory, 0 when there is none. *)
GetInstalledVersion(p) == IF records[p] = {} THEN 0 ELSE Least(records[p])

(* Mutant: the glob leaves the version out. *)
ListPackageUnitFiles_AnyVersion(u) == {w \in unit : w[1] = u[1] \/ <<u, w>> \in Overlap}

(* The files ListPackageUnitFiles' prefix glob finds. *)
ListPackageUnitFiles(u) == {w \in unit : w = u \/ <<u, w>> \in Overlap}

(* The name the loop of uninstallPackageUnits is at. *)
Current(r) == CHOOSE u \in names[r] : TRUE

(* A handler has stopped u and is about to remove its file. *)
Unlinking(u) == \E r \in Req : pc[r] = "unlink" /\ Current(r) = u

SetStart(u) ==
  /\ running' = running \cup ({u} \cap unit)
  /\ loose' = IF Unlinking(u) THEN loose \cup ({u} \cap unit) ELSE loose
  /\ UNCHANGED <<unit, stale, undeleted, taken>>

SetRestart(u) ==
  /\ running' = running \cup ({u} \cap unit)
  /\ stale' = stale \ ({u} \cap unit)
  /\ UNCHANGED <<unit, undeleted, taken, loose>>

SetStop(U) ==
  /\ running' = running \ U
  /\ stale' = stale \ U
  /\ loose' = loose \ U
  /\ UNCHANGED <<unit, undeleted, taken>>

(* InstallUnit: the file is there from now on. *)
WriteUnit(u) ==
  /\ unit' = unit \cup {u}
  /\ undeleted' = undeleted \ {u}
  /\ taken' = taken \ {u}
  /\ UNCHANGED <<running, stale, loose>>

Tree(a, p) == {a} \X {p} \X Ver

(* Mutant: the move replaces a destination that exists. *)
RenameFilesystem_Replaces(from) ==
  LET dst == DOMAIN from
      src == {from[d] : d \in dst}
  IN  IF src \cap subvols = {}
      THEN UNCHANGED disk
      ELSE /\ subvols' = (subvols \ (src \cup dst)) \cup {d \in dst : from[d] \in subvols}
           /\ data' = [s \in Subvol |-> IF s \in dst THEN data[from[s]]
                                        ELSE IF s \in src THEN {} ELSE data[s]]
           /\ UNCHANGED purged

(* os.Rename of the subvolumes from[d] to d: it fails, and changes nothing,  *)
(* when there is no source or when the destination is a subvolume already.   *)
RenameFilesystem(from) ==
  LET dst == DOMAIN from
      src == {from[d] : d \in dst}
  IN  IF src \cap subvols = {} \/ dst \cap subvols # {}
      THEN UNCHANGED disk
      ELSE /\ subvols' = (subvols \ src) \cup {d \in dst : from[d] \in subvols}
           /\ data' = [s \in Subvol |-> IF s \in dst THEN data[from[s]]
                                        ELSE IF s \in src THEN {} ELSE data[s]]
           /\ UNCHANGED purged

MoveTree(p, a, b) == [d \in Tree(b, p) |-> <<a, p, d[3]>>]

MoveVolume(p, old, new) ==
  [d \in {<<"installed", p, new>>} |-> <<"installed", p, old>>]

(* CreateFilesystem, or ModifyFilesystem (a quota change) when it exists. *)
CreateFilesystem(u) ==
  /\ subvols' = subvols \cup {<<"installed", u[1], u[2]>>}
  /\ UNCHANGED <<data, purged>>

PurgePrefix(S) ==
  /\ subvols' = subvols \ S
  /\ data' = [s \in Subvol |-> IF s \in S THEN {} ELSE data[s]]
  /\ purged' = purged \cup UNION {data[s] : s \in S}

-----------------------------------------------------------------------------
(* Handlers *)

Target(r) == <<req[r].pkg, req[r].ver>>

Dispatch(r) ==
  /\ phase = "serving"
  /\ pc[r] = "idle"
  /\ \E q \in Request : req' = [req EXCEPT ![r] = q]
  /\ pc' = [pc EXCEPT ![r] = "lock"]
  /\ UNCHANGED <<lock, active, names, gone, meta, sysd, disk, ghost, boot, cnt>>

(* The client closes the connection: the request's context is cancelled. *)
Disconnect(r) ==
  /\ "disconnect" \in Ops
  /\ pc[r] # "idle"
  /\ gone' = gone \cup {r}
  /\ UNCHANGED <<lock, req, pc, active, names, meta, sysd, disk, ghost, boot, cnt>>

(* Mutant: an uninstall removes the record before the units. *)
FirstStep_RecordFirst(q, v) ==
  IF q.op = "install" /\ v = 0 THEN "provision"
  ELSE IF q.op = "install" THEN "list"
  ELSE IF q.op = "uninstall" THEN "unrecord"
  ELSE IF q.op \in {"disable", "enable"} THEN "mark"
  ELSE IF q.op = "purge" THEN "purgeInstalled" ELSE "purgeUninstalled"

FirstStep(q, v) ==
  IF q.op = "install" /\ v = 0 THEN "provision"
  ELSE IF q.op \in {"install", "uninstall"} THEN "list"
  ELSE IF q.op \in {"disable", "enable"} THEN "mark"
  ELSE IF q.op = "purge" THEN "purgeInstalled" ELSE "purgeUninstalled"

(* Mutant: the mutex is taken without waiting for it. *)
LockPackage_NoWait(r) ==
  LET p == req[r].pkg
      v == IF req[r].op = "install" THEN GetInstalledVersion(p) ELSE 0
  IN  /\ pc[r] = "lock"
      /\ lock' = [lock EXCEPT ![p] = r]
      /\ active' = [active EXCEPT ![r] = v]
      /\ pc' = [pc EXCEPT ![r] = FirstStep(req[r], v)]
      /\ UNCHANGED <<req, names, gone, meta, sysd, disk, ghost, boot, cnt>>

(* Mutant: only the version asked for is looked up as the active one. *)
LockPackage_SameVersion(r) ==
  LET p == req[r].pkg
      v == IF req[r].op = "install" /\ req[r].ver \in records[p] THEN req[r].ver ELSE 0
  IN  /\ pc[r] = "lock"
      /\ lock[p] = NoReq
      /\ lock' = [lock EXCEPT ![p] = r]
      /\ active' = [active EXCEPT ![r] = v]
      /\ pc' = [pc EXCEPT ![r] = FirstStep(req[r], v)]
      /\ UNCHANGED <<req, names, gone, meta, sysd, disk, ghost, boot, cnt>>

(* lockPackage; an install then looks up the active version. *)
LockPackage(r) ==
  LET p == req[r].pkg
      v == IF req[r].op = "install" THEN GetInstalledVersion(p) ELSE 0
  IN  /\ pc[r] = "lock"
      /\ lock[p] = NoReq
      /\ lock' = [lock EXCEPT ![p] = r]
      /\ active' = [active EXCEPT ![r] = v]
      /\ pc' = [pc EXCEPT ![r] = FirstStep(req[r], v)]
      /\ UNCHANGED <<req, names, gone, meta, sysd, disk, ghost, boot, cnt>>

(* The version whose units a handler takes away. *)
Retiring(r) ==
  <<req[r].pkg, IF req[r].op = "install" THEN active[r] ELSE req[r].ver>>

AfterUnits(r) == IF req[r].op = "install" THEN "migrate" ELSE "unrecord"

(* uninstallPackageUnits looks its unit files up once, by the glob. *)
ListUnits(r) ==
  LET found == ListPackageUnitFiles(Retiring(r)) IN
  /\ pc[r] = "list"
  /\ names' = [names EXCEPT ![r] = found]
  /\ pc' = [pc EXCEPT ![r] = IF found = {} THEN AfterUnits(r) ELSE "stop"]
  /\ UNCHANGED <<lock, req, active, gone, meta, sysd, disk, ghost, boot, cnt>>

(* Mutant: the units are removed without being stopped. *)
StopCurrent_NoStop(r) ==
  /\ pc[r] = "stop"
  /\ Goto(r, "unlink")
  /\ UNCHANGED <<sysd, meta, disk, ghost, boot, cnt>>

(* The loop over the names stops a unit: a stop that fails, or whose context *)
(* is cancelled, is only logged and the service runs on.                     *)
StopCurrent(r) ==
  /\ pc[r] = "stop"
  /\ Goto(r, "unlink")
  /\ \/ r \notin gone /\ SetStop({Current(r)}) /\ UNCHANGED cnt
     \/ /\ \/ r \in gone /\ UNCHANGED cnt
           \/ r \notin gone /\ Fault
        /\ loose' = loose \cup ({Current(r)} \cap running)
        /\ UNCHANGED <<unit, running, stale, undeleted, taken>>
  /\ UNCHANGED <<meta, disk, ghost, boot>>

(* Then it removes its file, reload or no reload: an os.Remove that fails is *)
(* only logged too, and the handler goes on with the next name.              *)
UninstallUnit(r) ==
  LET u == Current(r)
      left == names[r] \ {u}
  IN  /\ pc[r] = "unlink"
      /\ names' = [names EXCEPT ![r] = left]
      /\ pc' = [pc EXCEPT ![r] = IF left = {} THEN AfterUnits(r) ELSE "stop"]
      /\ \/ /\ unit' = unit \ {u}
            /\ undeleted' = undeleted \ {u}
            /\ taken' = IF <<Retiring(r), u>> \in Overlap THEN taken \cup ({u} \cap unit)
                        ELSE taken
            /\ UNCHANGED <<running, stale, loose, cnt>>
         \/ /\ Fault
            /\ undeleted' = undeleted \cup ({u} \cap unit)
            /\ UNCHANGED <<unit, running, stale, taken, loose>>
      /\ UNCHANGED <<lock, req, active, gone, meta, disk, ghost, boot>>

(* inst.Uninstall: the record, and the disabled marker with it. *)
RemoveRecord(p, v) ==
  /\ records' = [records EXCEPT ![p] = @ \ {v}]
  /\ disabled' = disabled \ {p}

(* inst.Uninstall that fails half-way: the record is gone already. *)
HalfRemoved(p, v) ==
  /\ records' = [records EXCEPT ![p] = @ \ {v}]
  /\ disabled' \in {disabled, disabled \ {p}}

(* Mutant: an upgrade leaves the volume with the old version. *)
PrepareActiveVersion_NoMove(r) ==
  LET p == req[r].pkg IN
  /\ pc[r] = "migrate"
  /\ Goto(r, "provision")
  /\ IF active[r] = req[r].ver THEN RemoveRecord(p, active[r]) ELSE UNCHANGED meta
  /\ UNCHANGED <<disk, cnt, sysd, ghost, boot>>

(* The rest of prepareActiveVersion: the same version gives up its record, *)
(* another version hands its volume over; a failed move is only logged.    *)
PrepareActiveVersion(r) ==
  LET p == req[r].pkg IN
  /\ pc[r] = "migrate"
  /\ Goto(r, "provision")
  /\ IF active[r] = req[r].ver
     THEN RemoveRecord(p, active[r]) /\ UNCHANGED <<disk, cnt>>
     ELSE /\ UNCHANGED meta
          /\ \/ RenameFilesystem(MoveVolume(p, active[r], req[r].ver)) /\ UNCHANGED cnt
             \/ Fault /\ UNCHANGED disk
  /\ UNCHANGED <<sysd, ghost, boot>>

(* provisionVolumes: reuse brings the whole tree back from uninstalled/; a *)
(* failed move is only logged.                                             *)
ReuseVolumes(r) ==
  /\ pc[r] = "provision"
  /\ req[r].flag
  /\ \/ RenameFilesystem(MoveTree(req[r].pkg, "uninstalled", "installed")) /\ UNCHANGED cnt
     \/ Fault /\ UNCHANGED disk
  /\ req' = [req EXCEPT ![r].flag = FALSE]
  /\ UNCHANGED <<lock, pc, active, names, gone, meta, sysd, ghost, boot>>

ProvisionVolumes(r) ==
  /\ pc[r] = "provision"
  /\ ~req[r].flag
  /\ Goto(r, "save")
  /\ CreateFilesystem(Target(r))
  /\ UNCHANGED <<meta, sysd, ghost, boot, cnt>>

(* inst.Install: ErrAlreadyInstalled ends the request. *)
SaveInstall(r) ==
  LET p == req[r].pkg IN
  /\ pc[r] = "save"
  /\ IF req[r].ver \in records[p]
     THEN Finish(r) /\ UNCHANGED <<meta, mine>>
     ELSE /\ records' = [records EXCEPT ![p] = @ \cup {req[r].ver}]
          /\ mine' = IF active[r] = 0 THEN [mine EXCEPT ![p] = {}] ELSE mine
          /\ Goto(r, IF active[r] \in {0, req[r].ver} THEN "units" ELSE "drop")
          /\ UNCHANGED disabled
  /\ UNCHANGED <<written, split, sysd, disk, boot, cnt>>

(* The record of the version an upgrade replaces: an error is only logged. *)
DropOldRecord(r) ==
  /\ pc[r] = "drop"
  /\ Goto(r, "units")
  /\ \/ RemoveRecord(req[r].pkg, active[r]) /\ UNCHANGED cnt
     \/ /\ UNCHANGED meta \/ HalfRemoved(req[r].pkg, active[r])
        /\ Fault
  /\ UNCHANGED <<sysd, disk, ghost, boot>>

(* installPackageUnits: with the context cancelled the file is written, the *)
(* reload fails and the request ends.                                       *)
InstallUnits(r) ==
  /\ pc[r] = "units"
  /\ WriteUnit(Target(r))
  /\ IF r \in gone THEN Finish(r) ELSE Goto(r, "start")
  /\ UNCHANGED <<meta, disk, ghost, boot, cnt>>

(* A start that fails does not fail the install. *)
StartUnit(r) ==
  LET p == req[r].pkg
      u == IF req[r].op = "install" THEN Target(r) ELSE <<p, GetInstalledVersion(p)>>
  IN  /\ pc[r] = "start"
      /\ Finish(r)
      /\ \/ r \notin gone /\ SetStart(u) /\ UNCHANGED cnt
         \/ r \in gone /\ UNCHANGED <<sysd, cnt>>
         \/ r \notin gone /\ Fault /\ UNCHANGED sysd
      /\ UNCHANGED <<meta, disk, ghost, boot>>

(* Mutant: the error for a version that is not installed keeps the lock. *)
RemoveInstall_NoUnlock(r) ==
  LET p == req[r].pkg IN
  /\ pc[r] = "unrecord"
  /\ IF req[r].ver \in records[p]
     THEN /\ RemoveRecord(p, req[r].ver)
          /\ Goto(r, IF req[r].flag THEN "purgeInstalled" ELSE "volumes")
     ELSE /\ disabled' = disabled \ {p}
          /\ Goto(r, "idle")
          /\ UNCHANGED records
  /\ UNCHANGED <<sysd, disk, ghost, boot, cnt>>

(* uninstallPackage: SetDisabled(false), then inst.Uninstall, which fails on *)
(* a version that is not installed.                                          *)
RemoveInstall(r) ==
  LET p == req[r].pkg IN
  /\ pc[r] = "unrecord"
  /\ IF req[r].ver \in records[p]
     THEN /\ RemoveRecord(p, req[r].ver)
          /\ Goto(r, IF req[r].flag THEN "purgeInstalled" ELSE "volumes")
     ELSE /\ disabled' = disabled \ {p}
          /\ Finish(r)
          /\ UNCHANGED records
  /\ UNCHANGED <<sysd, disk, ghost, boot, cnt>>

(* Without a purge, the tree moves to uninstalled/ with the last version. *)
KeepVolumes(r) ==
  LET p == req[r].pkg IN
  /\ pc[r] = "volumes"
  /\ Finish(r)
  /\ \/ records[p] = {} /\ RenameFilesystem(MoveTree(p, "installed", "uninstalled"))
                        /\ UNCHANGED cnt
     \/ records[p] # {} /\ UNCHANGED <<disk, cnt>>
     \/ Fault /\ UNCHANGED disk
  /\ UNCHANGED <<meta, sysd, ghost, boot>>

(* purgePackageVolumes deletes installed/ first, then uninstalled/. *)
PurgeInstalled(r) ==
  LET p == req[r].pkg IN
  /\ pc[r] = "purgeInstalled"
  /\ Goto(r, "purgeUninstalled")
  /\ PurgePrefix(Tree("installed", p))
  /\ UNCHANGED <<meta, sysd, ghost, boot, cnt>>

PurgeUninstalled(r) ==
  LET p == req[r].pkg IN
  /\ pc[r] = "purgeUninstalled"
  /\ Finish(r)
  /\ PurgePrefix(Tree("uninstalled", p))
  /\ UNCHANGED <<meta, sysd, ghost, boot, cnt>>

(* disablePackage and enablePackage do not ask whether it is installed. *)
SetDisabled(r) ==
  LET p == req[r].pkg IN
  /\ pc[r] = "mark"
  /\ disabled' = IF req[r].op = "disable" THEN disabled \cup {p} ELSE disabled \ {p}
  /\ IF records[p] = {} THEN Finish(r)
     ELSE Goto(r, IF req[r].op = "disable" THEN "halt" ELSE "start")
  /\ UNCHANGED <<records, sysd, disk, ghost, boot, cnt>>

HaltUnit(r) ==
  LET p == req[r].pkg IN
  /\ pc[r] = "halt"
  /\ Finish(r)
  /\ \/ r \notin gone /\ SetStop({<<p, GetInstalledVersion(p)>>} \cap unit) /\ UNCHANGED cnt
     \/ r \in gone /\ UNCHANGED <<sysd, cnt>>
     \/ r \notin gone /\ Fault /\ UNCHANGED sysd
  /\ UNCHANGED <<meta, disk, ghost, boot>>

(* The steps an error returns from: an unknown network, a package that does *)
(* not compile, a quota, dependency, image, network-state, registry or bus   *)
(* error.                                                                    *)
MayFail == {"list", "migrate", "provision", "save", "units", "unrecord", "mark",
            "purgeInstalled", "purgeUninstalled"}

(* What a failing call may have done before it failed: Install links the    *)
(* record before the responses, Uninstall removes it before the rest.       *)
FailMeta(r) ==
  LET p == req[r].pkg
      v == req[r].ver
  IN  \/ UNCHANGED meta
      \/ /\ pc[r] = "save"
         /\ records' = [records EXCEPT ![p] = @ \cup {v}]
         /\ UNCHANGED disabled
      \/ pc[r] = "migrate" /\ active[r] = v /\ HalfRemoved(p, v)
      \/ /\ pc[r] = "unrecord"
         /\ disabled' = disabled \ {p}
         /\ records' \in {records, [records EXCEPT ![p] = @ \ {v}]}

(* InstallUnit writes the file before it can fail. *)
FailUnit(r) ==
  \/ UNCHANGED sysd
  \/ pc[r] = "units" /\ WriteUnit(Target(r))

(* A purge stops at the first subvolume it cannot delete. *)
FailDisk(r) ==
  \/ UNCHANGED disk
  \/ \E a \in Area : \E S \in SUBSET Tree(a, req[r].pkg) :
       /\ pc[r] = IF a = "installed" THEN "purgeInstalled" ELSE "purgeUninstalled"
       /\ PurgePrefix(S)

(* An early return. *)
Fail(r) ==
  /\ pc[r] \in MayFail
  /\ Fault
  /\ Finish(r)
  /\ FailMeta(r)
  /\ FailUnit(r)
  /\ FailDisk(r)
  /\ UNCHANGED <<ghost, boot>>

(* setUnitStatus: no package lock. *)
SetUnitStatus(u) ==
  /\ phase = "serving"
  /\ u \in unit
  /\ \/ "unitStart" \in Ops /\ u \notin running /\ SetStart(u)
     \/ "unitStop" \in Ops /\ u \in running /\ SetStop({u})
  /\ UNCHANGED <<meta, disk, ghost, ctl, boot, cnt>>

(* The system-service refresh: new images are on disk, the marker asks the *)
(* next boot to restart every package (a failing write is only logged), and *)
(* a goroutine is to restart the controller.                                *)
Refresh ==
  /\ "refresh" \in Ops
  /\ phase = "serving"
  /\ \/ marker' = TRUE /\ UNCHANGED cnt
     \/ Fault /\ UNCHANGED marker
  /\ restart' = "due"
  /\ stale' = running
  /\ UNCHANGED <<phase, todo, pending, booted, updating, unit, running, undeleted,
                 taken, loose, meta, disk, ghost, ctl>>

(* A service writes to its volume. *)
Write(u) ==
  LET s == <<"installed", u[1], u[2]>> IN
  /\ u \in running \cap unit
  /\ s \in subvols
  /\ written < MaxWrites
  /\ written' = written + 1
  /\ data' = [data EXCEPT ![s] = @ \cup {written + 1}]
  /\ mine' = [mine EXCEPT ![u[1]] = @ \cup {written + 1}]
  /\ UNCHANGED <<subvols, purged, split, meta, sysd, ctl, boot, cnt>>

Handler(r) ==
  \/ ListUnits(r) \/ StopCurrent(r) \/ UninstallUnit(r) \/ PrepareActiveVersion(r)
  \/ ReuseVolumes(r) \/ ProvisionVolumes(r) \/ SaveInstall(r)
  \/ DropOldRecord(r) \/ InstallUnits(r) \/ StartUnit(r)
  \/ RemoveInstall(r) \/ KeepVolumes(r) \/ PurgeInstalled(r)
  \/ PurgeUninstalled(r) \/ SetDisabled(r) \/ HaltUnit(r) \/ Fail(r)

-----------------------------------------------------------------------------
(* Boot *)

Installed == {u \in Unit : u[2] \in records[u[1]]}

(* Mutant: a package left with two records by a crash is passed over. *)
Latest_SingleOnly == {u \in Installed : records[u[1]] = {u[2]}}

(* Reconcile keeps the highest version per package. *)
Latest == {u \in Installed : \A v \in records[u[1]] : v <= u[2]}

(* The process dies and a new one boots: everything in memory is lost. *)
NewProcess ==
  /\ lock' = [p \in Pkg |-> NoReq]
  /\ req' = [r \in Req |-> Idle]
  /\ pc' = [r \in Req |-> "idle"]
  /\ active' = [r \in Req |-> 0]
  /\ names' = [r \in Req |-> {}]
  /\ gone' = {}
  /\ phase' = "reconcile"
  /\ todo' = Latest
  /\ pending' = {} /\ booted' = {}
  /\ restart' = "none"
  /\ split' = split \cup {p \in Pkg : \E v, w \in records[p] : v # w}
  /\ UNCHANGED <<marker, meta, disk, written, mine>>

(* The image may be another one than the last process ran. *)
Image(survivors) ==
  \/ UNCHANGED <<updating, updates>> /\ stale' = stale \cap survivors
  \/ /\ updates < MaxUpdates
     /\ updates' = updates + 1
     /\ updating' = TRUE
     /\ stale' = survivors

Crash ==
  /\ crashes < MaxCrash
  /\ crashes' = crashes + 1
  /\ NewProcess
  /\ Image(running)
  /\ UNCHANGED <<unit, running, undeleted, taken, loose, faults>>

(* The delayed restart of the controller's own unit after a refresh. *)
SelfRestart ==
  /\ phase = "serving" /\ restart = "due"
  /\ NewProcess
  /\ Image(running)
  /\ UNCHANGED <<unit, running, undeleted, taken, loose, faults, crashes>>

(* It is tried once: an error is only logged. *)
SelfRestartFails ==
  /\ phase = "serving" /\ restart = "due"
  /\ Fault
  /\ restart' = "missed"
  /\ UNCHANGED <<phase, todo, pending, booted, updating, marker, meta, sysd, disk,
                 ghost, ctl>>

(* Whether unit files survive depends on the host's root filesystem. *)
Reboot ==
  /\ "reboot" \in Ops
  /\ crashes < MaxCrash
  /\ crashes' = crashes + 1
  /\ NewProcess
  /\ running' = {}
  /\ unit' \in {unit, {}}
  /\ undeleted' = undeleted \cap unit'
  /\ loose' = {}
  /\ Image({})
  /\ UNCHANGED <<taken, faults>>

(* reconcilePackage: LoadPackage looks the effective name up in the        *)
(* repository, where an instance's name is not found.                      *)
ReconcilePackage(u) ==
  /\ phase = "reconcile"
  /\ u \in todo
  /\ todo' = todo \ {u}
  /\ \/ /\ u[1] \notin Instances
        /\ CreateFilesystem(u)
        /\ WriteUnit(u)
        /\ booted' = booted \cup {u}
        /\ pending' = IF u[1] \in disabled THEN pending ELSE pending \cup {u}
        /\ UNCHANGED cnt
     \/ /\ u[1] \in Instances
        /\ UNCHANGED <<disk, sysd, booted, pending, cnt>>
     \/ Fault /\ UNCHANGED <<disk, sysd, booted, pending>>
  /\ UNCHANGED <<phase, updating, marker, restart, meta, ghost, ctl>>

(* Mutant: phase two starts all that was reconciled. *)
EndPhaseOne_StartsAll ==
  /\ phase = "reconcile" /\ todo = {}
  /\ phase' = "starts"
  /\ todo' = booted
  /\ UNCHANGED <<pending, booted, updating, marker, restart, meta, sysd, disk, ghost, ctl, cnt>>

EndPhaseOne ==
  /\ phase = "reconcile" /\ todo = {}
  /\ phase' = "starts"
  /\ todo' = pending
  /\ UNCHANGED <<pending, booted, updating, marker, restart, meta, sysd, disk, ghost, ctl, cnt>>

StartPackage(u) ==
  /\ phase = "starts"
  /\ u \in todo
  /\ todo' = todo \ {u}
  /\ \/ SetStart(u) /\ UNCHANGED cnt
     \/ Fault /\ UNCHANGED sysd
  /\ UNCHANGED <<phase, pending, booted, updating, marker, restart, meta, disk, ghost, ctl>>

(* A new version restarts every reconciled service. *)
EndPhaseTwo ==
  /\ phase = "starts" /\ todo = {}
  /\ phase' = "restarts"
  /\ todo' = IF updating THEN booted ELSE {}
  /\ UNCHANGED <<pending, booted, updating, marker, restart, meta, sysd, disk, ghost, ctl, cnt>>

RestartPackage(u) ==
  /\ phase \in {"restarts", "freshness"}
  /\ u \in todo
  /\ todo' = todo \ {u}
  /\ \/ SetRestart(u) /\ UNCHANGED cnt
     \/ Fault /\ UNCHANGED sysd
  /\ UNCHANGED <<phase, pending, booted, updating, marker, restart, meta, disk, ghost, ctl>>

(* Mutant: the marker is removed before the restarts. *)
EndReconcile_MarkerFirst ==
  /\ phase = "restarts" /\ todo = {}
  /\ updating' = FALSE
  /\ phase' = "freshness"
  /\ todo' = IF marker THEN Installed ELSE {}
  /\ marker' = FALSE
  /\ pending' = {} /\ booted' = {}
  /\ UNCHANGED <<restart, meta, sysd, disk, ghost, ctl, cnt>>

(* persistVersion, which only logs an error; then the freshness stage reads *)
(* the marker.                                                              *)
EndReconcile ==
  /\ phase = "restarts" /\ todo = {}
  /\ \/ updating' = FALSE /\ UNCHANGED cnt
     \/ Fault /\ UNCHANGED updating
  /\ phase' = "freshness"
  /\ todo' = IF marker THEN Installed ELSE {}
  /\ pending' = {} /\ booted' = {}
  /\ UNCHANGED <<marker, restart, meta, sysd, disk, ghost, ctl>>

(* The marker or the records cannot be read: no restarts, the marker stays. *)
FreshnessFails ==
  /\ phase = "freshness" /\ marker /\ todo = Installed
  /\ Fault
  /\ phase' = "serving"
  /\ todo' = {}
  /\ restart' = "missed"
  /\ UNCHANGED <<pending, booted, updating, marker, meta, sysd, disk, ghost, ctl>>

(* Mutant: the marker is left in place. *)
Serve_KeepsMarker ==
  /\ phase = "freshness" /\ todo = {}
  /\ phase' = "serving"
  /\ UNCHANGED <<marker, restart, todo, pending, booted, updating, meta, sysd, disk,
                 ghost, ctl, cnt>>

(* The marker goes only after the loop, unless its removal fails; then the  *)
(* router is swapped in.                                                    *)
Serve ==
  /\ phase = "freshness" /\ todo = {}
  /\ \/ marker' = FALSE /\ UNCHANGED <<restart, cnt>>
     \/ marker /\ Fault /\ restart' = "missed" /\ UNCHANGED marker
  /\ phase' = "serving"
  /\ UNCHANGED <<todo, pending, booted, updating, meta, sysd, disk, ghost, ctl>>

Boot ==
  \/ \E u \in Unit : ReconcilePackage(u) \/ StartPackage(u) \/ RestartPackage(u)
  \/ EndPhaseOne \/ EndPhaseTwo \/ EndReconcile \/ FreshnessFails \/ Serve

Next ==
  \/ \E r \in Req : Dispatch(r) \/ Disconnect(r) \/ LockPackage(r) \/ Handler(r)
  \/ \E u \in Unit : SetUnitStatus(u) \/ Write(u)
  \/ Boot \/ Refresh \/ SelfRestart \/ SelfRestartFails \/ Crash \/ Reboot

Spec == Init /\ [][Next]_vars

(* Goroutines are scheduled, a mutex whose holder returns is handed on, the *)
(* boot sequence runs and the delayed restart fires.  Nothing is assumed of *)
(* clients, faults or crashes.                                              *)
FairSpec ==
  /\ Spec
  /\ \A r \in Req : WF_vars(Handler(r)) /\ SF_vars(LockPackage(r))
  /\ WF_vars(Boot)
  /\ WF_vars(SelfRestart)
-----------------------------------------------------------------------------
(* Properties *)

(* lockPackage: the package's mutex is held exactly by the request that is  *)
(* past it, so at most one handler works on a package.                      *)
Serialised ==
  \A r \in Req, p \in Pkg :
    lock[p] = r <=> pc[r] \notin {"idle", "lock"} /\ req[r].pkg = p

(* At every instant, in the middle of a handler and after a crash or a       *)
(* failed call too, a unit file on disk belongs to an install record:        *)
(* installs write the record first (controller_install.go:380), uninstalls   *)
(* and upgrades remove the unit first (:549, controller_install_volumes.go:  *)
(* 160).  Only a file that os.Remove could not delete, which is logged       *)
(* (:166), outlives its record, until a later request for that version.      *)
UnitHasRecord == unit \subseteq Installed \cup undeleted

(* Which request can be at which step, and that handlers only run while the  *)
(* API serves.                                                               *)
HandlerShape ==
  \A r \in Req :
    /\ pc[r] # "idle" => phase = "serving" /\ req[r].pkg \in Pkg
    /\ req[r].op \in {"install", "uninstall"} => req[r].ver \in Ver
    /\ pc[r] \in {"list", "stop", "unlink"} =>
         req[r].op = "uninstall" \/ (req[r].op = "install" /\ active[r] \in Ver)
    /\ pc[r] \in {"migrate", "provision", "save", "drop", "units"} =>
         req[r].op = "install"
    /\ pc[r] \in {"migrate", "drop"} => active[r] \in Ver
    /\ pc[r] = "unrecord" => req[r].op = "uninstall"

(* The units of the version a handler retires are on its list until they     *)
(* are gone, and gone before its record goes, short of a file that could not *)
(* be deleted; the record of the version it installs is there before its     *)
(* units.                                                                    *)
Knows(r) ==
  /\ pc[r] \in {"stop", "unlink"} /\ Retiring(r) \in unit \ undeleted =>
       Retiring(r) \in names[r]
  /\ pc[r] \in {"migrate", "provision", "save", "drop"} =>
       <<req[r].pkg, active[r]>> \notin unit \ undeleted
  /\ pc[r] = "unrecord" => Target(r) \notin unit \ undeleted
  /\ pc[r] = "drop" => active[r] # req[r].ver
  /\ pc[r] \in {"drop", "units"} => req[r].ver \in records[req[r].pkg]

(* activeVersion is read once, right after the lock (controller_install.go:  *)
(* 260), and used until line 395.  What a handler found out about units and  *)
(* records is still true at the step that relies on it, and the boot only    *)
(* works on versions that are installed.                                     *)
HandlerKnows ==
  /\ \A r \in Req : Knows(r)
  /\ phase = "reconcile" => todo \subseteq Installed

(* A service that runs has a unit file, by which uninstallPackageUnits,      *)
(* which scans the files, can find and stop it.  Upgrades, reinstalls,       *)
(* crashes, reboots and overlapping globs never take the file of a running   *)
(* service away, except in the two windows of the loop at controller_install.*)
(* go:158: its stop failed or was cancelled and was only logged, or it was   *)
(* started, through the unit API or for another request, between its stop    *)
(* and the removal of its file.                                              *)
RunningHasUnit == running \subseteq unit \cup loose

(* controller_install.go:151: "uninstallPackageUnits stops, disables, and    *)
(* uninstalls all systemd units for a package": nothing runs on without its  *)
(* unit file.                                                                *)
NoOrphan == running \subseteq unit

(* reconcile.go:133: "only one systemd unit per repo/package-name can be     *)
(* active", whatever the requests, the starts through the unit API, the      *)
(* clients that disconnect and the crashes, as long as no call failed, no    *)
(* process died between the record of a new version and the removal of the   *)
(* old one's, and short of the services a removal missed.                    *)
OneVersionRuns ==
  faults = 0 =>
    \A u, w \in running \ loose : u[1] = w[1] /\ u[1] \notin split => u = w

(* Install, upgrade, uninstall and reinstall move subvolumes around, and all *)
(* of their moves may fail; still, whatever a service wrote is in an         *)
(* existing subvolume unless an explicit purge deleted it.                   *)
NothingLost ==
  1 .. written = purged \cup UNION {data[s] : s \in subvols}

(* controller_install_volumes.go:177-205: an upgrade hands the volume over.  *)
(* Whenever no request works on an installed package, and nothing failed or  *)
(* crashed, what it wrote since it was installed is in the volume of the     *)
(* installed version.                                                        *)
UpgradeKeepsData ==
  \A p \in Pkg :
    faults = 0 /\ crashes = 0 /\ lock[p] = NoReq /\ records[p] # {} =>
      mine[p] \ purged \subseteq data[<<"installed", p, GetInstalledVersion(p)>>]

(* A package no request works on has the unit file of every version that is  *)
(* installed, after any requests for it and for others, disconnected         *)
(* clients, crashes and reboots, if no call failed: no handler removes a     *)
(* file that its own glob does not match (systemd/manager.go:272), none ends *)
(* between the record and the unit, and the boot closes what a dying process *)
(* left open.  Instances, which the boot cannot load, and packages a process *)
(* left with two records are excepted.                                       *)
InstalledHasUnit ==
  \A p \in Pkg \ (Instances \cup split) :
    phase = "serving" /\ faults = 0 /\ lock[p] = NoReq =>
      \A v \in records[p] : <<p, v>> \in unit \cup taken

(* systemd/systemd.go:164: ListPackageUnitFiles "returns the systemd unit    *)
(* file names associated with the package", so that a unit file is removed   *)
(* only under its own package's lock.                                        *)
UnitsRemovedUnderLock ==
  [][\A u \in unit \ unit' :
       phase = "serving" /\ phase' = "serving" => lock[u[1]] # NoReq]_vars

(* Whatever state a crash left behind, when the router is swapped in every   *)
(* installed package that is not disabled runs in its latest version         *)
(* (reconcile.go:107-115), unless a call failed.                             *)
BootRestores ==
  [][phase = "freshness" /\ phase' = "serving" /\ faults = 0 =>
       \A p \in Pkg \ disabled :
         \A v \in records[p] : (\A w \in records[p] : w <= v) => <<p, v>> \in running']_vars

(* reconcile.go:110: "Disabled packages have their unit installed but are    *)
(* not started": no boot step starts one.                                    *)
BootLeavesDisabledDown ==
  [][phase # "serving" => \A u \in running' \ running : u[1] \notin disabled]_vars

(* The same for the boots that have no update to apply: neither a version    *)
(* change (reconcile.go:309) nor a restart-pending marker (freshness.go:77). *)
(* Whatever a crash, a unit started by hand or a second record left behind,  *)
(* such a boot starts no disabled package.                                   *)
PlainBootLeavesDisabledDown ==
  [][phase # "serving" /\ ~updating /\ ~marker =>
       \A u \in running' \ running : u[1] \notin disabled]_vars

(* boot.go:1025, freshness.go: once the API serves again, no service is left *)
(* running from before a refresh or an image change unless the marker that   *)
(* makes the next boot restart it is still there.  Failed calls, instances,  *)
(* which the boot cannot load, packages with two records, of which it        *)
(* restarts the latest, and services a removal missed, which have no unit to *)
(* restart, are excepted.                                                    *)
StaleHasMarker ==
  phase = "serving" /\ faults = 0 =>
    marker \/ \A u \in stale \ loose : u[1] \in Instances \cup split

(* Every request returns: the lock of a package is always released.          *)
RequestsFinish == \A r \in Req : pc[r] # "idle" ~> pc[r] = "idle"

(* freshness.go: the restart a refresh asks for is carried out and its       *)
(* marker removed, by the one delayed restart or by whatever starts the      *)
(* controller first, unless that restart, the stage or the removal of the    *)
(* marker fails, which is only logged.                                       *)
MarkerHandled == marker ~> ~marker \/ restart = "missed"
=============================================================================
