----------------------- MODULE PackageLifecycleProofs -----------------------
(* Proofs about the package lifecycle, for any set of packages, versions   *)
(* and requests and any number of faults, crashes, reboots and updates.    *)
EXTENDS PackageLifecycle, WellFoundedInduction, TLAPS

-----------------------------------------------------------------------------
(* Facts about the helpers *)

(* The order of the naturals, written without an operator argument. *)
LEMMA LessIsWellFounded ==
  IsWellFoundedOn({ss \in Nat \X Nat : ss[1] < ss[2]}, Nat)
BY NatLessThanWellFounded, Zenon DEF OpToRel

(* A package with records has a first version among them. *)
LEMMA LeastIsMember ==
  ASSUME NEW S, S \subseteq Nat, S # {}
  PROVE  Least(S) \in S
<1> DEFINE R == {ss \in Nat \X Nat : ss[1] < ss[2]}
<1>1. PICK x \in S : \A y \in S : ~ (<<y, x>> \in R)
  <2> HIDE DEF R
  <2>1. IsWellFoundedOn(R, Nat)
    BY LessIsWellFounded, Zenon DEF R
  <2> QED
    BY <2>1, WFMin
<1>2. \A y \in S : x <= y
  <2> TAKE y \in S
  <2>1. x \in Nat /\ y \in Nat
    OBVIOUS
  <2>2. ~ (y < x)
    BY <1>1, <2>1
  <2> QED
    BY <2>1, <2>2
<1> QED
  BY <1>2 DEF Least

(* The boot works on records that exist. *)
LEMMA LatestInstalled ==
  ASSUME TypeOK
  PROVE  Latest \subseteq Installed /\ Installed \subseteq Unit
BY DEF Latest, Installed, Unit, TypeOK, MetaOK

LEMMA ActiveIsRecord ==
  ASSUME TypeOK, NEW p \in Pkg
  PROVE  /\ GetInstalledVersion(p) \in 0 .. MaxVer
         /\ GetInstalledVersion(p) # 0 => GetInstalledVersion(p) \in records[p]
<1>1. records[p] \subseteq Nat /\ records[p] \subseteq Ver
  BY LifecycleAssumption DEF TypeOK, MetaOK, Ver
<1>2. CASE records[p] = {}
  BY <1>2, LifecycleAssumption DEF GetInstalledVersion
<1>3. CASE records[p] # {}
  <2>1. Least(records[p]) \in records[p]
    BY <1>1, <1>3, LeastIsMember
  <2> QED
    BY <1>1, <1>3, <2>1 DEF GetInstalledVersion, Ver
<1> QED
  BY <1>2, <1>3

LEMMA RequestType ==
  ASSUME NEW q \in Request
  PROVE  /\ q \in [op : AllOps \cup {"none"}, pkg : Pkg \cup {NoReq},
                   ver : 0 .. MaxVer, flag : BOOLEAN]
         /\ q.pkg \in Pkg
         /\ q.op \in {"install", "uninstall"} => q.ver \in Ver
<1>1. 0 \in 0 .. MaxVer /\ Ver \subseteq 0 .. MaxVer
  BY LifecycleAssumption DEF Ver
<1>2. CASE q \in [op : {"install", "uninstall"}, pkg : Pkg, ver : Ver, flag : BOOLEAN]
  BY <1>1, <1>2 DEF AllOps
<1>3. ASSUME NEW o \in Ops \cap {"disable", "enable", "purge", "purgeUninstalled"},
             NEW p \in Pkg,
             q = [op |-> o, pkg |-> p, ver |-> 0, flag |-> FALSE]
      PROVE  /\ q \in [op : AllOps \cup {"none"}, pkg : Pkg \cup {NoReq},
                        ver : 0 .. MaxVer, flag : BOOLEAN]
             /\ q.pkg \in Pkg
             /\ q.op \notin {"install", "uninstall"}
  BY <1>1, <1>3 DEF AllOps
<1> QED
  BY <1>2, <1>3 DEF Request

-----------------------------------------------------------------------------
(* Types of what the handlers call *)

LEMMA GotoType ==
  ASSUME RequestsOK, NEW r \in Req, NEW step \in Step, Goto(r, step)
  PROVE  RequestsOK'
BY DEF RequestsOK, Goto

LEMMA FinishType ==
  ASSUME RequestsOK, NEW r \in Req, Finish(r)
  PROVE  RequestsOK'
<1>1. Idle \in [op : AllOps \cup {"none"}, pkg : Pkg \cup {NoReq},
               ver : 0 .. MaxVer, flag : BOOLEAN]
      /\ 0 \in 0 .. MaxVer /\ "idle" \in Step
  BY LifecycleAssumption DEF Idle, Step
<1> QED
  BY <1>1 DEF RequestsOK, Finish

LEMMA FaultType ==
  ASSUME CountersOK, Fault
  PROVE  CountersOK'
BY LifecycleAssumption DEF CountersOK, Fault

LEMMA RenameType ==
  ASSUME DiskOK, NEW D \in SUBSET Subvol, NEW from \in [D -> Subvol],
         RenameFilesystem(from)
  PROVE  DiskOK'
BY DEF DiskOK, RenameFilesystem, disk

LEMMA CreateType ==
  ASSUME DiskOK, NEW u \in Unit, CreateFilesystem(u)
  PROVE  DiskOK'
BY DEF DiskOK, CreateFilesystem, Subvol, Area, Unit

LEMMA PurgeType ==
  ASSUME DiskOK, NEW S \in SUBSET Subvol, PurgePrefix(S)
  PROVE  DiskOK'
BY DEF DiskOK, PurgePrefix

(* The moves are between subvolumes of the package. *)
LEMMA MoveTreeType ==
  ASSUME NEW p \in Pkg, NEW a \in Area, NEW b \in Area
  PROVE  /\ Tree(b, p) \in SUBSET Subvol
         /\ MoveTree(p, a, b) \in [Tree(b, p) -> Subvol]
<1>1. Tree(b, p) \subseteq Subvol
  BY DEF Tree, Subvol
<1>2. ASSUME NEW d \in Tree(b, p) PROVE <<a, p, d[3]>> \in Subvol
  BY DEF Tree, Subvol
<1> QED
  BY <1>1, <1>2 DEF MoveTree

LEMMA MoveVolumeType ==
  ASSUME NEW p \in Pkg, NEW v \in Ver, NEW w \in Ver
  PROVE  MoveVolume(p, v, w) \in [{<<"installed", p, w>>} -> Subvol]
         /\ {<<"installed", p, w>>} \in SUBSET Subvol
BY DEF MoveVolume, Subvol, Area

LEMMA NewProcessType ==
  ASSUME TypeOK, NewProcess, CountersOK', updating' \in BOOLEAN, SystemdOK'
  PROVE  TypeOK'
<1> USE DEF TypeOK, MetaOK, DiskOK, GhostOK, BootOK
<1>1. Idle \in [op : AllOps \cup {"none"}, pkg : Pkg \cup {NoReq},
               ver : 0 .. MaxVer, flag : BOOLEAN]
      /\ 0 \in 0 .. MaxVer /\ "idle" \in Step /\ "reconcile" \in Phase
      /\ "none" \in Restart
  BY LifecycleAssumption DEF Idle, Step, Phase, Restart
<1>2. RequestsOK'
  BY <1>1 DEF NewProcess, RequestsOK
<1>3. Latest \subseteq Unit
  BY LatestInstalled
<1> QED
  BY <1>1, <1>2, <1>3 DEF NewProcess, meta, disk, ghost

(* Every step keeps the types; the handlers' arguments come from HandlerShape. *)
LEMMA TypeStep ==
  ASSUME TypeOK, HandlerShape, [Next]_vars
  PROVE  TypeOK'
<1> USE DEF TypeOK, MetaOK, SystemdOK, DiskOK, GhostOK, RequestsOK, BootOK, CountersOK
<1>1. ASSUME NEW r \in Req, Dispatch(r) PROVE TypeOK'
  <2>1. PICK q \in Request : req' = [req EXCEPT ![r] = q]
    BY <1>1 DEF Dispatch
  <2>2. "lock" \in Step
    BY DEF Step
  <2> QED
    BY <1>1, <2>1, <2>2, RequestType DEF Dispatch, meta, sysd, disk, ghost, ctl, boot, cnt
<1>2. ASSUME NEW r \in Req, Disconnect(r) PROVE TypeOK'
  BY <1>2 DEF Disconnect, meta, sysd, disk, ghost, ctl, boot, cnt
<1>3. ASSUME NEW r \in Req, LockPackage(r) PROVE TypeOK'
  <2>1. req[r].pkg \in Pkg
    BY <1>3 DEF LockPackage, HandlerShape
  <2>2. GetInstalledVersion(req[r].pkg) \in 0 .. MaxVer /\ 0 \in 0 .. MaxVer
    BY <2>1, ActiveIsRecord, LifecycleAssumption
  <2>3. \A v : FirstStep(req[r], v) \in Step
    BY DEF FirstStep, Step
  <2> QED
    BY <1>3, <2>1, <2>2, <2>3 DEF LockPackage, meta, sysd, disk, ghost, ctl, boot, cnt
<1>34. ASSUME NEW r \in Req, ListUnits(r) PROVE TypeOK'
  <2>1. AfterUnits(r) \in Step /\ "stop" \in Step
    BY DEF AfterUnits, Step
  <2>2. ListPackageUnitFiles(Retiring(r)) \subseteq Unit
    BY DEF ListPackageUnitFiles
  <2> QED
    BY <1>34, <2>1, <2>2 DEF ListUnits, meta, sysd, disk, ghost, ctl, boot, cnt
<1>4. ASSUME NEW r \in Req, StopCurrent(r) PROVE TypeOK'
  <2>1. RequestsOK'
    BY <1>4, GotoType DEF StopCurrent, Step
  <2>2. SystemdOK'
    BY <1>4 DEF StopCurrent, SetStop, sysd
  <2>3. CountersOK'
    BY <1>4, FaultType DEF StopCurrent, cnt
  <2> QED
    BY <1>4, <2>1, <2>2, <2>3 DEF StopCurrent, meta, sysd, disk, ghost, ctl, boot, cnt
<1>5. ASSUME NEW r \in Req, UninstallUnit(r) PROVE TypeOK'
  <2>1. AfterUnits(r) \in Step /\ "stop" \in Step
    BY DEF AfterUnits, Step
  <2>2. RequestsOK'
    BY <1>5, <2>1 DEF UninstallUnit
  <2>3. SystemdOK'
    BY <1>5 DEF UninstallUnit
  <2>4. CountersOK'
    BY <1>5, FaultType DEF UninstallUnit, cnt
  <2> QED
    BY <1>5, <2>2, <2>3, <2>4 DEF UninstallUnit, meta, sysd, disk, ghost, ctl, boot, cnt
<1>6. ASSUME NEW r \in Req, PrepareActiveVersion(r) PROVE TypeOK'
  <2>1. req[r].pkg \in Pkg /\ req[r].ver \in Ver /\ active[r] \in Ver
    BY <1>6 DEF PrepareActiveVersion, HandlerShape
  <2>2. RequestsOK'
    BY <1>6, GotoType DEF PrepareActiveVersion, Step
  <2>3. CASE active[r] = req[r].ver
    <3>1. MetaOK' /\ UNCHANGED <<disk, cnt, sysd, ghost, boot>>
      BY <1>6, <2>3 DEF PrepareActiveVersion, RemoveRecord
    <3> QED
      BY <2>2, <3>1 DEF meta, sysd, disk, ghost, ctl, boot, cnt
  <2>4. CASE active[r] # req[r].ver
    <3>1. DiskOK'
      BY <1>6, <2>1, <2>4, MoveVolumeType, RenameType DEF PrepareActiveVersion, disk
    <3>2. CountersOK'
      BY <1>6, <2>4, FaultType DEF PrepareActiveVersion, cnt
    <3> QED
      BY <1>6, <2>2, <2>4, <3>1, <3>2 DEF PrepareActiveVersion, meta, sysd, disk, ghost, ctl, boot, cnt
  <2> QED
    BY <2>3, <2>4
<1>7. ASSUME NEW r \in Req, ReuseVolumes(r) PROVE TypeOK'
  <2>1. req[r].pkg \in Pkg
    BY <1>7 DEF ReuseVolumes, HandlerShape
  <2>2. DiskOK'
    BY <1>7, <2>1, MoveTreeType, RenameType DEF ReuseVolumes, Area, disk
  <2>3. CountersOK'
    BY <1>7, FaultType DEF ReuseVolumes, cnt
  <2> QED
    BY <1>7, <2>2, <2>3 DEF ReuseVolumes, meta, sysd, disk, ghost, ctl, boot, cnt
<1>8. ASSUME NEW r \in Req, ProvisionVolumes(r) PROVE TypeOK'
  <2>1. Target(r) \in Unit
    BY <1>8 DEF ProvisionVolumes, HandlerShape, Target, Unit
  <2>2. RequestsOK'
    BY <1>8, GotoType DEF ProvisionVolumes, Step
  <2>3. DiskOK'
    BY <1>8, <2>1, CreateType DEF ProvisionVolumes
  <2> QED
    BY <1>8, <2>2, <2>3 DEF ProvisionVolumes, meta, sysd, disk, ghost, ctl, boot, cnt
<1>9. ASSUME NEW r \in Req, SaveInstall(r) PROVE TypeOK'
  <2>1. req[r].pkg \in Pkg /\ req[r].ver \in Ver
    BY <1>9 DEF SaveInstall, HandlerShape
  <2>2. RequestsOK'
    BY <1>9, GotoType, FinishType DEF SaveInstall, Step
  <2>3. MetaOK'
    BY <1>9, <2>1 DEF SaveInstall, meta
  <2>4. mine' \in [Pkg -> SUBSET Token]
    BY <1>9, <2>1 DEF SaveInstall
  <2> QED
    BY <1>9, <2>2, <2>3, <2>4 DEF SaveInstall, meta, sysd, disk, ghost, ctl, boot, cnt
<1>10. ASSUME NEW r \in Req, DropOldRecord(r) PROVE TypeOK'
  <2>1. RequestsOK'
    BY <1>10, GotoType DEF DropOldRecord, Step
  <2>2. MetaOK'
    BY <1>10 DEF DropOldRecord, RemoveRecord, HalfRemoved, meta
  <2>3. CountersOK'
    BY <1>10, FaultType DEF DropOldRecord, cnt
  <2> QED
    BY <1>10, <2>1, <2>2, <2>3 DEF DropOldRecord, meta, sysd, disk, ghost, ctl, boot, cnt
<1>11. ASSUME NEW r \in Req, InstallUnits(r) PROVE TypeOK'
  <2>1. Target(r) \in Unit
    BY <1>11 DEF InstallUnits, HandlerShape, Target, Unit
  <2>2. RequestsOK'
    BY <1>11, GotoType, FinishType DEF InstallUnits, Step
  <2> QED
    BY <1>11, <2>1, <2>2 DEF InstallUnits, WriteUnit, meta, sysd, disk, ghost, ctl, boot, cnt
<1>12. ASSUME NEW r \in Req, StartUnit(r) PROVE TypeOK'
  <2>1. RequestsOK'
    BY <1>12, FinishType DEF StartUnit
  <2>2. SystemdOK'
    BY <1>12 DEF StartUnit, SetStart, sysd
  <2>3. CountersOK'
    BY <1>12, FaultType DEF StartUnit, cnt
  <2> QED
    BY <1>12, <2>1, <2>2, <2>3 DEF StartUnit, meta, sysd, disk, ghost, ctl, boot, cnt
<1>13. ASSUME NEW r \in Req, RemoveInstall(r) PROVE TypeOK'
  <2>1. RequestsOK'
    BY <1>13, GotoType, FinishType DEF RemoveInstall, Step
  <2>2. MetaOK'
    BY <1>13 DEF RemoveInstall, RemoveRecord
  <2> QED
    BY <1>13, <2>1, <2>2 DEF RemoveInstall, meta, sysd, disk, ghost, ctl, boot, cnt
<1>14. ASSUME NEW r \in Req, KeepVolumes(r) PROVE TypeOK'
  <2>1. req[r].pkg \in Pkg
    BY <1>14 DEF KeepVolumes, HandlerShape
  <2>2. RequestsOK'
    BY <1>14, FinishType DEF KeepVolumes
  <2>3. DiskOK'
    BY <1>14, <2>1, MoveTreeType, RenameType DEF KeepVolumes, Area, disk
  <2>4. CountersOK'
    BY <1>14, FaultType DEF KeepVolumes, cnt
  <2> QED
    BY <1>14, <2>2, <2>3, <2>4 DEF KeepVolumes, meta, sysd, disk, ghost, ctl, boot, cnt
<1>15. ASSUME NEW r \in Req, PurgeInstalled(r) PROVE TypeOK'
  <2>1. req[r].pkg \in Pkg
    BY <1>15 DEF PurgeInstalled, HandlerShape
  <2>2. RequestsOK'
    BY <1>15, GotoType, FinishType DEF PurgeInstalled, Step
  <2>3. DiskOK'
    BY <1>15, <2>1, MoveTreeType, PurgeType DEF PurgeInstalled, Area
  <2> QED
    BY <1>15, <2>2, <2>3 DEF PurgeInstalled, meta, sysd, disk, ghost, ctl, boot, cnt
<1>16. ASSUME NEW r \in Req, PurgeUninstalled(r) PROVE TypeOK'
  <2>1. req[r].pkg \in Pkg
    BY <1>16 DEF PurgeUninstalled, HandlerShape
  <2>2. RequestsOK'
    BY <1>16, GotoType, FinishType DEF PurgeUninstalled, Step
  <2>3. DiskOK'
    BY <1>16, <2>1, MoveTreeType, PurgeType DEF PurgeUninstalled, Area
  <2> QED
    BY <1>16, <2>2, <2>3 DEF PurgeUninstalled, meta, sysd, disk, ghost, ctl, boot, cnt
<1>17. ASSUME NEW r \in Req, SetDisabled(r) PROVE TypeOK'
  <2>1. req[r].pkg \in Pkg
    BY <1>17 DEF SetDisabled, HandlerShape
  <2>2. RequestsOK'
    BY <1>17, GotoType, FinishType DEF SetDisabled, Step
  <2> QED
    BY <1>17, <2>1, <2>2 DEF SetDisabled, meta, sysd, disk, ghost, ctl, boot, cnt
<1>18. ASSUME NEW r \in Req, HaltUnit(r) PROVE TypeOK'
  <2>1. RequestsOK'
    BY <1>18, FinishType DEF HaltUnit
  <2>2. SystemdOK'
    BY <1>18 DEF HaltUnit, SetStop, sysd
  <2>3. CountersOK'
    BY <1>18, FaultType DEF HaltUnit, cnt
  <2> QED
    BY <1>18, <2>1, <2>2, <2>3 DEF HaltUnit, meta, sysd, disk, ghost, ctl, boot, cnt
<1>19. ASSUME NEW r \in Req, Fail(r) PROVE TypeOK'
  <2>1. RequestsOK' /\ CountersOK'
    BY <1>19, FinishType, FaultType DEF Fail
  <2>2. SystemdOK'
    BY <1>19 DEF Fail, FailUnit, WriteUnit, HandlerShape, Target, Unit, sysd
  <2>3. MetaOK'
    <3>1. pc[r] = "save" => req[r].ver \in Ver
      BY DEF HandlerShape
    <3> QED
      BY <1>19, <3>1 DEF Fail, FailMeta, HalfRemoved, meta
  <2>4. DiskOK'
    <3>1. req[r].pkg \in Pkg
      BY <1>19 DEF Fail, MayFail, HandlerShape
    <3>2. \A a \in Area : \A S \in SUBSET Tree(a, req[r].pkg) : S \in SUBSET Subvol
      BY <3>1, MoveTreeType
    <3> QED
      BY <1>19, <3>2, PurgeType DEF Fail, FailDisk, disk
  <2> QED
    BY <1>19, <2>1, <2>2, <2>3, <2>4 DEF Fail, ghost, boot
<1>20. ASSUME NEW u \in Unit, SetUnitStatus(u) PROVE TypeOK'
  BY <1>20 DEF SetUnitStatus, SetStart, SetStop, meta, sysd, disk, ghost, ctl, boot, cnt
<1>21. ASSUME NEW u \in Unit, Write(u) PROVE TypeOK'
  <2>1. u[1] \in Pkg /\ written + 1 \in Token /\ written + 1 \in 0 .. MaxWrites
    BY <1>21, LifecycleAssumption DEF Write, Unit, Token
  <2> QED
    BY <1>21, <2>1 DEF Write, meta, sysd, disk, ghost, ctl, boot, cnt
<1>22. ASSUME NEW u \in Unit, ReconcilePackage(u) PROVE TypeOK'
  <2>1. DiskOK'
    BY <1>22, CreateType DEF ReconcilePackage, disk
  <2>2. CountersOK'
    BY <1>22, FaultType DEF ReconcilePackage, cnt
  <2> QED
    BY <1>22, <2>1, <2>2 DEF ReconcilePackage, WriteUnit, meta, sysd, disk, ghost, ctl, boot, cnt
<1>23. ASSUME NEW u \in Unit, StartPackage(u) PROVE TypeOK'
  <2>1. CountersOK'
    BY <1>23, FaultType DEF StartPackage, cnt
  <2>2. SystemdOK'
    BY <1>23 DEF StartPackage, SetStart, SetRestart, sysd
  <2> QED
    BY <1>23, <2>1, <2>2 DEF StartPackage, meta, disk, ghost, ctl, boot
<1>24. ASSUME NEW u \in Unit, RestartPackage(u) PROVE TypeOK'
  <2>1. CountersOK'
    BY <1>24, FaultType DEF RestartPackage, cnt
  <2>2. SystemdOK'
    BY <1>24 DEF RestartPackage, SetStart, SetRestart, sysd
  <2> QED
    BY <1>24, <2>1, <2>2 DEF RestartPackage, meta, disk, ghost, ctl, boot
<1>25. CASE EndPhaseOne
  BY <1>25 DEF EndPhaseOne, Phase, meta, sysd, disk, ghost, ctl, boot, cnt
<1>26. CASE EndPhaseTwo
  BY <1>26 DEF EndPhaseTwo, Phase, meta, sysd, disk, ghost, ctl, boot, cnt
<1>27. CASE EndReconcile
  <2>1. CountersOK'
    BY <1>27, FaultType DEF EndReconcile, cnt
  <2>2. BootOK'
    BY <1>27, LatestInstalled DEF EndReconcile, Phase, Restart
  <2> QED
    BY <1>27, <2>1, <2>2 DEF EndReconcile, meta, sysd, disk, ghost, ctl, boot
<1>28. CASE Serve
  <2>1. CountersOK'
    BY <1>28, FaultType DEF Serve, cnt
  <2>2. BootOK'
    BY <1>28 DEF Serve, Phase, Restart
  <2> QED
    BY <1>28, <2>1, <2>2 DEF Serve, meta, sysd, disk, ghost, ctl, boot
<1>35. CASE FreshnessFails
  <2>1. CountersOK'
    BY <1>35, FaultType DEF FreshnessFails
  <2> QED
    BY <1>35, <2>1 DEF FreshnessFails, Phase, Restart, meta, sysd, disk, ghost, ctl
<1>29. CASE Refresh
  <2>1. CountersOK'
    BY <1>29, FaultType DEF Refresh, cnt
  <2>2. BootOK'
    BY <1>29 DEF Refresh, Phase, Restart
  <2> QED
    BY <1>29, <2>1, <2>2 DEF Refresh, meta, sysd, disk, ghost, ctl, boot
<1>30. CASE SelfRestart
  <2>1. NewProcess
    BY <1>30 DEF SelfRestart
  <2>2. updates' \in 0 .. MaxUpdates
    BY <1>30, LifecycleAssumption DEF SelfRestart, Image
  <2>5. updating' \in BOOLEAN
    BY <1>30 DEF SelfRestart, Image
  <2>3. crashes' \in 0 .. MaxCrash /\ faults' = faults
    BY <1>30, LifecycleAssumption DEF SelfRestart
  <2>4. SystemdOK'
    BY <1>30 DEF SelfRestart, Image
  <2> QED
    BY <2>1, <2>2, <2>3, <2>4, <2>5, NewProcessType
<1>36. CASE SelfRestartFails
  <2>1. CountersOK'
    BY <1>36, FaultType DEF SelfRestartFails
  <2> QED
    BY <1>36, <2>1 DEF SelfRestartFails, Restart, meta, sysd, disk, ghost, ctl
<1>31. CASE Crash
  <2>1. NewProcess
    BY <1>31 DEF Crash
  <2>2. updates' \in 0 .. MaxUpdates
    BY <1>31, LifecycleAssumption DEF Crash, Image
  <2>5. updating' \in BOOLEAN
    BY <1>31 DEF Crash, Image
  <2>3. crashes' \in 0 .. MaxCrash /\ faults' = faults
    BY <1>31, LifecycleAssumption DEF Crash
  <2>4. SystemdOK'
    BY <1>31 DEF Crash, Image
  <2> QED
    BY <2>1, <2>2, <2>3, <2>4, <2>5, NewProcessType
<1>32. CASE Reboot
  <2>1. NewProcess
    BY <1>32 DEF Reboot
  <2>2. updates' \in 0 .. MaxUpdates
    BY <1>32, LifecycleAssumption DEF Reboot, Image
  <2>5. updating' \in BOOLEAN
    BY <1>32 DEF Reboot, Image
  <2>3. crashes' \in 0 .. MaxCrash /\ faults' = faults
    BY <1>32, LifecycleAssumption DEF Reboot
  <2>4. SystemdOK'
    BY <1>32 DEF Reboot, Image
  <2> QED
    BY <2>1, <2>2, <2>3, <2>4, <2>5, NewProcessType
<1>33. CASE UNCHANGED vars
  BY <1>33 DEF vars, meta, sysd, disk, ghost, ctl, boot, cnt
<1> QED
  BY <1>1, <1>2, <1>3, <1>4, <1>5, <1>6, <1>7, <1>8, <1>9, <1>10, <1>11, <1>12, <1>13, <1>14, <1>15, <1>16, <1>17, <1>18, <1>19, <1>20, <1>21, <1>22, <1>23, <1>24, <1>25, <1>26, <1>27, <1>28, <1>29, <1>30, <1>31, <1>32, <1>33, <1>34, <1>35, <1>36 DEF Next, Handler, Boot

(* Which handler starts where. *)
LEMMA FirstStepIs ==
  ASSUME NEW q, NEW v
  PROVE  /\ FirstStep(q, v) \in {"provision", "list", "mark", "purgeInstalled", "purgeUninstalled"}
         /\ FirstStep(q, v) = "provision" => q.op = "install"
         /\ FirstStep(q, v) = "list" => q.op = "uninstall" \/ (q.op = "install" /\ v # 0)
BY DEF FirstStep

LEMMA FinishShape ==
  ASSUME RequestsOK, HandlerShape, NEW r \in Req, Finish(r), phase' = phase
  PROVE  HandlerShape'
BY DEF RequestsOK, HandlerShape, Finish, Idle

(* Every step keeps requests at steps of their own handler. *)
LEMMA ShapeStep ==
  ASSUME TypeOK, HandlerShape, [Next]_vars
  PROVE  HandlerShape'
<1> USE DEF HandlerShape
<1> RequestsOK
  BY DEF TypeOK
<1> USE DEF RequestsOK
<1>1. ASSUME NEW r \in Req, Dispatch(r) PROVE HandlerShape'
  <2>1. PICK q \in Request : req' = [req EXCEPT ![r] = q]
    BY <1>1 DEF Dispatch
  <2> QED
    BY <1>1, <2>1, RequestType DEF Dispatch, meta, sysd, disk, ghost, ctl, boot, cnt
<1>2. ASSUME NEW r \in Req, Disconnect(r) PROVE HandlerShape'
  BY <1>2 DEF Disconnect, meta, sysd, disk, ghost, ctl, boot, cnt
<1>3. ASSUME NEW r \in Req, LockPackage(r) PROVE HandlerShape'
  <2>1. req[r].pkg \in Pkg
    BY <1>3 DEF LockPackage
  <2>2. active[r]' # 0 => active[r]' \in Ver
    BY <1>3, <2>1, ActiveIsRecord DEF LockPackage, TypeOK, MetaOK
  <2>3. /\ pc' = [pc EXCEPT ![r] = FirstStep(req[r], active'[r])]
        /\ active' = [active EXCEPT ![r] = active'[r]]
        /\ req' = req /\ phase' = phase /\ pc[r] = "lock"
    BY <1>3 DEF LockPackage, boot, RequestsOK
  <2> QED
    BY <2>1, <2>2, <2>3, FirstStepIs
<1>34. ASSUME NEW r \in Req, ListUnits(r) PROVE HandlerShape'
  <2>1. req[r].op = "install" => active[r] \in Ver
    BY <1>34 DEF ListUnits
  <2> QED
    BY <1>34, <2>1 DEF ListUnits, AfterUnits, meta, sysd, disk, ghost, ctl, boot, cnt
<1>4. ASSUME NEW r \in Req, StopCurrent(r) PROVE HandlerShape'
  BY <1>4 DEF StopCurrent, Goto, meta, sysd, disk, ghost, ctl, boot, cnt
<1>5. ASSUME NEW r \in Req, UninstallUnit(r) PROVE HandlerShape'
  <2>1. req[r].op = "install" => active[r] \in Ver
    BY <1>5 DEF UninstallUnit
  <2>2. /\ UNCHANGED <<req, active, phase>>
        /\ pc[r] = "unlink"
        /\ \/ pc' = [pc EXCEPT ![r] = AfterUnits(r)]
           \/ pc' = [pc EXCEPT ![r] = "stop"]
    BY <1>5 DEF UninstallUnit, boot
  <2> QED
    BY <2>1, <2>2 DEF AfterUnits
<1>6. ASSUME NEW r \in Req, PrepareActiveVersion(r) PROVE HandlerShape'
  BY <1>6 DEF PrepareActiveVersion, Goto, meta, sysd, disk, ghost, ctl, boot, cnt
<1>7. ASSUME NEW r \in Req, ReuseVolumes(r) PROVE HandlerShape'
  BY <1>7 DEF ReuseVolumes, Goto, meta, sysd, disk, ghost, ctl, boot, cnt
<1>8. ASSUME NEW r \in Req, ProvisionVolumes(r) PROVE HandlerShape'
  BY <1>8 DEF ProvisionVolumes, Goto, meta, sysd, disk, ghost, ctl, boot, cnt
<1>9. ASSUME NEW r \in Req, SaveInstall(r) PROVE HandlerShape'
  <2>1. active[r] # 0 => active[r] \in Ver
    BY LifecycleAssumption DEF Ver
  <2>2. CASE req[r].ver \in records[req[r].pkg]
    BY <1>9, <2>2, FinishShape DEF SaveInstall, boot
  <2>3. CASE req[r].ver \notin records[req[r].pkg]
    BY <1>9, <2>1, <2>3 DEF SaveInstall, Goto, boot
  <2> QED
    BY <2>2, <2>3
<1>10. ASSUME NEW r \in Req, DropOldRecord(r) PROVE HandlerShape'
  BY <1>10 DEF DropOldRecord, Goto, meta, sysd, disk, ghost, ctl, boot, cnt
<1>11. ASSUME NEW r \in Req, InstallUnits(r) PROVE HandlerShape'
  <2>1. CASE Finish(r)
    BY <1>11, <2>1, FinishShape DEF InstallUnits, meta, sysd, disk, ghost, ctl, boot, cnt
  <2>2. CASE ~Finish(r)
    BY <1>11, <2>2 DEF InstallUnits, Goto, meta, sysd, disk, ghost, ctl, boot, cnt
  <2> QED
    BY <2>1, <2>2
<1>12. ASSUME NEW r \in Req, StartUnit(r) PROVE HandlerShape'
  BY <1>12, FinishShape DEF StartUnit, meta, sysd, disk, ghost, ctl, boot, cnt
<1>13. ASSUME NEW r \in Req, RemoveInstall(r) PROVE HandlerShape'
  <2>1. CASE Finish(r)
    BY <1>13, <2>1, FinishShape DEF RemoveInstall, meta, sysd, disk, ghost, ctl, boot, cnt
  <2>2. CASE ~Finish(r)
    BY <1>13, <2>2 DEF RemoveInstall, Goto, meta, sysd, disk, ghost, ctl, boot, cnt
  <2> QED
    BY <2>1, <2>2
<1>14. ASSUME NEW r \in Req, KeepVolumes(r) PROVE HandlerShape'
  BY <1>14, FinishShape DEF KeepVolumes, meta, sysd, disk, ghost, ctl, boot, cnt
<1>15. ASSUME NEW r \in Req, PurgeInstalled(r) PROVE HandlerShape'
  BY <1>15 DEF PurgeInstalled, Goto, meta, sysd, disk, ghost, ctl, boot, cnt
<1>16. ASSUME NEW r \in Req, PurgeUninstalled(r) PROVE HandlerShape'
  BY <1>16, FinishShape DEF PurgeUninstalled, meta, sysd, disk, ghost, ctl, boot, cnt
<1>17. ASSUME NEW r \in Req, SetDisabled(r) PROVE HandlerShape'
  <2>1. CASE Finish(r)
    BY <1>17, <2>1, FinishShape DEF SetDisabled, meta, sysd, disk, ghost, ctl, boot, cnt
  <2>2. CASE ~Finish(r)
    BY <1>17, <2>2 DEF SetDisabled, Goto, meta, sysd, disk, ghost, ctl, boot, cnt
  <2> QED
    BY <2>1, <2>2
<1>18. ASSUME NEW r \in Req, HaltUnit(r) PROVE HandlerShape'
  BY <1>18, FinishShape DEF HaltUnit, meta, sysd, disk, ghost, ctl, boot, cnt
<1>19. ASSUME NEW r \in Req, Fail(r) PROVE HandlerShape'
  BY <1>19, FinishShape DEF Fail, meta, sysd, disk, ghost, ctl, boot, cnt
<1>20. ASSUME NEW u \in Unit, SetUnitStatus(u) PROVE HandlerShape'
  BY <1>20 DEF SetUnitStatus, meta, sysd, disk, ghost, ctl, boot, cnt
<1>21. ASSUME NEW u \in Unit, Write(u) PROVE HandlerShape'
  BY <1>21 DEF Write, meta, sysd, disk, ghost, ctl, boot, cnt
<1>22. ASSUME NEW u \in Unit, ReconcilePackage(u) PROVE HandlerShape'
  BY <1>22 DEF ReconcilePackage, meta, sysd, disk, ghost, ctl, boot, cnt
<1>23. ASSUME NEW u \in Unit, StartPackage(u) PROVE HandlerShape'
  BY <1>23 DEF StartPackage, meta, sysd, disk, ghost, ctl, boot, cnt
<1>24. ASSUME NEW u \in Unit, RestartPackage(u) PROVE HandlerShape'
  BY <1>24 DEF RestartPackage, meta, sysd, disk, ghost, ctl, boot, cnt
<1>25. CASE EndPhaseOne
  BY <1>25 DEF EndPhaseOne, meta, sysd, disk, ghost, ctl, boot, cnt
<1>26. CASE EndPhaseTwo
  BY <1>26 DEF EndPhaseTwo, meta, sysd, disk, ghost, ctl, boot, cnt
<1>27. CASE EndReconcile
  BY <1>27 DEF EndReconcile, meta, sysd, disk, ghost, ctl, boot, cnt
<1>28. CASE Serve
  BY <1>28 DEF Serve, meta, sysd, disk, ghost, ctl, boot, cnt
<1>35. CASE FreshnessFails
  BY <1>35 DEF FreshnessFails, meta, sysd, disk, ghost, ctl, boot, cnt
<1>29. CASE Refresh
  BY <1>29 DEF Refresh, meta, sysd, disk, ghost, ctl, boot, cnt
<1>30. CASE SelfRestart
  BY <1>30 DEF SelfRestart, NewProcess, Idle
<1>36. CASE SelfRestartFails
  BY <1>36 DEF SelfRestartFails, meta, sysd, disk, ghost, ctl, boot, cnt
<1>31. CASE Crash
  BY <1>31 DEF Crash, NewProcess, Idle
<1>32. CASE Reboot
  BY <1>32 DEF Reboot, NewProcess, Idle
<1>33. CASE UNCHANGED vars
  BY <1>33 DEF vars, meta, sysd, disk, ghost, ctl, boot, cnt
<1> QED
  BY <1>1, <1>2, <1>3, <1>4, <1>5, <1>6, <1>7, <1>8, <1>9, <1>10, <1>11, <1>12, <1>13, <1>14, <1>15, <1>16, <1>17, <1>18, <1>19, <1>20, <1>21, <1>22, <1>23, <1>24, <1>25, <1>26, <1>27, <1>28, <1>29, <1>30, <1>31, <1>32, <1>33, <1>34, <1>35, <1>36 DEF Next, Handler, Boot

LEMMA GotoSerialised ==
  ASSUME RequestsOK, Serialised, NEW r \in Req, NEW step, Goto(r, step),
         pc[r] \notin {"idle", "lock"}, step \notin {"idle", "lock"}
  PROVE  Serialised'
BY DEF RequestsOK, Serialised, Goto

LEMMA FinishSerialised ==
  ASSUME RequestsOK, Serialised, NEW r \in Req, Finish(r),
         pc[r] \notin {"idle", "lock"}, req[r].pkg \in Pkg
  PROVE  Serialised'
BY LifecycleAssumption DEF RequestsOK, Serialised, Finish

(* Every step keeps the packages' mutexes with the requests past them. *)
LEMMA SerialisedStep ==
  ASSUME TypeOK, HandlerShape, Serialised, [Next]_vars
  PROVE  Serialised'
<1> RequestsOK
  BY DEF TypeOK
<1> USE LifecycleAssumption DEF RequestsOK, Serialised
<1>1. ASSUME NEW r \in Req, Dispatch(r) PROVE Serialised'
  BY <1>1 DEF Dispatch
<1>2. ASSUME NEW r \in Req, Disconnect(r) PROVE Serialised'
  BY <1>2 DEF Disconnect
<1>3. ASSUME NEW r \in Req, LockPackage(r) PROVE Serialised'
  <2>1. \A v : FirstStep(req[r], v) \notin {"idle", "lock"}
    BY FirstStepIs
  <2>2. req[r].pkg \in Pkg /\ pc[r] = "lock" /\ lock[req[r].pkg] = NoReq
    BY <1>3 DEF LockPackage, HandlerShape
  <2>3. pc' = [pc EXCEPT ![r] = FirstStep(req[r], active'[r])]
    BY <1>3 DEF LockPackage
  <2>4. lock' = [lock EXCEPT ![req[r].pkg] = r] /\ req' = req
    BY <1>3 DEF LockPackage
  <2> QED
    BY <2>1, <2>2, <2>3, <2>4
<1>34. ASSUME NEW r \in Req, ListUnits(r) PROVE Serialised'
  BY <1>34 DEF ListUnits, AfterUnits
<1>4. ASSUME NEW r \in Req, StopCurrent(r) PROVE Serialised'
  BY <1>4, GotoSerialised, FinishSerialised DEF StopCurrent, HandlerShape
<1>5. ASSUME NEW r \in Req, UninstallUnit(r) PROVE Serialised'
  <2>1. /\ UNCHANGED <<req, lock>>
        /\ pc[r] = "unlink"
        /\ \/ pc' = [pc EXCEPT ![r] = AfterUnits(r)]
           \/ pc' = [pc EXCEPT ![r] = "stop"]
    BY <1>5 DEF UninstallUnit
  <2> QED
    BY <2>1 DEF AfterUnits
<1>6. ASSUME NEW r \in Req, PrepareActiveVersion(r) PROVE Serialised'
  BY <1>6, GotoSerialised, FinishSerialised DEF PrepareActiveVersion, HandlerShape
<1>7. ASSUME NEW r \in Req, ReuseVolumes(r) PROVE Serialised'
  BY <1>7 DEF ReuseVolumes
<1>8. ASSUME NEW r \in Req, ProvisionVolumes(r) PROVE Serialised'
  BY <1>8, GotoSerialised, FinishSerialised DEF ProvisionVolumes, HandlerShape
<1>9. ASSUME NEW r \in Req, SaveInstall(r) PROVE Serialised'
  BY <1>9, GotoSerialised, FinishSerialised DEF SaveInstall, HandlerShape
<1>10. ASSUME NEW r \in Req, DropOldRecord(r) PROVE Serialised'
  BY <1>10, GotoSerialised, FinishSerialised DEF DropOldRecord, HandlerShape
<1>11. ASSUME NEW r \in Req, InstallUnits(r) PROVE Serialised'
  BY <1>11, GotoSerialised, FinishSerialised DEF InstallUnits, HandlerShape
<1>12. ASSUME NEW r \in Req, StartUnit(r) PROVE Serialised'
  BY <1>12, GotoSerialised, FinishSerialised DEF StartUnit, HandlerShape
<1>13. ASSUME NEW r \in Req, RemoveInstall(r) PROVE Serialised'
  BY <1>13, GotoSerialised, FinishSerialised DEF RemoveInstall, HandlerShape
<1>14. ASSUME NEW r \in Req, KeepVolumes(r) PROVE Serialised'
  BY <1>14, GotoSerialised, FinishSerialised DEF KeepVolumes, HandlerShape
<1>15. ASSUME NEW r \in Req, PurgeInstalled(r) PROVE Serialised'
  BY <1>15, GotoSerialised, FinishSerialised DEF PurgeInstalled, HandlerShape
<1>16. ASSUME NEW r \in Req, PurgeUninstalled(r) PROVE Serialised'
  BY <1>16, GotoSerialised, FinishSerialised DEF PurgeUninstalled, HandlerShape
<1>17. ASSUME NEW r \in Req, SetDisabled(r) PROVE Serialised'
  BY <1>17, GotoSerialised, FinishSerialised DEF SetDisabled, HandlerShape
<1>18. ASSUME NEW r \in Req, HaltUnit(r) PROVE Serialised'
  BY <1>18, GotoSerialised, FinishSerialised DEF HaltUnit, HandlerShape
<1>19. ASSUME NEW r \in Req, Fail(r) PROVE Serialised'
  BY <1>19, GotoSerialised, FinishSerialised DEF Fail, MayFail, HandlerShape
<1>20. ASSUME NEW u \in Unit, SetUnitStatus(u) PROVE Serialised'
  BY <1>20 DEF SetUnitStatus, ctl
<1>21. ASSUME NEW u \in Unit, Write(u) PROVE Serialised'
  BY <1>21 DEF Write, ctl
<1>22. ASSUME NEW u \in Unit, ReconcilePackage(u) PROVE Serialised'
  BY <1>22 DEF ReconcilePackage, ctl
<1>23. ASSUME NEW u \in Unit, StartPackage(u) PROVE Serialised'
  BY <1>23 DEF StartPackage, ctl
<1>24. ASSUME NEW u \in Unit, RestartPackage(u) PROVE Serialised'
  BY <1>24 DEF RestartPackage, ctl
<1>25. CASE EndPhaseOne
  BY <1>25 DEF EndPhaseOne, ctl
<1>26. CASE EndPhaseTwo
  BY <1>26 DEF EndPhaseTwo, ctl
<1>27. CASE EndReconcile
  BY <1>27 DEF EndReconcile, ctl
<1>28. CASE Serve
  BY <1>28 DEF Serve, ctl
<1>35. CASE FreshnessFails
  BY <1>35 DEF FreshnessFails, ctl
<1>29. CASE Refresh
  BY <1>29 DEF Refresh, ctl
<1>30. CASE SelfRestart
  BY <1>30 DEF SelfRestart, NewProcess
<1>36. CASE SelfRestartFails
  BY <1>36 DEF SelfRestartFails, ctl
<1>31. CASE Crash
  BY <1>31 DEF Crash, NewProcess
<1>32. CASE Reboot
  BY <1>32 DEF Reboot, NewProcess
<1>33. CASE UNCHANGED vars
  BY <1>33 DEF vars, ctl
<1> QED
  BY <1>1, <1>2, <1>3, <1>4, <1>5, <1>6, <1>7, <1>8, <1>9, <1>10, <1>11, <1>12, <1>13, <1>14, <1>15, <1>16, <1>17, <1>18, <1>19, <1>20, <1>21, <1>22, <1>23, <1>24, <1>25, <1>26, <1>27, <1>28, <1>29, <1>30, <1>31, <1>32, <1>33, <1>34, <1>35, <1>36 DEF Next, Handler, Boot

(* The unit files that nobody has failed to delete. *)
Regular == unit \ undeleted

(* Records may be added and units removed at any time. *)
LEMMA RecordsKept ==
  ASSUME MetaOK, UnitHasRecord, SystemdOK, Regular' \subseteq Regular,
         \A p \in Pkg : records[p] \subseteq records'[p]
  PROVE  UnitHasRecord'
  BY DEF UnitHasRecord, Installed, Unit, Regular, SystemdOK

(* A record may go once its unit is gone. *)
LEMMA RecordRemoved ==
  ASSUME MetaOK, UnitHasRecord, SystemdOK, Regular' \subseteq Regular,
         NEW p \in Pkg, NEW v, <<p, v>> \notin Regular,
         records' = [records EXCEPT ![p] = @ \ {v}]
  PROVE  UnitHasRecord'
  BY DEF UnitHasRecord, Installed, Unit, MetaOK, Regular, SystemdOK

(* A unit may come once its record is there. *)
LEMMA UnitAdded ==
  ASSUME MetaOK, UnitHasRecord, SystemdOK, records' = records,
         NEW p \in Pkg, NEW v \in Ver, v \in records[p],
         Regular' \subseteq Regular \cup {<<p, v>>}
  PROVE  UnitHasRecord'
  BY DEF UnitHasRecord, Installed, Unit, Regular, SystemdOK

(* A handler's step does not touch what the handlers of other packages know. *)
LEMMA OthersKnow ==
  ASSUME RequestsOK, HandlerShape, Serialised, HandlerKnows,
         NEW r \in Req, pc[r] \notin {"idle", "lock"}, phase = "serving", phase' = phase,
         \A x \in Req \ {r} : /\ pc'[x] = pc[x] /\ req'[x] = req[x]
                            /\ active'[x] = active[x] /\ names'[x] = names[x],
         \A w \in Regular' : w \in Regular \/ w[1] = req[r].pkg,
         \A q \in Pkg : q # req[r].pkg => records'[q] = records[q],
         Knows(r)'
  PROVE  HandlerKnows'
<1>1. ASSUME NEW x \in Req, x # r PROVE Knows(x)'
  <2>1. CASE pc[x] \in {"idle", "lock"}
    BY <1>1, <2>1 DEF Knows
  <2>2. CASE pc[x] \notin {"idle", "lock"}
    <3>1. req[x].pkg \in Pkg /\ req[x].pkg # req[r].pkg
      BY <1>1, <2>2 DEF Serialised, HandlerShape
    <3>2. Knows(x)
      BY DEF HandlerKnows
    <3>3. /\ pc'[x] = pc[x] /\ req'[x] = req[x]
          /\ active'[x] = active[x] /\ names'[x] = names[x]
      BY <1>1
    <3>4. \A v : <<req[x].pkg, v>> \in Regular' => <<req[x].pkg, v>> \in Regular
      BY <3>1
    <3> QED
      BY <3>1, <3>2, <3>3, <3>4 DEF Knows, Target, Retiring, Regular
  <2> QED
    BY <2>1, <2>2
<1> QED
  BY <1>1 DEF HandlerKnows

(* Units and records change hands in an order no interleaving can break. *)
LEMMA KnowsStep ==
  ASSUME TypeOK, HandlerShape, Serialised, HandlerKnows, UnitHasRecord, [Next]_vars
  PROVE  HandlerKnows' /\ UnitHasRecord'
<1> RequestsOK /\ MetaOK /\ SystemdOK
  BY DEF TypeOK
<1> USE DEF RequestsOK, HandlerKnows, MetaOK, SystemdOK
<1>1. ASSUME NEW r \in Req, Dispatch(r) PROVE HandlerKnows' /\ UnitHasRecord'
  <2>1. /\ UNCHANGED <<unit, undeleted, records, phase, todo, active, names>>
        /\ pc' = [pc EXCEPT ![r] = "lock"]
        /\ \A x \in Req \ {r} : req'[x] = req[x]
    BY <1>1 DEF Dispatch, meta, sysd, disk, ghost, ctl, boot, cnt
  <2> QED
    BY <2>1 DEF Knows, Target, Retiring, Regular, Installed, UnitHasRecord
<1>2. ASSUME NEW r \in Req, Disconnect(r) PROVE HandlerKnows' /\ UnitHasRecord'
  BY <1>2 DEF Disconnect, meta, sysd, disk, ghost, ctl, boot, cnt, Knows, Target, Retiring, Regular, Installed, UnitHasRecord
<1>3. ASSUME NEW r \in Req, LockPackage(r) PROVE HandlerKnows' /\ UnitHasRecord'
  <2>1. /\ UNCHANGED <<unit, undeleted, records, phase, todo, req, names>>
        /\ pc' = [pc EXCEPT ![r] = FirstStep(req[r], active'[r])]
        /\ \A x \in Req \ {r} : active'[x] = active[x]
        /\ pc[r] = "lock" /\ req[r].pkg \in Pkg
    BY <1>3 DEF LockPackage, meta, sysd, disk, ghost, ctl, boot, cnt, HandlerShape
  <2>2. FirstStep(req[r], active'[r]) = "provision" => active'[r] = 0
    BY <1>3 DEF LockPackage, FirstStep
  <2>3. active'[r] = 0 => <<req[r].pkg, active'[r]>> \notin unit
    BY LifecycleAssumption DEF UnitHasRecord, Installed, Unit, Ver
  <2> QED
    BY <2>1, <2>2, <2>3, FirstStepIs DEF Knows, Target, Retiring, Regular, Installed, UnitHasRecord
<1>34. ASSUME NEW r \in Req, ListUnits(r) PROVE HandlerKnows' /\ UnitHasRecord'
  <2>1. /\ pc[r] \notin {"idle", "lock"} /\ req[r].pkg \in Pkg
        /\ phase = "serving" /\ phase' = phase
    BY <1>34 DEF ListUnits, HandlerShape, boot
  <2>2. \A x \in Req \ {r} : /\ pc'[x] = pc[x] /\ req'[x] = req[x]
                             /\ active'[x] = active[x] /\ names'[x] = names[x]
    BY <1>34 DEF ListUnits
  <2>3. UNCHANGED <<unit, undeleted, records, req, active>>
    BY <1>34 DEF ListUnits, meta, sysd
  <2>4. Retiring(r) \in unit => Retiring(r) \in ListPackageUnitFiles(Retiring(r))
    BY DEF ListPackageUnitFiles
  <2>5. Knows(r)'
    <3>1. CASE ListPackageUnitFiles(Retiring(r)) = {}
      <4>1. pc'[r] = AfterUnits(r) /\ Retiring(r) \notin unit
        BY <1>34, <2>4, <3>1 DEF ListUnits
      <4>2. Retiring(r) = IF req[r].op = "install" THEN <<req[r].pkg, active[r]>> ELSE Target(r)
        BY DEF Retiring, Target
      <4> QED
        BY <2>3, <4>1, <4>2 DEF Knows, Target, AfterUnits
    <3>2. CASE ListPackageUnitFiles(Retiring(r)) # {}
      <4>1. pc'[r] = "stop" /\ names'[r] = ListPackageUnitFiles(Retiring(r))
        BY <1>34, <3>2 DEF ListUnits
      <4> QED
        BY <2>3, <2>4, <4>1 DEF Knows, Retiring
    <3> QED
      BY <3>1, <3>2
  <2>6. UnitHasRecord'
    BY <2>3 DEF UnitHasRecord, Installed
  <2> QED
    BY <2>1, <2>2, <2>3, <2>5, <2>6, OthersKnow DEF Regular
<1>4. ASSUME NEW r \in Req, StopCurrent(r) PROVE HandlerKnows' /\ UnitHasRecord'
  <2>1. /\ pc[r] \notin {"idle", "lock"} /\ req[r].pkg \in Pkg
        /\ phase = "serving" /\ phase' = phase
    BY <1>4 DEF StopCurrent, HandlerShape, boot
  <2>2. \A x \in Req \ {r} : /\ pc'[x] = pc[x] /\ req'[x] = req[x]
                             /\ active'[x] = active[x] /\ names'[x] = names[x]
    BY <1>4 DEF StopCurrent, Goto
  <2>3. \A w \in Regular' : w \in Regular \/ w[1] = req[r].pkg
    BY <1>4 DEF StopCurrent, Goto, SetStop, sysd, meta, Target, Regular
  <2>4. \A q \in Pkg : q # req[r].pkg => records'[q] = records[q]
    BY <1>4 DEF StopCurrent, Goto, SetStop, sysd, meta
  <2>5. Knows(r)'
    BY <1>4 DEF StopCurrent, Goto, SetStop, sysd, meta, Knows, Target, Retiring, Regular, HandlerShape
  <2>6. UnitHasRecord'
    BY <1>4 DEF StopCurrent, Goto, SetStop, sysd, meta, Knows, Target, Retiring, Regular, HandlerShape, UnitHasRecord, Installed
  <2> QED
    BY <2>1, <2>2, <2>3, <2>4, <2>5, <2>6, OthersKnow
<1>5. ASSUME NEW r \in Req, UninstallUnit(r) PROVE HandlerKnows' /\ UnitHasRecord'
  <2> DEFINE left == names[r] \ {Current(r)}
  <2>1. /\ pc[r] \notin {"idle", "lock"} /\ req[r].pkg \in Pkg
        /\ phase = "serving" /\ phase' = phase
    BY <1>5 DEF UninstallUnit, HandlerShape, boot
  <2>2. \A x \in Req \ {r} : /\ pc'[x] = pc[x] /\ req'[x] = req[x]
                             /\ active'[x] = active[x] /\ names'[x] = names[x]
    BY <1>5 DEF UninstallUnit
  <2>3. /\ UNCHANGED <<records, req, active>>
        /\ pc[r] = "unlink" /\ names'[r] = left
        /\ pc'[r] = IF left = {} THEN AfterUnits(r) ELSE "stop"
    BY <1>5 DEF UninstallUnit, meta
  <2>4. Regular' \subseteq Regular /\ Current(r) \notin Regular'
    BY <1>5 DEF UninstallUnit, Regular
  <2>5. Knows(r)'
    <3>1. Retiring(r) \in Regular' => Retiring(r) \in left
      BY <2>3, <2>4 DEF Knows, Regular
    <3>2. Retiring(r) = IF req[r].op = "install" THEN <<req[r].pkg, active[r]>> ELSE Target(r)
      BY DEF Retiring, Target
    <3>3. CASE left = {}
      BY <2>3, <3>1, <3>2, <3>3 DEF Knows, Target, AfterUnits, Regular
    <3>4. CASE left # {}
      <4>1. Retiring(r)' = Retiring(r)
        BY <2>3 DEF Retiring
      <4> QED
        BY <2>3, <3>1, <3>4, <4>1 DEF Knows, Regular
    <3> QED
      BY <3>3, <3>4
  <2>6. UnitHasRecord'
    BY <2>3, <2>4, RecordsKept
  <2> QED
    BY <2>1, <2>2, <2>3, <2>4, <2>5, <2>6, OthersKnow
<1>6. ASSUME NEW r \in Req, PrepareActiveVersion(r) PROVE HandlerKnows' /\ UnitHasRecord'
  <2>1. /\ pc[r] \notin {"idle", "lock"} /\ req[r].pkg \in Pkg
        /\ phase = "serving" /\ phase' = phase
    BY <1>6 DEF PrepareActiveVersion, HandlerShape, boot
  <2>2. \A x \in Req \ {r} : /\ pc'[x] = pc[x] /\ req'[x] = req[x]
                             /\ active'[x] = active[x] /\ names'[x] = names[x]
    BY <1>6 DEF PrepareActiveVersion, Goto
  <2>3. \A w \in Regular' : w \in Regular \/ w[1] = req[r].pkg
    BY <1>6 DEF PrepareActiveVersion, Goto, RemoveRecord, meta, sysd, Target, Regular
  <2>4. \A q \in Pkg : q # req[r].pkg => records'[q] = records[q]
    BY <1>6 DEF PrepareActiveVersion, Goto, RemoveRecord, meta, sysd
  <2>5. Knows(r)'
    BY <1>6 DEF PrepareActiveVersion, Goto, RemoveRecord, meta, sysd, Knows, Target, Retiring, Regular, HandlerShape
  <2>6. UnitHasRecord'
    BY <1>6, <2>1, RecordRemoved, RecordsKept DEF Regular, PrepareActiveVersion, Goto, RemoveRecord, meta, sysd, Knows, HandlerShape
  <2> QED
    BY <2>1, <2>2, <2>3, <2>4, <2>5, <2>6, OthersKnow
<1>7. ASSUME NEW r \in Req, ReuseVolumes(r) PROVE HandlerKnows' /\ UnitHasRecord'
  <2>1. /\ pc[r] \notin {"idle", "lock"} /\ req[r].pkg \in Pkg
        /\ phase = "serving" /\ phase' = phase
    BY <1>7 DEF ReuseVolumes, HandlerShape, boot
  <2>2. \A x \in Req \ {r} : /\ pc'[x] = pc[x] /\ req'[x] = req[x]
                             /\ active'[x] = active[x] /\ names'[x] = names[x]
    BY <1>7 DEF ReuseVolumes, Goto
  <2>3. \A w \in Regular' : w \in Regular \/ w[1] = req[r].pkg
    BY <1>7 DEF ReuseVolumes, Goto, meta, sysd, Target, Regular
  <2>4. \A q \in Pkg : q # req[r].pkg => records'[q] = records[q]
    BY <1>7 DEF ReuseVolumes, Goto, meta, sysd
  <2>5. Knows(r)'
    BY <1>7 DEF ReuseVolumes, Goto, meta, sysd, Knows, Target, Retiring, Regular, HandlerShape
  <2>6. UnitHasRecord'
    BY <1>7 DEF ReuseVolumes, Goto, meta, sysd, Knows, Target, Retiring, Regular, HandlerShape, UnitHasRecord, Installed
  <2> QED
    BY <2>1, <2>2, <2>3, <2>4, <2>5, <2>6, OthersKnow
<1>8. ASSUME NEW r \in Req, ProvisionVolumes(r) PROVE HandlerKnows' /\ UnitHasRecord'
  <2>1. /\ pc[r] \notin {"idle", "lock"} /\ req[r].pkg \in Pkg
        /\ phase = "serving" /\ phase' = phase
    BY <1>8 DEF ProvisionVolumes, HandlerShape, boot
  <2>2. \A x \in Req \ {r} : /\ pc'[x] = pc[x] /\ req'[x] = req[x]
                             /\ active'[x] = active[x] /\ names'[x] = names[x]
    BY <1>8 DEF ProvisionVolumes, Goto
  <2>3. \A w \in Regular' : w \in Regular \/ w[1] = req[r].pkg
    BY <1>8 DEF ProvisionVolumes, Goto, meta, sysd, Target, Regular
  <2>4. \A q \in Pkg : q # req[r].pkg => records'[q] = records[q]
    BY <1>8 DEF ProvisionVolumes, Goto, meta, sysd
  <2>5. Knows(r)'
    BY <1>8 DEF ProvisionVolumes, Goto, meta, sysd, Knows, Target, Retiring, Regular, HandlerShape
  <2>6. UnitHasRecord'
    BY <1>8 DEF ProvisionVolumes, Goto, meta, sysd, Knows, Target, Retiring, Regular, HandlerShape, UnitHasRecord, Installed
  <2> QED
    BY <2>1, <2>2, <2>3, <2>4, <2>5, <2>6, OthersKnow
<1>9. ASSUME NEW r \in Req, SaveInstall(r) PROVE HandlerKnows' /\ UnitHasRecord'
  <2>1. /\ pc[r] \notin {"idle", "lock"} /\ req[r].pkg \in Pkg
        /\ phase = "serving" /\ phase' = phase
    BY <1>9 DEF SaveInstall, HandlerShape, boot
  <2>2. \A x \in Req \ {r} : /\ pc'[x] = pc[x] /\ req'[x] = req[x]
                             /\ active'[x] = active[x] /\ names'[x] = names[x]
    BY <1>9 DEF SaveInstall, Goto, Finish
  <2>3. \A w \in Regular' : w \in Regular \/ w[1] = req[r].pkg
    BY <1>9 DEF SaveInstall, Goto, Finish, meta, sysd, Target, Regular
  <2>4. \A q \in Pkg : q # req[r].pkg => records'[q] = records[q]
    BY <1>9 DEF SaveInstall, Goto, Finish, meta, sysd
  <2>5. Knows(r)'
    <3>1. UNCHANGED <<unit, undeleted>> /\ pc[r] = "save"
      BY <1>9 DEF SaveInstall, sysd
    <3>2. CASE req[r].ver \in records[req[r].pkg]
      BY <1>9, <3>2 DEF SaveInstall, Finish, Knows
    <3>3. CASE req[r].ver \notin records[req[r].pkg]
      <4>1. /\ pc'[r] = IF active[r] \in {0, req[r].ver} THEN "units" ELSE "drop"
            /\ req'[r] = req[r] /\ active'[r] = active[r]
            /\ req[r].ver \in records'[req[r].pkg]
        BY <1>9, <2>1, <3>3 DEF SaveInstall, Goto
      <4> QED
        BY <3>1, <4>1 DEF Knows
    <3> QED
      BY <3>2, <3>3
  <2>6. UnitHasRecord'
    <3>1. Regular' = Regular
      BY <1>9 DEF SaveInstall, sysd, Regular
    <3>2. \A p \in Pkg : records[p] \subseteq records'[p]
      BY <1>9 DEF SaveInstall, meta
    <3> QED
      BY <3>1, <3>2, RecordsKept
  <2> QED
    BY <2>1, <2>2, <2>3, <2>4, <2>5, <2>6, OthersKnow
<1>10. ASSUME NEW r \in Req, DropOldRecord(r) PROVE HandlerKnows' /\ UnitHasRecord'
  <2>1. /\ pc[r] \notin {"idle", "lock"} /\ req[r].pkg \in Pkg
        /\ phase = "serving" /\ phase' = phase
    BY <1>10 DEF DropOldRecord, HandlerShape, boot
  <2>2. \A x \in Req \ {r} : /\ pc'[x] = pc[x] /\ req'[x] = req[x]
                             /\ active'[x] = active[x] /\ names'[x] = names[x]
    BY <1>10 DEF DropOldRecord, Goto
  <2>3. \A w \in Regular' : w \in Regular \/ w[1] = req[r].pkg
    BY <1>10 DEF DropOldRecord, Goto, RemoveRecord, HalfRemoved, meta, sysd, Target, Regular
  <2>4. \A q \in Pkg : q # req[r].pkg => records'[q] = records[q]
    BY <1>10 DEF DropOldRecord, Goto, RemoveRecord, HalfRemoved, meta, sysd
  <2>5. Knows(r)'
    <3>1. /\ pc'[r] = "units" /\ req'[r] = req[r]
          /\ req[r].ver \in records[req[r].pkg] /\ active[r] # req[r].ver
      BY <1>10 DEF DropOldRecord, Goto, Knows
    <3>2. \/ records' = records
          \/ records' = [records EXCEPT ![req[r].pkg] = @ \ {active[r]}]
      BY <1>10 DEF DropOldRecord, RemoveRecord, HalfRemoved, meta
    <3> QED
      BY <2>1, <3>1, <3>2 DEF Knows
  <2>6. UnitHasRecord'
    <3>1. Regular' = Regular /\ <<req[r].pkg, active[r]>> \notin Regular
      BY <1>10 DEF DropOldRecord, sysd, Knows, Regular
    <3>2. \/ records' = records
          \/ records' = [records EXCEPT ![req[r].pkg] = @ \ {active[r]}]
      BY <1>10 DEF DropOldRecord, RemoveRecord, HalfRemoved, meta
    <3> QED
      BY <2>1, <3>1, <3>2, RecordRemoved, RecordsKept
  <2> QED
    BY <2>1, <2>2, <2>3, <2>4, <2>5, <2>6, OthersKnow
<1>11. ASSUME NEW r \in Req, InstallUnits(r) PROVE HandlerKnows' /\ UnitHasRecord'
  <2>1. /\ pc[r] \notin {"idle", "lock"} /\ req[r].pkg \in Pkg
        /\ phase = "serving" /\ phase' = phase
    BY <1>11 DEF InstallUnits, HandlerShape, boot
  <2>2. \A x \in Req \ {r} : /\ pc'[x] = pc[x] /\ req'[x] = req[x]
                             /\ active'[x] = active[x] /\ names'[x] = names[x]
    BY <1>11 DEF InstallUnits, Goto, Finish
  <2>3. \A w \in Regular' : w \in Regular \/ w[1] = req[r].pkg
    BY <1>11 DEF InstallUnits, Goto, Finish, WriteUnit, meta, Target, Regular
  <2>4. \A q \in Pkg : q # req[r].pkg => records'[q] = records[q]
    BY <1>11 DEF InstallUnits, Goto, Finish, WriteUnit, meta
  <2>5. Knows(r)'
    BY <1>11 DEF InstallUnits, Goto, Finish, WriteUnit, meta, Knows, Target, Retiring, Regular, HandlerShape
  <2>6. UnitHasRecord'
    BY <1>11, <2>1, UnitAdded DEF Regular, WriteUnit, InstallUnits, Goto, Finish, WriteUnit, meta, Knows, Target, Retiring, Regular, HandlerShape
  <2> QED
    BY <2>1, <2>2, <2>3, <2>4, <2>5, <2>6, OthersKnow
<1>12. ASSUME NEW r \in Req, StartUnit(r) PROVE HandlerKnows' /\ UnitHasRecord'
  <2>1. /\ pc[r] \notin {"idle", "lock"} /\ req[r].pkg \in Pkg
        /\ phase = "serving" /\ phase' = phase
    BY <1>12 DEF StartUnit, HandlerShape, boot
  <2>2. \A x \in Req \ {r} : /\ pc'[x] = pc[x] /\ req'[x] = req[x]
                             /\ active'[x] = active[x] /\ names'[x] = names[x]
    BY <1>12 DEF StartUnit, Finish
  <2>3. \A w \in Regular' : w \in Regular \/ w[1] = req[r].pkg
    BY <1>12 DEF StartUnit, Finish, SetStart, meta, sysd, Target, Regular
  <2>4. \A q \in Pkg : q # req[r].pkg => records'[q] = records[q]
    BY <1>12 DEF StartUnit, Finish, SetStart, meta, sysd
  <2>5. Knows(r)'
    BY <1>12 DEF StartUnit, Finish, SetStart, meta, sysd, Knows, Target, Retiring, Regular, HandlerShape
  <2>6. UnitHasRecord'
    BY <1>12 DEF StartUnit, Finish, SetStart, meta, sysd, Knows, Target, Retiring, Regular, HandlerShape, UnitHasRecord, Installed
  <2> QED
    BY <2>1, <2>2, <2>3, <2>4, <2>5, <2>6, OthersKnow
<1>13. ASSUME NEW r \in Req, RemoveInstall(r) PROVE HandlerKnows' /\ UnitHasRecord'
  <2>1. /\ pc[r] \notin {"idle", "lock"} /\ req[r].pkg \in Pkg
        /\ phase = "serving" /\ phase' = phase
    BY <1>13 DEF RemoveInstall, HandlerShape, boot
  <2>2. \A x \in Req \ {r} : /\ pc'[x] = pc[x] /\ req'[x] = req[x]
                             /\ active'[x] = active[x] /\ names'[x] = names[x]
    BY <1>13 DEF RemoveInstall, Goto, Finish
  <2>3. \A w \in Regular' : w \in Regular \/ w[1] = req[r].pkg
    BY <1>13 DEF RemoveInstall, Goto, Finish, RemoveRecord, sysd, Target, Regular
  <2>4. \A q \in Pkg : q # req[r].pkg => records'[q] = records[q]
    BY <1>13 DEF RemoveInstall, Goto, Finish, RemoveRecord, sysd
  <2>5. Knows(r)'
    BY <1>13 DEF RemoveInstall, Goto, Finish, RemoveRecord, sysd, Knows, Target, Retiring, Regular, HandlerShape
  <2>6. UnitHasRecord'
    BY <1>13, <2>1, RecordRemoved, RecordsKept DEF Regular, RemoveInstall, Goto, Finish, RemoveRecord, sysd, Knows, Target, Retiring, Regular, HandlerShape
  <2> QED
    BY <2>1, <2>2, <2>3, <2>4, <2>5, <2>6, OthersKnow
<1>14. ASSUME NEW r \in Req, KeepVolumes(r) PROVE HandlerKnows' /\ UnitHasRecord'
  <2>1. /\ pc[r] \notin {"idle", "lock"} /\ req[r].pkg \in Pkg
        /\ phase = "serving" /\ phase' = phase
    BY <1>14 DEF KeepVolumes, HandlerShape, boot
  <2>2. \A x \in Req \ {r} : /\ pc'[x] = pc[x] /\ req'[x] = req[x]
                             /\ active'[x] = active[x] /\ names'[x] = names[x]
    BY <1>14 DEF KeepVolumes, Finish
  <2>3. \A w \in Regular' : w \in Regular \/ w[1] = req[r].pkg
    BY <1>14 DEF KeepVolumes, Finish, meta, sysd, Target, Regular
  <2>4. \A q \in Pkg : q # req[r].pkg => records'[q] = records[q]
    BY <1>14 DEF KeepVolumes, Finish, meta, sysd
  <2>5. Knows(r)'
    BY <1>14 DEF KeepVolumes, Finish, meta, sysd, Knows, Target, Retiring, Regular, HandlerShape
  <2>6. UnitHasRecord'
    BY <1>14 DEF KeepVolumes, Finish, meta, sysd, Knows, Target, Retiring, Regular, HandlerShape, UnitHasRecord, Installed
  <2> QED
    BY <2>1, <2>2, <2>3, <2>4, <2>5, <2>6, OthersKnow
<1>15. ASSUME NEW r \in Req, PurgeInstalled(r) PROVE HandlerKnows' /\ UnitHasRecord'
  <2>1. /\ pc[r] \notin {"idle", "lock"} /\ req[r].pkg \in Pkg
        /\ phase = "serving" /\ phase' = phase
    BY <1>15 DEF PurgeInstalled, HandlerShape, boot
  <2>2. \A x \in Req \ {r} : /\ pc'[x] = pc[x] /\ req'[x] = req[x]
                             /\ active'[x] = active[x] /\ names'[x] = names[x]
    BY <1>15 DEF PurgeInstalled, Goto
  <2>3. \A w \in Regular' : w \in Regular \/ w[1] = req[r].pkg
    BY <1>15 DEF PurgeInstalled, Goto, meta, sysd, Target, Regular
  <2>4. \A q \in Pkg : q # req[r].pkg => records'[q] = records[q]
    BY <1>15 DEF PurgeInstalled, Goto, meta, sysd
  <2>5. Knows(r)'
    BY <1>15 DEF PurgeInstalled, Goto, meta, sysd, Knows, Target, Retiring, Regular, HandlerShape
  <2>6. UnitHasRecord'
    BY <1>15 DEF PurgeInstalled, Goto, meta, sysd, Knows, Target, Retiring, Regular, HandlerShape, UnitHasRecord, Installed
  <2> QED
    BY <2>1, <2>2, <2>3, <2>4, <2>5, <2>6, OthersKnow
<1>16. ASSUME NEW r \in Req, PurgeUninstalled(r) PROVE HandlerKnows' /\ UnitHasRecord'
  <2>1. /\ pc[r] \notin {"idle", "lock"} /\ req[r].pkg \in Pkg
        /\ phase = "serving" /\ phase' = phase
    BY <1>16 DEF PurgeUninstalled, HandlerShape, boot
  <2>2. \A x \in Req \ {r} : /\ pc'[x] = pc[x] /\ req'[x] = req[x]
                             /\ active'[x] = active[x] /\ names'[x] = names[x]
    BY <1>16 DEF PurgeUninstalled, Finish
  <2>3. \A w \in Regular' : w \in Regular \/ w[1] = req[r].pkg
    BY <1>16 DEF PurgeUninstalled, Finish, meta, sysd, Target, Regular
  <2>4. \A q \in Pkg : q # req[r].pkg => records'[q] = records[q]
    BY <1>16 DEF PurgeUninstalled, Finish, meta, sysd
  <2>5. Knows(r)'
    BY <1>16 DEF PurgeUninstalled, Finish, meta, sysd, Knows, Target, Retiring, Regular, HandlerShape
  <2>6. UnitHasRecord'
    BY <1>16 DEF PurgeUninstalled, Finish, meta, sysd, Knows, Target, Retiring, Regular, HandlerShape, UnitHasRecord, Installed
  <2> QED
    BY <2>1, <2>2, <2>3, <2>4, <2>5, <2>6, OthersKnow
<1>17. ASSUME NEW r \in Req, SetDisabled(r) PROVE HandlerKnows' /\ UnitHasRecord'
  <2>1. /\ pc[r] \notin {"idle", "lock"} /\ req[r].pkg \in Pkg
        /\ phase = "serving" /\ phase' = phase
    BY <1>17 DEF SetDisabled, HandlerShape, boot
  <2>2. \A x \in Req \ {r} : /\ pc'[x] = pc[x] /\ req'[x] = req[x]
                             /\ active'[x] = active[x] /\ names'[x] = names[x]
    BY <1>17 DEF SetDisabled, Goto, Finish
  <2>3. \A w \in Regular' : w \in Regular \/ w[1] = req[r].pkg
    BY <1>17 DEF SetDisabled, Goto, Finish, sysd, Target, Regular
  <2>4. \A q \in Pkg : q # req[r].pkg => records'[q] = records[q]
    BY <1>17 DEF SetDisabled, Goto, Finish, sysd
  <2>5. Knows(r)'
    BY <1>17 DEF SetDisabled, Goto, Finish, sysd, Knows, Target, Retiring, Regular, HandlerShape
  <2>6. UnitHasRecord'
    BY <1>17 DEF SetDisabled, Goto, Finish, sysd, Knows, Target, Retiring, Regular, HandlerShape, UnitHasRecord, Installed
  <2> QED
    BY <2>1, <2>2, <2>3, <2>4, <2>5, <2>6, OthersKnow
<1>18. ASSUME NEW r \in Req, HaltUnit(r) PROVE HandlerKnows' /\ UnitHasRecord'
  <2>1. /\ pc[r] \notin {"idle", "lock"} /\ req[r].pkg \in Pkg
        /\ phase = "serving" /\ phase' = phase
    BY <1>18 DEF HaltUnit, HandlerShape, boot
  <2>2. \A x \in Req \ {r} : /\ pc'[x] = pc[x] /\ req'[x] = req[x]
                             /\ active'[x] = active[x] /\ names'[x] = names[x]
    BY <1>18 DEF HaltUnit, Finish
  <2>3. \A w \in Regular' : w \in Regular \/ w[1] = req[r].pkg
    BY <1>18 DEF HaltUnit, Finish, SetStop, meta, sysd, Target, Regular
  <2>4. \A q \in Pkg : q # req[r].pkg => records'[q] = records[q]
    BY <1>18 DEF HaltUnit, Finish, SetStop, meta, sysd
  <2>5. Knows(r)'
    BY <1>18 DEF HaltUnit, Finish, SetStop, meta, sysd, Knows, Target, Retiring, Regular, HandlerShape
  <2>6. UnitHasRecord'
    BY <1>18 DEF HaltUnit, Finish, SetStop, meta, sysd, Knows, Target, Retiring, Regular, HandlerShape, UnitHasRecord, Installed
  <2> QED
    BY <2>1, <2>2, <2>3, <2>4, <2>5, <2>6, OthersKnow
<1>19. ASSUME NEW r \in Req, Fail(r) PROVE HandlerKnows' /\ UnitHasRecord'
  <2>1. /\ pc[r] \notin {"idle", "lock"} /\ req[r].pkg \in Pkg
        /\ phase = "serving" /\ phase' = phase
    BY <1>19 DEF Fail, MayFail, HandlerShape, boot
  <2>2. \A x \in Req \ {r} : /\ pc'[x] = pc[x] /\ req'[x] = req[x]
                             /\ active'[x] = active[x] /\ names'[x] = names[x]
    BY <1>19 DEF Fail, Finish
  <2>3. \A w \in Regular' : w \in Regular \/ w[1] = req[r].pkg
    BY <1>19 DEF Fail, FailUnit, WriteUnit, sysd, Target, Regular
  <2>4. \A q \in Pkg : q # req[r].pkg => records'[q] = records[q]
    BY <1>19 DEF Fail, FailMeta, HalfRemoved, meta
  <2>5. Knows(r)'
    BY <1>19 DEF Fail, Finish, Knows
  <2>6. UnitHasRecord'
    <3>1. CASE pc[r] = "units"
      <4>1. records' = records /\ Regular' \subseteq Regular \cup {Target(r)}
        BY <1>19, <3>1 DEF Fail, FailMeta, FailUnit, WriteUnit, meta, sysd, Regular
      <4>2. req[r].ver \in Ver /\ req[r].ver \in records[req[r].pkg]
        BY <3>1 DEF Knows, HandlerShape
      <4> QED
        BY <2>1, <4>1, <4>2, UnitAdded DEF Target
    <3>2. CASE pc[r] # "units"
      <4>1. Regular' \subseteq Regular
        BY <1>19, <3>2 DEF Fail, FailUnit, sysd, Regular
      <4>2. CASE \A p \in Pkg : records[p] \subseteq records'[p]
        BY <4>1, <4>2, RecordsKept
      <4>3. CASE records' = [records EXCEPT ![req[r].pkg] = @ \ {req[r].ver}]
                 /\ (pc[r] = "unrecord" \/ (pc[r] = "migrate" /\ active[r] = req[r].ver))
        <5>1. Target(r) \notin Regular
          BY <4>3 DEF Knows, Target, Regular
        <5> QED
          BY <2>1, <4>1, <4>3, <5>1, RecordRemoved DEF Target
      <4> QED
        BY <1>19, <2>1, <4>2, <4>3 DEF Fail, FailMeta, HalfRemoved, meta
    <3> QED
      BY <3>1, <3>2
  <2> QED
    BY <2>1, <2>2, <2>3, <2>4, <2>5, <2>6, OthersKnow
<1>20. ASSUME NEW u \in Unit, SetUnitStatus(u) PROVE HandlerKnows' /\ UnitHasRecord'
  <2>1. UNCHANGED <<unit, undeleted, records, pc, req, active, names>> /\ (phase' = "reconcile" => phase = "reconcile" /\ todo' \subseteq todo)
    BY <1>20 DEF SetUnitStatus, SetStart, SetStop, meta, sysd, disk, ghost, ctl, boot, cnt
  <2> QED
    BY <2>1 DEF Knows, Target, Retiring, Regular, UnitHasRecord, Installed
<1>21. ASSUME NEW u \in Unit, Write(u) PROVE HandlerKnows' /\ UnitHasRecord'
  <2>1. UNCHANGED <<unit, undeleted, records, pc, req, active, names>> /\ (phase' = "reconcile" => phase = "reconcile" /\ todo' \subseteq todo)
    BY <1>21 DEF Write, meta, sysd, disk, ghost, ctl, boot, cnt
  <2> QED
    BY <2>1 DEF Knows, Target, Retiring, Regular, UnitHasRecord, Installed
<1>22. ASSUME NEW u \in Unit, ReconcilePackage(u) PROVE HandlerKnows' /\ UnitHasRecord'
  <2>1. /\ UNCHANGED <<records, phase, pc>> /\ phase = "reconcile"
        /\ u \in todo /\ todo' = todo \ {u} /\ Regular' \subseteq Regular \cup {u}
    BY <1>22 DEF ReconcilePackage, WriteUnit, meta, sysd, disk, ghost, ctl, boot, cnt, Regular
  <2>2. \A x \in Req : pc[x] = "idle"
    BY <2>1 DEF HandlerShape
  <2>3. u \in Installed
    BY <2>1
  <2>4. UnitHasRecord'
    BY <2>1, <2>3 DEF UnitHasRecord, Installed, Regular
  <2> QED
    BY <2>1, <2>2, <2>4 DEF Knows, Installed
<1>23. ASSUME NEW u \in Unit, StartPackage(u) PROVE HandlerKnows' /\ UnitHasRecord'
  <2>1. UNCHANGED <<unit, undeleted, records, pc, req, active, names>> /\ (phase' = "reconcile" => phase = "reconcile" /\ todo' \subseteq todo)
    BY <1>23 DEF StartPackage, SetStart, meta, sysd, disk, ghost, ctl, boot, cnt
  <2> QED
    BY <2>1 DEF Knows, Target, Retiring, Regular, UnitHasRecord, Installed
<1>24. ASSUME NEW u \in Unit, RestartPackage(u) PROVE HandlerKnows' /\ UnitHasRecord'
  <2>1. UNCHANGED <<unit, undeleted, records, pc, req, active, names>> /\ (phase' = "reconcile" => phase = "reconcile" /\ todo' \subseteq todo)
    BY <1>24 DEF RestartPackage, SetRestart, meta, sysd, disk, ghost, ctl, boot, cnt
  <2> QED
    BY <2>1 DEF Knows, Target, Retiring, Regular, UnitHasRecord, Installed
<1>25. CASE EndPhaseOne
  <2>1. UNCHANGED <<unit, undeleted, records, pc, req, active, names>> /\ (phase' = "reconcile" => phase = "reconcile" /\ todo' \subseteq todo)
    BY <1>25 DEF EndPhaseOne, meta, sysd, disk, ghost, ctl, boot, cnt
  <2> QED
    BY <2>1 DEF Knows, Target, Retiring, Regular, UnitHasRecord, Installed
<1>26. CASE EndPhaseTwo
  <2>1. UNCHANGED <<unit, undeleted, records, pc, req, active, names>> /\ (phase' = "reconcile" => phase = "reconcile" /\ todo' \subseteq todo)
    BY <1>26 DEF EndPhaseTwo, meta, sysd, disk, ghost, ctl, boot, cnt
  <2> QED
    BY <2>1 DEF Knows, Target, Retiring, Regular, UnitHasRecord, Installed
<1>27. CASE EndReconcile
  <2>1. UNCHANGED <<unit, undeleted, records, pc, req, active, names>> /\ (phase' = "reconcile" => phase = "reconcile" /\ todo' \subseteq todo)
    BY <1>27 DEF EndReconcile, meta, sysd, disk, ghost, ctl, boot, cnt
  <2> QED
    BY <2>1 DEF Knows, Target, Retiring, Regular, UnitHasRecord, Installed
<1>28. CASE Serve
  <2>1. UNCHANGED <<unit, undeleted, records, pc, req, active, names>> /\ (phase' = "reconcile" => phase = "reconcile" /\ todo' \subseteq todo)
    BY <1>28 DEF Serve, meta, sysd, disk, ghost, ctl, boot, cnt
  <2> QED
    BY <2>1 DEF Knows, Target, Retiring, Regular, UnitHasRecord, Installed
<1>35. CASE FreshnessFails
  <2>1. UNCHANGED <<unit, undeleted, records, pc, req, active, names>> /\ (phase' = "reconcile" => phase = "reconcile" /\ todo' \subseteq todo)
    BY <1>35 DEF FreshnessFails, meta, sysd, disk, ghost, ctl, boot, cnt
  <2> QED
    BY <2>1 DEF Knows, Target, Retiring, Regular, UnitHasRecord, Installed
<1>29. CASE Refresh
  <2>1. UNCHANGED <<unit, undeleted, records, pc, req, active, names>> /\ (phase' = "reconcile" => phase = "reconcile" /\ todo' \subseteq todo)
    BY <1>29 DEF Refresh, meta, sysd, disk, ghost, ctl, boot, cnt
  <2> QED
    BY <2>1 DEF Knows, Target, Retiring, Regular, UnitHasRecord, Installed
<1>30. CASE SelfRestart
  <2>1. NewProcess /\ Regular' \subseteq Regular
    BY <1>30 DEF SelfRestart, Regular
  <2>2. Installed' = Installed /\ Latest \subseteq Installed
    BY <2>1 DEF NewProcess, meta, Installed, Latest
  <2> QED
    BY <2>1, <2>2 DEF NewProcess, Knows, UnitHasRecord, Regular
<1>36. CASE SelfRestartFails
  <2>1. UNCHANGED <<unit, undeleted, records, pc, req, active, names>> /\ (phase' = "reconcile" => phase = "reconcile" /\ todo' \subseteq todo)
    BY <1>36 DEF SelfRestartFails, meta, sysd, disk, ghost, ctl, boot, cnt
  <2> QED
    BY <2>1 DEF Knows, Target, Retiring, Regular, UnitHasRecord, Installed
<1>31. CASE Crash
  <2>1. NewProcess /\ Regular' \subseteq Regular
    BY <1>31 DEF Crash, Regular
  <2>2. Installed' = Installed /\ Latest \subseteq Installed
    BY <2>1 DEF NewProcess, meta, Installed, Latest
  <2> QED
    BY <2>1, <2>2 DEF NewProcess, Knows, UnitHasRecord, Regular
<1>32. CASE Reboot
  <2>1. NewProcess /\ Regular' \subseteq Regular
    BY <1>32 DEF Reboot, Regular
  <2>2. Installed' = Installed /\ Latest \subseteq Installed
    BY <2>1 DEF NewProcess, meta, Installed, Latest
  <2> QED
    BY <2>1, <2>2 DEF NewProcess, Knows, UnitHasRecord, Regular
<1>33. CASE UNCHANGED vars
  BY <1>33 DEF vars, meta, sysd, disk, ghost, ctl, boot, cnt, Knows, Target, Retiring, Regular, UnitHasRecord, Installed
<1> QED
  BY <1>1, <1>2, <1>3, <1>4, <1>5, <1>6, <1>7, <1>8, <1>9, <1>10, <1>11, <1>12, <1>13, <1>14, <1>15, <1>16, <1>17, <1>18, <1>19, <1>20, <1>21, <1>22, <1>23, <1>24, <1>25, <1>26, <1>27, <1>28, <1>29, <1>30, <1>31, <1>32, <1>33, <1>34, <1>35, <1>36 DEF Next, Handler, Boot
-----------------------------------------------------------------------------
(* The theorems *)

(* The inductive invariant: types, the shape of a handler's progress, the    *)
(* locks, and what handlers and boot know about units and records.           *)
IInv == TypeOK /\ HandlerShape /\ Serialised /\ HandlerKnows /\ UnitHasRecord

(* A fresh machine satisfies it. *)
LEMMA InitInv == Init => IInv
<1> SUFFICES ASSUME Init PROVE IInv
  OBVIOUS
<1> USE LifecycleAssumption DEF Init, Idle
<1>1. TypeOK
  <2>1. MetaOK /\ SystemdOK /\ DiskOK /\ GhostOK /\ CountersOK
    BY DEF MetaOK, SystemdOK, DiskOK, GhostOK, CountersOK
  <2>2. RequestsOK
    BY DEF RequestsOK, Step, AllOps
  <2>3. BootOK
    BY DEF BootOK, Phase, Restart
  <2> QED
    BY <2>1, <2>2, <2>3 DEF TypeOK
<1>2. HandlerShape /\ HandlerKnows /\ UnitHasRecord
  BY DEF HandlerShape, HandlerKnows, Knows, UnitHasRecord
<1>3. Serialised
  BY DEF Serialised
<1> QED
  BY <1>1, <1>2, <1>3 DEF IInv

(* Every step, a crash or a reboot included, preserves it. *)
LEMMA StepInv == IInv /\ [Next]_vars => IInv'
  BY TypeStep, ShapeStep, SerialisedStep, KnowsStep DEF IInv

(* It holds in every state the system reaches. *)
LEMMA Inductive == Spec => []IInv
  BY InitInv, StepInv, PTL DEF Spec

(* Records, units, volumes, requests and boot stage always have their types: *)
(* in particular no handler ever writes a unit or a record for a version     *)
(* that the package does not have.                                           *)
THEOREM TypeCorrect == Spec => []TypeOK
<1>1. IInv => TypeOK
  BY DEF IInv
<1> QED
  BY <1>1, Inductive, PTL

(* lockPackage gives mutual exclusion per package, and every path through a  *)
(* handler, the failing ones included, gives the lock back.                  *)
THEOREM LocksCorrect == Spec => []Serialised
<1>1. IInv => Serialised
  BY DEF IInv
<1> QED
  BY <1>1, Inductive, PTL

(* At every instant a unit file on disk has its install record, whatever     *)
(* handlers are under way and wherever a crash or a reboot cut them short.   *)
THEOREM UnitsHaveRecords == Spec => []UnitHasRecord
<1>1. IInv => UnitHasRecord
  BY DEF IInv
<1> QED
  BY <1>1, Inductive, PTL

(* What a handler read under the lock (the active version, the units it took *)
(* away, the record it wrote) is still true when it acts on it.              *)
THEOREM HandlersKnow == Spec => []HandlerKnows
<1>1. IInv => HandlerKnows
  BY DEF IInv
<1> QED
  BY <1>1, Inductive, PTL
-----------------------------------------------------------------------------
(* What services wrote *)

(* NothingLost is inductive together with this: a path where no subvolume    *)
(* exists holds nothing, so that a rename onto it covers nothing up.         *)
DataHome == \A s \in Subvol \ subvols : data[s] = {}

(* What the existing subvolumes hold. *)
Stored == UNION {data[s] : s \in subvols}

(* Membership in it, in the form the steps below use. *)
LEMMA StoredMember ==
  /\ \A x : x \in Stored <=> \E s \in subvols : x \in data[s]
  /\ \A x : x \in Stored' <=> \E s \in subvols' : x \in data'[s]
BY DEF Stored

(* Steps that leave the disk and the writes alone. *)
LEMMA DataKept ==
  ASSUME DataHome, NothingLost, UNCHANGED <<disk, written>>
  PROVE  DataHome' /\ NothingLost'
BY DEF DataHome, NothingLost, disk

(* RenameFilesystem carries the contents along, one source per destination,  *)
(* and never onto a subvolume.                                               *)
LEMMA RenameKeeps ==
  ASSUME DiskOK, DataHome, NothingLost, written' = written,
         NEW D \in SUBSET Subvol, NEW from \in [D -> Subvol],
         \A d, e \in D : from[d] \notin D /\ (from[d] = from[e] => d = e),
         RenameFilesystem(from)
  PROVE  DataHome' /\ NothingLost'
<1> DEFINE src == {from[d] : d \in D}
<1>1. CASE src \cap subvols = {} \/ D \cap subvols # {}
  <2>1. UNCHANGED disk
    BY <1>1 DEF RenameFilesystem
  <2> QED
    BY <2>1, DataKept
<1>2. CASE ~(src \cap subvols = {} \/ D \cap subvols # {})
  <2>1. /\ subvols' = (subvols \ src) \cup {d \in D : from[d] \in subvols}
        /\ data' = [s \in Subvol |-> IF s \in D THEN data[from[s]]
                                     ELSE IF s \in src THEN {} ELSE data[s]]
        /\ purged' = purged
    BY <1>2 DEF RenameFilesystem
  <2>2. D \cap subvols = {} /\ D \cap src = {} /\ src \subseteq Subvol
    BY <1>2
  <2>3. DataHome'
    <3> SUFFICES ASSUME NEW s \in Subvol, s \notin subvols' PROVE data'[s] = {}
      BY DEF DataHome
    <3>1. CASE s \in D
      <4>1. from[s] \in Subvol /\ from[s] \notin subvols
        BY <2>1, <3>1
      <4> QED
        BY <2>1, <3>1, <4>1 DEF DataHome
    <3>2. CASE s \notin D
      BY <2>1, <3>2 DEF DataHome
    <3> QED
      BY <3>1, <3>2
  <2>4. ASSUME NEW x, NEW s \in subvols, x \in data[s] PROVE \E t \in subvols' : x \in data'[t]
    <3>1. CASE s \in src
      <4>1. PICK d \in D : from[d] = s
        BY <3>1
      <4>2. d \in subvols' /\ data'[d] = data[s]
        BY <2>1, <4>1
      <4> QED
        BY <2>4, <4>2
    <3>2. CASE s \notin src
      <4>1. s \in subvols' /\ data'[s] = data[s]
        BY <2>1, <2>2, <3>2 DEF DiskOK
      <4> QED
        BY <2>4, <4>1
    <3> QED
      BY <3>1, <3>2
  <2>5. ASSUME NEW x, NEW t \in subvols', x \in data'[t] PROVE \E s \in subvols : x \in data[s]
    <3>1. CASE t \in D
      BY <2>1, <2>2, <2>5, <3>1
    <3>2. CASE t \notin D
      BY <2>1, <2>5, <3>2 DEF DiskOK
    <3> QED
      BY <3>1, <3>2
  <2>6. Stored' = Stored
    BY <2>4, <2>5, StoredMember
  <2> QED
    BY <2>1, <2>3, <2>6 DEF NothingLost, Stored
<1> QED
  BY <1>1, <1>2

(* A new subvolume is empty, an existing one is left as it is. *)
LEMMA CreateKeeps ==
  ASSUME DiskOK, DataHome, NothingLost, written' = written,
         NEW u \in Unit, CreateFilesystem(u)
  PROVE  DataHome' /\ NothingLost'
<1> DEFINE n == <<"installed", u[1], u[2]>>
<1>1. n \in Subvol
  BY DEF Subvol, Area, Unit
<1>2. subvols' = subvols \cup {n} /\ data' = data /\ purged' = purged
  BY DEF CreateFilesystem
<1> HIDE DEF n
<1>3. Stored' = Stored
  BY <1>1, <1>2, StoredMember DEF DataHome
<1> QED
  BY <1>2, <1>3 DEF DataHome, NothingLost, Stored

(* A purge is accounted for. *)
LEMMA PurgeKeeps ==
  ASSUME DiskOK, DataHome, NothingLost, written' = written,
         NEW S \in SUBSET Subvol, PurgePrefix(S)
  PROVE  DataHome' /\ NothingLost'
<1>1. /\ subvols' = subvols \ S
      /\ data' = [s \in Subvol |-> IF s \in S THEN {} ELSE data[s]]
      /\ purged' = purged \cup UNION {data[s] : s \in S}
  BY DEF PurgePrefix
<1>2. DataHome'
  BY <1>1 DEF DataHome
<1>3. purged' \cup Stored' = purged \cup Stored
  <2>1. \A x : x \in purged' <=> x \in purged \/ \E s \in S : x \in data[s]
    BY <1>1
  <2>2. \A s \in S : s \notin subvols => data[s] = {}
    BY DEF DataHome
  <2>3. \A s \in subvols : s \notin S => s \in subvols' /\ data'[s] = data[s]
    BY <1>1 DEF DiskOK
  <2>4. \A s \in subvols' : s \in subvols /\ data'[s] = data[s]
    BY <1>1 DEF DiskOK
  <2>5. ASSUME NEW x PROVE x \in purged' \cup Stored' <=> x \in purged \cup Stored
    BY <2>1, <2>2, <2>3, <2>4, StoredMember
  <2> QED
    BY <2>5
<1> QED
  BY <1>1, <1>2, <1>3 DEF NothingLost, Stored

(* The two areas are apart, and a version keeps its number in a move. *)
LEMMA MoveTreeApart ==
  ASSUME NEW p, NEW a, NEW b, a # b
  PROVE  \A d, e \in Tree(b, p) :
           /\ MoveTree(p, a, b)[d] \notin Tree(b, p)
           /\ MoveTree(p, a, b)[d] = MoveTree(p, a, b)[e] => d = e
BY DEF MoveTree, Tree

(* No step loses a write. *)
LEMMA DataStep ==
  ASSUME TypeOK, HandlerShape, DataHome, NothingLost, [Next]_vars
  PROVE  DataHome' /\ NothingLost'
<1> DiskOK /\ GhostOK /\ RequestsOK
  BY DEF TypeOK
<1>1. ASSUME NEW r \in Req, Dispatch(r) PROVE DataHome' /\ NothingLost'
  BY <1>1, DataKept DEF Dispatch, ghost
<1>2. ASSUME NEW r \in Req, Disconnect(r) PROVE DataHome' /\ NothingLost'
  BY <1>2, DataKept DEF Disconnect, ghost
<1>3. ASSUME NEW r \in Req, LockPackage(r) PROVE DataHome' /\ NothingLost'
  BY <1>3, DataKept DEF LockPackage, ghost
<1>34. ASSUME NEW r \in Req, ListUnits(r) PROVE DataHome' /\ NothingLost'
  BY <1>34, DataKept DEF ListUnits, ghost
<1>4. ASSUME NEW r \in Req, StopCurrent(r) PROVE DataHome' /\ NothingLost'
  BY <1>4, DataKept DEF StopCurrent, ghost
<1>5. ASSUME NEW r \in Req, UninstallUnit(r) PROVE DataHome' /\ NothingLost'
  BY <1>5, DataKept DEF UninstallUnit, ghost
<1>6. ASSUME NEW r \in Req, PrepareActiveVersion(r) PROVE DataHome' /\ NothingLost'
  <2>1. req[r].pkg \in Pkg /\ req[r].ver \in Ver /\ active[r] \in Ver
    BY <1>6 DEF PrepareActiveVersion, HandlerShape
  <2>2. CASE UNCHANGED disk
    BY <1>6, <2>2, DataKept DEF PrepareActiveVersion, ghost
  <2>3. CASE active[r] # req[r].ver /\ RenameFilesystem(MoveVolume(req[r].pkg, active[r], req[r].ver))
    <3> DEFINE D == {<<"installed", req[r].pkg, req[r].ver>>}
               from == MoveVolume(req[r].pkg, active[r], req[r].ver)
    <3>1. D \in SUBSET Subvol /\ from \in [D -> Subvol]
      BY <2>1, MoveVolumeType
    <3>2. \A d, e \in D : from[d] \notin D /\ (from[d] = from[e] => d = e)
      BY <2>3 DEF MoveVolume
    <3>3. written' = written
      BY <1>6 DEF PrepareActiveVersion, ghost
    <3> HIDE DEF D, from
    <3>4. RenameFilesystem(from)
      BY <2>3 DEF from
    <3> QED
      BY <3>1, <3>2, <3>3, <3>4, RenameKeeps
  <2> QED
    BY <1>6, <2>2, <2>3 DEF PrepareActiveVersion
<1>7. ASSUME NEW r \in Req, ReuseVolumes(r) PROVE DataHome' /\ NothingLost'
  <2>1. req[r].pkg \in Pkg /\ written' = written
    BY <1>7 DEF ReuseVolumes, HandlerShape, ghost
  <2>2. CASE UNCHANGED disk
    BY <2>1, <2>2, DataKept
  <2>3. CASE RenameFilesystem(MoveTree(req[r].pkg, "uninstalled", "installed"))
    <3> DEFINE D == Tree("installed", req[r].pkg)
               from == MoveTree(req[r].pkg, "uninstalled", "installed")
    <3>1. D \in SUBSET Subvol /\ from \in [D -> Subvol]
      BY <2>1, MoveTreeType DEF Area
    <3>2. \A d, e \in D : from[d] \notin D /\ (from[d] = from[e] => d = e)
      BY MoveTreeApart
    <3> HIDE DEF D, from
    <3>3. RenameFilesystem(from)
      BY <2>3 DEF from
    <3> QED
      BY <2>1, <3>1, <3>2, <3>3, RenameKeeps
  <2> QED
    BY <1>7, <2>2, <2>3 DEF ReuseVolumes
<1>8. ASSUME NEW r \in Req, ProvisionVolumes(r) PROVE DataHome' /\ NothingLost'
  <2>1. Target(r) \in Unit
    BY <1>8 DEF ProvisionVolumes, HandlerShape, Target, Unit
  <2> QED
    BY <1>8, <2>1, CreateKeeps DEF ProvisionVolumes, ghost
<1>9. ASSUME NEW r \in Req, SaveInstall(r) PROVE DataHome' /\ NothingLost'
  BY <1>9, DataKept DEF SaveInstall, ghost
<1>10. ASSUME NEW r \in Req, DropOldRecord(r) PROVE DataHome' /\ NothingLost'
  BY <1>10, DataKept DEF DropOldRecord, ghost
<1>11. ASSUME NEW r \in Req, InstallUnits(r) PROVE DataHome' /\ NothingLost'
  BY <1>11, DataKept DEF InstallUnits, ghost
<1>12. ASSUME NEW r \in Req, StartUnit(r) PROVE DataHome' /\ NothingLost'
  BY <1>12, DataKept DEF StartUnit, ghost
<1>13. ASSUME NEW r \in Req, RemoveInstall(r) PROVE DataHome' /\ NothingLost'
  BY <1>13, DataKept DEF RemoveInstall, ghost
<1>14. ASSUME NEW r \in Req, KeepVolumes(r) PROVE DataHome' /\ NothingLost'
  <2>1. req[r].pkg \in Pkg /\ written' = written
    BY <1>14 DEF KeepVolumes, HandlerShape, ghost
  <2>2. CASE UNCHANGED disk
    BY <1>14, <2>2, DataKept DEF KeepVolumes, ghost
  <2>3. CASE RenameFilesystem(MoveTree(req[r].pkg, "installed", "uninstalled"))
    <3> DEFINE D == Tree("uninstalled", req[r].pkg)
               from == MoveTree(req[r].pkg, "installed", "uninstalled")
    <3>1. D \in SUBSET Subvol /\ from \in [D -> Subvol]
      BY <2>1, MoveTreeType DEF Area
    <3>2. \A d, e \in D : from[d] \notin D /\ (from[d] = from[e] => d = e)
      BY MoveTreeApart
    <3> HIDE DEF D, from
    <3>3. RenameFilesystem(from)
      BY <2>3 DEF from
    <3> QED
      BY <2>1, <3>1, <3>2, <3>3, RenameKeeps
  <2> QED
    BY <1>14, <2>2, <2>3 DEF KeepVolumes
<1>15. ASSUME NEW r \in Req, PurgeInstalled(r) PROVE DataHome' /\ NothingLost'
  <2>1. req[r].pkg \in Pkg
    BY <1>15 DEF PurgeInstalled, HandlerShape
  <2>2. Tree("installed", req[r].pkg) \in SUBSET Subvol
    BY <2>1, MoveTreeType DEF Area
  <2> QED
    BY <1>15, <2>2, PurgeKeeps DEF PurgeInstalled, ghost
<1>16. ASSUME NEW r \in Req, PurgeUninstalled(r) PROVE DataHome' /\ NothingLost'
  <2>1. req[r].pkg \in Pkg
    BY <1>16 DEF PurgeUninstalled, HandlerShape
  <2>2. Tree("uninstalled", req[r].pkg) \in SUBSET Subvol
    BY <2>1, MoveTreeType DEF Area
  <2> QED
    BY <1>16, <2>2, PurgeKeeps DEF PurgeUninstalled, ghost
<1>17. ASSUME NEW r \in Req, SetDisabled(r) PROVE DataHome' /\ NothingLost'
  BY <1>17, DataKept DEF SetDisabled, ghost
<1>18. ASSUME NEW r \in Req, HaltUnit(r) PROVE DataHome' /\ NothingLost'
  BY <1>18, DataKept DEF HaltUnit, ghost
<1>19. ASSUME NEW r \in Req, Fail(r) PROVE DataHome' /\ NothingLost'
  <2>1. req[r].pkg \in Pkg /\ written' = written
    BY <1>19 DEF Fail, MayFail, HandlerShape, ghost
  <2>2. \A a \in Area : \A S \in SUBSET Tree(a, req[r].pkg) : S \in SUBSET Subvol
    BY <2>1, MoveTreeType
  <2> QED
    BY <1>19, <2>1, <2>2, DataKept, PurgeKeeps DEF Fail, FailDisk
<1>20. ASSUME NEW u \in Unit, SetUnitStatus(u) PROVE DataHome' /\ NothingLost'
  BY <1>20, DataKept DEF SetUnitStatus, ghost
<1>21. ASSUME NEW u \in Unit, Write(u) PROVE DataHome' /\ NothingLost'
  <2> DEFINE s == <<"installed", u[1], u[2]>>
             w == written + 1
  <2>1. /\ s \in subvols /\ subvols' = subvols /\ purged' = purged
        /\ written' = w /\ data' = [data EXCEPT ![s] = @ \cup {w}]
    BY <1>21 DEF Write
  <2>2. s \in Subvol
    BY <2>1 DEF DiskOK
  <2>3. 1 .. w = (1 .. written) \cup {w}
    BY DEF GhostOK
  <2> HIDE DEF s, w
  <2>4. Stored' = Stored \cup {w}
    BY <2>1, <2>2, StoredMember DEF DiskOK
  <2>5. DataHome'
    BY <2>1, <2>2 DEF DataHome, DiskOK
  <2> QED
    BY <2>1, <2>3, <2>4, <2>5 DEF NothingLost, Stored
<1>22. ASSUME NEW u \in Unit, ReconcilePackage(u) PROVE DataHome' /\ NothingLost'
  BY <1>22, DataKept, CreateKeeps DEF ReconcilePackage, ghost
<1>23. ASSUME NEW u \in Unit, StartPackage(u) PROVE DataHome' /\ NothingLost'
  BY <1>23, DataKept DEF StartPackage, ghost
<1>24. ASSUME NEW u \in Unit, RestartPackage(u) PROVE DataHome' /\ NothingLost'
  BY <1>24, DataKept DEF RestartPackage, ghost
<1>25. CASE EndPhaseOne
  BY <1>25, DataKept DEF EndPhaseOne, ghost
<1>26. CASE EndPhaseTwo
  BY <1>26, DataKept DEF EndPhaseTwo, ghost
<1>27. CASE EndReconcile
  BY <1>27, DataKept DEF EndReconcile, ghost
<1>28. CASE Serve
  BY <1>28, DataKept DEF Serve, ghost
<1>35. CASE FreshnessFails
  BY <1>35, DataKept DEF FreshnessFails, ghost
<1>29. CASE Refresh
  BY <1>29, DataKept DEF Refresh, ghost
<1>30. CASE SelfRestart
  BY <1>30, DataKept DEF SelfRestart, NewProcess, ghost
<1>36. CASE SelfRestartFails
  BY <1>36, DataKept DEF SelfRestartFails, ghost
<1>31. CASE Crash
  BY <1>31, DataKept DEF Crash, NewProcess, ghost
<1>32. CASE Reboot
  BY <1>32, DataKept DEF Reboot, NewProcess, ghost
<1>33. CASE UNCHANGED vars
  BY <1>33, DataKept DEF vars, ghost
<1> QED
  BY <1>1, <1>2, <1>3, <1>4, <1>5, <1>6, <1>7, <1>8, <1>9, <1>10, <1>11, <1>12, <1>13, <1>14, <1>15, <1>16, <1>17, <1>18, <1>19, <1>20, <1>21, <1>22, <1>23, <1>24, <1>25, <1>26, <1>27, <1>28, <1>29, <1>30, <1>31, <1>32, <1>33, <1>34, <1>35, <1>36 DEF Next, Handler, Boot

(* Whatever a service wrote is in an existing subvolume unless an explicit   *)
(* purge deleted it: no sequence of installs, upgrades, uninstalls and       *)
(* reinstalls, with any of their renames failing and any crash between two   *)
(* of their steps, loses a write.                                            *)
THEOREM DataSafe == Spec => []NothingLost
<1>1. Init => DataHome /\ NothingLost
  BY DEF Init, DataHome, NothingLost
<1>2. IInv /\ DataHome /\ NothingLost /\ [Next]_vars => (DataHome /\ NothingLost)'
  BY DataStep DEF IInv
<1> QED
  BY <1>1, <1>2, Inductive, PTL DEF Spec
-----------------------------------------------------------------------------
(* The boot *)

(* A request is only worked on while the API serves, and touches neither the *)
(* plan of the boot nor its bookkeeping.                                     *)
LEMMA RequestsServe ==
  ASSUME HandlerShape, NEW r \in Req,
         Dispatch(r) \/ Disconnect(r) \/ LockPackage(r) \/ Handler(r)
  PROVE  phase = "serving" /\ UNCHANGED boot /\ split' = split
<1>1. phase = "serving"
  BY DEF HandlerShape, Dispatch, Disconnect, LockPackage, Handler, ListUnits, StopCurrent, UninstallUnit,
         PrepareActiveVersion, ReuseVolumes, ProvisionVolumes, SaveInstall, DropOldRecord,
         InstallUnits, StartUnit, RemoveInstall, KeepVolumes, PurgeInstalled, PurgeUninstalled,
         SetDisabled, HaltUnit, Fail, MayFail
<1>2. CASE Dispatch(r) \/ Disconnect(r) \/ LockPackage(r)
  BY <1>1, <1>2 DEF Dispatch, Disconnect, LockPackage, ghost
<1>3. CASE ListUnits(r) \/ StopCurrent(r) \/ UninstallUnit(r) \/ PrepareActiveVersion(r) \/ ReuseVolumes(r)
  BY <1>1, <1>3 DEF ListUnits, StopCurrent, UninstallUnit, PrepareActiveVersion, ReuseVolumes, ghost
<1>4. CASE ProvisionVolumes(r) \/ SaveInstall(r) \/ DropOldRecord(r) \/ InstallUnits(r) \/ StartUnit(r)
  BY <1>1, <1>4 DEF ProvisionVolumes, SaveInstall, DropOldRecord, InstallUnits, StartUnit, ghost
<1>5. CASE RemoveInstall(r) \/ KeepVolumes(r) \/ PurgeInstalled(r) \/ PurgeUninstalled(r)
  BY <1>1, <1>5 DEF RemoveInstall, KeepVolumes, PurgeInstalled, PurgeUninstalled, ghost
<1>6. CASE SetDisabled(r) \/ HaltUnit(r) \/ Fail(r)
  BY <1>1, <1>6 DEF SetDisabled, HaltUnit, Fail, ghost
<1> QED
  BY <1>2, <1>3, <1>4, <1>5, <1>6 DEF Handler

(* A process that dies is followed by one that boots. *)
Restarts == Crash \/ SelfRestart \/ Reboot

(* However the process ends, the next one begins with Reconcile. *)
LEMMA RestartsBoot ==
  ASSUME Restarts
  PROVE  NewProcess /\ faults' = faults
BY DEF Restarts, Crash, SelfRestart, Reboot

(* The steps taken while the API serves and go on serving. *)
Serving ==
  \/ \E r \in Req : Dispatch(r) \/ Disconnect(r) \/ LockPackage(r) \/ Handler(r)
  \/ \E u \in Unit : SetUnitStatus(u)
  \/ Refresh \/ SelfRestartFails

(* They leave the lists of the boot alone. *)
LEMMA ServingServes ==
  ASSUME HandlerShape, Serving
  PROVE  phase = "serving" /\ phase' = "serving" /\ split' = split
         /\ UNCHANGED <<todo, pending, booted, updating>>
BY RequestsServe DEF Serving, SetUnitStatus, Refresh, SelfRestartFails, boot, ghost

(* A step is one of these, a step of the boot, or a write. *)
LEMMA Steps ==
  ASSUME Next
  PROVE  Serving \/ Restarts \/ Boot \/ \E u \in Unit : Write(u)
BY DEF Next, Serving, Restarts

(* What a boot owes: the latest version of every enabled package that it can *)
(* load.                                                                     *)
Due == {u \in Latest : u[1] \notin disabled \cup Instances}

(* Where the boot keeps it: in the list of the stage, or already started.    *)
(* pendingStarts never names a disabled package, and without an update there *)
(* is nothing to restart.                                                    *)
BootPlan ==
  /\ phase \in {"reconcile", "starts"} => \A u \in pending : u[1] \notin disabled
  /\ phase = "reconcile" => pending \subseteq unit
  /\ phase = "starts" => todo \subseteq pending \cap unit
  /\ phase = "restarts" /\ ~updating => todo = {}
  /\ phase = "freshness" /\ ~marker => todo = {}
  /\ phase = "reconcile" /\ faults = 0 => Due \subseteq todo \cup pending
  /\ phase = "starts" /\ faults = 0 => Due \subseteq todo \cup running
  /\ phase \in {"restarts", "freshness"} /\ faults = 0 => Due \subseteq running

(* Handlers do not run during a boot, so that its lists stay right. *)
LEMMA BootPlanStep ==
  ASSUME TypeOK, HandlerShape, BootPlan, [Next]_vars
  PROVE  BootPlan'
<1>1. CASE Serving
  BY <1>1, ServingServes DEF BootPlan
<1>2. CASE Restarts
  <2>1. /\ phase' = "reconcile" /\ todo' = Latest /\ pending' = {}
        /\ records' = records
    BY <1>2, RestartsBoot DEF NewProcess, meta
  <2>2. Due' \subseteq Latest
    BY <2>1 DEF Due, Latest, Installed
  <2> QED
    BY <2>1, <2>2 DEF BootPlan
<1>3. ASSUME NEW u \in Unit, Write(u) PROVE BootPlan'
  <2>1. Due' = Due /\ UNCHANGED <<boot, meta, sysd, cnt>>
    BY <1>3 DEF Write, meta, Due, Latest, Installed
  <2> QED
    BY <2>1 DEF BootPlan, boot, meta, sysd, cnt
<1>4. ASSUME NEW u \in Unit, ReconcilePackage(u) PROVE BootPlan'
  <2>1. /\ Due' = Due /\ phase = "reconcile" /\ phase' = phase /\ disabled' = disabled
        /\ todo' = todo \ {u}
    BY <1>4 DEF ReconcilePackage, meta, Due, Latest, Installed
  <2>2. CASE Fault /\ pending' = pending /\ unit' = unit
    <3>1. faults' # 0
      BY <2>2 DEF Fault, TypeOK, CountersOK
    <3> QED
      BY <2>1, <2>2, <3>1 DEF BootPlan
  <2>3. CASE UNCHANGED cnt
    <3>0. ~Fault
      BY <2>3 DEF Fault, cnt, TypeOK, CountersOK
    <3>1. /\ pending' = IF u[1] \in disabled \cup Instances THEN pending ELSE pending \cup {u}
          /\ pending' \subseteq unit'
      BY <1>4, <2>1, <3>0 DEF ReconcilePackage, WriteUnit, sysd, BootPlan
    <3>2. faults = 0 => Due \subseteq todo' \cup pending'
      BY <2>1, <3>1 DEF BootPlan, Due
    <3>3. \A w \in pending' : w[1] \notin disabled
      BY <2>1, <3>1 DEF BootPlan
    <3> QED
      BY <2>1, <2>3, <3>1, <3>2, <3>3 DEF BootPlan, cnt
  <2> QED
    BY <1>4, <2>2, <2>3 DEF ReconcilePackage, sysd
<1>5. ASSUME NEW u \in Unit, StartPackage(u) PROVE BootPlan'
  <2>1. Due' = Due /\ phase = "starts" /\ UNCHANGED <<phase, pending, updating, marker, meta, unit>>
    BY <1>5 DEF StartPackage, SetStart, sysd, meta, Due, Latest, Installed
  <2>2. todo' = todo \ {u} /\ u \in todo /\ u \in unit
    BY <1>5, <2>1 DEF StartPackage, BootPlan
  <2>3. faults' = 0 => faults = 0 /\ running' = running \cup {u}
    BY <1>5, <2>2 DEF StartPackage, SetStart, Fault, cnt, TypeOK, CountersOK
  <2> QED
    BY <2>1, <2>2, <2>3 DEF BootPlan, meta
<1>6. ASSUME NEW u \in Unit, RestartPackage(u) PROVE BootPlan'
  <2>1. Due' = Due /\ phase \in {"restarts", "freshness"}
        /\ UNCHANGED <<phase, pending, updating, marker, meta>>
    BY <1>6 DEF RestartPackage, meta, Due, Latest, Installed
  <2>2. todo' = todo \ {u} /\ running \subseteq running'
    BY <1>6 DEF RestartPackage, SetRestart, sysd
  <2>3. faults' = 0 => faults = 0
    BY <1>6 DEF RestartPackage, Fault, cnt, TypeOK, CountersOK
  <2> QED
    BY <2>1, <2>2, <2>3 DEF BootPlan, meta
<1>7. CASE EndPhaseOne \/ EndPhaseTwo \/ EndReconcile \/ FreshnessFails \/ Serve
  <2>1. Due' = Due /\ UNCHANGED <<meta, sysd>>
    BY <1>7 DEF EndPhaseOne, EndPhaseTwo, EndReconcile, FreshnessFails, Serve, meta, Due, Latest, Installed
  <2>2. CASE EndPhaseOne
    BY <2>1, <2>2 DEF EndPhaseOne, BootPlan, meta, cnt, sysd
  <2>3. CASE EndPhaseTwo
    BY <2>1, <2>3 DEF EndPhaseTwo, BootPlan, meta, cnt, sysd
  <2>4. CASE EndReconcile
    <3>1. faults' = 0 => faults = 0
      BY <2>4 DEF EndReconcile, Fault, cnt, TypeOK, CountersOK
    <3> QED
      BY <2>1, <2>4, <3>1 DEF EndReconcile, BootPlan, meta, sysd
  <2>5. CASE FreshnessFails \/ Serve
    BY <2>5 DEF FreshnessFails, Serve, BootPlan
  <2> QED
    BY <1>7, <2>2, <2>3, <2>4, <2>5
<1>8. CASE UNCHANGED vars
  <2>1. Due' = Due
    BY <1>8 DEF vars, meta, Due, Latest, Installed
  <2> QED
    BY <1>8, <2>1 DEF vars, boot, meta, sysd, cnt, BootPlan
<1> QED
  BY <1>1, <1>2, <1>3, <1>4, <1>5, <1>6, <1>7, <1>8, Steps DEF Boot

(* The plan holds in every state the system reaches. *)
LEMMA BootPlanned == Spec => []BootPlan
<1>1. Init => BootPlan
  <2>1. Init => Due = {}
    BY DEF Init, Due, Latest, Installed, Unit
  <2> QED
    BY <2>1 DEF Init, BootPlan
<1>2. IInv /\ BootPlan /\ [Next]_vars => BootPlan'
  BY BootPlanStep DEF IInv
<1> QED
  BY <1>1, <1>2, Inductive, PTL DEF Spec

(* A boot without an update to apply starts no disabled package: pendingStarts *)
(* (reconcile.go) never names one, and neither the version check nor the       *)
(* freshness stage has anything to restart.  Needs no assumption: whatever     *)
(* crashes, disconnected clients and second records came before.               *)
THEOREM BootsLeaveDisabledDown == Spec => PlainBootLeavesDisabledDown
<1> DEFINE A == phase # "serving" /\ ~updating /\ ~marker =>
                  \A u \in running' \ running : u[1] \notin disabled
<1>1. IInv /\ BootPlan /\ [Next]_vars => [A]_vars
  <2> SUFFICES ASSUME HandlerShape, BootPlan, Next,
                      phase # "serving", ~updating, ~marker,
                      NEW x \in running' \ running
               PROVE  x[1] \notin disabled
    BY DEF IInv
  <2>1. ~Serving
    BY ServingServes
  <2>2. ~Restarts /\ ~(\E u \in Unit : Write(u))
    BY DEF Restarts, Crash, SelfRestart, Reboot, Write, sysd
  <2>3. Boot
    BY <2>1, <2>2, Steps
  <2>4. ASSUME NEW u \in Unit, StartPackage(u) PROVE x[1] \notin disabled
    BY <2>4 DEF StartPackage, SetStart, BootPlan, sysd
  <2>5. ASSUME NEW u \in Unit, RestartPackage(u) PROVE FALSE
    BY <2>5 DEF RestartPackage, BootPlan
  <2> QED
    BY <2>3, <2>4, <2>5 DEF Boot, ReconcilePackage, EndPhaseOne, EndPhaseTwo, EndReconcile,
                             FreshnessFails, Serve, WriteUnit, sysd
<1> QED
  BY <1>1, Inductive, BootPlanned, PTL DEF Spec, PlainBootLeavesDisabledDown

(* When the router is swapped in, every enabled package runs in its latest    *)
(* version (reconcile.go:107-115), whatever state crashes, reboots and cut-off *)
(* handlers left, if no call failed.  Instances are excluded: LoadPackage does *)
(* not find their names, and a run shows that the boot leaves them down.       *)
THEOREM BootsRestore ==
  ASSUME Instances = {}
  PROVE  Spec => BootRestores
<1> DEFINE A == phase = "freshness" /\ phase' = "serving" /\ faults = 0 =>
       \A p \in Pkg \ disabled :
         \A v \in records[p] : (\A w \in records[p] : w <= v) => <<p, v>> \in running'
<1>1. IInv /\ BootPlan /\ [Next]_vars => [A]_vars
  <2> SUFFICES ASSUME IInv, BootPlan, Next, phase = "freshness", phase' = "serving", faults = 0,
                      NEW p \in Pkg \ disabled, NEW v \in records[p],
                      \A w \in records[p] : w <= v
               PROVE  <<p, v>> \in running'
    OBVIOUS
  <2>1. ~Serving /\ ~Restarts
    BY ServingServes, RestartsBoot DEF IInv, NewProcess
  <2>2. Serve \/ FreshnessFails
    BY <2>1, Steps DEF Boot, Write, boot, ReconcilePackage, StartPackage, RestartPackage, EndPhaseOne,
                       EndPhaseTwo, EndReconcile
  <2>3. <<p, v>> \in Due
    BY DEF Due, Latest, Installed, Unit, IInv, TypeOK, MetaOK
  <2> QED
    BY <2>2, <2>3 DEF BootPlan, Serve, FreshnessFails, sysd
<1> QED
  BY <1>1, Inductive, BootPlanned, PTL DEF Spec, BootRestores

-----------------------------------------------------------------------------
(* What runs *)

(* Two requests at work are at work on two packages. *)
LEMMA OthersElsewhere ==
  ASSUME Serialised, HandlerShape, NEW r \in Req, NEW s \in Req, r # s,
         pc[r] \notin {"idle", "lock"}, pc[s] \notin {"idle", "lock"}
  PROVE  req[r].pkg # req[s].pkg
BY DEF Serialised, HandlerShape

(* A fault is remembered. *)
LEMMA FaultCounts ==
  ASSUME TypeOK, Fault
  PROVE  faults' # 0
BY DEF TypeOK, CountersOK, Fault

(* Apart from restarts, only calls that fail are counted. *)
LEMMA Counted ==
  ASSUME [Next]_vars, ~Restarts
  PROVE  UNCHANGED cnt \/ Fault
<1>1. ASSUME NEW r \in Req, Handler(r) PROVE UNCHANGED cnt \/ Fault
  <2>1. CASE ListUnits(r) \/ StopCurrent(r) \/ UninstallUnit(r) \/ PrepareActiveVersion(r) \/ ReuseVolumes(r)
    BY <2>1 DEF ListUnits, StopCurrent, UninstallUnit, PrepareActiveVersion, ReuseVolumes, cnt
  <2>2. CASE ProvisionVolumes(r) \/ SaveInstall(r) \/ DropOldRecord(r) \/ InstallUnits(r) \/ StartUnit(r)
    BY <2>2 DEF ProvisionVolumes, SaveInstall, DropOldRecord, InstallUnits, StartUnit, cnt
  <2>3. CASE RemoveInstall(r) \/ KeepVolumes(r) \/ PurgeInstalled(r) \/ PurgeUninstalled(r)
    BY <2>3 DEF RemoveInstall, KeepVolumes, PurgeInstalled, PurgeUninstalled, cnt
  <2>4. CASE SetDisabled(r) \/ HaltUnit(r) \/ Fail(r)
    BY <2>4 DEF SetDisabled, HaltUnit, Fail, cnt
  <2> QED
    BY <1>1, <2>1, <2>2, <2>3, <2>4 DEF Handler
<1>2. ASSUME NEW r \in Req, Dispatch(r) \/ Disconnect(r) \/ LockPackage(r) PROVE UNCHANGED cnt
  BY <1>2 DEF Dispatch, Disconnect, LockPackage
<1>3. ASSUME NEW u \in Unit, SetUnitStatus(u) \/ Write(u) PROVE UNCHANGED cnt
  BY <1>3 DEF SetUnitStatus, Write
<1>4. CASE Refresh \/ SelfRestartFails \/ Boot
  BY <1>4 DEF Refresh, SelfRestartFails, Boot, ReconcilePackage, StartPackage,
                RestartPackage, EndPhaseOne, EndPhaseTwo, EndReconcile, FreshnessFails, Serve
<1> QED
  BY <1>1, <1>2, <1>3, <1>4, Steps DEF Serving, vars

(* Every earlier fault is remembered too. *)
LEMMA FaultsStay ==
  ASSUME TypeOK, [Next]_vars, faults' = 0
  PROVE  faults = 0
BY Counted, RestartsBoot, FaultCounts DEF cnt

(* The services no removal of a unit has missed. *)
Watched == running \ loose

(* Each of them has its unit file, and between the stop and the unlink the   *)
(* one whose file goes next is not among them.                               *)
Stopped ==
  /\ Watched \subseteq unit
  /\ \A r \in Req : pc[r] = "unlink" => Current(r) \notin Watched

(* A step that starts nothing, removes no file and brings no request to the  *)
(* unlink.                                                                   *)
LEMMA StoppedKept ==
  ASSUME Stopped, Watched' \subseteq Watched, unit \subseteq unit',
         \A s \in Req : pc'[s] = "unlink" => pc[s] = "unlink" /\ names'[s] = names[s]
  PROVE  Stopped'
<1>1. \A s \in Req : pc'[s] = "unlink" => Current(s)' = Current(s)
  BY DEF Current
<1> QED
  BY <1>1 DEF Stopped

(* The handlers' steps of that kind. *)
LEMMA GotoStopped ==
  ASSUME TypeOK, Stopped, NEW r \in Req, NEW s, s # "unlink", Goto(r, s) \/ Finish(r),
         Watched' \subseteq Watched, unit \subseteq unit'
  PROVE  Stopped'
<1>1. \A t \in Req : pc'[t] = "unlink" => pc[t] = "unlink" /\ names'[t] = names[t]
  BY DEF Goto, Finish, TypeOK, RequestsOK
<1> QED
  BY <1>1, StoppedKept

(* A start either finds the file in no handler's way, or is a loose one. *)
LEMMA StartStopped ==
  ASSUME TypeOK, Stopped, NEW u, SetStart(u),
         \A s \in Req : pc'[s] = "unlink" => pc[s] = "unlink" /\ names'[s] = names[s]
  PROVE  Stopped'
<1>1. \A s \in Req : pc'[s] = "unlink" => Current(s)' = Current(s)
  BY DEF Current
<1>2. unit' = unit /\ Watched' \subseteq Watched \cup ({u} \cap unit)
  BY DEF SetStart, Watched
<1>3. CASE Unlinking(u)
  <2>1. Watched' \subseteq Watched
    BY <1>3 DEF SetStart, Watched
  <2> QED
    BY <1>2, <2>1, StoppedKept
<1>4. CASE ~Unlinking(u)
  <2>1. \A s \in Req : pc[s] = "unlink" => Current(s) # u
    BY <1>4 DEF Unlinking
  <2> QED
    BY <1>1, <1>2, <2>1 DEF Stopped
<1> QED
  BY <1>3, <1>4

(* Every step keeps that. *)
LEMMA StoppedStep ==
  ASSUME IInv, Stopped, [Next]_vars
  PROVE  Stopped'
<1> TypeOK /\ HandlerShape
  BY DEF IInv
<1>1. ASSUME NEW r \in Req, Dispatch(r) \/ Disconnect(r) \/ LockPackage(r) \/ ListUnits(r)
      PROVE  Stopped'
  <2>1. UNCHANGED sysd /\ \A s \in Req : pc'[s] = "unlink" => pc[s] = "unlink" /\ names'[s] = names[s]
    BY <1>1, FirstStepIs DEF Dispatch, Disconnect, LockPackage, ListUnits, AfterUnits, TypeOK, RequestsOK
  <2> QED
    BY <2>1, StoppedKept DEF sysd, Watched
<1>2. ASSUME NEW r \in Req, StopCurrent(r) PROVE Stopped'
  <2>1. unit' = unit /\ Watched' \subseteq Watched \ {Current(r)}
    BY <1>2 DEF StopCurrent, SetStop, Watched
  <2>2. /\ names' = names
        /\ \A s \in Req \ {r} : pc'[s] = "unlink" => pc[s] = "unlink"
    BY <1>2 DEF StopCurrent, Goto, TypeOK, RequestsOK
  <2>3. \A s \in Req : Current(s)' = Current(s)
    BY <2>2 DEF Current
  <2> QED
    BY <2>1, <2>2, <2>3 DEF Stopped
<1>3. ASSUME NEW r \in Req, UninstallUnit(r) PROVE Stopped'
  <2>1. /\ pc[r] = "unlink" /\ unit \ {Current(r)} \subseteq unit'
        /\ running' = running /\ loose' = loose
    BY <1>3 DEF UninstallUnit
  <2>2. \A s \in Req : pc'[s] = "unlink" => pc[s] = "unlink" /\ s # r /\ names'[s] = names[s]
    BY <1>3 DEF UninstallUnit, AfterUnits, TypeOK, RequestsOK
  <2>3. \A s \in Req : pc'[s] = "unlink" => Current(s)' = Current(s)
    BY <2>2 DEF Current
  <2> QED
    BY <2>1, <2>2, <2>3 DEF Stopped, Watched
<1>4. ASSUME NEW r \in Req, ReuseVolumes(r) PROVE Stopped'
  BY <1>4, StoppedKept DEF ReuseVolumes, sysd, Watched
<1>5. ASSUME NEW r \in Req, StartUnit(r) PROVE Stopped'
  <2>1. Finish(r) /\ (UNCHANGED sysd \/ \E u : SetStart(u))
    BY <1>5 DEF StartUnit
  <2>2. \A t \in Req : pc'[t] = "unlink" => pc[t] = "unlink" /\ names'[t] = names[t]
    BY <2>1 DEF Finish, TypeOK, RequestsOK
  <2> QED
    BY <2>1, <2>2, StoppedKept, StartStopped DEF sysd, Watched
<1>6. ASSUME NEW r \in Req, HaltUnit(r) PROVE Stopped'
  BY <1>6, GotoStopped DEF HaltUnit, SetStop, sysd, Watched
<1>7. ASSUME NEW r \in Req, InstallUnits(r) \/ Fail(r) PROVE Stopped'
  <2>1. Goto(r, "start") \/ Finish(r)
    BY <1>7 DEF InstallUnits, Fail
  <2>2. Watched' = Watched /\ unit \subseteq unit'
    BY <1>7 DEF InstallUnits, Fail, FailUnit, WriteUnit, sysd, Watched
  <2> QED
    BY <2>1, <2>2, GotoStopped
<1>8. ASSUME NEW r \in Req,
             PrepareActiveVersion(r) \/ ProvisionVolumes(r) \/ SaveInstall(r) \/ DropOldRecord(r)
      PROVE  Stopped'
  <2>1. UNCHANGED sysd /\ \E s : s # "unlink" /\ (Goto(r, s) \/ Finish(r))
    BY <1>8 DEF PrepareActiveVersion, ProvisionVolumes, SaveInstall, DropOldRecord
  <2> QED
    BY <2>1, GotoStopped DEF sysd, Watched
<1>9. ASSUME NEW r \in Req,
             RemoveInstall(r) \/ KeepVolumes(r) \/ PurgeInstalled(r) \/ PurgeUninstalled(r) \/ SetDisabled(r)
      PROVE  Stopped'
  <2>1. UNCHANGED sysd /\ \E s : s # "unlink" /\ (Goto(r, s) \/ Finish(r))
    BY <1>9 DEF RemoveInstall, KeepVolumes, PurgeInstalled, PurgeUninstalled, SetDisabled
  <2> QED
    BY <2>1, GotoStopped DEF sysd, Watched
<1>10. ASSUME NEW u \in Unit, SetUnitStatus(u) PROVE Stopped'
  <2>1. UNCHANGED ctl /\ (SetStart(u) \/ SetStop({u}))
    BY <1>10 DEF SetUnitStatus
  <2> QED
    BY <2>1, StoppedKept, StartStopped DEF ctl, SetStop, Watched
<1>11. ASSUME NEW u \in Unit, Write(u) PROVE Stopped'
  BY <1>11, StoppedKept DEF Write, sysd, ctl, Watched
<1>12. CASE Boot
  <2>1. UNCHANGED ctl /\ unit \subseteq unit' /\ phase # "serving" /\ Watched' \subseteq Watched \cup unit
    BY <1>12 DEF Boot, ReconcilePackage, StartPackage, RestartPackage, SetStart, SetRestart, WriteUnit,
                  EndPhaseOne, EndPhaseTwo, EndReconcile, FreshnessFails, Serve, sysd, Watched
  <2>2. \A s \in Req : pc'[s] # "unlink"
    BY <2>1 DEF HandlerShape, ctl
  <2> QED
    BY <2>1, <2>2 DEF Stopped
<1>13. CASE Refresh \/ SelfRestartFails \/ UNCHANGED vars
  BY <1>13, StoppedKept DEF Refresh, SelfRestartFails, vars, sysd, ctl, Watched
<1>14. CASE Restarts
  <2>1. \A s \in Req : pc'[s] # "unlink"
    BY <1>14, RestartsBoot DEF NewProcess
  <2>2. Watched' = {} \/ (Watched' = Watched /\ unit' = unit)
    BY <1>14 DEF Restarts, Crash, SelfRestart, Reboot, Watched
  <2> QED
    BY <2>1, <2>2 DEF Stopped
<1> QED
  BY <1>1, <1>2, <1>3, <1>4, <1>5, <1>6, <1>7, <1>8, <1>9, <1>10, <1>11, <1>12, <1>13, <1>14 DEF Next, Handler, Restarts

(* It holds in every state the system reaches. *)
LEMMA StoppedInv == Spec => []Stopped
<1>1. Init => Stopped
  BY DEF Init, Stopped, Watched
<1>2. IInv /\ Stopped /\ [Next]_vars => Stopped'
  BY StoppedStep
<1> QED
  BY <1>1, <1>2, Inductive, PTL DEF Spec

(* Every service that runs has its unit file, so that uninstallPackageUnits,   *)
(* which scans the files, finds it to stop it: through upgrades, reinstalls    *)
(* and uninstalls of any number of packages at once, overlapping globs, units  *)
(* started by hand, clients that disconnect, failed calls, crashes and boots.  *)
(* Only a service whose stop failed, or that was started between its stop and  *)
(* the removal of its file, may be without.                                    *)
THEOREM RunningHasUnits == Spec => []RunningHasUnit
<1>1. Stopped => RunningHasUnit
  BY DEF Stopped, Watched, RunningHasUnit
<1> QED
  BY <1>1, StoppedInv, PTL

-----------------------------------------------------------------------------
(* One version per package *)

(* What an install that read activeVersion knows of the package's records,   *)
(* up to the step that removes the old one.                                  *)
Held(r) ==
  LET S == records[req[r].pkg] IN
  /\ pc[r] \in {"list", "stop", "unlink", "migrate"} /\ req[r].op = "install" =>
       S \subseteq {active[r]}
  /\ pc[r] \in {"provision", "save"} => S \subseteq {active[r]} \ {req[r].ver}
  /\ pc[r] = "drop" => S \subseteq {active[r], req[r].ver}

(* At most one. *)
Single(p) == \A v, w \in records[p] : v = w

(* A package has two records only between the two steps of an upgrade, or    *)
(* because a process died between them, as long as no call failed.           *)
OneRecord ==
  /\ \A r \in Req : pc[r] # "idle" /\ req[r].pkg \notin split => Held(r)
  /\ \A p \in Pkg \ split :
       Single(p) \/ \E r \in Req : pc[r] = "drop" /\ req[r].pkg = p

(* A step of request r that leaves the records alone and does not come from, *)
(* or to, the steps of an install that Held speaks of.                       *)
LEMMA OneRecordKept ==
  ASSUME TypeOK, OneRecord, NEW r \in Req, pc[r] # "drop", UNCHANGED <<records, split>>,
         \A s \in Req \ {r} : pc'[s] = pc[s] /\ req'[s] = req[s] /\ active'[s] = active[s],
         pc'[r] # "idle" /\ req'[r].pkg \notin split => Held(r)'
  PROVE  OneRecord'
<1>1. ASSUME NEW s \in Req, pc'[s] # "idle" /\ req'[s].pkg \notin split' PROVE Held(s)'
  <2>1. CASE s = r
    BY <1>1, <2>1
  <2>2. CASE s # r
    <3>1. Held(s)
      BY <1>1, <2>2 DEF OneRecord
    <3> QED
      BY <2>2, <3>1 DEF Held
  <2> QED
    BY <2>1, <2>2
<1>2. ASSUME NEW p \in Pkg \ split'
      PROVE  Single(p)' \/ \E s \in Req : pc'[s] = "drop" /\ req'[s].pkg = p
  BY <1>2 DEF OneRecord, Single
<1> QED
  BY <1>1, <1>2 DEF OneRecord

(* A step of request r that changes the records of its own package only, and *)
(* leaves it with one. *)
LEMMA OneRecordSaved ==
  ASSUME TypeOK, HandlerShape, Serialised, OneRecord, NEW r \in Req,
         pc[r] \notin {"idle", "lock"}, split' = split,
         \A p \in Pkg \ {req[r].pkg} : records'[p] = records[p],
         \A s \in Req \ {r} : pc'[s] = pc[s] /\ req'[s] = req[s] /\ active'[s] = active[s],
         pc'[r] # "idle" /\ req'[r].pkg \notin split => Held(r)',
         req[r].pkg \notin split =>
           (\A v, w \in records'[req[r].pkg] : v = w) \/ (pc'[r] = "drop" /\ req'[r].pkg = req[r].pkg)
  PROVE  OneRecord'
<1>1. ASSUME NEW s \in Req, pc'[s] # "idle" /\ req'[s].pkg \notin split' PROVE Held(s)'
  <2>1. CASE s = r
    BY <1>1, <2>1
  <2>2. CASE s # r /\ pc[s] = "lock"
    BY <2>2 DEF Held
  <2>3. CASE s # r /\ pc[s] # "lock"
    <3>1. Held(s) /\ pc[s] \notin {"idle", "lock"}
      BY <1>1, <2>3 DEF OneRecord
    <3>2. req[s].pkg # req[r].pkg /\ req[s].pkg \in Pkg
      BY <2>3, <3>1, OthersElsewhere DEF HandlerShape
    <3> QED
      BY <2>3, <3>1, <3>2 DEF Held
  <2> QED
    BY <2>1, <2>2, <2>3
<1>2. ASSUME NEW p \in Pkg \ split'
      PROVE  Single(p)' \/ \E s \in Req : pc'[s] = "drop" /\ req'[s].pkg = p
  <2>1. CASE p = req[r].pkg
    <3>1. Single(p)' \/ (pc'[r] = "drop" /\ req'[r].pkg = p)
      BY <1>2, <2>1 DEF Single
    <3> QED
      BY <3>1
  <2>2. CASE p # req[r].pkg
    <3>1. records'[p] = records[p]
      BY <1>2, <2>2
    <3>2. ASSUME NEW s \in Req, pc[s] = "drop", req[s].pkg = p
          PROVE  pc'[s] = "drop" /\ req'[s].pkg = p
      BY <2>2, <3>2
    <3> QED
      BY <1>2, <3>1, <3>2 DEF OneRecord, Single
  <2> QED
    BY <2>1, <2>2
<1> QED
  BY <1>1, <1>2 DEF OneRecord

(* The handlers' steps that leave the records alone. *)
LEMMA GotoOneRecord ==
  ASSUME TypeOK, OneRecord, NEW r \in Req, NEW step,
         Goto(r, step) \/ Finish(r), pc[r] # "drop", UNCHANGED <<records, split>>,
         \/ step \notin {"list", "stop", "unlink", "migrate", "provision", "save", "drop"}
         \/ pc[r] = "stop" /\ step = "unlink"
         \/ pc[r] = "provision" /\ step = "save"
  PROVE  OneRecord'
<1>1. \A s \in Req \ {r} : pc'[s] = pc[s] /\ req'[s] = req[s] /\ active'[s] = active[s]
  BY DEF Goto, Finish, TypeOK, RequestsOK
<1>2. ASSUME pc'[r] # "idle" /\ req'[r].pkg \notin split PROVE Held(r)'
  <2>1. Goto(r, step) /\ pc'[r] = step
    BY <1>2 DEF Goto, Finish, TypeOK, RequestsOK
  <2>2. pc[r] # "idle" => Held(r)
    BY <1>2, <2>1 DEF Goto, OneRecord
  <2> QED
    BY <2>1, <2>2 DEF Goto, Held
<1> QED
  BY <1>1, <1>2, OneRecordKept

(* Every step keeps one record per package. *)
LEMMA OneRecordStep ==
  ASSUME IInv, OneRecord, ~Fault, [Next]_vars
  PROVE  OneRecord'
<1> TypeOK /\ HandlerShape /\ Serialised
  BY DEF IInv
<1>1. ASSUME NEW r \in Req, Dispatch(r) PROVE OneRecord'
  BY <1>1, OneRecordKept DEF Dispatch, TypeOK, RequestsOK, Held, meta, ghost
<1>2. ASSUME NEW r \in Req, Disconnect(r) PROVE OneRecord'
  BY <1>2 DEF Disconnect, OneRecord, Held, Single, meta, ghost
<1>3. ASSUME NEW r \in Req, LockPackage(r) PROVE OneRecord'
  <2> DEFINE p == req[r].pkg
             v == active'[r]
  <2>1. /\ p \in Pkg /\ pc[r] = "lock" /\ lock[p] = NoReq
        /\ UNCHANGED <<records, split, req>>
        /\ pc' = [pc EXCEPT ![r] = FirstStep(req[r], v)]
        /\ v = IF req[r].op = "install" THEN GetInstalledVersion(p) ELSE 0
        /\ \A s \in Req \ {r} : pc'[s] = pc[s] /\ req'[s] = req[s] /\ active'[s] = active[s]
    BY <1>3 DEF LockPackage, HandlerShape, TypeOK, RequestsOK, meta, ghost
  <2>2. pc'[r] = FirstStep(req[r], v)
    BY <2>1 DEF TypeOK, RequestsOK
  <2>3. p \notin split => Single(p)
    BY <2>1, LifecycleAssumption DEF OneRecord, Serialised
  <2>4. records[p] \subseteq Ver /\ 0 \notin Ver
    BY <2>1, LifecycleAssumption DEF TypeOK, MetaOK, Ver
  <2>5. /\ GetInstalledVersion(p) # 0 => GetInstalledVersion(p) \in records[p]
        /\ GetInstalledVersion(p) = 0 => records[p] = {}
    <3>1. records[p] # {} => Least(records[p]) \in records[p]
      BY <2>4, LeastIsMember, LifecycleAssumption DEF Ver
    <3> QED
      BY <2>4, <3>1 DEF GetInstalledVersion
  <2>6. p \notin split => records[p] \subseteq {GetInstalledVersion(p)}
    BY <2>3, <2>5 DEF Single
  <2>7. p \notin split => Held(r)'
    <3>1. CASE pc'[r] = "provision"
      <4>1. req[r].op = "install" /\ v = 0
        BY <2>2, <3>1 DEF FirstStep
      <4> QED
        BY <2>1, <2>5, <3>1, <4>1 DEF Held
    <3>2. CASE pc'[r] # "provision"
      <4>1. pc'[r] \notin {"stop", "unlink", "migrate", "save", "drop"}
        BY <2>2, FirstStepIs
      <4> QED
        BY <2>1, <2>6, <3>2, <4>1 DEF Held
    <3> QED
      BY <3>1, <3>2
  <2> QED
    BY <2>1, <2>7, OneRecordKept
<1>24. ASSUME NEW r \in Req, ListUnits(r) PROVE OneRecord'
  <2>1. /\ pc[r] \in {"list", "unlink"} /\ UNCHANGED <<records, split, req, active>>
        /\ pc'[r] \in {"stop", AfterUnits(r)}
        /\ \A s \in Req \ {r} : pc'[s] = pc[s]
    BY <1>24 DEF ListUnits, meta, ghost, TypeOK, RequestsOK
  <2>2. req[r].pkg \notin split => Held(r)'
    BY <2>1 DEF OneRecord, Held, AfterUnits
  <2> QED
    BY <2>1, <2>2, OneRecordKept
<1>4. ASSUME NEW r \in Req, StopCurrent(r) PROVE OneRecord'
  BY <1>4, GotoOneRecord DEF StopCurrent, meta, ghost
<1>5. ASSUME NEW r \in Req, UninstallUnit(r) PROVE OneRecord'
  <2>1. /\ pc[r] \in {"list", "unlink"} /\ UNCHANGED <<records, split, req, active>>
        /\ pc'[r] \in {"stop", AfterUnits(r)}
        /\ \A s \in Req \ {r} : pc'[s] = pc[s]
    BY <1>5 DEF UninstallUnit, meta, ghost, TypeOK, RequestsOK
  <2>2. req[r].pkg \notin split => Held(r)'
    BY <2>1 DEF OneRecord, Held, AfterUnits
  <2> QED
    BY <2>1, <2>2, OneRecordKept
<1>6. ASSUME NEW r \in Req, PrepareActiveVersion(r) PROVE OneRecord'
  <2> DEFINE p == req[r].pkg
  <2>1. /\ pc[r] = "migrate" /\ p \in Pkg /\ req[r].op = "install" /\ split' = split
        /\ pc'[r] = "provision" /\ req' = req /\ active' = active
        /\ \A s \in Req \ {r} : pc'[s] = pc[s]
    BY <1>6 DEF PrepareActiveVersion, Goto, HandlerShape, ghost, TypeOK, RequestsOK
  <2>2. p \notin split => records[p] \subseteq {active[r]}
    BY <2>1 DEF OneRecord, Held
  <2>3. /\ \A q \in Pkg \ {p} : records'[q] = records[q]
        /\ records'[p] = records[p] \ (IF active[r] = req[r].ver THEN {active[r]} ELSE {})
    BY <1>6, <2>1 DEF PrepareActiveVersion, RemoveRecord, meta, TypeOK, MetaOK
  <2>4. p \notin split => Held(r)' /\ \A v, w \in records'[p] : v = w
    BY <2>1, <2>2, <2>3 DEF Held, Single
  <2> QED
    BY <2>1, <2>3, <2>4, OneRecordSaved
<1>7. ASSUME NEW r \in Req, ReuseVolumes(r) PROVE OneRecord'
  <2>1. /\ pc[r] = "provision" /\ UNCHANGED <<records, split, pc, active>>
        /\ req'[r].pkg = req[r].pkg /\ req'[r].ver = req[r].ver
        /\ \A s \in Req \ {r} : req'[s] = req[s]
    BY <1>7 DEF ReuseVolumes, meta, ghost, TypeOK, RequestsOK
  <2>2. req[r].pkg \notin split => Held(r)
    BY <2>1 DEF OneRecord
  <2> QED
    BY <2>1, <2>2, OneRecordKept DEF Held
<1>8. ASSUME NEW r \in Req, ProvisionVolumes(r) PROVE OneRecord'
  BY <1>8, GotoOneRecord DEF ProvisionVolumes, meta, ghost
<1>9. ASSUME NEW r \in Req, SaveInstall(r) PROVE OneRecord'
  <2> DEFINE p == req[r].pkg
             w == req[r].ver
  <2>1. pc[r] = "save" /\ p \in Pkg /\ w \in Ver /\ split' = split
    BY <1>9 DEF SaveInstall, HandlerShape
  <2>2. CASE w \in records[p]
    <3>1. Finish(r) /\ UNCHANGED records
      BY <1>9, <2>2 DEF SaveInstall, meta
    <3> QED
      BY <2>1, <3>1, GotoOneRecord
  <2>3. CASE w \notin records[p]
    <3>1. /\ records' = [records EXCEPT ![p] = @ \cup {w}]
          /\ req' = req /\ active' = active
          /\ pc'[r] = IF active[r] \in {0, w} THEN "units" ELSE "drop"
          /\ \A s \in Req \ {r} : pc'[s] = pc[s]
      BY <1>9, <2>3 DEF SaveInstall, Goto, TypeOK, RequestsOK
    <3>2. \A q \in Pkg \ {p} : records'[q] = records[q]
      BY <3>1 DEF TypeOK, MetaOK
    <3>3. records'[p] = records[p] \cup {w} /\ records[p] \subseteq Ver /\ 0 \notin Ver
      BY <2>1, <3>1, LifecycleAssumption DEF TypeOK, MetaOK, Ver
    <3>4. p \notin split => records[p] \subseteq {active[r]} \ {w}
      BY <2>1 DEF OneRecord, Held
    <3>5. p \notin split => Held(r)'
      BY <3>1, <3>3, <3>4 DEF Held
    <3>6. p \notin split => (\A x, y \in records'[p] : x = y) \/ pc'[r] = "drop"
      BY <3>1, <3>3, <3>4 DEF Single
    <3> QED
      BY <2>1, <3>1, <3>2, <3>5, <3>6, OneRecordSaved
  <2> QED
    BY <2>2, <2>3
<1>10. ASSUME NEW r \in Req, DropOldRecord(r) PROVE OneRecord'
  <2> DEFINE p == req[r].pkg
  <2>1. /\ pc[r] = "drop" /\ p \in Pkg /\ split' = split
        /\ pc'[r] = "units" /\ req' = req /\ active' = active
        /\ \A s \in Req \ {r} : pc'[s] = pc[s]
    BY <1>10 DEF DropOldRecord, Goto, HandlerShape, ghost, TypeOK, RequestsOK
  <2>2. p \notin split => records[p] \subseteq {active[r], req[r].ver}
    BY <2>1 DEF OneRecord, Held
  <2>3. /\ \A q \in Pkg \ {p} : records'[q] = records[q]
        /\ records'[p] = records[p] \ {active[r]}
    BY <1>10, <2>1 DEF DropOldRecord, RemoveRecord, TypeOK, MetaOK
  <2>4. Held(r)' /\ (p \notin split => \A v, w \in records'[p] : v = w)
    BY <2>1, <2>2, <2>3 DEF Held, Single
  <2> QED
    BY <2>1, <2>3, <2>4, OneRecordSaved
<1>11. ASSUME NEW r \in Req, InstallUnits(r) PROVE OneRecord'
  BY <1>11, GotoOneRecord DEF InstallUnits, meta, ghost
<1>12. ASSUME NEW r \in Req, StartUnit(r) PROVE OneRecord'
  BY <1>12, GotoOneRecord DEF StartUnit, meta, ghost
<1>13. ASSUME NEW r \in Req, RemoveInstall(r) PROVE OneRecord'
  <2> DEFINE p == req[r].pkg
  <2>1. /\ pc[r] = "unrecord" /\ p \in Pkg /\ split' = split
    BY <1>13 DEF RemoveInstall, HandlerShape, ghost
  <2>2. CASE req[r].ver \in records[p]
    <3>1. /\ pc'[r] \in {"purgeInstalled", "volumes"} /\ req' = req /\ active' = active
          /\ \A s \in Req \ {r} : pc'[s] = pc[s]
      BY <1>13, <2>2 DEF RemoveInstall, Goto, TypeOK, RequestsOK
    <3>2. /\ \A q \in Pkg \ {p} : records'[q] = records[q]
          /\ records'[p] \subseteq records[p]
      BY <1>13, <2>1, <2>2 DEF RemoveInstall, RemoveRecord, TypeOK, MetaOK
    <3>3. p \notin split => Single(p)
      BY <2>1, OthersElsewhere DEF OneRecord
    <3>4. Held(r)' /\ (p \notin split => \A v, w \in records'[p] : v = w)
      BY <3>1, <3>2, <3>3 DEF Held, Single
    <3> QED
      BY <2>1, <3>1, <3>2, <3>4, OneRecordSaved
  <2>3. CASE req[r].ver \notin records[p]
    BY <1>13, <2>1, <2>3, GotoOneRecord DEF RemoveInstall
  <2> QED
    BY <2>2, <2>3
<1>14. ASSUME NEW r \in Req, KeepVolumes(r) PROVE OneRecord'
  BY <1>14, GotoOneRecord DEF KeepVolumes, meta, ghost
<1>15. ASSUME NEW r \in Req, PurgeInstalled(r) PROVE OneRecord'
  BY <1>15, GotoOneRecord DEF PurgeInstalled, meta, ghost
<1>16. ASSUME NEW r \in Req, PurgeUninstalled(r) PROVE OneRecord'
  BY <1>16, GotoOneRecord DEF PurgeUninstalled, meta, ghost
<1>17. ASSUME NEW r \in Req, SetDisabled(r) PROVE OneRecord'
  <2>1. PICK s \in {"halt", "start"} : Goto(r, s) \/ Finish(r)
    BY <1>17 DEF SetDisabled
  <2> QED
    BY <1>17, <2>1, GotoOneRecord DEF SetDisabled, ghost
<1>18. ASSUME NEW r \in Req, HaltUnit(r) PROVE OneRecord'
  BY <1>18, GotoOneRecord DEF HaltUnit, meta, ghost
<1>19. ASSUME NEW r \in Req, Fail(r) PROVE OneRecord'
  BY <1>19 DEF Fail
<1>20. CASE UNCHANGED <<records, split, ctl>>
  BY <1>20 DEF OneRecord, Held, Single, ctl
<1>21. CASE Restarts
  <2>1. /\ \A s \in Req : pc'[s] = "idle"
        /\ split' = split \cup {p \in Pkg : \E v, w \in records[p] : v # w}
        /\ records' = records
    BY <1>21, RestartsBoot DEF NewProcess, meta
  <2> QED
    BY <2>1 DEF OneRecord, Single
<1>22. ASSUME NEW u \in Unit, SetUnitStatus(u) \/ Write(u) PROVE OneRecord'
  BY <1>20, <1>22 DEF SetUnitStatus, Write, meta, ghost
<1>23. CASE Boot \/ Refresh \/ SelfRestartFails \/ UNCHANGED vars
  BY <1>20, <1>23 DEF Boot, ReconcilePackage, StartPackage, RestartPackage, EndPhaseOne, EndPhaseTwo,
                EndReconcile, FreshnessFails, Serve, Refresh, SelfRestartFails, vars, meta, ghost
<1> QED
  BY <1>1, <1>2, <1>3, <1>4, <1>5, <1>6, <1>7, <1>8, <1>9, <1>10, <1>11, <1>12, <1>13, <1>14, <1>15, <1>16, <1>17, <1>18, <1>19, <1>21, <1>22, <1>23, <1>24 DEF Next, Handler, Restarts

(* It holds in every state the system reaches before a call fails; and until *)
(* then every file that was to be removed is gone.                           *)
Faultless == faults = 0 => OneRecord /\ undeleted = {}

(* Only an os.Remove that fails leaves a file behind. *)
LEMMA FaultlessStep ==
  ASSUME IInv, Faultless, [Next]_vars
  PROVE  Faultless'
<1> SUFFICES ASSUME faults' = 0 PROVE OneRecord' /\ undeleted' = {}
  BY DEF Faultless
<1>1. faults = 0 /\ ~Fault
  BY FaultsStay, FaultCounts DEF IInv
<1>2. OneRecord'
  BY <1>1, OneRecordStep DEF Faultless
<1>3. undeleted = {}
  BY <1>1 DEF Faultless
<1>4. ASSUME NEW r \in Req, Handler(r) PROVE undeleted' = {}
  <2>1. CASE ListUnits(r) \/ StopCurrent(r) \/ UninstallUnit(r) \/ PrepareActiveVersion(r) \/ ReuseVolumes(r)
    BY <1>1, <1>3, <2>1 DEF ListUnits, StopCurrent, UninstallUnit, PrepareActiveVersion, ReuseVolumes,
                            SetStop, sysd
  <2>2. CASE ProvisionVolumes(r) \/ SaveInstall(r) \/ DropOldRecord(r) \/ InstallUnits(r) \/ StartUnit(r)
    BY <1>1, <1>3, <2>2 DEF ProvisionVolumes, SaveInstall, DropOldRecord, InstallUnits, StartUnit,
                            WriteUnit, SetStart, sysd
  <2>3. CASE RemoveInstall(r) \/ KeepVolumes(r) \/ PurgeInstalled(r) \/ PurgeUninstalled(r)
    BY <1>3, <2>3 DEF RemoveInstall, KeepVolumes, PurgeInstalled, PurgeUninstalled, sysd
  <2>4. CASE SetDisabled(r) \/ HaltUnit(r) \/ Fail(r)
    BY <1>1, <1>3, <2>4 DEF SetDisabled, HaltUnit, Fail, SetStop, sysd
  <2> QED
    BY <1>4, <2>1, <2>2, <2>3, <2>4 DEF Handler
<1>5. ASSUME NEW r \in Req, Dispatch(r) \/ Disconnect(r) \/ LockPackage(r) PROVE undeleted' = {}
  BY <1>3, <1>5 DEF Dispatch, Disconnect, LockPackage, sysd
<1>6. ASSUME NEW u \in Unit, SetUnitStatus(u) \/ Write(u) PROVE undeleted' = {}
  BY <1>3, <1>6 DEF SetUnitStatus, SetStart, SetStop, Write, sysd
<1>7. CASE Refresh \/ SelfRestartFails \/ Boot
  BY <1>2, <1>3, <1>7 DEF Refresh, SelfRestartFails, Boot, ReconcilePackage, StartPackage, RestartPackage,
                EndPhaseOne, EndPhaseTwo, EndReconcile, FreshnessFails, Serve, WriteUnit, SetStart,
                SetRestart, sysd
<1>8. CASE Restarts
  BY <1>2, <1>3, <1>8 DEF Restarts, Crash, SelfRestart, Reboot
<1>9. CASE UNCHANGED vars
  BY <1>2, <1>3, <1>9 DEF vars, sysd
<1> QED
  BY <1>2, <1>4, <1>5, <1>6, <1>7, <1>8, <1>9, Steps DEF Serving

LEMMA FaultlessInv == Spec => []Faultless
<1>1. Init => Faultless
  BY DEF Init, Faultless, OneRecord, Single
<1>2. IInv /\ Faultless /\ [Next]_vars => Faultless'
  BY FaultlessStep
<1> QED
  BY <1>1, <1>2, Inductive, PTL DEF Spec

(* The unit files of a package are those of one version. *)
LEMMA OneUnit ==
  ASSUME IInv, Faultless, faults = 0,
         NEW u \in unit, NEW w \in unit, u[1] = w[1], u[1] \notin split
  PROVE  u = w
<1> DEFINE p == u[1]
<1> OneRecord /\ undeleted = {}
  BY DEF Faultless
<1>1. /\ u \in Unit /\ w \in Unit /\ p \in Pkg
      /\ u[2] \in records[p] /\ w[2] \in records[p]
  BY DEF IInv, TypeOK, SystemdOK, UnitHasRecord, Installed, Unit
<1>2. CASE Single(p)
  BY <1>1, <1>2 DEF Single, Unit
<1>3. ASSUME NEW r \in Req, pc[r] = "drop", req[r].pkg = p PROVE u = w
  <2>1. records[p] \subseteq {active[r], req[r].ver}
    BY <1>3 DEF OneRecord, Held
  <2>2. <<p, active[r]>> \notin unit
    BY <1>3 DEF IInv, HandlerKnows, Knows
  <2>3. \A x \in unit : x \in Unit /\ x[1] = p => x[2] # active[r]
    BY <2>2 DEF Unit
  <2> QED
    BY <1>1, <2>1, <2>3 DEF Unit
<1> QED
  BY <1>1, <1>2, <1>3 DEF OneRecord

(* At most one version of a package runs (reconcile.go:133), whatever requests *)
(* come in together, clients that disconnect, starts by hand, crashes and      *)
(* updates included, unless a call failed or a process died between the record *)
(* of the new version and the removal of the old one's, and short of the       *)
(* services a removal missed.                                                  *)
THEOREM OneVersionRunning == Spec => []OneVersionRuns
<1>1. IInv /\ Faultless /\ Stopped => OneVersionRuns
  BY OneUnit DEF OneVersionRuns, Stopped, Watched
<1> QED
  BY <1>1, Inductive, FaultlessInv, StoppedInv, PTL

-----------------------------------------------------------------------------
(* Installed packages keep their units *)

(* The names a handler still has to remove were found by its own glob. *)
Found(r) ==
  pc[r] \in {"stop", "unlink"} =>
    /\ names[r] # {}
    /\ \A w \in names[r] : w = Retiring(r) \/ <<Retiring(r), w>> \in Overlap

Findings == \A r \in Req : Found(r)

(* Every step keeps that. *)
LEMMA FoundStep ==
  ASSUME IInv, Findings, [Next]_vars
  PROVE  Findings'
<1> TypeOK /\ HandlerShape
  BY DEF IInv
<1>1. ASSUME NEW r \in Req, Found(r)',
             \A s \in Req \ {r} : /\ pc'[s] = pc[s] /\ req'[s] = req[s]
                                  /\ active'[s] = active[s] /\ names'[s] = names[s]
      PROVE  Findings'
  BY <1>1 DEF Findings, Found, Retiring
<1>2. ASSUME NEW r \in Req, pc'[r] \notin {"stop", "unlink"},
             \A s \in Req \ {r} : /\ pc'[s] = pc[s] /\ req'[s] = req[s]
                                  /\ active'[s] = active[s] /\ names'[s] = names[s]
      PROVE  Findings'
  BY <1>1, <1>2 DEF Found
<1>3. ASSUME NEW r \in Req, NEW step, step \notin {"stop", "unlink"}, Goto(r, step) \/ Finish(r)
      PROVE  Findings'
  BY <1>2, <1>3 DEF Goto, Finish, TypeOK, RequestsOK
<1>4. ASSUME NEW r \in Req, Dispatch(r) \/ LockPackage(r) PROVE Findings'
  <2>1. /\ pc'[r] \notin {"stop", "unlink"} /\ names' = names
        /\ \A s \in Req \ {r} : pc'[s] = pc[s] /\ req'[s] = req[s] /\ active'[s] = active[s]
    BY <1>4, FirstStepIs DEF Dispatch, LockPackage, TypeOK, RequestsOK
  <2> QED
    BY <1>2, <2>1
<1>5. ASSUME NEW r \in Req, ListUnits(r) PROVE Findings'
  <2> DEFINE found == ListPackageUnitFiles(Retiring(r))
  <2>1. /\ names'[r] = found /\ pc'[r] = IF found = {} THEN AfterUnits(r) ELSE "stop"
        /\ req' = req /\ active' = active
        /\ \A s \in Req \ {r} : pc'[s] = pc[s] /\ names'[s] = names[s]
    BY <1>5 DEF ListUnits, TypeOK, RequestsOK
  <2>2. Found(r)'
    BY <2>1 DEF Found, Retiring, ListPackageUnitFiles, AfterUnits
  <2> QED
    BY <1>1, <2>1, <2>2
<1>6. ASSUME NEW r \in Req, StopCurrent(r) PROVE Findings'
  <2>1. /\ pc[r] = "stop" /\ UNCHANGED <<names, req, active>>
        /\ \A s \in Req \ {r} : pc'[s] = pc[s]
    BY <1>6 DEF StopCurrent, Goto, TypeOK, RequestsOK
  <2>2. Found(r)'
    BY <2>1 DEF Findings, Found, Retiring
  <2> QED
    BY <1>1, <2>1, <2>2
<1>7. ASSUME NEW r \in Req, UninstallUnit(r) PROVE Findings'
  <2>1. /\ pc[r] = "unlink" /\ UNCHANGED <<req, active>>
        /\ names'[r] = names[r] \ {Current(r)}
        /\ pc'[r] = IF names'[r] = {} THEN AfterUnits(r) ELSE "stop"
        /\ \A s \in Req \ {r} : pc'[s] = pc[s] /\ names'[s] = names[s]
    BY <1>7 DEF UninstallUnit, TypeOK, RequestsOK
  <2>2. Found(r)'
    BY <2>1 DEF Findings, Found, Retiring, AfterUnits
  <2> QED
    BY <1>1, <2>1, <2>2
<1>8. ASSUME NEW r \in Req, ReuseVolumes(r) PROVE Findings'
  BY <1>2, <1>8 DEF ReuseVolumes, TypeOK, RequestsOK
<1>9. ASSUME NEW r \in Req,
             PrepareActiveVersion(r) \/ ProvisionVolumes(r) \/ SaveInstall(r) \/ DropOldRecord(r)
               \/ InstallUnits(r) \/ StartUnit(r)
      PROVE  Findings'
  BY <1>3, <1>9 DEF PrepareActiveVersion, ProvisionVolumes, SaveInstall, DropOldRecord,
                    InstallUnits, StartUnit
<1>10. ASSUME NEW r \in Req,
              RemoveInstall(r) \/ KeepVolumes(r) \/ PurgeInstalled(r) \/ PurgeUninstalled(r)
                \/ SetDisabled(r) \/ HaltUnit(r) \/ Fail(r)
       PROVE  Findings'
  BY <1>3, <1>10 DEF RemoveInstall, KeepVolumes, PurgeInstalled, PurgeUninstalled, SetDisabled,
                     HaltUnit, Fail
<1>11. CASE UNCHANGED <<pc, req, active, names>>
  BY <1>11 DEF Findings, Found, Retiring
<1>12. ASSUME NEW r \in Req, Disconnect(r) PROVE Findings'
  BY <1>11, <1>12 DEF Disconnect
<1>13. ASSUME NEW u \in Unit, SetUnitStatus(u) \/ Write(u) PROVE Findings'
  BY <1>11, <1>13 DEF SetUnitStatus, Write, ctl
<1>14. CASE Boot \/ Refresh \/ SelfRestartFails \/ UNCHANGED vars
  BY <1>11, <1>14 DEF Boot, ReconcilePackage, StartPackage, RestartPackage, EndPhaseOne, EndPhaseTwo,
                EndReconcile, FreshnessFails, Serve, Refresh, SelfRestartFails, vars, ctl
<1>15. CASE Restarts
  BY <1>15, RestartsBoot DEF NewProcess, Findings, Found
<1> QED
  BY <1>4, <1>5, <1>6, <1>7, <1>8, <1>9, <1>10, <1>12, <1>13, <1>14, <1>15 DEF Next, Handler, Restarts

(* A handler at work accounts for the missing unit of version v of p: it is  *)
(* retiring it, or about to write it.                                        *)
Accounts(r, p, v) ==
  /\ req[r].pkg = p
  /\ \/ /\ req[r].op = "uninstall" /\ v = req[r].ver
        /\ pc[r] \in {"list", "stop", "unlink", "unrecord"}
     \/ /\ req[r].op = "install" /\ v = active[r]
        /\ pc[r] \in {"list", "stop", "unlink", "migrate", "provision", "save", "drop"}
     \/ /\ req[r].op = "install" /\ v = req[r].ver
        /\ pc[r] \in {"drop", "units"}

(* Every record has its unit file, or the boot still has to write it, or a   *)
(* handler at work accounts for it.                                          *)
HasUnits ==
  faults = 0 =>
    \A p \in Pkg \ (Instances \cup split) : \A v \in records[p] :
      \/ <<p, v>> \in unit \cup taken
      \/ phase = "reconcile" /\ <<p, v>> \in todo
      \/ phase = "serving" /\ \E r \in Req : Accounts(r, p, v)

(* Request r sees to its own records and units. *)
LEMMA UnitsStep ==
  ASSUME HasUnits, faults = 0, phase = "serving", phase' = "serving", split' = split,
         NEW r \in Req,
         \A s \in Req \ {r} : pc'[s] = pc[s] /\ req'[s] = req[s] /\ active'[s] = active[s],
         \A p \in Pkg \ (Instances \cup split) : \A v \in records'[p] :
           \/ <<p, v>> \in unit' \cup taken'
           \/ Accounts(r, p, v)'
           \/ v \in records[p] /\ <<p, v>> \notin unit \cup taken /\ ~Accounts(r, p, v)
  PROVE  HasUnits'
<1> SUFFICES ASSUME NEW p \in Pkg \ (Instances \cup split), NEW v \in records'[p],
                    v \in records[p], <<p, v>> \notin unit \cup taken, ~Accounts(r, p, v)
             PROVE  \E s \in Req : Accounts(s, p, v)'
  BY DEF HasUnits
<1>1. PICK s \in Req : Accounts(s, p, v)
  BY DEF HasUnits
<1> QED
  BY <1>1 DEF Accounts

(* The steps of a request that leave records and units alone. *)
LEMMA GotoUnits ==
  ASSUME TypeOK, HasUnits, faults = 0, phase = "serving", phase' = "serving", split' = split,
         NEW r \in Req,
         \A s \in Req \ {r} : pc'[s] = pc[s] /\ req'[s] = req[s] /\ active'[s] = active[s],
         records' = records, unit \cup taken \subseteq unit' \cup taken',
         \A p \in Pkg, v \in Ver : Accounts(r, p, v) => Accounts(r, p, v)'
  PROVE  HasUnits'
<1>1. \A p \in Pkg : records'[p] \subseteq Ver
  BY DEF TypeOK, MetaOK
<1> QED
  BY <1>1, UnitsStep

(* Every step keeps the account of the units. *)
LEMMA HasUnitsStep ==
  ASSUME IInv, Faultless, Findings, HasUnits, [Next]_vars
  PROVE  HasUnits'
<1> TypeOK /\ HandlerShape /\ Serialised
  BY DEF IInv
<1> SUFFICES ASSUME faults' = 0 PROVE HasUnits'
  BY DEF HasUnits
<1> faults = 0 /\ ~Fault
  BY FaultsStay, FaultCounts
<1> OneRecord
  BY DEF Faultless
<1>1. ASSUME NEW r \in Req, Dispatch(r) \/ Disconnect(r) \/ LockPackage(r) \/ Handler(r)
      PROVE  phase = "serving" /\ phase' = "serving" /\ split' = split
  BY <1>1, RequestsServe DEF boot
<1>2. ASSUME NEW r \in Req, Dispatch(r) \/ Disconnect(r) \/ LockPackage(r) PROVE HasUnits'
  <2>1. /\ records' = records /\ unit' = unit /\ taken' = taken
        /\ \A s \in Req \ {r} : pc'[s] = pc[s] /\ req'[s] = req[s] /\ active'[s] = active[s]
        /\ pc[r] \in {"idle", "lock"} \/ UNCHANGED <<pc, req, active>>
    BY <1>2 DEF Dispatch, Disconnect, LockPackage, meta, sysd, TypeOK, RequestsOK
  <2>2. \A p, v : Accounts(r, p, v) => Accounts(r, p, v)'
    BY <2>1 DEF Accounts
  <2> QED
    BY <1>1, <1>2, <2>1, <2>2, GotoUnits
<1>3. ASSUME NEW r \in Req, ListUnits(r) \/ StopCurrent(r) PROVE HasUnits'
  <2>1. /\ records' = records /\ unit' = unit /\ taken' = taken /\ req' = req /\ active' = active
        /\ \A s \in Req \ {r} : pc'[s] = pc[s]
        /\ pc[r] \in {"list", "stop"} /\ pc'[r] \in {"stop", "unlink", AfterUnits(r)}
    BY <1>3 DEF ListUnits, StopCurrent, Goto, SetStop, meta, sysd, TypeOK, RequestsOK
  <2>2. \A p, v : Accounts(r, p, v) => Accounts(r, p, v)'
    BY <2>1 DEF Accounts, AfterUnits
  <2>3. Handler(r)
    BY <1>3 DEF Handler
  <2> QED
    BY <1>1, <2>1, <2>2, <2>3, GotoUnits
<1>4. ASSUME NEW r \in Req, UninstallUnit(r) PROVE HasUnits'
  <2> DEFINE u == Current(r)
  <2>1. /\ records' = records /\ req' = req /\ active' = active
        /\ pc[r] = "unlink" /\ pc'[r] \in {"stop", AfterUnits(r)}
        /\ \A s \in Req \ {r} : pc'[s] = pc[s]
        /\ unit' = unit \ {u} /\ taken \subseteq taken'
        /\ <<Retiring(r), u>> \in Overlap => taken' = taken \cup ({u} \cap unit)
    BY <1>4 DEF UninstallUnit, meta, TypeOK, RequestsOK
  <2>2. u = Retiring(r) \/ <<Retiring(r), u>> \in Overlap
    BY <2>1 DEF Findings, Found, Current
  <2>3. \A p, v : Accounts(r, p, v) => Accounts(r, p, v)'
    BY <2>1 DEF Accounts, AfterUnits
  <2>4. req[r].op \in {"install", "uninstall"}
    BY <2>1 DEF HandlerShape
  <2>5. ASSUME NEW p, NEW v, <<p, v>> \in unit \cup taken, <<p, v>> \notin unit' \cup taken'
        PROVE  Accounts(r, p, v)'
    <3>1. <<p, v>> = Retiring(r)
      BY <2>1, <2>2, <2>5
    <3>2. req[r].pkg = p /\ v = IF req[r].op = "install" THEN active[r] ELSE req[r].ver
      BY <3>1 DEF Retiring
    <3> QED
      BY <2>1, <2>4, <3>2 DEF Accounts, AfterUnits
  <2>6. Handler(r)
    BY <1>4 DEF Handler
  <2> QED
    BY <1>1, <2>1, <2>3, <2>5, <2>6, UnitsStep
<1>5. ASSUME NEW r \in Req, PrepareActiveVersion(r) \/ ReuseVolumes(r) \/ ProvisionVolumes(r)
      PROVE  HasUnits'
  <2>1. /\ \A p \in Pkg : records'[p] \subseteq records[p]
        /\ unit' = unit /\ taken' = taken /\ active' = active
        /\ \A s \in Req \ {r} : pc'[s] = pc[s] /\ req'[s] = req[s]
        /\ req'[r].op = req[r].op /\ req'[r].pkg = req[r].pkg /\ req'[r].ver = req[r].ver
        /\ pc[r] \in {"migrate", "provision"} /\ pc'[r] \in {"provision", "save"}
    BY <1>5 DEF PrepareActiveVersion, ReuseVolumes, ProvisionVolumes, Goto, RemoveRecord, meta, sysd,
                TypeOK, RequestsOK, MetaOK
  <2>2. \A p, v : Accounts(r, p, v) => Accounts(r, p, v)'
    BY <2>1 DEF Accounts
  <2>3. Handler(r)
    BY <1>5 DEF Handler
  <2> QED
    BY <1>1, <2>1, <2>2, <2>3, UnitsStep
<1>6. ASSUME NEW r \in Req, SaveInstall(r) PROVE HasUnits'
  <2>1. PICK q \in Pkg, w \in Ver : q = req[r].pkg /\ w = req[r].ver
    BY <1>6 DEF SaveInstall, HandlerShape
  <2>2. /\ pc[r] = "save" /\ req[r].op = "install" /\ UNCHANGED <<unit, taken>> /\ Handler(r)
        /\ records[q] \subseteq Ver /\ 0 \notin Ver
    BY <1>6, <2>1, LifecycleAssumption DEF SaveInstall, HandlerShape, Handler, sysd, TypeOK, MetaOK, Ver
  <2>3. CASE w \in records[q]
    <3>1. /\ records' = records
          /\ \A s \in Req \ {r} : pc'[s] = pc[s] /\ req'[s] = req[s] /\ active'[s] = active[s]
      BY <1>6, <2>1, <2>3 DEF SaveInstall, Finish, meta, TypeOK, RequestsOK
    <3>2. q \in split
      BY <2>1, <2>2, <2>3 DEF OneRecord, Held
    <3>3. \A p \in Pkg \ split : \A v : ~Accounts(r, p, v)
      BY <2>1, <3>2 DEF Accounts
    <3> QED
      BY <1>1, <2>2, <3>1, <3>3, UnitsStep
  <2>4. CASE w \notin records[q]
    <3>1. /\ records' = [records EXCEPT ![q] = @ \cup {w}] /\ req' = req /\ active' = active
          /\ pc'[r] = IF active[r] \in {0, w} THEN "units" ELSE "drop"
          /\ \A s \in Req \ {r} : pc'[s] = pc[s]
      BY <1>6, <2>1, <2>4 DEF SaveInstall, Goto, TypeOK, RequestsOK
    <3>2. /\ \A p \in Pkg \ {q} : records'[p] = records[p]
          /\ records'[q] = records[q] \cup {w}
      BY <3>1 DEF TypeOK, MetaOK
    <3>3. Accounts(r, q, w)'
      BY <2>1, <2>2, <3>1 DEF Accounts
    <3>4. \A p, v : Accounts(r, p, v) /\ v \in Ver => Accounts(r, p, v)'
      BY <2>1, <2>2, <3>1 DEF Accounts
    <3>5. \A p \in Pkg : records[p] \subseteq Ver
      BY DEF TypeOK, MetaOK
    <3> QED
      BY <1>1, <2>2, <3>1, <3>2, <3>3, <3>4, <3>5, UnitsStep
  <2> QED
    BY <2>3, <2>4
<1>7. ASSUME NEW r \in Req, DropOldRecord(r) PROVE HasUnits'
  <2>1. PICK q \in Pkg : q = req[r].pkg
    BY <1>7 DEF DropOldRecord, HandlerShape
  <2>2. /\ pc[r] = "drop" /\ pc'[r] = "units" /\ req' = req /\ active' = active
        /\ \A s \in Req \ {r} : pc'[s] = pc[s]
        /\ UNCHANGED <<unit, taken>> /\ Handler(r)
        /\ records' = [records EXCEPT ![q] = @ \ {active[r]}]
    BY <1>7, <2>1 DEF DropOldRecord, RemoveRecord, Goto, Handler, sysd, TypeOK, RequestsOK
  <2>3. /\ \A p \in Pkg \ {q} : records'[p] = records[p]
        /\ records'[q] = records[q] \ {active[r]}
    BY <2>2 DEF TypeOK, MetaOK
  <2>4. \A p, v : Accounts(r, p, v) /\ v # active[r] => Accounts(r, p, v)'
    BY <2>2 DEF Accounts
  <2>5. \A p, v : Accounts(r, p, v) => p = q
    BY <2>1 DEF Accounts
  <2> QED
    BY <1>1, <2>2, <2>3, <2>4, <2>5, UnitsStep
<1>8. ASSUME NEW r \in Req, InstallUnits(r) PROVE HasUnits'
  <2>1. /\ pc[r] = "units" /\ records' = records /\ Handler(r)
        /\ \A s \in Req \ {r} : pc'[s] = pc[s] /\ req'[s] = req[s] /\ active'[s] = active[s]
        /\ unit \cup taken \cup {Target(r)} \subseteq unit' \cup taken'
    BY <1>8 DEF InstallUnits, WriteUnit, Goto, Finish, Handler, meta, TypeOK, RequestsOK
  <2>2. \A p, v : Accounts(r, p, v) => <<p, v>> = Target(r)
    BY <2>1 DEF Accounts, Target
  <2> QED
    BY <1>1, <2>1, <2>2, UnitsStep
<1>9. ASSUME NEW r \in Req, RemoveInstall(r) PROVE HasUnits'
  <2>1. PICK q \in Pkg : q = req[r].pkg
    BY <1>9 DEF RemoveInstall, HandlerShape
  <2>2. /\ pc[r] = "unrecord" /\ UNCHANGED <<unit, taken>> /\ Handler(r)
        /\ \A s \in Req \ {r} : pc'[s] = pc[s] /\ req'[s] = req[s] /\ active'[s] = active[s]
        /\ \A p \in Pkg \ {q} : records'[p] = records[p]
        /\ records'[q] = records[q] \ {req[r].ver}
    BY <1>9, <2>1 DEF RemoveInstall, RemoveRecord, Goto, Finish, Handler, sysd, TypeOK, RequestsOK, MetaOK
  <2>3. \A p, v : Accounts(r, p, v) => p = q /\ v = req[r].ver
    BY <2>1, <2>2 DEF Accounts
  <2> QED
    BY <1>1, <2>2, <2>3, UnitsStep
<1>10. ASSUME NEW r \in Req, StartUnit(r) \/ HaltUnit(r) \/ SetDisabled(r) \/ KeepVolumes(r)
                              \/ PurgeInstalled(r) \/ PurgeUninstalled(r)
       PROVE  HasUnits'
  <2>1. /\ pc[r] \in {"start", "halt", "mark", "volumes", "purgeInstalled", "purgeUninstalled"}
        /\ records' = records /\ unit' = unit /\ taken' = taken
    BY <1>10 DEF StartUnit, SetStart, HaltUnit, SetStop, SetDisabled, KeepVolumes, PurgeInstalled,
                 PurgeUninstalled, meta, sysd
  <2>2. \A s \in Req \ {r} : pc'[s] = pc[s] /\ req'[s] = req[s] /\ active'[s] = active[s]
    BY <1>10 DEF StartUnit, HaltUnit, SetDisabled, KeepVolumes, PurgeInstalled,
                 PurgeUninstalled, Goto, Finish, TypeOK, RequestsOK
  <2>3. \A p, v : ~Accounts(r, p, v)
    BY <2>1 DEF Accounts
  <2>4. Handler(r)
    BY <1>10 DEF Handler
  <2> QED
    BY <1>1, <2>1, <2>2, <2>3, <2>4, GotoUnits
<1>11. ASSUME NEW r \in Req PROVE ~Fail(r)
  BY DEF Fail
<1>12. CASE UNCHANGED <<records, unit, taken, split, ctl>> /\ (phase' = phase /\ todo' = todo)
  <2>1. \A r, p, v : Accounts(r, p, v)' = Accounts(r, p, v)
    BY <1>12 DEF Accounts, ctl
  <2> QED
    BY <1>12, <2>1 DEF HasUnits
<1>13. ASSUME NEW u \in Unit, SetUnitStatus(u) \/ Write(u) PROVE HasUnits'
  BY <1>12, <1>13 DEF SetUnitStatus, SetStart, SetStop, Write, meta, sysd, boot, ghost
<1>14. CASE Refresh \/ SelfRestartFails \/ UNCHANGED vars
  <2>1. UNCHANGED <<meta, split, ctl>> /\ UNCHANGED <<unit, taken, phase, todo>>
    BY <1>14 DEF Refresh, SelfRestartFails, vars, sysd, boot, ghost
  <2> QED
    BY <1>12, <2>1 DEF meta
<1>15. CASE Restarts
  <2>1. /\ records' = records /\ phase' = "reconcile" /\ todo' = Latest
        /\ split' = split \cup {p \in Pkg : \E v, w \in records[p] : v # w}
    BY <1>15, RestartsBoot DEF NewProcess, meta
  <2>2. ASSUME NEW p \in Pkg, p \notin split', NEW v \in records[p] PROVE <<p, v>> \in Latest
    <3>1. v \in Ver /\ v \in Nat /\ \A w \in records[p] : w = v
      BY <2>1, <2>2, LifecycleAssumption DEF TypeOK, MetaOK, Ver
    <3> QED
      BY <2>2, <3>1 DEF Latest, Installed, Unit
  <2> QED
    BY <2>1, <2>2 DEF HasUnits
<1>16. CASE Boot
  <2>1. records' = records /\ split' = split /\ phase # "serving"
    BY <1>16 DEF Boot, ReconcilePackage, StartPackage, RestartPackage, EndPhaseOne, EndPhaseTwo,
                EndReconcile, FreshnessFails, Serve, meta, ghost
  <2>2. ASSUME NEW u \in Unit, ReconcilePackage(u) PROVE HasUnits'
    <3>1. /\ phase = "reconcile" /\ phase' = "reconcile" /\ todo' = todo \ {u}
          /\ unit \cup taken \subseteq unit' \cup taken'
          /\ u[1] \in Instances \/ u \in unit'
      BY <2>2 DEF ReconcilePackage, WriteUnit, sysd
    <3>2. \A p \in Pkg \ Instances : \A v : <<p, v>> = u => <<p, v>> \in unit'
      BY <3>1
    <3> QED
      BY <2>1, <3>1, <3>2 DEF HasUnits
  <2>3. CASE EndPhaseOne \/ EndPhaseTwo \/ EndReconcile \/ FreshnessFails \/ Serve
    <3>1. unit' = unit /\ taken' = taken /\ (phase = "reconcile" => todo = {})
      BY <2>3 DEF EndPhaseOne, EndPhaseTwo, EndReconcile, FreshnessFails, Serve, sysd
    <3> QED
      BY <2>1, <3>1 DEF HasUnits
  <2>4. ASSUME NEW u \in Unit, StartPackage(u) \/ RestartPackage(u) PROVE HasUnits'
    <3>1. unit' = unit /\ taken' = taken /\ phase # "reconcile"
      BY <2>4 DEF StartPackage, RestartPackage, SetStart, SetRestart, sysd
    <3> QED
      BY <2>1, <3>1 DEF HasUnits
  <2> QED
    BY <1>16, <2>2, <2>3, <2>4 DEF Boot
<1> QED
  BY <1>2, <1>3, <1>4, <1>5, <1>6, <1>7, <1>8, <1>9, <1>10, <1>11, <1>13, <1>14, <1>15, <1>16 DEF Next, Handler, Restarts

(* A package no request works on has the unit file of every version that is    *)
(* installed, whatever requests for other packages, whose globs may match its  *)
(* own, clients that disconnect, crashes, reboots and updates came before, if  *)
(* no call failed: the only files taken from it are those that another         *)
(* package's glob matches (systemd/manager.go:272).                            *)
THEOREM InstalledHaveUnits == Spec => []InstalledHasUnit
<1>1. Init => Findings /\ HasUnits
  BY DEF Init, Findings, Found, HasUnits
<1>2. IInv /\ Faultless /\ Findings /\ HasUnits /\ [Next]_vars => (Findings /\ HasUnits)'
  BY FoundStep, HasUnitsStep
<1>3. IInv /\ HasUnits => InstalledHasUnit
  <2> SUFFICES ASSUME IInv, HasUnits, NEW p \in Pkg \ (Instances \cup split),
                      phase = "serving", faults = 0, lock[p] = NoReq, NEW v \in records[p]
               PROVE  <<p, v>> \in unit \cup taken
    BY DEF InstalledHasUnit
  <2>1. ASSUME NEW r \in Req, Accounts(r, p, v) PROVE FALSE
    BY <2>1, LifecycleAssumption DEF IInv, Serialised, Accounts
  <2> QED
    BY <2>1 DEF HasUnits
<1> QED
  BY <1>1, <1>2, <1>3, Inductive, FaultlessInv, PTL DEF Spec

-----------------------------------------------------------------------------
(* Updates reach every service *)

(* What still runs from before an update, of the packages a boot can load    *)
(* and that have one record.                                                 *)
Old == {u \in stale \ loose : u[1] \notin Instances \cup split}

(* The packages the boot can load are all in the list of the stage or        *)
(* reconciled.                                                               *)
Listed(U) == \A u \in Latest : u[1] \in Instances \/ u \in U

(* Something will restart what is old: the marker, or the version file that  *)
(* is only written after the restarts; and the list of the stage names it.   *)
Fresh ==
  faults = 0 =>
    /\ phase = "reconcile" => Listed(todo \cup booted)
    /\ phase \in {"starts", "restarts"} => Listed(booted)
    /\ Old = {} \/ marker \/ updating
    /\ phase = "restarts" => Old = {} \/ marker \/ Old \subseteq todo
    /\ phase = "freshness" => Old \subseteq todo
    /\ phase \in {"freshness", "serving"} => ~updating

(* Between requests, what is old is the latest version of its package. *)
LEMMA OldIsLatest ==
  ASSUME IInv, Faultless, Stopped, faults = 0, phase # "serving"
  PROVE  Old \subseteq Latest /\ Latest \subseteq Installed /\ Old \subseteq unit
<1> OneRecord /\ undeleted = {}
  BY DEF Faultless
<1> SUFFICES ASSUME NEW u \in Old PROVE u \in Latest /\ u \in unit
  BY DEF Latest
<1>1. u \in unit /\ u \in Installed /\ u[1] \in Pkg \ split /\ u[2] \in records[u[1]]
  BY DEF Old, IInv, TypeOK, SystemdOK, Stopped, Watched, UnitHasRecord, Installed, Unit
<1>2. Single(u[1])
  BY <1>1 DEF OneRecord, IInv, HandlerShape
<1>3. records[u[1]] \subseteq Nat
  BY <1>1, LifecycleAssumption DEF IInv, TypeOK, MetaOK, Ver
<1>4. \A v \in records[u[1]] : v <= u[2]
  BY <1>1, <1>2, <1>3 DEF Single
<1> QED
  BY <1>1, <1>4 DEF Latest

(* Every step keeps what is old within reach of a restart. *)
LEMMA FreshStep ==
  ASSUME IInv, Faultless, Stopped, Fresh, [Next]_vars
  PROVE  Fresh'
<1> TypeOK /\ HandlerShape
  BY DEF IInv
<1> SUFFICES ASSUME faults' = 0 PROVE Fresh'
  BY DEF Fresh
<1> faults = 0 /\ ~Fault
  BY FaultsStay, FaultCounts
<1>1. CASE Serving
  <2>1. /\ phase = "serving" /\ phase' = "serving" /\ split' = split
        /\ UNCHANGED <<todo, pending, booted, updating>>
    BY <1>1, ServingServes
  <2>2. CASE Refresh
    BY <2>1, <2>2 DEF Refresh, Fresh
  <2>3. ASSUME NEW r \in Req, Dispatch(r) \/ Disconnect(r) \/ LockPackage(r) \/ Handler(r)
        PROVE  stale' \ loose' \subseteq stale \ loose /\ marker' = marker
    <3>1. marker' = marker
      BY <2>3, RequestsServe DEF boot
    <3>2. CASE Dispatch(r) \/ Disconnect(r) \/ LockPackage(r)
      BY <3>1, <3>2 DEF Dispatch, Disconnect, LockPackage, sysd
    <3>3. CASE ListUnits(r) \/ StopCurrent(r) \/ UninstallUnit(r) \/ PrepareActiveVersion(r) \/ ReuseVolumes(r)
      BY <3>1, <3>3 DEF ListUnits, StopCurrent, UninstallUnit, PrepareActiveVersion, ReuseVolumes,
                        SetStop, sysd
    <3>4. CASE ProvisionVolumes(r) \/ SaveInstall(r) \/ DropOldRecord(r) \/ InstallUnits(r) \/ StartUnit(r)
      BY <3>1, <3>4 DEF ProvisionVolumes, SaveInstall, DropOldRecord, InstallUnits,
                        StartUnit, SetStart, WriteUnit, sysd
    <3>5. CASE RemoveInstall(r) \/ KeepVolumes(r) \/ PurgeInstalled(r) \/ PurgeUninstalled(r)
      BY <3>1, <3>5 DEF RemoveInstall, KeepVolumes, PurgeInstalled, PurgeUninstalled, sysd
    <3>6. CASE SetDisabled(r) \/ HaltUnit(r) \/ Fail(r)
      BY <3>1, <3>6 DEF SetDisabled, HaltUnit, Fail, SetStop, sysd
    <3> QED
      BY <2>3, <3>2, <3>3, <3>4, <3>5, <3>6 DEF Handler
  <2>4. ASSUME NEW u \in Unit, SetUnitStatus(u)
        PROVE  stale' \ loose' \subseteq stale \ loose /\ marker' = marker
    BY <2>4 DEF SetUnitStatus, SetStart, SetStop, boot
  <2>5. CASE stale' \ loose' \subseteq stale \ loose /\ marker' = marker
    <3>1. Old' \subseteq Old
      BY <2>1, <2>5 DEF Old
    <3> QED
      BY <2>1, <2>5, <3>1 DEF Fresh
  <2> QED
    BY <1>1, <2>2, <2>3, <2>4, <2>5 DEF Serving, SelfRestartFails
<1>2. CASE Restarts
  <2>1. /\ NewProcess /\ faults = 0
    BY <1>2, RestartsBoot
  <2>2. /\ phase' = "reconcile" /\ todo' = Latest /\ Latest' = Latest /\ marker' = marker
        /\ split \subseteq split'
    BY <2>1 DEF NewProcess, meta, Latest, Installed
  <2>3. updating' = TRUE \/ (updating' = updating /\ stale' \ loose' \subseteq stale \ loose)
    BY <1>2 DEF Restarts, Crash, SelfRestart, Reboot, Image
  <2>4. Old' = {} \/ marker' \/ updating'
    BY <2>1, <2>2, <2>3 DEF Fresh, Old
  <2> QED
    BY <2>2, <2>4 DEF Fresh, Listed
<1>3. ASSUME NEW u \in Unit, Write(u) PROVE Fresh'
  <2>1. Latest' = Latest /\ Old' = Old /\ UNCHANGED <<boot, cnt>>
    BY <1>3 DEF Write, meta, sysd, Latest, Installed, Old
  <2> QED
    BY <2>1 DEF Fresh, Listed, boot, cnt
<1>4. ASSUME NEW u \in Unit, ReconcilePackage(u) PROVE Fresh'
  <2>1. /\ Latest' = Latest /\ Old' = Old /\ UNCHANGED <<phase, updating, marker>>
        /\ phase = "reconcile" /\ todo' = todo \ {u}
    BY <1>4 DEF ReconcilePackage, WriteUnit, meta, sysd, Latest, Installed, Old, ghost
  <2>2. booted' = (IF u[1] \in Instances THEN booted ELSE booted \cup {u})
    BY <1>4 DEF ReconcilePackage
  <2>3. Listed(todo \cup booted)' 
    BY <2>1, <2>2 DEF Fresh, Listed
  <2> QED
    BY <2>1, <2>2, <2>3 DEF Fresh
<1>5. ASSUME NEW u \in Unit, StartPackage(u) PROVE Fresh'
  <2>1. /\ Latest' = Latest /\ Old' \subseteq Old /\ UNCHANGED <<phase, booted, updating, marker>>
        /\ phase = "starts"
    BY <1>5 DEF StartPackage, SetStart, sysd, meta, Latest, Installed, Old, ghost
  <2> QED
    BY <2>1 DEF Fresh, Listed
<1>6. ASSUME NEW u \in Unit, RestartPackage(u) PROVE Fresh'
  <2>1. /\ Latest' = Latest /\ UNCHANGED <<phase, booted, updating, marker, split>>
        /\ phase \in {"restarts", "freshness"} /\ todo' = todo \ {u}
    BY <1>6 DEF RestartPackage, meta, Latest, Installed, ghost
  <2>2. loose' = loose /\ stale' = IF u \in unit THEN stale \ {u} ELSE stale
    BY <1>6 DEF RestartPackage, SetRestart
  <2>3. Old \subseteq unit
    BY <2>1, OldIsLatest
  <2>4. Old' = Old \ {u}
    BY <2>1, <2>2, <2>3 DEF Old
  <2> QED
    BY <2>1, <2>4 DEF Fresh, Listed
<1>7. CASE EndPhaseOne \/ EndPhaseTwo \/ EndReconcile \/ FreshnessFails \/ Serve
  <2>1. Latest' = Latest /\ Old' = Old /\ phase # "serving" /\ ~FreshnessFails
    BY <1>7 DEF EndPhaseOne, EndPhaseTwo, EndReconcile, FreshnessFails, Serve, meta, sysd, ghost, cnt, Old, Latest, Installed
  <2>2. Old \subseteq Latest /\ Latest \subseteq Installed
    BY <2>1, OldIsLatest
  <2>3. CASE EndPhaseOne
    <3>1. Listed(booted) /\ phase' = "starts" /\ UNCHANGED <<booted, updating, marker>>
      BY <2>1, <2>3 DEF EndPhaseOne, Fresh, Listed
    <3> QED
      BY <2>1, <3>1 DEF Fresh, Listed
  <2>4. CASE EndPhaseTwo
    <3>1. /\ phase = "starts" /\ phase' = "restarts" /\ UNCHANGED <<booted, updating, marker>>
          /\ updating => todo' = booted
      BY <2>4 DEF EndPhaseTwo
    <3>2. Old \subseteq booted
      BY <2>1, <2>2, <3>1 DEF Fresh, Listed, Old
    <3> QED
      BY <2>1, <3>1, <3>2 DEF Fresh, Listed
  <2>5. CASE EndReconcile
    <3>1. /\ phase = "restarts" /\ phase' = "freshness" /\ todo = {} /\ updating' = FALSE
          /\ todo' = (IF marker THEN Installed ELSE {}) /\ marker' = marker
      BY <2>5 DEF EndReconcile
    <3> QED
      BY <2>1, <2>2, <3>1 DEF Fresh
  <2>6. CASE Serve
    <3>1. phase = "freshness" /\ phase' = "serving" /\ todo = {} /\ updating' = updating
      BY <2>6 DEF Serve
    <3> QED
      BY <2>1, <3>1 DEF Fresh
  <2> QED
    BY <1>7, <2>1, <2>3, <2>4, <2>5, <2>6
<1>8. CASE UNCHANGED vars
  <2>1. Latest' = Latest /\ Old' = Old /\ UNCHANGED <<boot, cnt>>
    BY <1>8 DEF vars, meta, sysd, ghost, Latest, Installed, Old
  <2> QED
    BY <2>1 DEF Fresh, Listed, boot, cnt
<1> QED
  BY <1>1, <1>2, <1>3, <1>4, <1>5, <1>6, <1>7, <1>8, Steps DEF Boot

(* Once the API serves, no service of a loadable package with one record is    *)
(* left from before a refresh or a new image, unless the marker that makes the *)
(* next boot restart it is still there (freshness.go): however often the boot  *)
(* that applies the update is itself cut short.                                *)
THEOREM UpdatesReachEveryService == Spec => []StaleHasMarker
<1>1. Init => Fresh
  <2>1. Init => Latest = {} /\ Old = {}
    BY DEF Init, Latest, Installed, Old, Unit
  <2> QED
    BY <2>1 DEF Init, Fresh, Listed
<1>2. IInv /\ Faultless /\ Stopped /\ Fresh /\ [Next]_vars => Fresh'
  BY FreshStep
<1>3. Fresh => StaleHasMarker
  BY DEF Fresh, StaleHasMarker, Old
<1> QED
  BY <1>1, <1>2, <1>3, Inductive, FaultlessInv, StoppedInv, PTL DEF Spec

-----------------------------------------------------------------------------
(* Upgrades keep the data *)

(* Uninstalls purge, installs start from an empty volume, and no refresh has *)
(* the controller restart itself.  A tree that was kept may stay behind in   *)
(* installed/, in the way of a later upgrade.                                *)
NothingKept == Ops \cap {"keep", "reuse", "refresh"} = {}

(* Under NothingKept, and before the first crash, a boot has nothing to do.  *)
Calm ==
  /\ ~marker /\ restart # "due"
  /\ \A r \in Req : /\ req[r].op = "install" => ~req[r].flag
                    /\ req[r].op = "uninstall" => req[r].flag
                    /\ pc[r] # "volumes"
  /\ crashes = 0 => split = {} /\ (phase # "serving" => todo = {} /\ pending = {} /\ booted = {})

(* What NothingKept says of the requests. *)
LEMMA RequestFlags ==
  ASSUME NothingKept, NEW q \in Request
  PROVE  (q.op = "install" => ~q.flag) /\ (q.op = "uninstall" => q.flag)
<1>1. "keep" \notin Ops /\ "reuse" \notin Ops
  BY DEF NothingKept
<1>2. CASE q \in [op : {"install", "uninstall"}, pkg : Pkg, ver : Ver, flag : BOOLEAN]
           /\ (q.op = "install" /\ q.flag => "reuse" \in Ops)
           /\ (q.op = "uninstall" /\ ~q.flag => "keep" \in Ops)
  BY <1>1, <1>2
<1>3. ASSUME NEW o \in Ops \cap {"disable", "enable", "purge", "purgeUninstalled"},
             NEW p \in Pkg,
             q = [op |-> o, pkg |-> p, ver |-> 0, flag |-> FALSE]
      PROVE  q.op \notin {"install", "uninstall"}
  BY <1>3
<1> QED
  BY <1>2, <1>3 DEF Request

(* A step of a request that goes on to another step than the rename of the   *)
(* tree, or returns. *)
LEMMA GotoCalm ==
  ASSUME TypeOK, HandlerShape, Calm, NEW r \in Req, NEW step, step # "volumes",
         (pc' = [pc EXCEPT ![r] = step] /\ req' = req) \/ Finish(r),
         UNCHANGED boot, split' = split, crashes' = crashes
  PROVE  Calm'
<1>1. \A s \in Req : pc'[s] # "volumes" /\ (req'[s] = req[s] \/ req'[s] = Idle)
  BY DEF Finish, TypeOK, RequestsOK, Calm
<1>2. \A s \in Req : /\ req'[s].op = "install" => ~req'[s].flag
                     /\ req'[s].op = "uninstall" => req'[s].flag
  BY <1>1 DEF Calm, Idle
<1> QED
  BY <1>1, <1>2 DEF Calm, boot

(* Every step keeps it. *)
LEMMA CalmStep ==
  ASSUME NothingKept, TypeOK, HandlerShape, Calm, [Next]_vars
  PROVE  Calm'
<1>1. ASSUME NEW r \in Req, Dispatch(r) PROVE Calm'
  <2>1. PICK q \in Request : req' = [req EXCEPT ![r] = q]
    BY <1>1 DEF Dispatch
  <2>2. \A s \in Req : /\ req'[s].op = "install" => ~req'[s].flag
                       /\ req'[s].op = "uninstall" => req'[s].flag
    BY <2>1, RequestFlags DEF Calm, TypeOK, RequestsOK
  <2>3. \A s \in Req : pc'[s] # "volumes"
    BY <1>1 DEF Dispatch, Calm, TypeOK, RequestsOK
  <2> QED
    BY <1>1, <2>2, <2>3 DEF Dispatch, Calm, boot, ghost, cnt
<1>2. ASSUME NEW r \in Req, Disconnect(r) PROVE Calm'
  BY <1>2 DEF Disconnect, Calm, boot, ghost, cnt
<1>3. ASSUME NEW r \in Req, LockPackage(r) PROVE Calm'
  <2>1. \A s \in Req : pc'[s] # "volumes"
    BY <1>3, FirstStepIs DEF LockPackage, Calm, TypeOK, RequestsOK
  <2> QED
    BY <1>3, <2>1 DEF LockPackage, Calm, boot, ghost, cnt
<1>4. ASSUME NEW r \in Req, Handler(r) PROVE Calm'
  <2>1. UNCHANGED boot /\ split' = split
    BY <1>4, RequestsServe
  <2>2. ~ReuseVolumes(r) /\ ~KeepVolumes(r)
    BY DEF ReuseVolumes, KeepVolumes, Calm, HandlerShape
  <2>3. RemoveInstall(r) => req[r].flag
    BY DEF RemoveInstall, HandlerShape, Calm
  <2>4. crashes' = crashes
    BY <1>4 DEF Handler, ListUnits, StopCurrent, UninstallUnit, PrepareActiveVersion,
                ReuseVolumes, ProvisionVolumes, SaveInstall, DropOldRecord, InstallUnits, StartUnit, RemoveInstall, KeepVolumes,
                PurgeInstalled, PurgeUninstalled, SetDisabled, HaltUnit, Fail, Fault, cnt
  <2>5. PICK step \in Step : step # "volumes"
                             /\ ((pc' = [pc EXCEPT ![r] = step] /\ req' = req) \/ Finish(r))
    <3>1. CASE StopCurrent(r) \/ PrepareActiveVersion(r) \/ ProvisionVolumes(r)
      BY <3>1 DEF StopCurrent, PrepareActiveVersion, ProvisionVolumes, Goto, Step
    <3>2. CASE SaveInstall(r) \/ DropOldRecord(r) \/ InstallUnits(r) \/ StartUnit(r)
      BY <3>2 DEF SaveInstall, DropOldRecord, InstallUnits, StartUnit, Goto, Step
    <3>3. CASE RemoveInstall(r) \/ PurgeInstalled(r) \/ PurgeUninstalled(r)
      BY <2>3, <3>3 DEF RemoveInstall, PurgeInstalled, PurgeUninstalled, Goto, Step
    <3>4. CASE SetDisabled(r) \/ HaltUnit(r) \/ Fail(r)
      BY <3>4 DEF SetDisabled, HaltUnit, Fail, Goto, Step
    <3>5. CASE ListUnits(r) \/ UninstallUnit(r)
      BY <3>5 DEF ListUnits, UninstallUnit, AfterUnits, Step
    <3> QED
      BY <1>4, <2>2, <3>1, <3>2, <3>3, <3>4, <3>5 DEF Handler
  <2> QED
    BY <2>1, <2>4, <2>5, GotoCalm
<1>5. ASSUME NEW u \in Unit, SetUnitStatus(u) \/ Write(u) PROVE Calm'
  BY <1>5 DEF SetUnitStatus, Write, Calm, boot, ghost, ctl, cnt
<1>6. CASE Boot
  <2>1. UNCHANGED <<ctl, split, crashes>> /\ ~marker' /\ restart' # "due"
    BY <1>6 DEF Boot, ReconcilePackage, StartPackage, RestartPackage, EndPhaseOne, EndPhaseTwo,
                EndReconcile, FreshnessFails, Serve, Fault, ghost, cnt, Calm
  <2>2. crashes = 0 => todo' = {} /\ pending' = {} /\ booted' = {}
    BY <1>6 DEF Boot, ReconcilePackage, StartPackage, RestartPackage, EndPhaseOne, EndPhaseTwo,
                EndReconcile, FreshnessFails, Serve, Calm
  <2> QED
    BY <2>1, <2>2 DEF Calm, ctl
<1>7. ~Refresh /\ ~SelfRestart /\ ~SelfRestartFails
  BY DEF Refresh, SelfRestart, SelfRestartFails, NothingKept, Calm
<1>8. CASE Crash \/ Reboot
  <2>1. NewProcess /\ crashes' # 0
    BY <1>8 DEF Crash, Reboot, TypeOK, CountersOK
  <2>2. \A s \in Req : pc'[s] = "idle" /\ req'[s] = Idle
    BY <2>1 DEF NewProcess
  <2> QED
    BY <2>1, <2>2 DEF Calm, NewProcess, Idle
<1>9. CASE UNCHANGED vars
  BY <1>9 DEF vars, Calm, boot, ghost, ctl, cnt
<1> QED
  BY <1>1, <1>2, <1>3, <1>4, <1>5, <1>6, <1>7, <1>8, <1>9 DEF Next

(* It holds in every state the system reaches. *)
LEMMA CalmInv ==
  ASSUME NothingKept
  PROVE  Spec => []Calm
<1>1. Init => Calm
  BY DEF Init, Calm, Idle
<1>2. IInv /\ Calm /\ [Next]_vars => Calm'
  BY CalmStep DEF IInv
<1> QED
  BY <1>1, <1>2, Inductive, PTL DEF Spec

(* The volume of version v of p; it is the only one p has; it holds what the *)
(* current installation of p wrote.                                          *)
Vol(p, v) == <<"installed", p, v>>
Only(p, v) == \A x \in Ver : Vol(p, x) \in subvols => x = v
Home(p, v) == mine[p] \ purged \subseteq data[Vol(p, v)]

(* The volumes of p are those of its records, and hold its data. *)
Settled(p) ==
  /\ \A x \in Ver : Vol(p, x) \in subvols => x \in records[p]
  /\ \A v \in records[p] : Home(p, v)

(* The steps between which they are not. *)
Moving == {"provision", "save", "drop", "purgeInstalled"}

(* What a request on p relies on meanwhile. *)
Keeps(r, p) ==
  /\ pc[r] \in {"list", "stop", "unlink", "migrate"} /\ req[r].op = "install" =>
       active[r] \in records[p]
  /\ pc[r] \in {"provision", "save"} =>
       Only(p, req[r].ver) /\ (active[r] # 0 => Home(p, req[r].ver))
  /\ pc[r] = "drop" => Only(p, req[r].ver) /\ Home(p, req[r].ver)
  /\ pc[r] = "purgeInstalled" => records[p] = {} \/ Settled(p)

(* Every package is settled, or a request that moves its volume knows where it is. *)
Volumes ==
  /\ \A p \in Pkg : Settled(p) \/ \E r \in Req : pc[r] \in Moving /\ req[r].pkg = p
  /\ \A r \in Req, p \in Pkg : pc[r] # "idle" /\ req[r].pkg = p => Keeps(r, p)

(* That is claimed until a call fails or the process dies. *)
Kept == faults = 0 /\ crashes = 0 => Volumes

(* The volumes, records and writes of q are left alone. *)
Alone(q) ==
  /\ records'[q] = records[q] /\ mine'[q] = mine[q]
  /\ \A v \in Ver : /\ Vol(q, v) \in subvols' <=> Vol(q, v) \in subvols
                    /\ data'[Vol(q, v)] = data[Vol(q, v)]

(* Then what is known of them stays true; a purge elsewhere only helps. *)
LEMMA AloneSettled ==
  ASSUME MetaOK, NEW q \in Pkg, Alone(q), purged \subseteq purged'
  PROVE  /\ Settled(q) => Settled(q)'
         /\ \A v \in Ver : Only(q, v) => Only(q, v)'
         /\ \A v \in Ver : Home(q, v) => Home(q, v)'
<1>1. records[q] \subseteq Ver
  BY DEF MetaOK
<1>2. \A v \in Ver : Home(q, v) => Home(q, v)'
  BY DEF Alone, Home, Vol
<1>3. \A v \in Ver : Only(q, v) => Only(q, v)'
  BY DEF Alone, Only, Vol
<1>4. ASSUME Settled(q) PROVE Settled(q)'
  <2>1. \A x \in Ver : Vol(q, x) \in subvols' => x \in records'[q]
    BY <1>4 DEF Alone, Settled
  <2>2. \A v \in records'[q] : Home(q, v)'
    BY <1>1, <1>2, <1>4 DEF Alone, Settled
  <2> QED
    BY <2>1, <2>2 DEF Settled, Vol
<1> QED
  BY <1>2, <1>3, <1>4

(* Request r, alone on package p, takes a step that leaves every other       *)
(* package alone.                                                            *)
LEMMA VolumesStep ==
  ASSUME TypeOK, HandlerShape, Volumes, NEW r \in Req, NEW p \in Pkg,
         pc[r] = "idle" \/ req[r].pkg = p,
         \A s \in Req \ {r} : pc'[s] = pc[s] /\ req'[s] = req[s] /\ active'[s] = active[s],
         \A s \in Req \ {r} : pc[s] \notin {"idle", "lock"} => req[s].pkg # p,
         \A q \in Pkg \ {p} : Alone(q), purged \subseteq purged',
         Settled(p)' \/ (pc'[r] \in Moving /\ req'[r].pkg = p),
         pc'[r] # "idle" => req'[r].pkg = p /\ Keeps(r, p)'
  PROVE  Volumes'
<1> MetaOK
  BY DEF TypeOK
<1>1. ASSUME NEW q \in Pkg
      PROVE  Settled(q)' \/ \E s \in Req : pc'[s] \in Moving /\ req'[s].pkg = q
  <2>1. CASE q = p
    BY <2>1
  <2>2. CASE q # p /\ Settled(q)
    BY <2>2, AloneSettled
  <2>3. ASSUME NEW s \in Req, pc[s] \in Moving, req[s].pkg = q, q # p
        PROVE  pc'[s] \in Moving /\ req'[s].pkg = q
    BY <2>3 DEF Moving
  <2> QED
    BY <2>1, <2>2, <2>3 DEF Volumes
<1>2. ASSUME NEW s \in Req, NEW q \in Pkg, pc'[s] # "idle", req'[s].pkg = q
      PROVE  Keeps(s, q)'
  <2>1. CASE s = r
    BY <1>2, <2>1
  <2>2. CASE s # r /\ pc[s] = "lock"
    BY <2>2 DEF Keeps
  <2>3. CASE s # r /\ pc[s] # "lock"
    <3>1. /\ pc[s] \notin {"idle", "lock"} /\ q # p /\ Keeps(s, q)
          /\ pc'[s] = pc[s] /\ req'[s] = req[s] /\ active'[s] = active[s]
      BY <1>2, <2>3 DEF Volumes
    <3>2. pc[s] \in {"provision", "save", "drop"} => req[s].ver \in Ver
      BY DEF HandlerShape
    <3>3. records'[q] = records[q]
      BY <3>1 DEF Alone
    <3> QED
      BY <3>1, <3>2, <3>3, AloneSettled DEF Keeps
  <2> QED
    BY <2>1, <2>2, <2>3
<1> QED
  BY <1>1, <1>2 DEF Volumes

(* A request that is past the lock is alone on its package, which is settled *)
(* unless it is moving something itself.                                     *)
LEMMA AloneOnPackage ==
  ASSUME HandlerShape, Serialised, Volumes, NEW r \in Req, pc[r] \notin {"idle", "lock"}
  PROVE  /\ req[r].pkg \in Pkg
         /\ \A s \in Req \ {r} : pc[s] \notin {"idle", "lock"} => req[s].pkg # req[r].pkg
         /\ pc[r] \notin Moving => Settled(req[r].pkg)
         /\ Keeps(r, req[r].pkg)
<1>1. req[r].pkg \in Pkg
  BY DEF HandlerShape
<1>2. \A s \in Req \ {r} : pc[s] \notin {"idle", "lock"} => req[s].pkg # req[r].pkg
  BY OthersElsewhere
<1>3. pc[r] \notin Moving => Settled(req[r].pkg)
  BY <1>1, <1>2 DEF Volumes, Moving
<1> QED
  BY <1>1, <1>2, <1>3 DEF Volumes

(* Steps outside of the moves. *)
LEMMA GotoVolumes ==
  ASSUME TypeOK, HandlerShape, Serialised, Volumes, NEW r \in Req, NEW step,
         pc[r] \notin {"idle", "lock"} \cup Moving, step \notin Moving,
         step \in {"list", "stop", "unlink", "migrate"} =>
           pc[r] \in {"list", "stop", "unlink", "migrate"},
         (pc' = [pc EXCEPT ![r] = step] /\ UNCHANGED <<req, active>>) \/ Finish(r),
         UNCHANGED <<records, mine, disk>>
  PROVE  Volumes'
<1> DEFINE p == req[r].pkg
<1>0. /\ p \in Pkg /\ Settled(p) /\ Keeps(r, p)
      /\ \A s \in Req \ {r} : pc[s] \notin {"idle", "lock"} => req[s].pkg # p
  BY AloneOnPackage
<1>1. \A s \in Req \ {r} : pc'[s] = pc[s] /\ req'[s] = req[s] /\ active'[s] = active[s]
  BY DEF Finish, TypeOK, RequestsOK
<1>2. \A q \in Pkg : Alone(q)
  BY DEF Alone, disk
<1>3. purged \subseteq purged' /\ MetaOK
  BY DEF disk, TypeOK
<1>4. pc'[r] # "idle" => req'[r] = req[r] /\ active'[r] = active[r] /\ pc'[r] = step
  BY DEF Finish, TypeOK, RequestsOK
<1>5. PICK k \in Pkg : k = p
  BY <1>0
<1>6. Settled(k)'
  BY <1>0, <1>2, <1>3, <1>5, AloneSettled
<1>7. pc'[r] # "idle" => Keeps(r, k)'
  BY <1>0, <1>4, <1>5 DEF Keeps, Moving
<1> HIDE DEF p
<1>8. req[r].pkg = k
  BY <1>5 DEF p
<1>9. \A s \in Req \ {r} : pc[s] \notin {"idle", "lock"} => req[s].pkg # k
  BY <1>0, <1>5
<1> QED
  BY <1>1, <1>2, <1>3, <1>4, <1>6, <1>7, <1>8, <1>9, VolumesStep

(* Outside of an upgrade's two writes a package has one record. *)
LEMMA SingleWhenLocked ==
  ASSUME HandlerShape, Serialised, OneRecord, split = {}, NEW r \in Req,
         pc[r] \notin {"idle", "lock", "drop"}
  PROVE  Single(req[r].pkg)
<1>1. req[r].pkg \in Pkg
  BY DEF HandlerShape
<1>2. ~\E s \in Req : pc[s] = "drop" /\ req[s].pkg = req[r].pkg
  BY OthersElsewhere
<1> QED
  BY <1>1, <1>2 DEF OneRecord

(* An install or an upgrade takes the lock. *)
LEMMA LockVolumes ==
  ASSUME TypeOK, HandlerShape, Serialised, Volumes, NEW r \in Req, LockPackage(r)
  PROVE  Volumes'
<1>1. PICK p \in Pkg : p = req[r].pkg
  BY DEF LockPackage, HandlerShape
<1>2. /\ pc[r] = "lock" /\ lock[p] = NoReq /\ req' = req
      /\ pc'[r] = FirstStep(req[r], active'[r])
      /\ active'[r] = IF req[r].op = "install" THEN GetInstalledVersion(p) ELSE 0
      /\ \A s \in Req \ {r} : pc'[s] = pc[s] /\ active'[s] = active[s]
      /\ UNCHANGED <<records, mine, subvols, data, purged>>
  BY <1>1 DEF LockPackage, meta, ghost, disk, TypeOK, RequestsOK
<1>3. \A s \in Req : pc[s] \notin {"idle", "lock"} => req[s].pkg # p
  BY <1>2, LifecycleAssumption DEF Serialised
<1>4. Settled(p)
  BY <1>3 DEF Volumes, Moving
<1>5. \A q \in Pkg : Alone(q)
  BY <1>2 DEF Alone
<1>6. Settled(p)'
  BY <1>2, <1>4, <1>5, AloneSettled DEF TypeOK
<1>7. /\ GetInstalledVersion(p) # 0 => GetInstalledVersion(p) \in records[p]
      /\ GetInstalledVersion(p) = 0 => records[p] = {}
  <2>1. records[p] \subseteq Nat /\ 0 \notin records[p]
    BY LifecycleAssumption DEF TypeOK, MetaOK, Ver
  <2>2. records[p] # {} => Least(records[p]) \in records[p]
    BY <2>1, LeastIsMember
  <2> QED
    BY <2>1, <2>2 DEF GetInstalledVersion
<1>8. Keeps(r, p)'
  <2>1. CASE pc'[r] = "provision"
    <3>1. active'[r] = 0 /\ records[p] = {}
      BY <1>2, <1>7, <2>1 DEF FirstStep
    <3>2. \A x \in Ver : Vol(p, x) \notin subvols'
      BY <1>2, <1>4, <3>1 DEF Settled
    <3> QED
      BY <2>1, <3>1, <3>2 DEF Keeps, Only, Vol
  <2>2. CASE pc'[r] = "list"
    BY <1>2, <1>7, <2>2, FirstStepIs DEF Keeps
  <2>3. CASE pc'[r] \notin {"provision", "list"}
    <3>1. pc'[r] \in {"mark", "purgeInstalled", "purgeUninstalled"}
      BY <1>2, <2>3, FirstStepIs
    <3> QED
      BY <1>6, <3>1 DEF Keeps
  <2> QED
    BY <2>1, <2>2, <2>3
<1> QED
  BY <1>1, <1>2, <1>3, <1>5, <1>6, <1>8, VolumesStep

(* The upgrade hands the volume over; a reinstall keeps it. *)
LEMMA MigrateVolumes ==
  ASSUME TypeOK, HandlerShape, Serialised, OneRecord, DataHome, Volumes, split = {},
         NEW r \in Req, PrepareActiveVersion(r), ~Fault
  PROVE  Volumes'
<1>1. PICK p \in Pkg, a \in Ver, w \in Ver : p = req[r].pkg /\ a = active[r] /\ w = req[r].ver
  BY DEF PrepareActiveVersion, HandlerShape
<1>2. /\ pc[r] = "migrate" /\ req[r].op = "install" /\ req' = req /\ active' = active
      /\ pc'[r] = "provision" /\ mine' = mine
      /\ \A s \in Req \ {r} : pc'[s] = pc[s]
  BY DEF PrepareActiveVersion, HandlerShape, Goto, ghost, TypeOK, RequestsOK
<1>3. /\ Settled(p) /\ Keeps(r, p)
      /\ \A s \in Req \ {r} : pc[s] \notin {"idle", "lock"} => req[s].pkg # p
  BY <1>1, <1>2, AloneOnPackage DEF Moving
<1>4. records[p] = {a}
  BY <1>1, <1>2, <1>3, SingleWhenLocked DEF Single, Keeps
<1>5. Only(p, a) /\ Home(p, a)
  BY <1>3, <1>4 DEF Settled, Only
<1>6. CASE a = w
  <2>1. UNCHANGED <<subvols, data, purged>> /\ \A q \in Pkg \ {p} : records'[q] = records[q]
    BY <1>1, <1>6 DEF PrepareActiveVersion, RemoveRecord, disk, TypeOK, MetaOK
  <2>2. Only(p, w)' /\ Home(p, w)'
    BY <1>2, <1>5, <1>6, <2>1 DEF Only, Home, Vol
  <2>3. \A q \in Pkg \ {p} : Alone(q)
    BY <1>2, <2>1 DEF Alone
  <2>4. Keeps(r, p)'
    BY <1>1, <1>2, <2>2 DEF Keeps
  <2> QED
    BY <1>1, <1>2, <1>3, <2>1, <2>3, <2>4, VolumesStep DEF Moving
<1>7. CASE a # w
  <2> DEFINE src == Vol(p, a)
             dst == Vol(p, w)
  <2>0. src \in Subvol /\ dst \in Subvol /\ src # dst
    BY <1>7 DEF Vol, Subvol, Area
  <2>1. RenameFilesystem(MoveVolume(p, a, w)) /\ records' = records
    BY <1>1, <1>7 DEF PrepareActiveVersion, meta
  <2>2. dst \notin subvols
    BY <1>5, <1>7 DEF Only
  <2>3. DOMAIN MoveVolume(p, a, w) = {dst} /\ MoveVolume(p, a, w)[dst] = src
    BY DEF MoveVolume, Vol
  <2>4. CASE src \in subvols
    <3>1. /\ subvols' = (subvols \ {src}) \cup {dst} /\ purged' = purged
          /\ data' = [s \in Subvol |-> IF s = dst THEN data[src] ELSE IF s = src THEN {} ELSE data[s]]
      <4> DEFINE from == MoveVolume(p, a, w)
      <4>1. {from[d] : d \in DOMAIN from} = {src} /\ {d \in DOMAIN from : from[d] \in subvols} = {dst}
        BY <2>3, <2>4
      <4> HIDE DEF from, src, dst
      <4>2. RenameFilesystem(from) /\ DOMAIN from = {dst} /\ from[dst] = src
        BY <2>1, <2>3 DEF from
      <4> QED
        BY <2>2, <2>4, <4>1, <4>2 DEF RenameFilesystem
    <3>2. \A x \in Ver : Vol(p, x) \in subvols' => x = w
      BY <1>5, <3>1 DEF Only, Vol
    <3>3. mine'[p] \ purged' \subseteq data'[dst]
      BY <1>2, <1>5, <2>0, <3>1 DEF Home
    <3>4. ASSUME NEW q \in Pkg \ {p} PROVE Alone(q)
      <4>1. \A v \in Ver : Vol(q, v) \in Subvol /\ Vol(q, v) # src /\ Vol(q, v) # dst
        BY DEF Vol, Subvol, Area
      <4> QED
        BY <1>2, <2>1, <3>1, <4>1 DEF Alone
    <3>5. Keeps(r, p)'
      BY <1>1, <1>2, <3>2, <3>3 DEF Keeps, Only, Home, Vol
    <3> QED
      BY <1>1, <1>2, <1>3, <3>1, <3>4, <3>5, VolumesStep DEF Moving
  <2>5. CASE src \notin subvols
    <3>1. UNCHANGED <<subvols, data, purged>>
      <4> DEFINE from == MoveVolume(p, a, w)
      <4>1. {from[d] : d \in DOMAIN from} = {src}
        BY <2>3
      <4> HIDE DEF from, src, dst
      <4>2. RenameFilesystem(from)
        BY <2>1 DEF from
      <4> QED
        BY <2>5, <4>1, <4>2 DEF RenameFilesystem, disk
    <3>2. mine[p] \ purged = {}
      BY <1>5, <2>0, <2>5 DEF Home, DataHome
    <3>3. Only(p, w)' /\ Home(p, w)'
      BY <1>2, <1>5, <2>5, <3>1, <3>2 DEF Only, Home, Vol
    <3>4. \A q \in Pkg : Alone(q)
      BY <1>2, <2>1, <3>1 DEF Alone
    <3>5. Keeps(r, p)'
      BY <1>1, <1>2, <3>3 DEF Keeps
    <3> QED
      BY <1>1, <1>2, <1>3, <3>1, <3>4, <3>5, VolumesStep DEF Moving
  <2> QED
    BY <2>4, <2>5
<1> QED
  BY <1>6, <1>7

(* The volume of the version that is installed exists, then has its record. *)
LEMMA ProvisionVolumesKept ==
  ASSUME TypeOK, HandlerShape, Serialised, Volumes, NEW r \in Req, ProvisionVolumes(r)
  PROVE  Volumes'
<1>1. PICK p \in Pkg, w \in Ver : p = req[r].pkg /\ w = req[r].ver
  BY DEF ProvisionVolumes, HandlerShape
<1>2. /\ pc[r] = "provision" /\ req' = req /\ active' = active /\ pc'[r] = "save"
      /\ UNCHANGED <<mine, records, data, purged>> /\ subvols' = subvols \cup {Vol(p, w)}
      /\ \A s \in Req \ {r} : pc'[s] = pc[s]
  BY <1>1 DEF ProvisionVolumes, CreateFilesystem, Goto, Target, Vol, meta, ghost, TypeOK, RequestsOK
<1>3. /\ Keeps(r, p)
      /\ \A s \in Req \ {r} : pc[s] \notin {"idle", "lock"} => req[s].pkg # p
  BY <1>1, <1>2, AloneOnPackage
<1>4. \A x \in Ver : Vol(p, x) \in subvols' => x = w
  BY <1>1, <1>2, <1>3 DEF Keeps, Only, Vol
<1>5. \A q \in Pkg \ {p} : Alone(q)
  BY <1>2 DEF Alone, Vol
<1>6. Keeps(r, p)'
  BY <1>1, <1>2, <1>3, <1>4 DEF Keeps, Only, Home, Vol
<1> QED
  BY <1>1, <1>2, <1>3, <1>5, <1>6, VolumesStep DEF Moving

(* A first install starts the account of its writes; an upgrade goes on. *)
LEMMA SaveVolumes ==
  ASSUME TypeOK, HandlerShape, Serialised, OneRecord, Volumes, split = {},
         NEW r \in Req, SaveInstall(r)
  PROVE  Volumes'
<1>1. PICK p \in Pkg, w \in Ver : p = req[r].pkg /\ w = req[r].ver
  BY DEF SaveInstall, HandlerShape
<1>2. pc[r] = "save" /\ records[p] \subseteq {active[r]} \ {w}
  BY <1>1 DEF SaveInstall, OneRecord, Held
<1>3. /\ Keeps(r, p)
      /\ \A s \in Req \ {r} : pc[s] \notin {"idle", "lock"} => req[s].pkg # p
  BY <1>1, <1>2, AloneOnPackage
<1>4. /\ records' = [records EXCEPT ![p] = @ \cup {w}] /\ req' = req /\ active' = active
      /\ mine' = IF active[r] = 0 THEN [mine EXCEPT ![p] = {}] ELSE mine
      /\ pc'[r] = IF active[r] \in {0, w} THEN "units" ELSE "drop"
      /\ UNCHANGED <<subvols, data, purged>>
      /\ \A s \in Req \ {r} : pc'[s] = pc[s]
  BY <1>1, <1>2 DEF SaveInstall, Goto, disk, TypeOK, RequestsOK
<1>5. \A q \in Pkg \ {p} : Alone(q)
  BY <1>4 DEF Alone, TypeOK, MetaOK, GhostOK
<1>6. records'[p] = records[p] \cup {w} /\ records[p] \subseteq Ver /\ 0 \notin Ver
  BY <1>4, LifecycleAssumption DEF TypeOK, MetaOK, Ver
<1>7. Only(p, w)'
  BY <1>1, <1>2, <1>3, <1>4 DEF Keeps, Only, Vol
<1>8. Home(p, w)'
  <2>1. CASE active[r] = 0
    <3>1. mine'[p] = {}
      BY <1>4, <2>1 DEF TypeOK, GhostOK
    <3> QED
      BY <3>1 DEF Home
  <2>2. CASE active[r] # 0
    BY <1>1, <1>2, <1>3, <1>4, <2>2 DEF Keeps, Home, Vol
  <2> QED
    BY <2>1, <2>2
<1>9. pc'[r] = "units" => Settled(p)'
  <2>1. pc'[r] = "units" => records'[p] = {w}
    BY <1>2, <1>4, <1>6
  <2> QED
    BY <1>7, <1>8, <2>1 DEF Settled, Only
<1>10. Keeps(r, p)'
  BY <1>1, <1>4, <1>7, <1>8 DEF Keeps
<1> QED
  BY <1>1, <1>2, <1>3, <1>4, <1>5, <1>9, <1>10, VolumesStep DEF Moving, disk

(* With the old record gone, the new version is the installed one. *)
LEMMA DropVolumes ==
  ASSUME TypeOK, HandlerShape, Serialised, HandlerKnows, OneRecord, Volumes, split = {},
         NEW r \in Req, DropOldRecord(r), ~Fault
  PROVE  Volumes'
<1>1. PICK p \in Pkg, w \in Ver : p = req[r].pkg /\ w = req[r].ver
  BY DEF DropOldRecord, HandlerShape
<1>2. /\ pc[r] = "drop" /\ records[p] \subseteq {active[r], w} /\ w \in records[p] /\ active[r] # w
  BY <1>1 DEF DropOldRecord, OneRecord, Held, HandlerKnows, Knows
<1>3. /\ Keeps(r, p)
      /\ \A s \in Req \ {r} : pc[s] \notin {"idle", "lock"} => req[s].pkg # p
  BY <1>1, <1>2, AloneOnPackage
<1>4. /\ records' = [records EXCEPT ![p] = @ \ {active[r]}] /\ req' = req /\ active' = active
      /\ pc'[r] = "units" /\ UNCHANGED <<subvols, data, purged, mine>>
      /\ \A s \in Req \ {r} : pc'[s] = pc[s]
  BY <1>1 DEF DropOldRecord, RemoveRecord, Goto, disk, ghost, TypeOK, RequestsOK
<1>5. \A q \in Pkg \ {p} : Alone(q)
  BY <1>4 DEF Alone, TypeOK, MetaOK
<1>6. records'[p] = {w}
  BY <1>2, <1>4 DEF TypeOK, MetaOK
<1>7. Only(p, w)' /\ Home(p, w)'
  BY <1>1, <1>2, <1>3, <1>4 DEF Keeps, Only, Home, Vol
<1>8. Settled(p)'
  BY <1>6, <1>7 DEF Settled, Only
<1>9. Keeps(r, p)'
  BY <1>4 DEF Keeps
<1> QED
  BY <1>1, <1>2, <1>3, <1>4, <1>5, <1>8, <1>9, VolumesStep DEF disk

(* The record goes first, the volumes after it. *)
LEMMA UnrecordVolumes ==
  ASSUME TypeOK, HandlerShape, Serialised, OneRecord, Calm, Volumes, split = {},
         NEW r \in Req, RemoveInstall(r)
  PROVE  Volumes'
<1>1. PICK p \in Pkg : p = req[r].pkg
  BY DEF RemoveInstall, HandlerShape
<1>2. pc[r] = "unrecord" /\ req[r].flag /\ Single(p)
  BY <1>1, SingleWhenLocked DEF RemoveInstall, HandlerShape, Calm
<1>3. \A s \in Req \ {r} : pc[s] \notin {"idle", "lock"} => req[s].pkg # p
  BY <1>1, <1>2, AloneOnPackage
<1>4. CASE req[r].ver \in records[p]
  <2>1. /\ records' = [records EXCEPT ![p] = @ \ {req[r].ver}]
        /\ req' = req /\ active' = active
        /\ pc'[r] = "purgeInstalled" /\ UNCHANGED <<subvols, data, purged, mine>>
        /\ \A s \in Req \ {r} : pc'[s] = pc[s]
    BY <1>1, <1>2, <1>4 DEF RemoveInstall, RemoveRecord, Goto, disk, ghost, TypeOK, RequestsOK
  <2>2. records'[p] = {}
    BY <1>2, <1>4, <2>1 DEF Single, TypeOK, MetaOK
  <2>3. \A q \in Pkg \ {p} : Alone(q)
    BY <2>1 DEF Alone, TypeOK, MetaOK
  <2>4. Keeps(r, p)'
    BY <2>1, <2>2 DEF Keeps
  <2> QED
    BY <1>1, <1>2, <1>3, <2>1, <2>3, <2>4, VolumesStep DEF Moving
<1>5. CASE req[r].ver \notin records[p]
  BY <1>1, <1>2, <1>5, GotoVolumes DEF RemoveInstall, Goto, Moving, ghost
<1> QED
  BY <1>4, <1>5

(* What an installed package wrote before its volumes were purged is purged. *)
LEMMA PurgeInstalledVolumes ==
  ASSUME TypeOK, HandlerShape, Serialised, Volumes, NEW r \in Req, PurgeInstalled(r)
  PROVE  Volumes'
<1>1. PICK p \in Pkg : p = req[r].pkg
  BY DEF PurgeInstalled, HandlerShape
<1> DEFINE S == Tree("installed", p)
<1>2. /\ pc[r] = "purgeInstalled" /\ req' = req /\ active' = active
      /\ pc'[r] = "purgeUninstalled" /\ UNCHANGED <<records, mine>>
      /\ \A s \in Req \ {r} : pc'[s] = pc[s]
      /\ PurgePrefix(S)
  BY <1>1 DEF PurgeInstalled, Goto, meta, ghost, TypeOK, RequestsOK
<1>3. /\ records[p] = {} \/ Settled(p)
      /\ \A s \in Req \ {r} : pc[s] \notin {"idle", "lock"} => req[s].pkg # p
  BY <1>1, <1>2, AloneOnPackage DEF Keeps
<1>4. \A v \in Ver : Vol(p, v) \in S
  BY DEF Tree, Vol
<1>5. \A q \in Pkg \ {p} : \A v \in Ver : Vol(q, v) \notin S /\ Vol(q, v) \in Subvol
  BY DEF Tree, Vol, Subvol, Area
<1> HIDE DEF S
<1>6. /\ subvols' = subvols \ S
      /\ data' = [s \in Subvol |-> IF s \in S THEN {} ELSE data[s]]
      /\ purged' = purged \cup UNION {data[s] : s \in S}
  BY <1>2 DEF PurgePrefix
<1>7. \A q \in Pkg \ {p} : Alone(q)
  BY <1>2, <1>5, <1>6 DEF Alone
<1>8. ASSUME NEW v \in records[p] PROVE Home(p, v)'
  <2>1. v \in Ver /\ Home(p, v)
    BY <1>3 DEF Settled, TypeOK, MetaOK
  <2>2. data[Vol(p, v)] \subseteq purged'
    BY <1>4, <1>6, <2>1
  <2>3. mine'[p] \ purged' = {}
    BY <1>2, <1>6, <2>1, <2>2 DEF Home
  <2> QED
    BY <2>3 DEF Home
<1>9. Settled(p)'
  <2>1. \A x \in Ver : Vol(p, x) \notin subvols'
    BY <1>4, <1>6
  <2> QED
    BY <1>2, <1>8, <2>1 DEF Settled, Vol
<1>10. Keeps(r, p)'
  BY <1>2 DEF Keeps
<1> QED
  BY <1>1, <1>2, <1>3, <1>6, <1>7, <1>9, <1>10, VolumesStep

(* The purge of uninstalled/ does not reach the volumes of installed/. *)
LEMMA PurgeUninstalledVolumes ==
  ASSUME TypeOK, HandlerShape, Serialised, Volumes, NEW r \in Req, PurgeUninstalled(r)
  PROVE  Volumes'
<1>1. PICK p \in Pkg : p = req[r].pkg
  BY DEF PurgeUninstalled, HandlerShape
<1> DEFINE S == Tree("uninstalled", p)
<1>2. /\ pc[r] = "purgeUninstalled" /\ pc'[r] = "idle" /\ UNCHANGED <<records, mine>>
      /\ \A s \in Req \ {r} : pc'[s] = pc[s] /\ req'[s] = req[s] /\ active'[s] = active[s]
      /\ PurgePrefix(S)
  BY <1>1 DEF PurgeUninstalled, Finish, meta, ghost, TypeOK, RequestsOK
<1>3. /\ Settled(p)
      /\ \A s \in Req \ {r} : pc[s] \notin {"idle", "lock"} => req[s].pkg # p
  BY <1>1, <1>2, AloneOnPackage DEF Moving
<1>4. \A q \in Pkg, v \in Ver : Vol(q, v) \notin S /\ Vol(q, v) \in Subvol
  BY DEF Tree, Vol, Subvol, Area
<1> HIDE DEF S
<1>5. /\ subvols' = subvols \ S
      /\ data' = [s \in Subvol |-> IF s \in S THEN {} ELSE data[s]]
      /\ purged' = purged \cup UNION {data[s] : s \in S}
  BY <1>2 DEF PurgePrefix
<1>6. \A q \in Pkg : Alone(q)
  BY <1>2, <1>4, <1>5 DEF Alone
<1>7. Settled(p)'
  BY <1>3, <1>5, <1>6, AloneSettled DEF TypeOK
<1> QED
  BY <1>1, <1>2, <1>3, <1>5, <1>6, <1>7, VolumesStep

(* A service writes to the one volume its package has. *)
LEMMA WriteVolumes ==
  ASSUME TypeOK, HandlerShape, Serialised, OneRecord, Volumes, split = {},
         NEW u \in Unit, Write(u)
  PROVE  Volumes'
<1>1. PICK p \in Pkg, n \in Ver : u = <<p, n>>
  BY DEF Unit
<1> DEFINE t == written + 1
<1>2. /\ Vol(p, n) \in subvols /\ data' = [data EXCEPT ![Vol(p, n)] = @ \cup {t}]
      /\ mine' = [mine EXCEPT ![p] = @ \cup {t}]
      /\ UNCHANGED <<subvols, purged, records, req, pc, active>>
  BY <1>1 DEF Write, Vol, meta, ctl
<1> HIDE DEF t
<1>3. Vol(p, n) \in Subvol /\ Vol(p, n) \in DOMAIN data /\ p \in DOMAIN mine
  BY <1>2 DEF TypeOK, DiskOK, GhostOK
<1>4. \A q \in Pkg \ {p} : Alone(q)
  BY <1>2, <1>3 DEF Alone, Vol, TypeOK, DiskOK, GhostOK
<1>5. Home(p, n) => Home(p, n)'
  BY <1>2, <1>3 DEF Home, Vol
<1>6. \A v : Only(p, v) => v = n /\ Only(p, v)'
  BY <1>2 DEF Only, Vol
<1>7. ASSUME Settled(p), Single(p) PROVE Settled(p)'
  <2>1. records[p] = {n}
    BY <1>2, <1>7 DEF Settled, Single
  <2> QED
    BY <1>2, <1>5, <1>7, <2>1 DEF Settled, Vol
<1>8. ASSUME NEW q \in Pkg
      PROVE  Settled(q)' \/ \E s \in Req : pc'[s] \in Moving /\ req'[s].pkg = q
  <2>1. CASE \E s \in Req : pc[s] \in Moving /\ req[s].pkg = q
    BY <1>2, <2>1
  <2>2. CASE ~\E s \in Req : pc[s] \in Moving /\ req[s].pkg = q
    <3>1. Settled(q) /\ Single(q)
      BY <2>2 DEF Volumes, OneRecord, Moving
    <3> QED
      BY <1>2, <1>4, <1>7, <3>1, AloneSettled DEF TypeOK
  <2> QED
    BY <2>1, <2>2
<1>9. ASSUME NEW s \in Req, NEW q \in Pkg, pc'[s] # "idle", req'[s].pkg = q
      PROVE  Keeps(s, q)'
  <2>1. Keeps(s, q) /\ pc'[s] = pc[s] /\ req'[s] = req[s] /\ active'[s] = active[s]
        /\ records'[q] = records[q]
    BY <1>2, <1>9 DEF Volumes
  <2>2. CASE q # p
    <3>1. pc[s] \in {"provision", "save", "drop"} => req[s].ver \in Ver
      BY DEF HandlerShape
    <3>2. /\ Settled(q) => Settled(q)'
          /\ \A v \in Ver : Only(q, v) => Only(q, v)'
          /\ \A v \in Ver : Home(q, v) => Home(q, v)'
      BY <1>2, <1>4, <2>2, AloneSettled DEF TypeOK
    <3> QED
      BY <2>1, <3>1, <3>2 DEF Keeps
  <2>3. CASE q = p
    <3>1. pc[s] = "purgeInstalled" => Single(p)
      BY <1>9, <2>1, <2>3, SingleWhenLocked
    <3> QED
      BY <1>5, <1>6, <1>7, <2>1, <2>3, <3>1 DEF Keeps
  <2> QED
    BY <2>2, <2>3
<1> QED
  BY <1>8, <1>9 DEF Volumes

(* Steps that touch neither the volumes nor the requests at work. *)
LEMMA SameVolumes ==
  ASSUME Volumes, UNCHANGED <<records, mine, disk, req, pc, active>>
  PROVE  Volumes'
BY DEF Volumes, Settled, Keeps, Only, Home, disk

(* Every step keeps the volumes and the data together. *)
LEMMA KeptStep ==
  ASSUME IInv, Faultless, DataHome, Calm, Kept, [Next]_vars
  PROVE  Kept'
<1> TypeOK /\ HandlerShape /\ Serialised /\ HandlerKnows
  BY DEF IInv
<1> SUFFICES ASSUME faults' = 0, crashes' = 0 PROVE Volumes'
  BY DEF Kept
<1>1. faults = 0 /\ ~Fault
  BY FaultsStay, FaultCounts
<1>2. ~Restarts
  BY DEF Restarts, Crash, SelfRestart, Reboot, Calm, TypeOK, CountersOK
<1>3. crashes = 0
  BY <1>1, <1>2, Counted DEF cnt
<1>4. Volumes'
  <2> Volumes /\ split = {} /\ OneRecord
    BY <1>1, <1>3 DEF Kept, Calm, Faultless
  <2>1. ASSUME NEW r \in Req, Dispatch(r) PROVE Volumes'
    <3>1. PICK p \in Pkg : req'[r].pkg = p
      BY <2>1, RequestType DEF Dispatch, TypeOK, RequestsOK
    <3>2. /\ pc[r] = "idle" /\ pc'[r] = "lock" /\ UNCHANGED <<records, mine, disk>>
          /\ \A s \in Req \ {r} : pc'[s] = pc[s] /\ req'[s] = req[s] /\ active'[s] = active[s]
      BY <2>1 DEF Dispatch, meta, ghost, TypeOK, RequestsOK
    <3>3. \A q \in Pkg : Settled(q)' = Settled(q)
      BY <3>2 DEF Settled, Home, disk
    <3>4. \A s \in Req, q \in Pkg : s # r => Keeps(s, q)' = Keeps(s, q)
      BY <3>2, <3>3 DEF Keeps, Only, Home, disk
    <3>5. \A q \in Pkg : Keeps(r, q)'
      BY <3>2 DEF Keeps
    <3>6. \A s \in Req : pc[s] \in Moving => pc'[s] \in Moving /\ req'[s] = req[s]
      BY <3>2 DEF Moving
    <3> QED
      BY <3>2, <3>3, <3>4, <3>5, <3>6 DEF Volumes
  <2>2. ASSUME NEW r \in Req, Disconnect(r) PROVE Volumes'
    BY <2>2, SameVolumes DEF Disconnect, meta, ghost
  <2>3. ASSUME NEW r \in Req, LockPackage(r) PROVE Volumes'
    BY <2>3, LockVolumes
  <2>4. ASSUME NEW r \in Req, ListUnits(r) \/ StopCurrent(r) \/ UninstallUnit(r) PROVE Volumes'
    <3>1. pc[r] \in {"list", "stop", "unlink"} /\ UNCHANGED <<records, mine, disk>>
      BY <2>4 DEF ListUnits, StopCurrent, UninstallUnit, meta, ghost
    <3>2. PICK step \in {"stop", "unlink", "migrate", "unrecord"} :
            pc' = [pc EXCEPT ![r] = step] /\ UNCHANGED <<req, active>>
      BY <2>4 DEF ListUnits, StopCurrent, UninstallUnit, AfterUnits, Goto
    <3> QED
      BY <3>1, <3>2, GotoVolumes DEF Moving
  <2>5. ASSUME NEW r \in Req, PrepareActiveVersion(r) PROVE Volumes'
    BY <1>1, <2>5, MigrateVolumes
  <2>6. ASSUME NEW r \in Req PROVE ~ReuseVolumes(r) /\ ~KeepVolumes(r) /\ ~Fail(r)
    BY <1>1 DEF ReuseVolumes, KeepVolumes, Fail, Calm, HandlerShape
  <2>7. ASSUME NEW r \in Req, ProvisionVolumes(r) PROVE Volumes'
    BY <2>7, ProvisionVolumesKept
  <2>8. ASSUME NEW r \in Req, SaveInstall(r) PROVE Volumes'
    BY <2>8, SaveVolumes
  <2>9. ASSUME NEW r \in Req, DropOldRecord(r) PROVE Volumes'
    BY <1>1, <2>9, DropVolumes
  <2>10. ASSUME NEW r \in Req, InstallUnits(r) \/ StartUnit(r) \/ HaltUnit(r) PROVE Volumes'
    BY <2>10, GotoVolumes DEF InstallUnits, StartUnit, HaltUnit, Goto, meta, ghost, Moving
  <2>11. ASSUME NEW r \in Req, SetDisabled(r) PROVE Volumes'
    <3>1. PICK s \in {"halt", "start"} : Goto(r, s) \/ Finish(r)
      BY <2>11 DEF SetDisabled
    <3> QED
      BY <2>11, <3>1, GotoVolumes DEF SetDisabled, Goto, ghost, Moving
  <2>12. ASSUME NEW r \in Req, RemoveInstall(r) PROVE Volumes'
    BY <2>12, UnrecordVolumes
  <2>13. ASSUME NEW r \in Req, PurgeInstalled(r) PROVE Volumes'
    BY <2>13, PurgeInstalledVolumes
  <2>14. ASSUME NEW r \in Req, PurgeUninstalled(r) PROVE Volumes'
    BY <2>14, PurgeUninstalledVolumes
  <2>15. ASSUME NEW u \in Unit, Write(u) PROVE Volumes'
    BY <2>15, WriteVolumes
  <2>16. ASSUME NEW u \in Unit, SetUnitStatus(u) PROVE Volumes'
    BY <2>16, SameVolumes DEF SetUnitStatus, meta, ghost, ctl
  <2>17. CASE Boot
    <3>1. \A u \in Unit : ~ReconcilePackage(u)
      BY <1>3 DEF ReconcilePackage, Calm
    <3> QED
      BY <2>17, <3>1, SameVolumes DEF Boot, StartPackage, RestartPackage, EndPhaseOne, EndPhaseTwo,
                                      EndReconcile, FreshnessFails, Serve, meta, ghost, ctl
  <2>18. CASE Refresh \/ SelfRestartFails \/ UNCHANGED vars
    BY <2>18, SameVolumes DEF Refresh, SelfRestartFails, vars, meta, ghost, ctl
  <2> QED
    BY <1>2, <2>1, <2>2, <2>3, <2>4, <2>5, <2>6, <2>7, <2>8, <2>9, <2>10, <2>11, <2>12, <2>13, <2>14, <2>15, <2>16, <2>17, <2>18 DEF Next, Handler, Restarts
<1> QED
  BY <1>4

(* DataHome in every reachable state. *)
LEMMA DataHomes == Spec => []DataHome
<1>1. Init => DataHome /\ NothingLost
  BY DEF Init, DataHome, NothingLost
<1>2. IInv /\ DataHome /\ NothingLost /\ [Next]_vars => (DataHome /\ NothingLost)'
  BY DataStep DEF IInv
<1> QED
  BY <1>1, <1>2, Inductive, PTL DEF Spec

(* controller_install_volumes.go:177-205: whenever no request works on an      *)
(* installed package, what it wrote since it was installed is in the volume of *)
(* the installed version, after any number of upgrades, downgrades, reinstalls *)
(* and purges by concurrent requests, if no call failed and nothing crashed.   *)
THEOREM UpgradesKeepData ==
  ASSUME NothingKept
  PROVE  Spec => []UpgradeKeepsData
<1>1. Init => Kept
  BY DEF Init, Kept, Volumes, Settled
<1>2. IInv /\ Faultless /\ DataHome /\ Calm /\ Kept /\ [Next]_vars => Kept'
  BY KeptStep
<1>3. IInv /\ Kept => UpgradeKeepsData
  <2> SUFFICES ASSUME IInv, Kept, NEW p \in Pkg,
                      faults = 0, crashes = 0, lock[p] = NoReq, records[p] # {}
               PROVE  mine[p] \ purged \subseteq data[<<"installed", p, GetInstalledVersion(p)>>]
    BY DEF UpgradeKeepsData
  <2>1. Settled(p)
    BY LifecycleAssumption DEF Kept, Volumes, IInv, Serialised, Moving
  <2>2. GetInstalledVersion(p) \in records[p]
    <3>1. records[p] \subseteq Nat
      BY LifecycleAssumption DEF IInv, TypeOK, MetaOK, Ver
    <3> QED
      BY <3>1, LeastIsMember DEF GetInstalledVersion
  <2> QED
    BY <2>1, <2>2 DEF Settled, Home, Vol
<1> QED
  BY <1>1, <1>2, <1>3, Inductive, FaultlessInv, DataHomes, CalmInv, PTL DEF Spec
=============================================================================
