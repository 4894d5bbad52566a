------------------------------- MODULE PivotZone -------------------------------
(***************************************************************************)
(* PivotZone: a root file system in compressed RAM that takes the place of *)
(* the real one, so that the disk can be closed and handed to a virtual    *)
(* machine, and gives it back. PivotZoneCoordinator (pivotzoneutils.py)    *)
(* builds, enters, leaves and destroys the zone; mypivotzone.py arms it    *)
(* with the programs it needs while it is the root.                        *)
(*                                                                         *)
(* Every mount command is a step, any of them may raise, and nothing rolls *)
(* back: an operation that raises leaves what it has done so far. All of   *)
(* the state is in RAM, so a reboot clears it.                             *)
(***************************************************************************)
EXTENDS Naturals, FiniteSets

CONSTANTS
    Pfs,           \* the pseudo file systems among _PFS, "run" with them
    Excluded,      \* services stopped while in the zone
    Restartable,   \* services stopped and started again in the zone
    Encrypted,     \* the root is on /dev/mapper
    RetryCount,    \* RETRY_COUNT, 50 in the code
    MaxBacking     \* bound on the mounts stacked by exit() calls that raise

Services == Excluded \cup Restartable

ASSUME PivotZoneAssumption ==
    /\ "run" \in Pfs
    /\ Encrypted \in BOOLEAN
    /\ RetryCount \in Nat \ {0} /\ MaxBacking \in Nat

VARIABLES
    \* the mount table
    root,       \* the file system at /: "disk" or "zone"
    place,      \* where the real root's pseudo file systems are mounted
    zonePfs,    \* pseudo file systems of its own mounted in the zone
    zrunAway,   \* the zone's /run is on _ZRUNHOLDERNAME
    backing,    \* mounts of the disk on the zone's _BACKINGROOT
    shared,     \* mounts of / propagate
    \* files and devices
    runDir,     \* _RUN_DIR and _ZONEROOT exist on the real /run
    zram,       \* the zone's RAM disk
    leaked,     \* a RAM disk was left configured without a zone
    record,     \* _RAMDEV and _ROOTDEV on the zone's /run
    holderDir,  \* _PFSHOLDER exists on the zone's /run
    holders,    \* its subdirectories
    crypt,      \* the disk's mapping is open
    files,      \* what arming has copied into the zone
    listed,     \* js_path lists it
    login,      \* the autologin files exist
    \* processes
    active,     \* services systemctl was last asked to run
    statuses,   \* *_service_statuses of the coordinator object
    job,        \* the running operation
    intact      \* nothing has raised since the last boot

mounts == <<root, place, zonePfs, zrunAway, backing, shared>>
device == <<runDir, zram, leaked, record>>
holding == <<holderDir, holders>>
armament == <<files, listed, login>>
service == <<active, statuses>>
vars == <<mounts, device, holding, crypt, armament, service, job, intact>>

(* "disk": at its own place in the real root; "top": at /run while the     *)
(* zone's /run is away; "holder": under _PFSHOLDER.                        *)
Place == {"disk", "holder", "top"}

NoJob == [op |-> "none", pc |-> "idle", view |-> "root", tries |-> 0,
          dev |-> FALSE]
NoStatuses == [set |-> FALSE, of |-> {}]

At(l) == job.pc = l
Goto(l) == job' = [job EXCEPT !.pc = l, !.tries = RetryCount]
Retry == job.tries > 1 /\ job' = [job EXCEPT !.tries = @ - 1]
Begin(op, l, view) ==
    /\ job = NoJob
    /\ job' = [NoJob EXCEPT !.op = op, !.pc = l, !.view = view,
                            !.tries = RetryCount]

(* is_in_zone() compares the device of the caller's / with _RAMDEV. It     *)
(* also holds for a process that exec() has put into the zone by chroot.   *)
IsInZone(view) == record /\ (root = "zone" \/ view = "chroot")

(* exec() needs a program in the zone.                                     *)
Views == {"root"} \cup (IF files = "none" THEN {} ELSE {"chroot"})

(* After pivot_root commands are looked up in the zone.                    *)
CommandsThere == root = "disk" \/ files # "none"

(* systemctl's socket has a fixed path below the real /run.                *)
RunReachable == place["run"] = IF root = "disk" THEN "disk" ELSE "top"

-----------------------------------------------------------------------------
(* build() *)

StartBuild ==
    /\ root = "disk" /\ ~runDir
    /\ Begin("build", "zram", "root")
    /\ runDir' = TRUE
    /\ UNCHANGED <<mounts, zram, leaked, record, holding, crypt, armament,
                   service, intact>>

(* zramctl is retried while the device is busy. *)
BuildZram ==
    /\ At("zram")
    /\ \/ Retry /\ UNCHANGED zram
       \/ zram' = "configured" /\ Goto("mkfs")
    /\ UNCHANGED <<mounts, runDir, leaked, record, holding, crypt, armament,
                   service, intact>>

BuildMount ==
    /\ At("mkfs")
    /\ zram' = "mounted"
    /\ Goto("zone_pfs")
    /\ UNCHANGED <<mounts, runDir, leaked, record, holding, crypt, armament,
                   service, intact>>

BuildPfs ==
    /\ At("zone_pfs")
    /\ \/ /\ \E i \in Pfs \ zonePfs : zonePfs' = zonePfs \cup {i}
          /\ UNCHANGED job
       \/ zonePfs = Pfs /\ Goto("record") /\ UNCHANGED zonePfs
    /\ UNCHANGED <<root, place, zrunAway, backing, shared, device, holding,
                   crypt, armament, service, intact>>

BuildRecord ==
    /\ At("record")
    /\ record' = TRUE
    /\ Goto("bind")
    /\ UNCHANGED <<mounts, runDir, zram, leaked, holding, crypt, armament,
                   service, intact>>

BuildBind ==
    /\ At("bind")
    /\ backing' = backing + 1
    /\ Goto("built")
    /\ UNCHANGED <<root, place, zonePfs, zrunAway, shared, device, holding,
                   crypt, armament, service, intact>>

-----------------------------------------------------------------------------
(* destroy(). In an entered zone it raises at zramctl --reset of the       *)
(* mounted device, before it has changed anything.                         *)

StartDestroy ==
    /\ root = "disk" /\ runDir
    /\ job = NoJob
    /\ job' = [NoJob EXCEPT !.op = "destroy", !.pc = "unbind", !.dev = record,
                            !.tries = RetryCount]
    /\ UNCHANGED <<mounts, device, holding, crypt, armament, service, intact>>

DestroyUnbind ==
    /\ At("unbind")
    /\ backing' = IF backing > 0 THEN backing - 1 ELSE 0
    /\ Goto("zone_pfs_off")
    /\ UNCHANGED <<root, place, zonePfs, zrunAway, shared, device, holding,
                   crypt, armament, service, intact>>

(* The zone's /run, which is busy while something is mounted on            *)
(* _BACKINGROOT, takes _RAMDEV, _ROOTDEV and _PFSHOLDER with it.           *)
DestroyPfs ==
    /\ At("zone_pfs_off")
    /\ \/ /\ \E i \in zonePfs :
               /\ zonePfs' = zonePfs \ {i}
               /\ i = "run" => backing = 0
               /\ record' = (record /\ i # "run")
               /\ holderDir' = (holderDir /\ i # "run")
               /\ holders' = IF i = "run" THEN {} ELSE holders
          /\ UNCHANGED job
       \/ /\ zonePfs = {} /\ Goto("zone_off")
          /\ UNCHANGED <<zonePfs, record, holding>>
    /\ UNCHANGED <<root, place, zrunAway, backing, shared, runDir, zram,
                   leaked, crypt, armament, service, intact>>

DestroyUmount ==
    /\ At("zone_off")
    /\ zram' = IF zram = "mounted" THEN "configured" ELSE zram
    /\ files' = "none" /\ listed' = FALSE /\ login' = FALSE
    /\ Goto("reset")
    /\ UNCHANGED <<mounts, runDir, leaked, record, holding, crypt, service,
                   intact>>

(* Mutant: _RAMDEV is read only when the device is needed. *)
DestroyResetLate ==
    /\ At("reset")
    /\ zram' = IF record THEN "free" ELSE zram
    /\ Goto("rmdir")
    /\ UNCHANGED <<mounts, runDir, leaked, record, holding, crypt, armament,
                   service, intact>>

(* Only a device that was found in _RAMDEV at the start is reset.          *)
DestroyReset ==
    /\ At("reset")
    /\ zram' = IF job.dev THEN "free" ELSE zram
    /\ Goto("rmdir")
    /\ UNCHANGED <<mounts, runDir, leaked, record, holding, crypt, armament,
                   service, intact>>

DestroyRmdir ==
    /\ At("rmdir")
    /\ runDir' = FALSE
    /\ leaked' = (leaked \/ zram # "free")
    /\ zram' = "free"      \* the next zone gets another device
    /\ Goto("destroyed")
    /\ UNCHANGED <<mounts, record, holding, crypt, armament, service, intact>>

-----------------------------------------------------------------------------
(* enter() *)

(* _PFSHOLDER serves as the mark of an entered zone.                       *)
StartEnter(view) ==
    /\ record /\ ~holderDir
    /\ Begin("enter", "stop", view)
    /\ holderDir' = TRUE
    /\ UNCHANGED <<mounts, device, holders, crypt, armament, service, intact>>

(* The services that run are remembered and stopped.                       *)
EnterStopServices ==
    /\ At("stop")
    /\ statuses' = IF Services = {} THEN statuses
                   ELSE [set |-> TRUE, of |-> active \cap Services]
    /\ active' = active \ Services
    /\ Goto("unbind_root")
    /\ UNCHANGED <<mounts, device, holding, crypt, armament, intact>>

(* Mutant: the bind mount is taken to be there. *)
EnterUnbindUnchecked ==
    /\ At("unbind_root")
    /\ backing' = backing - 1
    /\ Goto("private")
    /\ UNCHANGED <<root, place, zonePfs, zrunAway, shared, device, holding,
                   crypt, armament, service, intact>>

EnterUnbind ==
    /\ At("unbind_root")
    /\ backing' = IF backing > 0 THEN backing - 1 ELSE 0
    /\ Goto("private")
    /\ UNCHANGED <<root, place, zonePfs, zrunAway, shared, device, holding,
                   crypt, armament, service, intact>>

EnterMakePrivate ==
    /\ At("private")
    /\ shared' = FALSE
    /\ Goto("pivot")
    /\ UNCHANGED <<root, place, zonePfs, zrunAway, backing, device, holding,
                   crypt, armament, service, intact>>

(* The old root is now on _BACKINGROOT; processes from it are killed.      *)
EnterPivot ==
    /\ At("pivot")
    /\ root = "disk"
    /\ root' = "zone"
    /\ backing' = backing + 1
    /\ Goto("hold")
    /\ UNCHANGED <<place, zonePfs, zrunAway, shared, device, holding, crypt,
                   armament, service, intact>>

(* All but /run are moved to their holders. The wait for the service       *)
(* manager that follows goes on whether or not it is reached.              *)
EnterHold ==
    /\ At("hold") /\ CommandsThere
    /\ \/ /\ \E i \in Pfs \ holders :
               /\ holders' = holders \cup {i}
               /\ place' = [place EXCEPT ![i] =
                               IF i = "run" THEN @ ELSE "holder"]
          /\ UNCHANGED job
       \/ holders = Pfs /\ Goto("zrun_away") /\ UNCHANGED <<holders, place>>
    /\ UNCHANGED <<root, zonePfs, zrunAway, backing, shared, device, holderDir,
                   crypt, armament, service, intact>>

(* The two /run change places; the return code of the first move is not    *)
(* looked at.                                                              *)
EnterZrunAway ==
    /\ At("zrun_away")
    /\ zrunAway' \in BOOLEAN
    /\ Goto("run_top")
    /\ UNCHANGED <<root, place, zonePfs, backing, shared, device, holding,
                   crypt, armament, service, intact>>

(* Mutant: the real /run stays where it is. *)
EnterRunStays == At("run_top") /\ Goto("reexec")
    /\ UNCHANGED <<mounts, device, holding, crypt, armament, service, intact>>

EnterRunTop ==
    /\ At("run_top")
    /\ zrunAway
    /\ place' = [place EXCEPT !["run"] = "top"]
    /\ Goto("reexec")
    /\ UNCHANGED <<root, zonePfs, zrunAway, backing, shared, device, holding,
                   crypt, armament, service, intact>>

EnterReexec ==
    /\ At("reexec")
    /\ active' = active \cup (statuses.of \cap Restartable)
    /\ Goto("run_back")
    /\ UNCHANGED <<mounts, device, holding, crypt, armament, statuses, intact>>

EnterRunBack ==
    /\ At("run_back")
    /\ place' = [place EXCEPT !["run"] = "holder"]
    /\ Goto("zrun_back")
    /\ UNCHANGED <<root, zonePfs, zrunAway, backing, shared, device, holding,
                   crypt, armament, service, intact>>

EnterZrunBack ==
    /\ At("zrun_back")
    /\ zrunAway' = FALSE
    /\ Goto("umount_root")
    /\ UNCHANGED <<root, place, zonePfs, backing, shared, device, holding,
                   crypt, armament, service, intact>>

(* Mutant: an attempt that failed is not counted. *)
EnterUmountForever ==
    /\ At("umount_root")
    /\ \/ job' = [job EXCEPT !.tries = IF @ = 1 THEN RetryCount ELSE @ - 1]
          /\ UNCHANGED backing
       \/ backing' = backing - 1 /\ Goto("close")
    /\ UNCHANGED <<root, place, zonePfs, zrunAway, shared, device, holding,
                   crypt, armament, service, intact>>

(* Mutant: running out of attempts goes unnoticed.                         *)
EnterUmountUnchecked ==
    /\ At("umount_root")
    /\ \/ Retry /\ UNCHANGED backing
       \/ job.tries = 1 /\ Goto("close") /\ UNCHANGED backing
       \/ backing' = backing - 1 /\ Goto("close")
    /\ UNCHANGED <<root, place, zonePfs, zrunAway, shared, device, holding,
                   crypt, armament, service, intact>>

(* umount of the old root is retried while something still uses it.        *)
EnterUmount ==
    /\ At("umount_root")
    /\ \/ Retry /\ UNCHANGED backing
       \/ backing' = backing - 1 /\ Goto("close")
    /\ UNCHANGED <<root, place, zonePfs, zrunAway, shared, device, holding,
                   crypt, armament, service, intact>>

(* cryptsetup close is retried while the mapping is busy, and only a busy  *)
(* one is an error: when cryptsetup is not in the zone, or fails with      *)
(* another message, enter() goes on with the mapping open.                 *)
EnterClose ==
    /\ At("close")
    /\ \/ Encrypted /\ Retry /\ UNCHANGED crypt
       \/ Encrypted /\ backing = 0 /\ crypt' = FALSE /\ Goto("entered")
       \/ Goto("entered") /\ UNCHANGED crypt
    /\ UNCHANGED <<mounts, device, holding, armament, service, intact>>

-----------------------------------------------------------------------------
(* exit() *)

(* The statuses are known only to the process that entered.                *)
StartExit(view, sameProcess) ==
    /\ IsInZone(view)
    /\ Begin("exit", "mount_root", view)
    /\ statuses' = IF sameProcess THEN statuses ELSE NoStatuses
    /\ UNCHANGED <<mounts, device, holding, crypt, armament, active, intact>>

ExitMountRoot ==
    /\ At("mount_root") /\ CommandsThere
    /\ Encrypted => crypt
    /\ backing < MaxBacking
    /\ backing' = backing + 1
    /\ Goto("private_again")
    /\ UNCHANGED <<root, place, zonePfs, zrunAway, shared, device, holding,
                   crypt, armament, service, intact>>

ExitMakePrivate ==
    /\ At("private_again")
    /\ shared' = FALSE
    /\ Goto("unhold")
    /\ UNCHANGED <<root, place, zonePfs, zrunAway, backing, device, holding,
                   crypt, armament, service, intact>>

(* Every holder is moved to the real root that is now on _BACKINGROOT.     *)
ExitUnhold ==
    /\ At("unhold") /\ holderDir
    /\ \/ /\ \E i \in holders :
               /\ place[i] = "holder"
               /\ holders' = holders \ {i}
               /\ place' = [place EXCEPT ![i] = "disk"]
          /\ UNCHANGED job
       \/ holders = {} /\ Goto("pivot_back") /\ UNCHANGED <<holders, place>>
    /\ UNCHANGED <<root, zonePfs, zrunAway, backing, shared, device, holderDir,
                   crypt, armament, service, intact>>

ExitPivot ==
    /\ At("pivot_back")
    /\ root = "zone"
    /\ root' = "disk"
    /\ backing' = backing - 1
    /\ Goto("share")
    /\ UNCHANGED <<place, zonePfs, zrunAway, shared, device, holding, crypt,
                   armament, service, intact>>

ExitMakeShared ==
    /\ At("share")
    /\ shared' = TRUE
    /\ Goto("reexec_back")
    /\ UNCHANGED <<root, place, zonePfs, zrunAway, backing, device, holding,
                   crypt, armament, service, intact>>

(* Mutant: only the restartable services are started again. *)
ExitRestartRestartable ==
    /\ At("reexec_back")
    /\ statuses.set
    /\ active' = active \cup (statuses.of \cap Restartable)
    /\ Goto("rebind")
    /\ UNCHANGED <<mounts, device, holding, crypt, armament, statuses, intact>>

(* Reads system_service_statuses: an AttributeError without it. Every      *)
(* service that ran before enter() is started again.                       *)
ExitRestartServices ==
    /\ At("reexec_back")
    /\ statuses.set
    /\ active' = active \cup statuses.of
    /\ Goto("rebind")
    /\ UNCHANGED <<mounts, device, holding, crypt, armament, statuses, intact>>

ExitBind ==
    /\ At("rebind")
    /\ backing' = backing + 1
    /\ Goto("drop_holder")
    /\ UNCHANGED <<root, place, zonePfs, zrunAway, shared, device, holding,
                   crypt, armament, service, intact>>

ExitDropHolder ==
    /\ At("drop_holder")
    /\ holders = {}
    /\ holderDir' = FALSE
    /\ Goto("exited")
    /\ UNCHANGED <<mounts, device, holders, crypt, armament, service, intact>>

-----------------------------------------------------------------------------
(* mypivotzone.py: _arm_common(), disarm() and the cryptsetup open of      *)
(* boot_flow().                                                            *)

StartArm ==
    /\ root = "disk" /\ record /\ zram = "mounted"
    /\ ~listed
    /\ Begin("arm", "copy", "root")
    /\ UNCHANGED <<mounts, device, holding, crypt, armament, service, intact>>

(* copy_into_zone() refuses to overwrite what is there.                    *)
ArmCopy ==
    /\ At("copy")
    /\ files = "none"
    /\ files' = "some"
    /\ Goto("copied")
    /\ UNCHANGED <<mounts, device, holding, crypt, listed, login, service,
                   intact>>

ArmCopied ==
    /\ At("copied")
    /\ files' = "all"
    /\ Goto("list")
    /\ UNCHANGED <<mounts, device, holding, crypt, listed, login, service,
                   intact>>

ArmList ==
    /\ At("list")
    /\ listed' = TRUE
    /\ Goto("login")
    /\ UNCHANGED <<mounts, device, holding, crypt, files, login, service,
                   intact>>

ArmLogin ==
    /\ At("login")
    /\ login' = TRUE
    /\ Goto("armed")
    /\ UNCHANGED <<mounts, device, holding, crypt, files, listed, service,
                   intact>>

(* The paths in js_path start with _ZONEROOT: from inside the zone none of *)
(* them exists, and only js_path itself is removed.                        *)
StartDisarm(view) ==
    /\ record /\ listed
    /\ Begin("disarm", IF IsInZone(view) THEN "unlist" ELSE "remove", view)
    /\ UNCHANGED <<mounts, device, holding, crypt, armament, service, intact>>

DisarmRemove ==
    /\ At("remove")
    /\ files' = "some"
    /\ Goto("removed")
    /\ UNCHANGED <<mounts, device, holding, crypt, listed, login, service,
                   intact>>

DisarmRemoved ==
    /\ At("removed")
    /\ files' = "none" /\ login' = FALSE
    /\ Goto("unlist")
    /\ UNCHANGED <<mounts, device, holding, crypt, listed, service, intact>>

DisarmUnlist ==
    /\ At("unlist")
    /\ listed' = FALSE
    /\ Goto("disarmed")
    /\ UNCHANGED <<mounts, device, holding, crypt, files, login, service,
                   intact>>

(* cryptsetup open of the root drive, between the virtual machine and      *)
(* exit(), with the key file among the armed files.                        *)
OpenRootDrive ==
    /\ job = NoJob /\ root = "zone" /\ CommandsThere
    /\ Encrypted /\ ~crypt
    /\ crypt' = TRUE
    /\ UNCHANGED <<mounts, device, holding, armament, service, job, intact>>

-----------------------------------------------------------------------------

LastPc == {"built", "destroyed", "entered", "exited", "armed", "disarmed"}

Finish ==
    /\ job.pc \in LastPc
    /\ job' = NoJob
    /\ UNCHANGED <<mounts, device, holding, crypt, armament, service, intact>>

(* A command that failed or ran out of attempts, an assertion, a missing   *)
(* file: an exception that nothing handles.                                *)
Raise ==
    /\ job # NoJob /\ job.pc \notin LastPc
    /\ job' = NoJob
    /\ intact' = FALSE
    /\ UNCHANGED <<mounts, device, holding, crypt, armament, service>>

OnDisk == [i \in Pfs |-> "disk"]

Init ==
    /\ root = "disk" /\ place = OnDisk /\ zonePfs = {}
    /\ zrunAway = FALSE /\ backing = 0 /\ shared = TRUE
    /\ runDir = FALSE /\ zram = "free" /\ leaked = FALSE /\ record = FALSE
    /\ holderDir = FALSE /\ holders = {} /\ crypt = Encrypted
    /\ files = "none" /\ listed = FALSE /\ login = FALSE
    /\ active \in SUBSET Services /\ statuses = NoStatuses
    /\ job = NoJob /\ intact = TRUE

Reboot ==
    /\ root' = "disk" /\ place' = OnDisk /\ zonePfs' = {}
    /\ zrunAway' = FALSE /\ backing' = 0 /\ shared' = TRUE
    /\ runDir' = FALSE /\ zram' = "free" /\ leaked' = FALSE /\ record' = FALSE
    /\ holderDir' = FALSE /\ holders' = {} /\ crypt' = Encrypted
    /\ files' = "none" /\ listed' = FALSE /\ login' = FALSE
    /\ active' \in SUBSET Services /\ statuses' = NoStatuses
    /\ job' = NoJob /\ intact' = TRUE

ZoneStep ==
    \/ BuildZram \/ BuildMount \/ BuildPfs \/ BuildRecord \/ BuildBind
    \/ DestroyUnbind \/ DestroyPfs \/ DestroyUmount \/ DestroyReset
    \/ DestroyRmdir

EnterStep ==
    \/ EnterStopServices \/ EnterUnbind \/ EnterMakePrivate \/ EnterPivot
    \/ EnterHold \/ EnterZrunAway \/ EnterRunTop \/ EnterReexec
    \/ EnterRunBack \/ EnterZrunBack \/ EnterUmount \/ EnterClose

ExitStep ==
    \/ ExitMountRoot \/ ExitMakePrivate \/ ExitUnhold \/ ExitPivot
    \/ ExitMakeShared \/ ExitRestartServices \/ ExitBind \/ ExitDropHolder

ArmStep ==
    \/ ArmCopy \/ ArmCopied \/ ArmList \/ ArmLogin
    \/ DisarmRemove \/ DisarmRemoved \/ DisarmUnlist

Operation == ZoneStep \/ EnterStep \/ ExitStep \/ ArmStep \/ Finish \/ Raise

User ==
    \/ StartBuild \/ StartDestroy \/ StartArm \/ OpenRootDrive
    \/ \E view \in Views :
          \/ StartEnter(view) \/ StartDisarm(view)
          \/ \E sameProcess \in BOOLEAN : StartExit(view, sameProcess)

Next == Operation \/ User \/ Reboot

(* The process that runs an operation is scheduled, and ends with an       *)
(* exception where it cannot go on.                                        *)
Spec == Init /\ [][Next]_vars /\ WF_vars(Operation)

-----------------------------------------------------------------------------
(* Properties *)

(* Mounts, files and the RAM disk stay in their types: no mount is taken   *)
(* off _BACKINGROOT that was never there.                                  *)
ZoneTypeOK ==
    /\ root \in {"disk", "zone"} /\ place \in [Pfs -> Place]
    /\ zonePfs \subseteq Pfs /\ holders \subseteq Pfs
    /\ backing \in Nat
    /\ zram \in {"free", "configured", "mounted"}
    /\ files \in {"none", "some", "all"}
    /\ active \subseteq Services /\ statuses.of \subseteq Services
    /\ job.tries \in 0 .. RetryCount

(* enter() that has come to its end has let go of the disk: no attempt to  *)
(* unmount it that failed passes for one that did not, it is mounted       *)
(* nowhere, and the pseudo file systems that were mounted on it are kept   *)
(* for exit(). Its mapping may still be open (EnterClose).                 *)
EnteredUnmountsDisk ==
    intact /\ job.pc = "entered"
    => /\ root = "zone" /\ backing = 0
       /\ \A i \in Pfs : place[i] = "holder"
       /\ holders = Pfs /\ ~zrunAway

(* exit() that has come to its end has undone enter(): the mounts are back *)
(* at their places and propagate, the services that ran are running, and   *)
(* the zone can be entered again or destroyed.                             *)
ExitUndoesEnter ==
    intact /\ job.pc = "exited"
    => /\ root = "disk" /\ shared /\ ~zrunAway
       /\ \A i \in Pfs : place[i] = "disk"
       /\ statuses.of \subseteq active
       /\ backing = 1 /\ ~holderDir

(* While enter() and exit() speak to the init system, its sockets are      *)
(* below /run (pivotzoneutils.py:539).                                     *)
InitReachable ==
    job.pc \in {"reexec", "reexec_back"} => RunReachable

(* A RAM disk stays behind without a zone only after an operation that     *)
(* raised: destroy() notes the device before it unmounts the note.         *)
RamReleased == intact => ~leaked

(* enter() ends: both of its loops give up after RETRY_COUNT attempts.     *)
EnterEnds == job.op = "enter" ~> job.op # "enter"

=============================================================================
