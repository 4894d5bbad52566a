---------------------------- MODULE PivotZoneProofs ----------------------------
(***************************************************************************)
(* Proofs about the zone (PivotZone) and boot_flow() (BootFlow).           *)
(*                                                                         *)
(* Two invariants carry them. MountInv holds always, also after any number *)
(* of operations that raised: it says which of the two roots each step     *)
(* runs on and where the pseudo file systems can be. IntactInv says what   *)
(* is known of the mounts, the RAM disk and the mapping at every step as   *)
(* long as no operation has raised. FlowInv ties the operations to         *)
(* boot_flow().                                                            *)
(***************************************************************************)
EXTENDS BootFlow, TLAPS

(* The steps of each operation, those of enter() and exit() before and     *)
(* after pivot_root.                                                       *)
BuildPc == {"zram", "mkfs", "zone_pfs", "record", "bind", "built"}
DestroyPc == {"unbind", "zone_pfs_off", "zone_off", "reset", "rmdir",
              "destroyed"}
LeavingPc == {"stop", "unbind_root", "private", "pivot"}
InsidePc == {"hold", "zrun_away", "run_top", "reexec", "run_back", "zrun_back",
             "umount_root", "close", "entered"}
ReturnPc == {"mount_root", "private_again", "unhold", "pivot_back"}
BackPc == {"share", "reexec_back", "rebind", "drop_holder", "exited"}
ArmPc == {"copy", "copied", "list", "login", "armed"}
DisarmPc == {"remove", "removed", "unlist", "disarmed"}

Op == {"none", "build", "destroy", "enter", "exit", "arm", "disarm"}
Pc == {"idle"} \cup BuildPc \cup DestroyPc \cup LeavingPc \cup InsidePc
      \cup ReturnPc \cup BackPc \cup ArmPc \cup DisarmPc
Job == [op : Op, pc : Pc, view : {"root", "chroot"}, tries : 0 .. RetryCount,
        dev : BOOLEAN]

-----------------------------------------------------------------------------
(* The operations with exec() from anywhere: boot_flow() calls enter()     *)
(* from the zone without looking whether its program is there.             *)
Call ==
    \/ StartBuild \/ StartDestroy \/ StartArm \/ OpenRootDrive
    \/ \E view \in {"root", "chroot"} :
          \/ StartEnter(view) \/ StartDisarm(view)
          \/ \E sameProcess \in BOOLEAN : StartExit(view, sameProcess)

(* boot_flow() raises between two operations.                              *)
Interrupt ==
    /\ job = NoJob /\ intact' = FALSE
    /\ UNCHANGED <<mounts, device, holding, crypt, armament, service, job>>

ZoneNext == Operation \/ Call \/ Interrupt \/ Reboot

-----------------------------------------------------------------------------
(* A job is at a step of its operation. *)
JobInv ==
    /\ job \in Job
    /\ job.op = "none" <=> job = NoJob
    /\ job.op = "none" <=> job.pc = "idle"
    /\ job.op = "build" <=> job.pc \in BuildPc
    /\ job.op = "destroy" <=> job.pc \in DestroyPc
    /\ job.op = "enter" <=> job.pc \in LeavingPc \cup InsidePc
    /\ job.op = "exit" <=> job.pc \in ReturnPc \cup BackPc
    /\ job.op = "arm" <=> job.pc \in ArmPc
    /\ job.op = "disarm" <=> job.pc \in DisarmPc

(* Which root a step runs on. *)
RootInv ==
    /\ root \in {"disk", "zone"}
    /\ job.pc \in BuildPc \cup DestroyPc \cup BackPc \cup ArmPc => root = "disk"
    /\ job.pc \in InsidePc => root = "zone"

(* Where the pseudo file systems of the real root are: a file system       *)
(* without a holder has not been moved, and there are holders only in an   *)
(* entered zone.                                                           *)
PlaceInv ==
    /\ place \in [Pfs -> Place]
    /\ holders \subseteq Pfs
    /\ root = "disk" => holders = {}
    /\ \A i \in Pfs \ holders : place[i] = "disk"
    /\ job.pc \in InsidePc \ {"hold"} => holders = Pfs
    /\ job.pc = "reexec" => place["run"] = "top"
    /\ job.pc = "pivot_back" => holders = {}

(* The disk is on _BACKINGROOT when it is taken off. *)
BackingInv ==
    /\ backing \in Nat
    /\ job.pc \in InsidePc \ {"close", "entered"} => backing > 0
    /\ job.pc \in ReturnPc \ {"mount_root"} => backing > 0

(* The zone's own file systems, and the note that is on one of them. *)
ZoneInv ==
    /\ zonePfs \subseteq Pfs
    /\ zram \in {"free", "configured", "mounted"}
    /\ files \in {"none", "some", "all"}
    /\ record => "run" \in zonePfs
    /\ job.pc = "record" => zonePfs = Pfs
    /\ job.pc \in {"zone_off", "reset", "rmdir", "destroyed"} => zonePfs = {}
    /\ job.op = "exit" => record

(* The services that are remembered. *)
ServiceInv ==
    /\ active \subseteq Services
    /\ statuses.of \subseteq Services
    /\ statuses = [set |-> statuses.set, of |-> statuses.of]
    /\ job.pc \in {"rebind", "drop_holder", "exited"} => statuses.of \subseteq active

MountInv == RootInv /\ PlaceInv /\ BackingInv /\ ZoneInv /\ ServiceInv

-----------------------------------------------------------------------------
(* The two states a zone rests in: left or not built, and entered.         *)
AtHome ==
    /\ ~holderDir /\ shared /\ ~zrunAway /\ (Encrypted => crypt)
    /\ runDir <=> record
    /\ backing = IF record THEN 1 ELSE 0

Away ==
    /\ holderDir /\ ~zrunAway /\ record /\ runDir
    /\ holders = Pfs /\ \A i \in Pfs : place[i] = "holder"

Resting == {"idle", "built", "destroyed", "entered", "exited", "mount_root"}
           \cup ArmPc \cup DisarmPc

RestInv ==
    job.pc \in Resting
    => /\ root = "disk" => AtHome
       /\ root = "zone" => Away /\ backing = 0

BuildInv ==
    /\ job.pc \in BuildPc \ {"built"}
       => /\ ~holderDir /\ shared /\ ~zrunAway /\ (Encrypted => crypt)
          /\ runDir /\ backing = 0
    /\ job.pc = "bind" => record
    /\ job.pc \in DestroyPc \ {"destroyed"}
       => ~holderDir /\ shared /\ ~zrunAway /\ (Encrypted => crypt)
    /\ job.pc = "unbind" => backing <= 1
    /\ job.pc \in DestroyPc \ {"unbind"} => backing = 0
    /\ job.pc \in DestroyPc \ {"rmdir", "destroyed"} => job.dev
    /\ job.pc = "rmdir" => zram = "free"

EnterInv ==
    /\ job.op = "enter" => holderDir /\ record /\ runDir
    /\ job.pc \in LeavingPc => root = "disk"
    /\ job.pc \in LeavingPc \cup {"hold", "zrun_away", "umount_root", "close"}
       => ~zrunAway
    /\ job.pc \in {"stop", "unbind_root"} => backing = 1
    /\ job.pc \in {"private", "pivot"} => backing = 0
    /\ job.pc \in InsidePc \ {"close", "entered"} => backing = 1
    /\ job.pc \in {"close", "entered"} => backing = 0
    /\ job.pc \in InsidePc => \A i \in holders \ {"run"} : place[i] = "holder"
    /\ job.pc \in {"zrun_back", "umount_root", "close", "entered"}
       => place["run"] = "holder"

ExitInv ==
    /\ job.op = "exit" => runDir /\ ~zrunAway
    /\ job.pc \in ReturnPc => (holderDir <=> root = "zone")
    /\ job.pc = "pivot_back" => root = "zone"
    /\ job.pc \in ReturnPc \ {"mount_root"} /\ root = "zone" => backing = 1
    /\ job.pc \in (ReturnPc \ {"mount_root"}) \cup BackPc => (Encrypted => crypt)
    /\ job.pc \in {"share", "reexec_back", "rebind"} => backing = 0
    /\ job.pc \in {"drop_holder", "exited"} => backing = 1
    /\ job.pc \in BackPc \ {"share"} => shared

ArmInv ==
    /\ files = "some" => job.pc \in {"copied", "removed"}

IntactInv ==
    intact => /\ ~leaked
              /\ RestInv /\ BuildInv /\ EnterInv /\ ExitInv /\ ArmInv

-----------------------------------------------------------------------------
(* Jobs *)

USE DEF At

(* Going on to another step of the same operation.                         *)
LEMMA GotoShape ==
  ASSUME JobInv, NEW l \in Pc, Goto(l)
  PROVE  /\ job' \in Job
         /\ job'.pc = l /\ job'.op = job.op /\ job'.dev = job.dev
  <1>1. RetryCount \in 0 .. RetryCount
    BY PivotZoneAssumption
  <1> QED BY <1>1 DEF JobInv, Goto, Job

(* Another attempt.                                                        *)
LEMMA RetryShape ==
  ASSUME JobInv, Retry
  PROVE  /\ job' \in Job
         /\ job'.pc = job.pc /\ job'.op = job.op /\ job'.dev = job.dev
  BY PivotZoneAssumption DEF JobInv, Retry, Job

(* The end of an operation, and the state between operations.              *)
LEMMA NoJobShape ==
  /\ NoJob \in Job
  /\ NoJob.pc = "idle" /\ NoJob.op = "none"
  BY PivotZoneAssumption DEF NoJob, Job, Pc, Op

(* The first step of an operation.                                         *)
LEMMA BeginShape ==
  ASSUME NEW op \in Op, NEW l \in Pc, NEW view \in {"root", "chroot"},
         Begin(op, l, view)
  PROVE  /\ job' \in Job /\ job = NoJob /\ job.pc = "idle"
         /\ job'.pc = l /\ job'.op = op
  <1>1. RetryCount \in 0 .. RetryCount
    BY PivotZoneAssumption
  <1>2. job' = [op |-> op, pc |-> l, view |-> view, tries |-> RetryCount,
                dev |-> FALSE]
    BY DEF Begin, NoJob
  <1> QED BY <1>1, <1>2, NoJobShape DEF Begin, Job

(* How each operation of the user starts.                                  *)
LEMMA CallShape ==
  /\ StartBuild => job.pc = "idle" /\ job'.pc = "zram" /\ job'.op = "build"
  /\ StartArm => job.pc = "idle" /\ job'.pc = "copy" /\ job'.op = "arm"
  /\ \A view \in {"root", "chroot"} :
        /\ StartEnter(view) => job.pc = "idle" /\ job'.pc = "stop" /\ job'.op = "enter"
        /\ StartDisarm(view) =>
              job.pc = "idle" /\ job'.pc \in {"unlist", "remove"} /\ job'.op = "disarm"
        /\ \A sameProcess \in BOOLEAN :
              StartExit(view, sameProcess) =>
                 /\ job.pc = "idle" /\ job'.pc = "mount_root" /\ job'.op = "exit"
                 /\ record
  <1>1. /\ "zram" \in Pc /\ "stop" \in Pc /\ "unlist" \in Pc /\ "remove" \in Pc
        /\ "mount_root" \in Pc /\ "copy" \in Pc
    BY DEF Pc, BuildPc, LeavingPc, DisarmPc, ReturnPc, ArmPc
  <1>2. "build" \in Op /\ "arm" \in Op /\ "enter" \in Op /\ "disarm" \in Op /\ "exit" \in Op
    BY DEF Op
  <1>3. StartBuild => job.pc = "idle" /\ job'.pc = "zram" /\ job'.op = "build"
    BY <1>1, <1>2, BeginShape DEF StartBuild
  <1>4. StartArm => job.pc = "idle" /\ job'.pc = "copy" /\ job'.op = "arm"
    BY <1>1, <1>2, BeginShape DEF StartArm
  <1>5. ASSUME NEW view \in {"root", "chroot"}, StartEnter(view)
        PROVE  job.pc = "idle" /\ job'.pc = "stop" /\ job'.op = "enter"
    BY <1>1, <1>2, <1>5, BeginShape DEF StartEnter
  <1>6. ASSUME NEW view \in {"root", "chroot"}, StartDisarm(view)
        PROVE  job.pc = "idle" /\ job'.pc \in {"unlist", "remove"} /\ job'.op = "disarm"
    <2>1. PICK l \in {"unlist", "remove"} : Begin("disarm", l, view)
      BY <1>6 DEF StartDisarm
    <2> QED BY <1>1, <1>2, <2>1, BeginShape
  <1>7. ASSUME NEW view \in {"root", "chroot"}, NEW sameProcess \in BOOLEAN,
               StartExit(view, sameProcess)
        PROVE  job.pc = "idle" /\ job'.pc = "mount_root" /\ job'.op = "exit" /\ record
    BY <1>1, <1>2, <1>7, BeginShape DEF StartExit, IsInZone
  <1> QED BY <1>3, <1>4, <1>5, <1>6, <1>7

(* The steps of an operation stay in it.                                   *)
LEMMA SameOperation ==
  ASSUME JobInv, job' \in Job, job'.op = job.op,
         NEW S \in {BuildPc, DestroyPc, LeavingPc \cup InsidePc,
                    ReturnPc \cup BackPc, ArmPc, DisarmPc},
         job.pc \in S, job'.pc \in S
  PROVE  JobInv'
  BY NoJobShape DEF JobInv, BuildPc, DestroyPc, LeavingPc, InsidePc, ReturnPc,
     BackPc, ArmPc, DisarmPc

(* Whether there is a note is a matter of yes or no.                       *)
LEMMA RecordNext ==
  ASSUME record \in BOOLEAN, [ZoneNext]_vars
  PROVE  record' \in BOOLEAN
  <1>1. CASE BuildRecord \/ Reboot
    BY <1>1 DEF BuildRecord, Reboot
  <1>2. CASE DestroyPfs
    <2>1. CASE record' = record
      BY <2>1
    <2>2. ASSUME NEW i \in zonePfs, record' = (record /\ i # "run")
          PROVE  record' \in BOOLEAN
      BY <2>2
    <2> QED BY <1>2, <2>1, <2>2 DEF DestroyPfs
  <1>3. CASE UNCHANGED record
    BY <1>3
  <1>4. ZoneStep => BuildRecord \/ DestroyPfs \/ UNCHANGED record
    BY DEF ZoneStep, BuildZram, BuildMount, BuildPfs, BuildBind, DestroyUnbind,
           DestroyUmount, DestroyReset, DestroyRmdir, device
  <1>5. EnterStep \/ ExitStep \/ ArmStep => UNCHANGED record
    BY DEF EnterStep, EnterStopServices, EnterUnbind, EnterMakePrivate,
           EnterPivot, EnterHold, EnterZrunAway, EnterRunTop, EnterReexec,
           EnterRunBack, EnterZrunBack, EnterUmount, EnterClose, ExitStep,
           ExitMountRoot, ExitMakePrivate, ExitUnhold, ExitPivot,
           ExitMakeShared, ExitRestartServices, ExitBind, ExitDropHolder,
           ArmStep, ArmCopy, ArmCopied, ArmList, ArmLogin, DisarmRemove,
           DisarmRemoved, DisarmUnlist, device
  <1>6. Call \/ Interrupt \/ Finish \/ Raise \/ UNCHANGED vars
        => UNCHANGED record
    BY DEF Call, Interrupt, StartBuild, StartDestroy, StartArm, OpenRootDrive, StartEnter,
           StartDisarm, StartExit, Finish, Raise, vars, device
  <1> QED BY <1>1, <1>2, <1>3, <1>4, <1>5, <1>6 DEF ZoneNext, Operation

(* A step of a job is a step of its operation, or its beginning or end.    *)
LEMMA JobNext ==
  ASSUME JobInv, record \in BOOLEAN, [ZoneNext]_vars
  PROVE  JobInv'
  <1> USE DEF BuildPc, DestroyPc, LeavingPc, InsidePc, ReturnPc, BackPc, ArmPc,
              DisarmPc
  <1>0. ASSUME job' = job PROVE JobInv'
    BY <1>0 DEF JobInv
  <1>1. ASSUME job' = NoJob PROVE JobInv'
    BY <1>1, NoJobShape DEF JobInv
  <1>2. ASSUME NEW S \in {BuildPc, DestroyPc, LeavingPc \cup InsidePc,
                          ReturnPc \cup BackPc, ArmPc, DisarmPc},
               job.pc \in S, NEW l \in S, Goto(l)
        PROVE  JobInv'
    <2>1. l \in Pc
      BY <1>2 DEF Pc
    <2> QED BY <1>2, <2>1, GotoShape, SameOperation
  <1>3. ASSUME NEW S \in {BuildPc, DestroyPc, LeavingPc \cup InsidePc,
                          ReturnPc \cup BackPc, ArmPc, DisarmPc},
               job.pc \in S, Retry
        PROVE  JobInv'
    BY <1>3, RetryShape, SameOperation
  <1>4. ASSUME NEW op \in Op, NEW l \in Pc, NEW view \in {"root", "chroot"},
               Begin(op, l, view),
               \/ op = "build" /\ l = "zram"
               \/ op = "enter" /\ l = "stop"
               \/ op = "exit" /\ l = "mount_root"
               \/ op = "arm" /\ l = "copy"
               \/ op = "disarm" /\ l \in {"remove", "unlist"}
        PROVE  JobInv'
    <2>1. job' \in Job /\ job'.pc = l /\ job'.op = op
      BY <1>4, BeginShape
    <2> QED BY <1>4, <2>1, NoJobShape DEF JobInv
  <1>5. CASE ZoneStep
    BY <1>5, <1>0, <1>2, <1>3
       DEF ZoneStep, BuildZram, BuildMount, BuildPfs, BuildRecord, BuildBind,
           DestroyUnbind, DestroyPfs, DestroyUmount, DestroyReset, DestroyRmdir
  <1>6. CASE EnterStep
    BY <1>6, <1>0, <1>2, <1>3
       DEF EnterStep, EnterStopServices, EnterUnbind, EnterMakePrivate,
           EnterPivot, EnterHold, EnterZrunAway, EnterRunTop, EnterReexec,
           EnterRunBack, EnterZrunBack, EnterUmount, EnterClose
  <1>7. CASE ExitStep
    BY <1>7, <1>0, <1>2, <1>3
       DEF ExitStep, ExitMountRoot, ExitMakePrivate, ExitUnhold, ExitPivot,
           ExitMakeShared, ExitRestartServices, ExitBind, ExitDropHolder
  <1>8. CASE ArmStep
    BY <1>8, <1>0, <1>2, <1>3
       DEF ArmStep, ArmCopy, ArmCopied, ArmList, ArmLogin, DisarmRemove,
           DisarmRemoved, DisarmUnlist
  <1>9. CASE Finish \/ Raise \/ Interrupt \/ Reboot \/ UNCHANGED vars
    BY <1>9, <1>0, <1>1 DEF Finish, Raise, Interrupt, Reboot, vars
  <1>10. CASE Call
    <2>1. CASE StartBuild \/ StartArm
      BY <1>4, <2>1 DEF StartBuild, StartArm, Op, Pc
    <2>2. CASE StartDestroy
      <3>1. RetryCount \in 0 .. RetryCount
        BY PivotZoneAssumption
      <3>2. job' = [op |-> "destroy", pc |-> "unbind", view |-> "root",
                    tries |-> RetryCount, dev |-> record]
        BY <2>2 DEF StartDestroy, NoJob
      <3> QED BY <3>1, <3>2, NoJobShape DEF JobInv, Job, Op, Pc
    <2>3. CASE OpenRootDrive
      BY <1>0, <2>3 DEF OpenRootDrive
    <2>4. ASSUME NEW view \in {"root", "chroot"},
                 \/ StartEnter(view) \/ StartDisarm(view)
                 \/ \E sameProcess \in BOOLEAN : StartExit(view, sameProcess)
          PROVE  JobInv'
      <3>1. CASE StartEnter(view)
        BY <1>4, <3>1 DEF StartEnter, Op, Pc
      <3>2. CASE StartDisarm(view)
        BY <1>4, <3>2 DEF StartDisarm, Op, Pc
      <3>3. ASSUME NEW sameProcess \in BOOLEAN, StartExit(view, sameProcess)
            PROVE  JobInv'
        BY <1>4, <3>3 DEF StartExit, Op, Pc
      <3> QED BY <2>4, <3>1, <3>2, <3>3
    <2> QED BY <1>10, <2>1, <2>2, <2>3, <2>4 DEF Call
  <1> QED BY <1>5, <1>6, <1>7, <1>8, <1>9, <1>10 DEF ZoneNext, Operation

(* What each step does to the job: it goes on from one step to the next,   *)
(* or stays where it is.                                                   *)
Same == job'.op = job.op /\ job'.dev = job.dev
Move(k, l) == job.pc = k /\ job'.pc = l /\ Same
Stay(k) == job.pc = k /\ job'.pc = k /\ Same

(* The steps of build() and destroy().                                     *)
LEMMA ZoneMoves ==
  ASSUME JobInv
  PROVE  /\ BuildZram => Move("zram", "mkfs") \/ Stay("zram")
         /\ BuildMount => Move("mkfs", "zone_pfs")
         /\ BuildPfs => Move("zone_pfs", "record") \/ Stay("zone_pfs")
         /\ BuildRecord => Move("record", "bind")
         /\ BuildBind => Move("bind", "built")
         /\ DestroyUnbind => Move("unbind", "zone_pfs_off")
         /\ DestroyPfs => Move("zone_pfs_off", "zone_off") \/ Stay("zone_pfs_off")
         /\ DestroyUmount => Move("zone_off", "reset")
         /\ DestroyReset => Move("reset", "rmdir")
         /\ DestroyRmdir => Move("rmdir", "destroyed")
  BY GotoShape, RetryShape
     DEF Pc, BuildPc, DestroyPc, LeavingPc, InsidePc, ReturnPc, BackPc,
         ArmPc, DisarmPc, Same, Move, Stay, BuildZram, BuildMount, BuildPfs,
         BuildRecord, BuildBind, DestroyUnbind, DestroyPfs, DestroyUmount,
         DestroyReset, DestroyRmdir

(* The steps of enter(): two of them are tried again.                      *)
LEMMA EnterMoves ==
  ASSUME JobInv
  PROVE  /\ EnterStopServices => Move("stop", "unbind_root")
         /\ EnterUnbind => Move("unbind_root", "private")
         /\ EnterMakePrivate => Move("private", "pivot")
         /\ EnterPivot => Move("pivot", "hold")
         /\ EnterHold => Move("hold", "zrun_away") \/ Stay("hold")
         /\ EnterZrunAway => Move("zrun_away", "run_top")
         /\ EnterRunTop => Move("run_top", "reexec")
         /\ EnterReexec => Move("reexec", "run_back")
         /\ EnterRunBack => Move("run_back", "zrun_back")
         /\ EnterZrunBack => Move("zrun_back", "umount_root")
         /\ EnterUmount => Move("umount_root", "close") \/ Stay("umount_root")
         /\ EnterClose => Move("close", "entered") \/ Stay("close")
  BY GotoShape, RetryShape
     DEF Pc, BuildPc, DestroyPc, LeavingPc, InsidePc, ReturnPc, BackPc,
         ArmPc, DisarmPc, Same, Move, Stay, EnterStopServices, EnterUnbind,
         EnterMakePrivate, EnterPivot, EnterHold, EnterZrunAway,
         EnterRunTop, EnterReexec, EnterRunBack, EnterZrunBack, EnterUmount,
         EnterClose

(* The steps of exit().                                                    *)
LEMMA ExitMoves ==
  ASSUME JobInv
  PROVE  /\ ExitMountRoot => Move("mount_root", "private_again")
         /\ ExitMakePrivate => Move("private_again", "unhold")
         /\ ExitUnhold => Move("unhold", "pivot_back") \/ Stay("unhold")
         /\ ExitPivot => Move("pivot_back", "share")
         /\ ExitMakeShared => Move("share", "reexec_back")
         /\ ExitRestartServices => Move("reexec_back", "rebind")
         /\ ExitBind => Move("rebind", "drop_holder")
         /\ ExitDropHolder => Move("drop_holder", "exited")
  BY GotoShape, RetryShape
     DEF Pc, BuildPc, DestroyPc, LeavingPc, InsidePc, ReturnPc, BackPc,
         ArmPc, DisarmPc, Same, Move, Stay, ExitMountRoot, ExitMakePrivate,
         ExitUnhold, ExitPivot, ExitMakeShared, ExitRestartServices,
         ExitBind, ExitDropHolder

(* The steps of arming and disarming.                                      *)
LEMMA ArmMoves ==
  ASSUME JobInv
  PROVE  /\ ArmCopy => Move("copy", "copied")
         /\ ArmCopied => Move("copied", "list")
         /\ ArmList => Move("list", "login")
         /\ ArmLogin => Move("login", "armed")
         /\ DisarmRemove => Move("remove", "removed")
         /\ DisarmRemoved => Move("removed", "unlist")
         /\ DisarmUnlist => Move("unlist", "disarmed")
  BY GotoShape, RetryShape
     DEF Pc, BuildPc, DestroyPc, LeavingPc, InsidePc, ReturnPc, BackPc,
         ArmPc, DisarmPc, Same, Move, Stay, ArmCopy, ArmCopied, ArmList,
         ArmLogin, DisarmRemove, DisarmRemoved, DisarmUnlist

-----------------------------------------------------------------------------
(* MountInv *)

USE DEF mounts, device, holding, armament, service

(* A machine that has just booted has no zone.                             *)
LEMMA MountInit == Init => MountInv
  BY PivotZoneAssumption, NoJobShape
     DEF Init, MountInv, RootInv, PlaceInv, BackingInv, ZoneInv, ServiceInv,
         OnDisk, Place, NoStatuses, BuildPc, DestroyPc, LeavingPc, InsidePc,
         ReturnPc, BackPc, ArmPc

(* Every command leaves the mounts where the next one, or the next         *)
(* operation after an exception, expects them.                             *)
LEMMA MountNext ==
  ASSUME JobInv, JobInv', MountInv, [ZoneNext]_vars
  PROVE  MountInv'
  <1> USE PivotZoneAssumption
      DEF MountInv, RootInv, PlaceInv, BackingInv, ZoneInv, ServiceInv, Place,
          BuildPc, DestroyPc, LeavingPc, InsidePc, ReturnPc, BackPc, ArmPc,
          DisarmPc, Same, Move, Stay
  <1>1. CASE ZoneStep
    <2>1. CASE BuildZram
      BY <2>1, ZoneMoves DEF BuildZram, JobInv
    <2>2. CASE BuildMount
      BY <2>2, ZoneMoves DEF BuildMount, JobInv
    <2>3. CASE BuildPfs
      BY <2>3, ZoneMoves DEF BuildPfs, JobInv
    <2>4. CASE BuildRecord
      BY <2>4, ZoneMoves DEF BuildRecord, JobInv
    <2>5. CASE BuildBind
      BY <2>5, ZoneMoves DEF BuildBind, JobInv
    <2>6. CASE DestroyUnbind
      BY <2>6, ZoneMoves DEF DestroyUnbind, JobInv
    <2>7. CASE DestroyPfs
      <3>1. root = "disk" /\ UNCHANGED <<root, place, backing, zram, files,
                                         active, statuses>>
        BY <2>7 DEF DestroyPfs, JobInv
      <3>2. ASSUME NEW i \in zonePfs, zonePfs' = zonePfs \ {i},
                   record' = (record /\ i # "run"),
                   holders' = IF i = "run" THEN {} ELSE holders, UNCHANGED job
            PROVE  MountInv'
        <4>1. record' => record /\ i # "run"
          BY <3>2
        <4>2. /\ holders' = {} /\ holders = {} /\ zonePfs' = zonePfs \ {i}
              /\ job' = job /\ job.pc = "zone_pfs_off" /\ job.op = "destroy"
          BY <2>7, <3>1, <3>2 DEF DestroyPfs, JobInv
        <4> QED BY <3>1, <4>1, <4>2
      <3>3. CASE zonePfs = {} /\ Goto("zone_off") /\ UNCHANGED <<zonePfs, record, holding>>
        BY <2>7, <3>1, <3>3, GotoShape DEF DestroyPfs, JobInv, Pc
      <3> QED BY <2>7, <3>2, <3>3 DEF DestroyPfs
    <2>8. CASE DestroyUmount
      BY <2>8, ZoneMoves DEF DestroyUmount, JobInv
    <2>9. CASE DestroyReset
      BY <2>9, ZoneMoves DEF DestroyReset, JobInv
    <2>10. CASE DestroyRmdir
      BY <2>10, ZoneMoves DEF DestroyRmdir, JobInv
    <2> QED BY <1>1, <2>1, <2>2, <2>3, <2>4, <2>5, <2>6, <2>7, <2>8, <2>9, <2>10
            DEF ZoneStep
  <1>2. CASE EnterStep
    <2>1. CASE EnterStopServices
      BY ZenonT(60), <2>1, EnterMoves DEF EnterStopServices, JobInv
    <2>2. CASE EnterUnbind
      BY <2>2, EnterMoves DEF EnterUnbind, JobInv
    <2>3. CASE EnterMakePrivate
      BY ZenonT(60), <2>3, EnterMoves DEF EnterMakePrivate, JobInv
    <2>4. CASE EnterPivot
      BY <2>4, EnterMoves DEF EnterPivot, JobInv
    <2>5. CASE EnterHold
      BY <2>5, EnterMoves DEF EnterHold, JobInv
    <2>6. CASE EnterZrunAway
      BY <2>6, EnterMoves DEF EnterZrunAway, JobInv
    <2>7. CASE EnterRunTop
      BY <2>7, EnterMoves DEF EnterRunTop, JobInv
    <2>8. CASE EnterReexec
      BY <2>8, EnterMoves DEF EnterReexec, JobInv
    <2>9. CASE EnterRunBack
      BY <2>9, EnterMoves DEF EnterRunBack, JobInv
    <2>10. CASE EnterZrunBack
      BY ZenonT(60), <2>10, EnterMoves DEF EnterZrunBack, JobInv
    <2>11. CASE EnterUmount
      <3>1. CASE Retry /\ UNCHANGED backing
        BY <2>11, <3>1, RetryShape DEF EnterUmount, JobInv
      <3>2. CASE backing' = backing - 1 /\ Goto("close")
        BY <2>11, <3>2, GotoShape DEF EnterUmount, JobInv, Pc
      <3> QED BY <2>11, <3>1, <3>2 DEF EnterUmount
    <2>12. CASE EnterClose
      BY ZenonT(60), <2>12, EnterMoves DEF EnterClose, JobInv
    <2> QED BY <1>2, <2>1, <2>2, <2>3, <2>4, <2>5, <2>6, <2>7, <2>8, <2>9, <2>10,
        <2>11, <2>12
            DEF EnterStep
  <1>3. CASE ExitStep
    <2>1. CASE ExitMountRoot
      BY <2>1, ExitMoves DEF ExitMountRoot, JobInv
    <2>2. CASE ExitMakePrivate
      BY <2>2, ExitMoves DEF ExitMakePrivate, JobInv
    <2>3. CASE ExitUnhold
      BY <2>3, ExitMoves DEF ExitUnhold, JobInv
    <2>4. CASE ExitPivot
      BY <2>4, ExitMoves DEF ExitPivot, JobInv
    <2>5. CASE ExitMakeShared
      BY <2>5, ExitMoves DEF ExitMakeShared, JobInv
    <2>6. CASE ExitRestartServices
      BY <2>6, ExitMoves DEF ExitRestartServices, JobInv
    <2>7. CASE ExitBind
      BY <2>7, ExitMoves DEF ExitBind, JobInv
    <2>8. CASE ExitDropHolder
      BY <2>8, ExitMoves DEF ExitDropHolder, JobInv
    <2> QED BY <1>3, <2>1, <2>2, <2>3, <2>4, <2>5, <2>6, <2>7, <2>8
            DEF ExitStep
  <1>4. CASE ArmStep
    <2>1. CASE ArmCopy
      BY <2>1, ArmMoves DEF ArmCopy, JobInv
    <2>2. CASE ArmCopied
      BY <2>2, ArmMoves DEF ArmCopied, JobInv
    <2>3. CASE ArmList
      BY <2>3, ArmMoves DEF ArmList, JobInv
    <2>4. CASE ArmLogin
      BY <2>4, ArmMoves DEF ArmLogin, JobInv
    <2>5. CASE DisarmRemove
      BY <2>5, ArmMoves DEF DisarmRemove, JobInv
    <2>6. CASE DisarmRemoved
      BY <2>6, ArmMoves DEF DisarmRemoved, JobInv
    <2>7. CASE DisarmUnlist
      BY ZenonT(60), <2>7, ArmMoves DEF DisarmUnlist, JobInv
    <2> QED BY <1>4, <2>1, <2>2, <2>3, <2>4, <2>5, <2>6, <2>7
            DEF ArmStep
  <1>5. CASE Finish \/ Raise \/ Interrupt
    BY <1>5, NoJobShape DEF Finish, Raise, Interrupt
  <1>6. CASE Reboot
    BY <1>6, NoJobShape DEF Reboot, OnDisk, NoStatuses
  <1>7. CASE Call
    <2>1. CASE StartBuild \/ StartArm
      <3>1. /\ job.pc = "idle"
            /\ \/ job'.pc = "zram" /\ job'.op = "build"
               \/ job'.pc = "copy" /\ job'.op = "arm"
        BY <2>1, CallShape
      <3> QED BY <2>1, <3>1 DEF StartBuild, StartArm
    <2>2. CASE StartDestroy
      <3>1. job'.pc = "unbind" /\ job'.op = "destroy"
        BY <2>2 DEF StartDestroy, NoJob
      <3> QED BY <2>2, <3>1 DEF StartDestroy
    <2>3. CASE OpenRootDrive
      BY <2>3 DEF OpenRootDrive
    <2>4. ASSUME NEW view \in {"root", "chroot"}, StartEnter(view)
          PROVE  MountInv'
      <3>1. job.pc = "idle" /\ job'.pc = "stop" /\ job'.op = "enter"
        BY <2>4, CallShape
      <3> QED BY <2>4, <3>1 DEF StartEnter
    <2>5. ASSUME NEW view \in {"root", "chroot"}, StartDisarm(view)
          PROVE  MountInv'
      <3>1. job.pc = "idle" /\ job'.pc \in {"unlist", "remove"} /\ job'.op = "disarm"
        BY <2>5, CallShape
      <3> QED BY <2>5, <3>1 DEF StartDisarm
    <2>6. ASSUME NEW view \in {"root", "chroot"}, NEW sameProcess \in BOOLEAN,
                 StartExit(view, sameProcess)
          PROVE  MountInv'
      <3>1. job'.pc = "mount_root" /\ job'.op = "exit" /\ record
        BY <2>6, CallShape
      <3>2. statuses' = statuses \/ statuses' = NoStatuses
        BY <2>6 DEF StartExit
      <3>3. ServiceInv'
        BY <2>6, <3>1, <3>2 DEF StartExit, NoStatuses
      <3> QED BY <2>6, <3>1, <3>3 DEF StartExit
    <2> QED BY <1>7, <2>1, <2>2, <2>3, <2>4, <2>5, <2>6 DEF Call
  <1>8. CASE UNCHANGED vars
    BY <1>8 DEF vars
  <1> QED BY <1>1, <1>2, <1>3, <1>4, <1>5, <1>6, <1>7, <1>8
          DEF ZoneNext, Operation

-----------------------------------------------------------------------------
(* IntactInv *)

(* Nothing has raised yet.                                                 *)
LEMMA IntactInit == Init => IntactInv
  BY PivotZoneAssumption, NoJobShape
     DEF Init, IntactInv, RestInv, BuildInv, EnterInv, ExitInv, ArmInv, AtHome,
         Away, Resting, BuildPc, DestroyPc, LeavingPc, InsidePc, ReturnPc,
         BackPc, ArmPc, DisarmPc

(* As long as nothing raises, every command finds what the one before has  *)
(* left.                                                                   *)
LEMMA IntactNext ==
  ASSUME JobInv, JobInv', MountInv, IntactInv, [ZoneNext]_vars
  PROVE  IntactInv'
  <1> USE PivotZoneAssumption
      DEF MountInv, RootInv, PlaceInv, BackingInv, ZoneInv, IntactInv, RestInv,
          BuildInv, EnterInv, ExitInv, ArmInv, AtHome, Away, Resting, BuildPc,
          DestroyPc, LeavingPc, InsidePc, ReturnPc, BackPc, ArmPc, DisarmPc,
          Same, Move, Stay
  <1>1. CASE ZoneStep
    <2>1. CASE BuildZram
      BY <2>1, ZoneMoves DEF BuildZram, JobInv
    <2>2. CASE BuildMount
      BY <2>2, ZoneMoves DEF BuildMount, JobInv
    <2>3. CASE BuildPfs
      BY <2>3, ZoneMoves DEF BuildPfs, JobInv
    <2>4. CASE BuildRecord
      BY <2>4, ZoneMoves DEF BuildRecord, JobInv
    <2>5. CASE BuildBind
      BY <2>5, ZoneMoves DEF BuildBind, JobInv
    <2>6. CASE DestroyUnbind
      BY <2>6, ZoneMoves DEF DestroyUnbind, JobInv
    <2>7. CASE DestroyPfs
      BY <2>7, ZoneMoves DEF DestroyPfs, JobInv
    <2>8. CASE DestroyUmount
      BY <2>8, ZoneMoves DEF DestroyUmount, JobInv
    <2>9. CASE DestroyReset
      BY <2>9, ZoneMoves DEF DestroyReset, JobInv
    <2>10. CASE DestroyRmdir
      BY <2>10, ZoneMoves DEF DestroyRmdir, JobInv
    <2> QED BY <1>1, <2>1, <2>2, <2>3, <2>4, <2>5, <2>6, <2>7, <2>8, <2>9, <2>10
            DEF ZoneStep
  <1>2. CASE EnterStep
    <2>1. CASE EnterStopServices
      BY <2>1, EnterMoves DEF EnterStopServices, JobInv
    <2>2. CASE EnterUnbind
      BY <2>2, EnterMoves DEF EnterUnbind, JobInv
    <2>3. CASE EnterMakePrivate
      BY <2>3, EnterMoves DEF EnterMakePrivate, JobInv
    <2>4. CASE EnterPivot
      BY <2>4, EnterMoves DEF EnterPivot, JobInv
    <2>5. CASE EnterHold
      BY <2>5, EnterMoves DEF EnterHold, JobInv
    <2>6. CASE EnterZrunAway
      BY <2>6, EnterMoves DEF EnterZrunAway, JobInv
    <2>7. CASE EnterRunTop
      BY <2>7, EnterMoves DEF EnterRunTop, JobInv
    <2>8. CASE EnterReexec
      BY <2>8, EnterMoves DEF EnterReexec, JobInv
    <2>9. CASE EnterRunBack
      BY <2>9, EnterMoves DEF EnterRunBack, JobInv
    <2>10. CASE EnterZrunBack
      BY <2>10, EnterMoves DEF EnterZrunBack, JobInv
    <2>11. CASE EnterUmount
      <3>1. CASE Retry /\ UNCHANGED backing
        BY <2>11, <3>1, RetryShape DEF EnterUmount, JobInv
      <3>2. CASE backing' = backing - 1 /\ Goto("close")
        BY <2>11, <3>2, GotoShape DEF EnterUmount, JobInv, Pc
      <3> QED BY <2>11, <3>1, <3>2 DEF EnterUmount
    <2>12. CASE EnterClose
      <3>1. CASE Retry /\ UNCHANGED crypt
        BY <2>12, <3>1, RetryShape DEF EnterClose, JobInv
      <3>2. CASE crypt' = FALSE /\ Goto("entered")
        BY <2>12, <3>2, GotoShape DEF EnterClose, JobInv, Pc
      <3>3. CASE Goto("entered") /\ UNCHANGED crypt
        BY <2>12, <3>3, GotoShape DEF EnterClose, JobInv, Pc
      <3> QED BY <2>12, <3>1, <3>2, <3>3 DEF EnterClose
    <2> QED BY <1>2, <2>1, <2>2, <2>3, <2>4, <2>5, <2>6, <2>7, <2>8, <2>9, <2>10,
        <2>11, <2>12
            DEF EnterStep
  <1>3. CASE ExitStep
    <2>1. CASE ExitMountRoot
      BY <2>1, ExitMoves DEF ExitMountRoot, JobInv
    <2>2. CASE ExitMakePrivate
      BY <2>2, ExitMoves DEF ExitMakePrivate, JobInv
    <2>3. CASE ExitUnhold
      BY <2>3, ExitMoves DEF ExitUnhold, JobInv
    <2>4. CASE ExitPivot
      BY <2>4, ExitMoves DEF ExitPivot, JobInv
    <2>5. CASE ExitMakeShared
      BY <2>5, ExitMoves DEF ExitMakeShared, JobInv
    <2>6. CASE ExitRestartServices
      BY <2>6, ExitMoves DEF ExitRestartServices, JobInv
    <2>7. CASE ExitBind
      BY <2>7, ExitMoves DEF ExitBind, JobInv
    <2>8. CASE ExitDropHolder
      BY <2>8, ExitMoves DEF ExitDropHolder, JobInv
    <2> QED BY <1>3, <2>1, <2>2, <2>3, <2>4, <2>5, <2>6, <2>7, <2>8
            DEF ExitStep
  <1>4. CASE ArmStep
    <2>1. CASE ArmCopy
      BY <2>1, ArmMoves DEF ArmCopy, JobInv
    <2>2. CASE ArmCopied
      BY <2>2, ArmMoves DEF ArmCopied, JobInv
    <2>3. CASE ArmList
      BY <2>3, ArmMoves DEF ArmList, JobInv
    <2>4. CASE ArmLogin
      BY <2>4, ArmMoves DEF ArmLogin, JobInv
    <2>5. CASE DisarmRemove
      BY <2>5, ArmMoves DEF DisarmRemove, JobInv
    <2>6. CASE DisarmRemoved
      BY <2>6, ArmMoves DEF DisarmRemoved, JobInv
    <2>7. CASE DisarmUnlist
      BY <2>7, ArmMoves DEF DisarmUnlist, JobInv
    <2> QED BY <1>4, <2>1, <2>2, <2>3, <2>4, <2>5, <2>6, <2>7
            DEF ArmStep
  <1>5. CASE Finish
    BY <1>5, NoJobShape DEF Finish, LastPc, JobInv
  <1>6. CASE Raise \/ Interrupt \/ Reboot
    BY <1>6, NoJobShape DEF Raise, Interrupt, Reboot
  <1>7. CASE Call
    <2>1. CASE StartBuild
      <3>1. job.pc = "idle" /\ job'.pc = "zram" /\ job'.op = "build"
        BY <2>1, CallShape
      <3> QED BY <2>1, <3>1 DEF StartBuild
    <2>2. CASE StartArm
      <3>1. job.pc = "idle" /\ job'.pc = "copy" /\ job'.op = "arm"
        BY <2>2, CallShape
      <3> QED BY <2>2, <3>1 DEF StartArm
    <2>3. CASE StartDestroy
      <3>1. job.pc = "idle" /\ job'.pc = "unbind" /\ job'.dev = record
            /\ job'.op = "destroy"
        BY <2>3, NoJobShape DEF StartDestroy, NoJob
      <3> QED BY <2>3, <3>1 DEF StartDestroy
    <2>4. CASE OpenRootDrive
      BY <2>4, NoJobShape DEF OpenRootDrive
    <2>5. ASSUME NEW view \in {"root", "chroot"}, StartEnter(view)
          PROVE  IntactInv'
      <3>1. job.pc = "idle" /\ job'.pc = "stop" /\ job'.op = "enter"
        BY <2>5, CallShape
      <3> QED BY <2>5, <3>1 DEF StartEnter
    <2>6. ASSUME NEW view \in {"root", "chroot"}, StartDisarm(view)
          PROVE  IntactInv'
      <3>1. job.pc = "idle" /\ job'.pc \in {"unlist", "remove"} /\ job'.op = "disarm"
        BY <2>6, CallShape
      <3> QED BY <2>6, <3>1 DEF StartDisarm
    <2>7. ASSUME NEW view \in {"root", "chroot"}, NEW sameProcess \in BOOLEAN,
                 StartExit(view, sameProcess)
          PROVE  IntactInv'
      <3>1. job.pc = "idle" /\ job'.pc = "mount_root" /\ job'.op = "exit" /\ record
        BY <2>7, CallShape
      <3> QED BY <2>7, <3>1 DEF StartExit
    <2> QED BY <1>7, <2>1, <2>2, <2>3, <2>4, <2>5, <2>6, <2>7 DEF Call
  <1>8. CASE UNCHANGED vars
    BY <1>8 DEF vars
  <1> QED BY <1>1, <1>2, <1>3, <1>4, <1>5, <1>6, <1>7, <1>8
          DEF ZoneNext, Operation

-----------------------------------------------------------------------------
(* The invariants hold whoever calls the coordinator. *)

(* The three invariants hold of all behaviours of the operations.          *)
LEMMA ZoneInvariant ==
  Init /\ [][ZoneNext]_vars => [](JobInv /\ MountInv /\ IntactInv)
  <1>1. Init => record \in BOOLEAN
    BY DEF Init
  <1>2. Init => JobInv
    BY NoJobShape DEF Init, JobInv, BuildPc, DestroyPc, LeavingPc, InsidePc,
       ReturnPc, BackPc, ArmPc, DisarmPc
  <1>3. record \in BOOLEAN /\ [ZoneNext]_vars => (record \in BOOLEAN)'
    BY RecordNext
  <1>4. JobInv /\ record \in BOOLEAN /\ [ZoneNext]_vars => JobInv'
    BY JobNext
  <1>5. JobInv /\ JobInv' /\ MountInv /\ [ZoneNext]_vars => MountInv'
    BY MountNext
  <1>6. JobInv /\ JobInv' /\ MountInv /\ IntactInv /\ [ZoneNext]_vars
        => IntactInv'
    BY IntactNext
  <1> QED BY <1>1, <1>2, <1>3, <1>4, <1>5, <1>6, MountInit, IntactInit, PTL

(* The user's calls are calls.                                             *)
LEMMA UserCalls == [Next]_vars => [ZoneNext]_vars
  BY DEF Next, User, Views, Call, ZoneNext

(* So are those of boot_flow(), which otherwise leaves the zone alone.     *)
LEMMA FlowCalls == [FlowNext]_allVars => [ZoneNext]_vars
  <1>1. FlowStep => Call \/ Interrupt \/ UNCHANGED vars
    BY DEF FlowStep, FlowArm, FlowUnmountEfi, FlowExec, FlowStopDisplay, FlowEnter,
       FlowOpenRootDrive, FlowExit, FlowBindSddm, FlowStartDisplay, FlowDisarm,
       FlowUnbindSddm, FlowDone, FlowRaise, Command, Call, Interrupt
  <1>2. FlowOperation \/ UserLeavesTmux \/ FlowReboot => [ZoneNext]_vars
    BY DEF FlowOperation, UserLeavesTmux, FlowReboot, Command, ZoneNext
  <1>3. User \/ CommandLine => Call
    BY DEF User, CommandLine, Views, Call
  <1> QED BY <1>1, <1>2, <1>3 DEF FlowNext, ZoneNext, allVars

(* The invariants of the coordinator, called by anybody.                   *)
LEMMA SpecInvariant == Spec => [](JobInv /\ MountInv /\ IntactInv)
  BY UserCalls, ZoneInvariant, PTL DEF Spec

(* The invariants of the coordinator with boot_flow() among its callers.   *)
LEMMA FlowSpecInvariant == FlowSpec => [](JobInv /\ MountInv /\ IntactInv)
  BY FlowCalls, ZoneInvariant, PTL DEF FlowSpec, FlowInit

-----------------------------------------------------------------------------
(* The theorems hold for the coordinator called by anybody (Spec) and with *)
(* boot_flow() among its callers (FlowSpec).                               *)

(* The state of the zone keeps its types, however many operations raise:   *)
(* enter() and exit() take the disk off _BACKINGROOT only where it is.     *)
THEOREM ZoneTyped == (Spec => []ZoneTypeOK) /\ (FlowSpec => []ZoneTypeOK)
  <1>1. JobInv /\ MountInv => ZoneTypeOK
    BY DEF JobInv, Job, MountInv, RootInv, PlaceInv, BackingInv, ZoneInv,
       ServiceInv, ZoneTypeOK
  <1> QED BY <1>1, SpecInvariant, FlowSpecInvariant, PTL

(* enter() that ends without an exception has the disk unmounted: no       *)
(* attempt that failed passes for one that did not. The mapping may still  *)
(* be open.                                                                *)
THEOREM DiskIsUnmounted ==
  (Spec => []EnteredUnmountsDisk) /\ (FlowSpec => []EnteredUnmountsDisk)
  <1>1. JobInv /\ MountInv /\ IntactInv => EnteredUnmountsDisk
    BY DEF JobInv, MountInv, RootInv, PlaceInv, IntactInv, RestInv, EnterInv,
       Away, Resting, InsidePc, LeavingPc, EnteredUnmountsDisk
  <1> QED BY <1>1, SpecInvariant, FlowSpecInvariant, PTL

(* exit() that ends without an exception has undone enter().               *)
THEOREM ExitUndoes ==
  (Spec => []ExitUndoesEnter) /\ (FlowSpec => []ExitUndoesEnter)
  <1>1. JobInv /\ MountInv /\ IntactInv => ExitUndoesEnter
    BY DEF JobInv, MountInv, RootInv, PlaceInv, ZoneInv, ServiceInv, IntactInv,
       RestInv, ExitInv, AtHome, Resting, ReturnPc, BackPc, ExitUndoesEnter
  <1> QED BY <1>1, SpecInvariant, FlowSpecInvariant, PTL

(* The sockets of the init system are below /run whenever enter() and      *)
(* exit() speak to it, also after operations that raised.                  *)
THEOREM InitIsReachable ==
  (Spec => []InitReachable) /\ (FlowSpec => []InitReachable)
  <1>1. JobInv /\ MountInv => InitReachable
    BY PivotZoneAssumption
       DEF JobInv, MountInv, RootInv, PlaceInv, BackPc, InsidePc, RunReachable,
           InitReachable
  <1> QED BY <1>1, SpecInvariant, FlowSpecInvariant, PTL

(* No RAM disk is left behind by operations that end as they should.       *)
THEOREM RamIsReleased == (Spec => []RamReleased) /\ (FlowSpec => []RamReleased)
  <1>1. IntactInv => RamReleased
    BY DEF IntactInv, RamReleased
  <1> QED BY <1>1, SpecInvariant, FlowSpecInvariant, PTL

-----------------------------------------------------------------------------
(* boot_flow() *)

(* While boot_flow() is under way, a running operation is its own; what    *)
(* follows exit() finds the zone left and built, and what follows disarm() *)
(* finds it empty.                                                         *)
AfterExit == {"bind", "start", "disarm", "unbind", "done"}

CallInv ==
    /\ flow \in {"off", "library", "arm", "efi", "exec", "stop", "enter", "vm",
                "open", "exit"} \cup AfterExit
    /\ Under /\ job # NoJob => flow = job.op

LeftInv ==
    /\ intact /\ flow \in AfterExit => root = "disk" /\ record
    /\ intact /\ flow = "disarm"
       => /\ job.pc = "unlist" => files = "none" /\ ~login
          /\ job.pc = "disarmed" => files = "none" /\ ~login /\ ~listed
    /\ intact /\ flow \in {"unbind", "done"}
       => files = "none" /\ ~login /\ ~listed

(* The commands of boot_flow() itself: the old root could be unmounted, so *)
(* the ESP was not mounted below it.                                       *)
CommandInv ==
    /\ efi \in BOOLEAN /\ gettys \in BOOLEAN
    /\ job.pc \in {"close", "entered"} => ~efi
    /\ flow \in {"vm", "open", "exit"} \cup AfterExit => ~efi
    /\ flow \in {"enter", "vm", "open", "exit"} \cup AfterExit => gettys
    /\ flow \in {"disarm", "unbind", "done"} => display
    /\ intact => sddm = IF flow \in {"start", "disarm", "unbind"}
                        THEN "one" ELSE "none"

FlowInv == CallInv /\ LeftInv /\ CommandInv

(* An operation that boot_flow() has called goes on, ends or raises.       *)
LEMMA FlowOperationNext ==
  ASSUME JobInv, JobInv', MountInv, FlowInv, FlowOperation
  PROVE  FlowInv'
  <1> USE DEF BuildPc, DestroyPc, LeavingPc, InsidePc, ReturnPc, BackPc, ArmPc,
              DisarmPc, AfterExit, FlowInv, CallInv, Under
  <1>0. /\ UNCHANGED <<display, sddm, efi, gettys>>
        /\ efi /\ job.pc = "umount_root" => job'.pc # "close"
    BY DEF FlowOperation, Then, leftAlone
  <1>1. CASE Finish
    <2>1. /\ job # NoJob /\ job' = NoJob /\ job'.pc = "idle"
          /\ flow' = AfterOperation[flow] /\ job.pc \in LastPc
          /\ UNCHANGED <<root, record, files, listed, login, intact>>
      BY <1>1, NoJobShape DEF Finish, FlowOperation, Then, LastPc
    <2>2. CASE flow \in {"off", "library", "arm"}
      BY <1>0, <2>1, <2>2 DEF LeftInv, CommandInv, AfterOperation
    <2>3. CASE flow = "enter"
      <3>1. job.pc = "entered"
        BY <2>1, <2>3 DEF LastPc, JobInv
      <3> QED BY <1>0, <2>1, <2>3, <3>1 DEF LeftInv, CommandInv, AfterOperation
    <2>4. CASE flow = "exit"
      <3>1. job.pc = "exited" /\ root = "disk" /\ record
        BY <2>1, <2>4 DEF LastPc, JobInv, MountInv, RootInv, ZoneInv
      <3> QED BY <1>0, <2>1, <2>4, <3>1 DEF LeftInv, CommandInv, AfterOperation
    <2>5. CASE flow = "disarm"
      <3>1. job.pc = "disarmed"
        BY <2>1, <2>5 DEF LastPc, JobInv
      <3> QED BY <1>0, <2>1, <2>5, <3>1 DEF LeftInv, CommandInv, AfterOperation
    <2> QED BY <2>1, <2>2, <2>3, <2>4, <2>5 DEF JobInv, Job, Op
  <1>2. CASE Raise
    <2>1. /\ ~intact' /\ job' = NoJob /\ job'.pc = "idle"
          /\ flow' = IF Under THEN "off" ELSE flow
      BY <1>2, NoJobShape DEF Raise, FlowOperation, Then
    <2> QED BY <1>0, <2>1 DEF LeftInv, CommandInv
  <1>3. CASE ZoneStep \/ EnterStep \/ ExitStep \/ ArmStep
    <2>1. job'.op = job.op /\ job.op # "none" /\ job # NoJob
      BY <1>3, ZoneMoves, EnterMoves, ExitMoves, ArmMoves
         DEF ZoneStep, EnterStep, ExitStep, ArmStep, Same, Move, Stay, JobInv
    <2>2. flow' = flow
      BY <2>1 DEF FlowOperation, Then, JobInv
    <2>3. intact' = intact
      <3>1. ZoneStep => intact' = intact
        BY DEF ZoneStep, BuildZram, BuildMount, BuildPfs, BuildRecord,
               BuildBind, DestroyUnbind, DestroyPfs, DestroyUmount,
               DestroyReset, DestroyRmdir
      <3>2. EnterStep => intact' = intact
        BY DEF EnterStep, EnterStopServices, EnterUnbind, EnterMakePrivate,
               EnterPivot, EnterHold, EnterZrunAway, EnterRunTop, EnterReexec,
               EnterRunBack, EnterZrunBack, EnterUmount, EnterClose
      <3>3. ExitStep \/ ArmStep => intact' = intact
        BY DEF ExitStep, ExitMountRoot, ExitMakePrivate, ExitUnhold,
               ExitPivot, ExitMakeShared, ExitRestartServices, ExitBind,
               ExitDropHolder, ArmStep, ArmCopy, ArmCopied, ArmList, ArmLogin,
               DisarmRemove, DisarmRemoved, DisarmUnlist
      <3> QED BY <1>3, <3>1, <3>2, <3>3
    <2>4. job'.pc \in {"close", "entered"} => job.pc \in {"umount_root", "close"}
      BY <1>3, ZoneMoves, EnterMoves, ExitMoves, ArmMoves
         DEF ZoneStep, EnterStep, ExitStep, ArmStep, Move, Stay
    <2>5. job.pc = "umount_root" /\ job'.pc = "entered" => FALSE
      BY <1>3, ZoneMoves, EnterMoves, ExitMoves, ArmMoves
         DEF ZoneStep, EnterStep, ExitStep, ArmStep, Move, Stay
    <2>6. CallInv' /\ CommandInv'
      <3>1. CallInv'
        BY <2>1, <2>2
      <3>2. job'.pc \in {"close", "entered"} => ~efi'
        BY <1>0, <2>4, <2>5 DEF CommandInv
      <3> QED BY <1>0, <2>2, <2>3, <3>1, <3>2 DEF CommandInv
    <2>7. LeftInv'
      <3>1. CASE flow \in AfterExit
        <4>1. flow = "disarm" /\ job.pc \in DisarmPc
          BY <2>1, <3>1 DEF JobInv, Job, Op
        <4>2. DisarmRemove \/ DisarmRemoved \/ DisarmUnlist
          BY <1>3, <4>1, ZoneMoves, EnterMoves, ExitMoves, ArmMoves
             DEF ZoneStep, EnterStep, ExitStep, ArmStep, Move, Stay
        <4>3. UNCHANGED <<root, record>>
          BY <4>2 DEF DisarmRemove, DisarmRemoved, DisarmUnlist
        <4>4. CASE DisarmRemove
          BY <2>2, <2>3, <4>1, <4>3, <4>4, ArmMoves DEF Move, LeftInv
        <4>5. CASE DisarmRemoved
          <5>1. files' = "none" /\ ~login' /\ job'.pc = "unlist"
            BY <4>5, ArmMoves DEF DisarmRemoved, Move
          <5> QED BY <2>2, <2>3, <4>1, <4>3, <5>1 DEF LeftInv
        <4>6. CASE DisarmUnlist
          BY <2>2, <2>3, <4>1, <4>3, <4>6, ArmMoves
             DEF DisarmUnlist, Move, LeftInv
        <4> QED BY <4>2, <4>4, <4>5, <4>6
      <3>2. CASE flow \notin AfterExit
        BY <2>2, <3>2 DEF LeftInv
      <3> QED BY <3>1, <3>2
    <2> QED BY <2>6, <2>7
  <1> QED BY <1>1, <1>2, <1>3 DEF FlowOperation, Operation

(* The steps of boot_flow() that call the coordinator, and its commands.   *)
LEMMA FlowStepNext ==
  ASSUME JobInv, FlowInv, FlowStep \/ UserLeavesTmux
  PROVE  FlowInv'
  <1> USE DEF AfterExit, FlowInv, CallInv, Under
  <1>1. CASE FlowArm
    <2>1. /\ UNCHANGED <<display, sddm, efi, gettys, intact>>
          /\ flow = "off" /\ flow' \in {"arm", "efi", "stop"}
      BY <1>1 DEF FlowArm, StartArm, Command, Then, leftAlone, vars
    <2>2. CASE StartArm /\ Then("arm")
      <3>1. job'.op = "arm" /\ job'.pc = "copy" /\ flow' = "arm"
        BY <2>2, BeginShape DEF StartArm, Then, Op, Pc, ArmPc
      <3> QED BY <2>1, <3>1 DEF LeftInv, CommandInv
    <2>3. CASE Command /\ flow' \in {"efi", "stop"}
      BY <2>1, <2>3, NoJobShape DEF Command, LeftInv, CommandInv, vars
    <2> QED BY <1>1, <2>2, <2>3 DEF FlowArm, Then
  <1>2. CASE FlowEnter
    <2>1. /\ job'.op = "enter" /\ job'.pc = "stop" /\ flow' = "enter"
          /\ flow = "enter" /\ UNCHANGED <<display, sddm, efi, gettys, intact>>
      BY <1>2, BeginShape
         DEF FlowEnter, StartEnter, Then, leftAlone, Op, Pc, LeavingPc
    <2> QED BY <2>1 DEF LeftInv, CommandInv
  <1>3. CASE FlowOpenRootDrive
    <2>1. /\ job = NoJob /\ job' = NoJob /\ flow = "open" /\ flow' = "exit"
          /\ UNCHANGED <<display, sddm, efi, gettys, intact>>
      BY <1>3 DEF FlowOpenRootDrive, OpenRootDrive, Then, leftAlone
    <2> QED BY <2>1, NoJobShape DEF LeftInv, CommandInv
  <1>4. CASE FlowExit
    <2>1. /\ job'.op = "exit" /\ job'.pc = "mount_root" /\ flow' = "exit"
          /\ flow = "exit" /\ UNCHANGED <<display, sddm, efi, gettys, intact>>
      BY <1>4, BeginShape
         DEF FlowExit, StartExit, Then, leftAlone, Op, Pc, ReturnPc
    <2> QED BY <2>1 DEF LeftInv, CommandInv
  <1>5. CASE FlowDisarm
    <2>1. /\ flow = "disarm" /\ flow' = "disarm" /\ StartDisarm("root")
          /\ UNCHANGED <<root, record, intact, display, sddm, efi, gettys>>
      BY <1>5 DEF FlowDisarm, StartDisarm, Then, leftAlone
    <2>2. /\ job'.op = "disarm"
          /\ job'.pc = IF IsInZone("root") THEN "unlist" ELSE "remove"
      BY <2>1, BeginShape DEF StartDisarm, Op, Pc, DisarmPc
    <2>3. intact => job'.pc = "remove"
      BY <2>1, <2>2 DEF LeftInv, IsInZone
    <2> QED BY <2>1, <2>2, <2>3 DEF LeftInv, CommandInv
  <1>6. CASE FlowRaise
    <2>1. /\ ~intact' /\ job' = NoJob /\ flow' = "off"
          /\ UNCHANGED <<display, sddm, efi, gettys>>
      BY <1>6 DEF FlowRaise, Then, leftAlone
    <2> QED BY <2>1, NoJobShape DEF LeftInv, CommandInv
  <1>7. ASSUME job = NoJob, UNCHANGED vars,
               \/ FlowUnmountEfi \/ FlowExec \/ FlowStopDisplay \/ FlowBindSddm
               \/ FlowStartDisplay \/ FlowUnbindSddm \/ FlowDone
               \/ UserLeavesTmux
        PROVE  FlowInv'
    <2>1. UNCHANGED <<job, root, record, files, listed, login, intact>>
      BY <1>7 DEF vars
    <2>2. job.pc = "idle"
      BY <1>7, NoJobShape
    <2>3. CallInv' /\ LeftInv'
      BY <1>7, <2>1, <2>2
         DEF FlowUnmountEfi, FlowExec, FlowStopDisplay, FlowBindSddm,
             FlowStartDisplay, FlowUnbindSddm, FlowDone, UserLeavesTmux, Then,
             LeftInv
    <2>4. CommandInv'
      <3>1. CASE FlowUnmountEfi \/ FlowStopDisplay
        BY <2>1, <2>2, <3>1 DEF FlowUnmountEfi, FlowStopDisplay, CommandInv
      <3>2. CASE FlowBindSddm \/ FlowStartDisplay \/ FlowUnbindSddm
        BY <2>1, <2>2, <3>2 DEF FlowBindSddm, FlowStartDisplay, FlowUnbindSddm,
           leftAlone, CommandInv
      <3>3. CASE FlowExec \/ FlowDone \/ UserLeavesTmux
        BY <2>1, <2>2, <3>3 DEF FlowExec, FlowDone, UserLeavesTmux, Then,
           leftAlone, CommandInv
      <3> QED BY <1>7, <3>1, <3>2, <3>3
    <2> QED BY <2>3, <2>4
  <1>8. \/ FlowUnmountEfi \/ FlowExec \/ FlowStopDisplay \/ FlowBindSddm
        \/ FlowStartDisplay \/ FlowUnbindSddm \/ FlowDone \/ UserLeavesTmux
        => job = NoJob /\ UNCHANGED vars
    BY DEF FlowUnmountEfi, FlowExec, FlowStopDisplay, FlowBindSddm,
       FlowStartDisplay, FlowUnbindSddm, FlowDone, UserLeavesTmux, Command
  <1> QED BY <1>1, <1>2, <1>3, <1>4, <1>5, <1>6, <1>7, <1>8 DEF FlowStep

(* When nothing else runs, the calls of others change no variable of       *)
(* boot_flow(), and it has no claim on what they do.                       *)
LEMMA FlowOthersNext ==
  ASSUME JobInv', FlowInv, flow \in {"off", "library"}, User \/ CommandLine,
         UNCHANGED flowVars
  PROVE  FlowInv'
  <1>1. Call
    BY DEF User, CommandLine, Views, Call
  <1>2. UNCHANGED <<flow, display, sddm, efi, gettys>>
    BY DEF flowVars, leftAlone
  <1>3. intact' = intact
    BY <1>1 DEF Call, StartBuild, StartDestroy, StartArm, OpenRootDrive,
       StartEnter, StartDisarm, StartExit
  <1>4. job'.pc \notin {"close", "entered"}
    BY <1>1, CallShape, NoJobShape
       DEF Call, StartDestroy, OpenRootDrive, NoJob
  <1> QED BY <1>2, <1>3, <1>4
          DEF FlowInv, CallInv, LeftInv, CommandInv, Under, AfterExit

(* boot_flow() that comes to its end with nothing raised since the boot    *)
(* has put back the real root with its mounts and its mapping and the      *)
(* display manager, and leaves an empty zone that can be entered again;    *)
(* the ESP is not mounted, and the terminals it started go on.             *)
THEOREM FlowIsUndone == FlowSpec => []FlowPutsBack
  <1>1. FlowInit => FlowInv
    BY NoJobShape
       DEF FlowInit, Init, FlowInv, CallInv, LeftInv, CommandInv, Under,
           AfterExit
  <1>2. JobInv /\ JobInv' /\ MountInv /\ FlowInv /\ [FlowNext]_allVars
        => FlowInv'
    <2>1. SUFFICES ASSUME JobInv, JobInv', MountInv, FlowInv, [FlowNext]_allVars
                   PROVE  FlowInv'
      OBVIOUS
    <2>2. CASE FlowReboot
      <3>1. /\ flow' \in {"off", "library"} /\ job' = NoJob
            /\ efi' \in BOOLEAN /\ gettys' = FALSE /\ sddm' = "none"
        BY <2>1, <2>2 DEF FlowReboot, Reboot, Under, FlowInv, CallInv
      <3> QED BY <3>1, NoJobShape
              DEF FlowInv, CallInv, LeftInv, CommandInv, Under, AfterExit
    <2>3. CASE flow \in {"off", "library"} /\ (User \/ CommandLine)
               /\ UNCHANGED flowVars
      BY <2>1, <2>3, FlowOthersNext
    <2>4. CASE UNCHANGED allVars
      <3>1. UNCHANGED <<flow, display, sddm, efi, gettys, job, root, record,
                        files, listed, login, intact>>
        BY <2>4 DEF allVars, vars, flowVars, leftAlone
      <3> QED BY <2>1, <3>1
              DEF FlowInv, CallInv, LeftInv, CommandInv, Under, AfterExit
    <2> QED BY <2>1, <2>2, <2>3, <2>4, FlowOperationNext, FlowStepNext
            DEF FlowNext
  <1>3. JobInv /\ MountInv /\ IntactInv /\ FlowInv => FlowPutsBack
    <2>1. SUFFICES ASSUME JobInv, MountInv, IntactInv, FlowInv,
                          flow = "done", intact
                   PROVE  FlowPutsBack
      BY DEF FlowPutsBack
    <2>2. /\ job.pc = "idle" /\ root = "disk" /\ record
          /\ files = "none" /\ ~login /\ ~listed
          /\ display /\ sddm = "none" /\ ~efi /\ gettys
      BY <2>1, NoJobShape
         DEF FlowInv, CallInv, LeftInv, CommandInv, Under, AfterExit, JobInv,
             Job, Op
    <2> QED BY <2>1, <2>2 DEF IntactInv, RestInv, Resting, AtHome, MountInv,
               PlaceInv, FlowPutsBack
  <1> QED BY <1>1, <1>2, <1>3, FlowSpecInvariant, PTL DEF FlowSpec

=============================================================================
