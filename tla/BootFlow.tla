------------------------------- MODULE BootFlow -------------------------------
(***************************************************************************)
(* boot_flow() of mypivotzone.py: arm the zone, go on as a process that    *)
(* exec() puts into it, stop the display manager, enter, wait for the user *)
(* to finish with the virtual machine, open the disk, exit, log the user   *)
(* in again and disarm. An exception is logged and ends it where it is.    *)
(*                                                                         *)
(* flow names the step to be taken, or the operation of the coordinator    *)
(* that is running (while job # NoJob). Otherwise it is "off", and         *)
(* mypivotzone.py can be called, or "library", and another program that    *)
(* imports the coordinator calls what it likes.                            *)
(***************************************************************************)
EXTENDS PivotZone

VARIABLES
    flow,     \* the next step of boot_flow()
    display,  \* display-manager.service runs
    sddm,     \* mounts of the autologin configuration over the real one:
              \* "none", "one" or "more"
    efi,      \* the ESP is mounted at /efi of the real root
    gettys    \* systemctl was last asked to run getty@tty1 to tty4

leftAlone == <<efi, gettys>>
flowVars == <<flow, display, sddm, leftAlone>>
allVars == <<vars, flowVars>>

(* What comes after an operation of the coordinator.                       *)
AfterOperation == [off |-> "off", library |-> "library", arm |-> "efi",
                   enter |-> "vm", exit |-> "bind", disarm |-> "unbind"]

Then(l) == flow' = l /\ UNCHANGED <<display, sddm, leftAlone>>
Command == job = NoJob /\ UNCHANGED vars

(* Not in the zone: arm it, or find it armed. In the zone: go on at once.  *)
FlowArm ==
    /\ flow = "off"
    /\ \/ StartArm /\ Then("arm")
       \/ ~IsInZone("root") /\ record /\ listed /\ Command /\ Then("efi")
       \/ IsInZone("root") /\ Command /\ Then("stop")

(* umount /efi, which may fail unnoticed; nothing mounts it again.         *)
FlowUnmountEfi ==
    /\ flow = "efi" /\ Command
    /\ efi' \in {efi, FALSE} /\ flow' = "exec"
    /\ UNCHANGED <<display, sddm, gettys>>

(* 'bg ... boot', the same program in the zone, which needs it there.      *)
FlowExec == flow = "exec" /\ files # "none" /\ Command /\ Then("stop")

(* Terminals take the place of the display manager; nothing stops them.    *)
FlowStopDisplay ==
    /\ flow = "stop" /\ Command
    /\ display' = FALSE /\ gettys' = TRUE /\ flow' = "enter"
    /\ UNCHANGED <<sddm, efi>>

FlowEnter == flow = "enter" /\ StartEnter("chroot") /\ Then("enter")

(* The user leaves tmux, whose shell kills tmux_waiter.                    *)
UserLeavesTmux == flow = "vm" /\ Command /\ Then("open")

FlowOpenRootDrive == flow = "open" /\ OpenRootDrive /\ Then("exit")

FlowExit == flow = "exit" /\ StartExit("chroot", TRUE) /\ Then("exit")

(* On top of what an earlier boot_flow() may have left.                    *)
FlowBindSddm ==
    /\ flow = "bind" /\ Command
    /\ sddm' = IF sddm = "none" THEN "one" ELSE "more"
    /\ flow' = "start" /\ UNCHANGED <<display, leftAlone>>

FlowStartDisplay ==
    /\ flow = "start" /\ Command
    /\ display' = TRUE /\ flow' = "disarm" /\ UNCHANGED <<sddm, leftAlone>>

(* Mutant: disarm() runs as if still in the zone. *)
FlowDisarmInside == flow = "disarm" /\ StartDisarm("chroot") /\ Then("disarm")

(* pivot_root has taken the process back to the real root.                 *)
FlowDisarm == flow = "disarm" /\ StartDisarm("root") /\ Then("disarm")

FlowUnbindSddm ==
    /\ flow = "unbind" /\ Command
    /\ sddm' \in IF sddm = "one" THEN {"none"} ELSE {"one", "more"}
    /\ flow' = "done" /\ UNCHANGED <<display, leftAlone>>

FlowDone == flow = "done" /\ Command /\ Then("off")

Under == flow \notin {"off", "library"}

(* Mutant: the step that failed is tried again. *)
FlowRaiseIgnored == Under /\ flow \notin {"vm", "done"} /\ Command /\ Then(flow)

(* A command of boot_flow() itself fails, or cannot be run.                *)
FlowRaise ==
    /\ Under /\ flow \notin {"vm", "done"}
    /\ job = NoJob
    /\ intact' = FALSE
    /\ UNCHANGED <<mounts, device, holding, crypt, armament, service, job>>
    /\ Then("off")

(* The coordinator's operations, called by the flow or by the user. The    *)
(* old root is busy while the ESP is still mounted below it.               *)
FlowOperation ==
    /\ Operation
    /\ efi /\ At("umount_root") => job'.pc # "close"
    /\ Then(CASE job' # NoJob -> flow
              [] job' = NoJob /\ job.pc \in LastPc -> AfterOperation[flow]
              [] job' = NoJob /\ job.pc \notin LastPc ->
                     IF Under THEN "off" ELSE flow)

FlowReboot ==
    /\ Reboot /\ flow' = IF Under THEN "off" ELSE flow
    /\ display' = TRUE /\ sddm' = "none"
    /\ efi' \in BOOLEAN /\ gettys' = FALSE

-----------------------------------------------------------------------------

FlowInit ==
    /\ Init /\ flow \in {"off", "library"}
    /\ display = TRUE /\ sddm = "none"
    /\ efi \in BOOLEAN /\ gettys = FALSE

FlowStep ==
    \/ FlowArm \/ FlowUnmountEfi \/ FlowExec \/ FlowStopDisplay \/ FlowEnter
    \/ FlowOpenRootDrive \/ FlowExit \/ FlowBindSddm \/ FlowStartDisplay
    \/ FlowDisarm \/ FlowUnbindSddm \/ FlowDone \/ FlowRaise

(* The other commands of mypivotzone.py, also run by 'exec' in the zone.   *)
CommandLine ==
    \/ StartBuild \/ StartDestroy \/ StartArm
    \/ \E view \in Views : StartDisarm(view)

(* Nobody else calls the coordinator while boot_flow() runs.               *)
FlowNext ==
    \/ FlowStep \/ FlowOperation \/ UserLeavesTmux \/ FlowReboot
    \/ flow = "off" /\ CommandLine /\ UNCHANGED flowVars
    \/ flow = "library" /\ User /\ UNCHANGED flowVars

(* A started flow is scheduled like the operations; the user need not ever *)
(* leave tmux.                                                             *)
FlowSpec ==
    /\ FlowInit /\ [][FlowNext]_allVars
    /\ WF_allVars(FlowOperation)
    /\ WF_allVars(Under /\ FlowStep)

-----------------------------------------------------------------------------
(* Properties *)

(* "Remove everything that was copied into the PivotZone during arming"    *)
(* (mypivotzone.py:412): when boot_flow() has come to its end and nothing  *)
(* raised since the boot, that is done, the real root has its pseudo file  *)
(* systems and its mapping back, the display manager runs with the user's  *)
(* own configuration, and the zone can be entered again. Two things are    *)
(* not put back: /efi, without whose removal it never gets there, is not   *)
(* mounted, and the terminals it started go on.                            *)
FlowPutsBack ==
    flow = "done" /\ intact
    => /\ root = "disk" /\ shared /\ (\A i \in Pfs : place[i] = "disk")
       /\ files = "none" /\ ~listed /\ ~login
       /\ display /\ sddm = "none" /\ (Encrypted => crypt)
       /\ record /\ ~holderDir /\ backing = 1
       /\ ~efi /\ gettys

(* boot_flow() never hangs but in the virtual machine: it ends, with an    *)
(* exception or without, or waits for the user to leave tmux.              *)
FlowEnds == Under ~> ~Under \/ flow = "vm"

=============================================================================
