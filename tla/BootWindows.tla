------------------------------ MODULE BootWindows ------------------------------
(***************************************************************************)
(* Windows/boot_windows.py beside auto_tpm_encrypt.py: Windows is started  *)
(* with a one-shot BootNext entry after a check that nobody has a sync due *)
(* and that ensure_no_os_are_unsealed() finds no blank password. The check *)
(* looks at one partition after the other, and nothing keeps its answer    *)
(* true until the firmware acts on BootNext.                               *)
(***************************************************************************)
EXTENDS AutoTpmEncrypt

CONSTANTS
    Users,      \* accounts with a login shell that use prbsync
    AutoSync,   \* those with an auto_sync_filter
    Exclusive   \* nothing else runs between the check and the reboot

ASSUME BootWindowsAssumption ==
    /\ AutoSync \subseteq Users
    /\ Exclusive \in BOOLEAN

VARIABLES
    due,        \* users whose files are not synced
    gate,       \* the running boot_windows.py
    bootNext    \* the firmware's BootNext points at the "Windows" entry

gateVars == <<due, gate, bootNext>>
allVars == <<vars, gateVars>>

Gate == [pc : {"off", "sync", "scan", "opened", "set_next", "reboot"},
         nosync : BOOLEAN, users : SUBSET Users, overdue : SUBSET Users,
         todo : SUBSET Partition, found : BOOLEAN]

NoGate == [pc |-> "off", nosync |-> FALSE, users |-> {}, overdue |-> {},
           todo |-> {}, found |-> FALSE]

(* What Exclusive rules out: another run of the script, and going on with  *)
(* the session once BootNext is set (the KDE reboot can be cancelled).     *)
Undisturbed == Exclusive => gate.pc = "off" /\ ~bootNext

-----------------------------------------------------------------------------
(* boot_windows.py *)

StartGate(nosync) ==
    /\ booted.os \in OS \cup Media
    /\ gate.pc = "off"
    /\ Exclusive => job = NoJob /\ ~bootNext
    /\ gate' = [NoGate EXCEPT !.pc = "sync", !.nosync = nosync,
                              !.users = IF nosync THEN {} ELSE Users]
    /\ UNCHANGED <<vars, due, bootNext>>

(* Mutant: a user who had a sync due is forgiven once auto_sync has run,   *)
(* whatever is still due.                                                  *)
CheckUserForgiving(u) ==
    /\ gate.pc = "sync" /\ u \in gate.users
    /\ due' \in IF u \in AutoSync THEN {due, due \ {u}} ELSE {due}
    /\ gate' = [gate EXCEPT !.users = @ \ {u},
                            !.overdue = @ \cup ((due \ AutoSync) \cap {u})]
    /\ UNCHANGED <<vars, bootNext>>

(* A user with a sync due is noted, then synced if the filter allows it    *)
(* (prbsync may leave something due), asked again, and stays noted.        *)
CheckUser(u) ==
    /\ gate.pc = "sync" /\ u \in gate.users
    /\ due' \in IF u \in AutoSync THEN {due, due \ {u}} ELSE {due}
    /\ gate' = [gate EXCEPT !.users = @ \ {u},
                            !.overdue = @ \cup ((due \cup due') \cap {u})]
    /\ UNCHANGED <<vars, bootNext>>

(* Exit with 1, or start the check, whose sanity checks refuse a mapping   *)
(* left behind; the list of encrypted partitions is taken once.            *)
SyncVerdict ==
    /\ gate.pc = "sync" /\ gate.users = {}
    /\ gate' = IF gate.overdue # {} \/ mapped THEN NoGate
               ELSE [gate EXCEPT !.pc = "scan",
                                 !.todo = {p \in Partition : IsLuks(p)}]
    /\ UNCHANGED <<vars, due, bootNext>>

(* cryptsetup's DEVICE_IN_USE: the mapping name exists, or the password is *)
(* right and the volume is open under another name.                        *)
DeviceInUse(p) == mapped \/ (blanks[p] > 0 /\ p[1] = booted.os)

(* Mutant: only an open that succeeds counts as a blank password. *)
ScanOpenSuccessOnly(p) ==
    /\ gate.pc = "scan" /\ p \in gate.todo
    /\ \/ /\ blanks[p] > 0 /\ ~DeviceInUse(p)
          /\ mapped' = TRUE
          /\ gate' = [gate EXCEPT !.pc = "opened", !.todo = @ \ {p}]
       \/ /\ blanks[p] = 0 \/ DeviceInUse(p)
          /\ gate' = [gate EXCEPT !.todo = @ \ {p}]
          /\ UNCHANGED mapped
    /\ UNCHANGED <<diskVars, backups, fileVars, tpm, wbm, booted, job, due,
                   bootNext>>

(* has_blank_password(): in use counts as unsealed, a successful open is   *)
(* closed again, PASSPHRASE_NOT_FOUND means sealed.                        *)
ScanOpen(p) ==
    /\ gate.pc = "scan" /\ p \in gate.todo
    /\ \/ /\ DeviceInUse(p)
          /\ gate' = [gate EXCEPT !.found = TRUE, !.todo = @ \ {p}]
          /\ UNCHANGED mapped
       \/ /\ ~DeviceInUse(p) /\ blanks[p] > 0
          /\ mapped' = TRUE
          /\ gate' = [gate EXCEPT !.pc = "opened", !.todo = @ \ {p}]
       \/ /\ ~DeviceInUse(p) /\ blanks[p] = 0
          /\ gate' = [gate EXCEPT !.todo = @ \ {p}]
          /\ UNCHANGED mapped
    /\ UNCHANGED <<diskVars, backups, fileVars, tpm, wbm, booted, job, due,
                   bootNext>>

ScanClose ==
    /\ gate.pc = "opened"
    /\ mapped' = FALSE
    /\ gate' = [gate EXCEPT !.pc = "scan", !.found = TRUE]
    /\ UNCHANGED <<diskVars, backups, fileVars, tpm, wbm, booted, job, due,
                   bootNext>>

(* Unsealed: the boot entry of Windows goes too, and check_call raises.    *)
ScanVerdict ==
    /\ gate.pc = "scan" /\ gate.todo = {}
    /\ \/ gate.found /\ KillWindowsBootManager /\ gate' = NoGate
       \/ /\ ~gate.found
          /\ gate' = [gate EXCEPT !.pc = "set_next"]
          /\ UNCHANGED wbm
    /\ UNCHANGED <<diskVars, backups, fileVars, tpm, booted, mapped, job, due,
                   bootNext>>

(* efibootmgr --bootnext, whose failure goes unnoticed.                    *)
SetBootNext ==
    /\ gate.pc = "set_next"
    /\ bootNext' \in {TRUE, bootNext}
    /\ gate' = [gate EXCEPT !.pc = "reboot"]
    /\ UNCHANGED <<vars, due>>

(* logoutAndReboot asks the user, who may decline; reboot does not.        *)
RequestReboot ==
    /\ gate.pc = "reboot"
    /\ gate' = NoGate
    /\ UNCHANGED <<vars, due, bootNext>>

(* An exception or Ctrl-C anywhere.                                        *)
GateAbort ==
    /\ gate.pc \notin {"off", "reboot"}
    /\ gate' = NoGate
    /\ UNCHANGED <<vars, due, bootNext>>

-----------------------------------------------------------------------------
(* The machine. The firmware starts Windows for BootNext, once, or for the *)
(* "Windows Boot Manager" entry.                                           *)

UserEdits(u) ==
    /\ Undisturbed
    /\ booted.os \in OS \cup Media
    /\ due' = due \cup {u}
    /\ UNCHANGED <<vars, gate, bootNext>>

FirmwareBootsWindows ==
    /\ booted.os = "off"
    /\ wbm \/ bootNext
    /\ booted' = [os |-> "windows", ver |-> 0]
    /\ wbm' \in {wbm, TRUE}
    /\ bootNext' = FALSE
    /\ UNCHANGED <<diskVars, backups, fileVars, tpm, mapped, job, due, gate>>

FirmwareBootsLinux ==
    /\ ~bootNext
    /\ (\E o \in OS : BootLinux(o)) \/ (\E m \in Media : BootMedium(m))
    /\ UNCHANGED gateVars

Shutdown ==
    /\ PowerOff
    /\ gate' = NoGate
    /\ UNCHANGED <<due, bootNext>>

GateStep ==
    \/ \E nosync \in BOOLEAN : StartGate(nosync)
    \/ \E u \in Users : CheckUser(u)
    \/ SyncVerdict
    \/ \E p \in Partition : ScanOpen(p)
    \/ ScanClose \/ ScanVerdict \/ SetBootNext \/ RequestReboot \/ GateAbort

GateInit == Init /\ due = {} /\ gate = NoGate /\ bootNext = FALSE

GateNext ==
    \/ GateStep
    \/ Script /\ UNCHANGED gateVars
    \/ Undisturbed /\ User /\ UNCHANGED gateVars
    \/ \E u \in Users : UserEdits(u)
    \/ Shutdown \/ FirmwareBootsLinux \/ FirmwareBootsWindows
    \/ (\E a \in Addr : WindowsUsesTpm(a)) /\ UNCHANGED gateVars

GateSpec == GateInit /\ [][GateNext]_allVars

-----------------------------------------------------------------------------
(* Properties *)

(* BootNext is only set when no user had a sync due, unless the check was  *)
(* skipped with --nosync; a user who was synced late counts as due.        *)
SyncedBeforeWindows ==
    gate.pc \in {"scan", "opened", "set_next", "reboot"} /\ ~gate.nosync
    => due = {}

=============================================================================
