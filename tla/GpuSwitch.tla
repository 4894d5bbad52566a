------------------------------- MODULE GpuSwitch -------------------------------
(***************************************************************************)
(* alt_os_util: a GPU is given to the virtual machine by a reboot (two     *)
(* files tell the service of the next boot what to do and whom to log in)  *)
(* and taken back without one. Autologin is a bind mount over sddm's       *)
(* configuration that is removed once the session is there. Nobody stops   *)
(* at a command that fails (the shell has no -e); power may go at any time.*)
(***************************************************************************)
EXTENDS Naturals

CONSTANT KeepWindowsEntry   \* IGNORE_WINDOWS_BOOT_MANAGER is set

ASSUME GpuAssumption == KeepWindowsEntry \in BOOLEAN

VARIABLES
    gpuFile, userFile,  \* GPU_STATE_FILE and USER_STATE_FILE are there
    windowsEntry,       \* the firmware has a 'Windows Boot Manager' entry
    gpu,                \* driver_override: "host" ("(null)") or "vm"
    binds,              \* mounts over SDDM_DST_OVERRIDE_PATH
    dm, session,        \* display-manager.service and a plasma session run
    service, switcher,  \* pcs of `service` and `switch_gpu_inner`
    cleaner,            \* remove_autologin_bind_mount runs
    claims              \* boots that claimed the GPU since it was last asked for

stateFiles == <<gpuFile, userFile>>
desktop == <<dm, session>>
gpuVars == <<stateFiles, windowsEntry, gpu, binds, desktop, service, switcher,
             cleaner, claims>>

-----------------------------------------------------------------------------
(* The service, which the display manager waits for *)

(* Mutant: the request is read and not removed. *)
ServiceGpuKeepsFile ==
    /\ service = "gpu"
    /\ service' = IF gpuFile THEN "claim" ELSE "user"
    /\ claims' = IF gpuFile THEN claims + 1 ELSE claims
    /\ UNCHANGED <<stateFiles, windowsEntry, gpu, binds, desktop, switcher,
                   cleaner>>

ServiceGpu ==
    /\ service = "gpu"
    /\ gpuFile' = FALSE
    /\ service' = IF gpuFile THEN "claim" ELSE "user"
    /\ claims' = IF gpuFile THEN claims + 1 ELSE claims
    /\ UNCHANGED <<userFile, windowsEntry, gpu, binds, desktop, switcher, cleaner>>

ServiceClaim ==
    /\ service = "claim"
    /\ gpu' = "vm" /\ service' = "user"
    /\ UNCHANGED <<stateFiles, windowsEntry, binds, desktop, switcher, cleaner,
                   claims>>

ServiceUser ==
    /\ service = "user"
    /\ userFile' = FALSE
    /\ service' = IF userFile THEN "login" ELSE "windows"
    /\ UNCHANGED <<gpuFile, windowsEntry, gpu, binds, desktop, switcher, cleaner,
                   claims>>

ServiceLogin ==
    /\ service = "login"
    /\ binds' = binds + 1 /\ service' = "spawn"
    /\ UNCHANGED <<stateFiles, windowsEntry, gpu, desktop, switcher, cleaner, claims>>

ServiceSpawn ==
    /\ service = "spawn"
    /\ cleaner' = TRUE /\ service' = "windows"
    /\ UNCHANGED <<stateFiles, windowsEntry, gpu, binds, desktop, switcher, claims>>

(* efibootmgr's failure is accepted. *)
ServiceWindows ==
    /\ service = "windows"
    /\ windowsEntry' \in {windowsEntry, windowsEntry /\ KeepWindowsEntry}
    /\ service' = "done"
    /\ UNCHANGED <<stateFiles, gpu, binds, desktop, switcher, cleaner, claims>>

(* cleanup_auto_login(), after the wait for the session. *)
CleanUp ==
    /\ cleaner /\ session
    /\ binds' = binds - 1 /\ cleaner' = FALSE
    /\ UNCHANGED <<stateFiles, windowsEntry, gpu, desktop, service, switcher, claims>>

-----------------------------------------------------------------------------
(* switch_gpu *)

PowerOff ==
    /\ gpu' = "host" /\ binds' = 0 /\ dm' = FALSE /\ session' = FALSE
    /\ service' = "gpu" /\ switcher' = "off" /\ cleaner' = FALSE
    /\ UNCHANGED <<stateFiles, windowsEntry, claims>>

StartSwitch ==
    /\ session /\ dm /\ switcher = "off"
    /\ switcher' = IF gpu = "host" THEN "note_user" ELSE "stop"
    /\ UNCHANGED <<stateFiles, windowsEntry, gpu, binds, desktop, service, cleaner,
                   claims>>

NoteUser ==
    /\ switcher = "note_user"
    /\ userFile' = TRUE /\ switcher' = "note_gpu"
    /\ UNCHANGED <<gpuFile, windowsEntry, gpu, binds, desktop, service, cleaner, claims>>

NoteGpu ==
    /\ switcher = "note_gpu"
    /\ gpuFile' = TRUE /\ claims' = 0 /\ switcher' = "reboot"
    /\ UNCHANGED <<userFile, windowsEntry, gpu, binds, desktop, service, cleaner>>

SwitchReboots == switcher = "reboot" /\ PowerOff

StopDisplay ==
    /\ switcher = "stop"
    /\ dm' = FALSE /\ switcher' = "wait"
    /\ UNCHANGED <<stateFiles, windowsEntry, gpu, binds, session, service, cleaner,
                   claims>>

(* Mutant: the processes of the session are not waited for. *)
WaitForNobodySkipped ==
    /\ switcher = "wait"
    /\ switcher' = "release"
    /\ UNCHANGED <<stateFiles, windowsEntry, gpu, binds, desktop, service, cleaner,
                   claims>>

WaitForNobody ==
    /\ switcher = "wait" /\ ~dm /\ ~session
    /\ switcher' = "release"
    /\ UNCHANGED <<stateFiles, windowsEntry, gpu, binds, desktop, service, cleaner,
                   claims>>

(* Unbind, remove and rescan, until the host's driver has the card. *)
ReleaseGpu ==
    /\ switcher = "release"
    /\ gpu' = "host" /\ switcher' = "login"
    /\ UNCHANGED <<stateFiles, windowsEntry, binds, desktop, service, cleaner, claims>>

SwitchLogin ==
    /\ switcher = "login"
    /\ binds' = binds + 1 /\ switcher' = "start"
    /\ UNCHANGED <<stateFiles, windowsEntry, gpu, desktop, service, cleaner, claims>>

StartDisplay ==
    /\ switcher = "start"
    /\ dm' = TRUE /\ switcher' = "clean"
    /\ UNCHANGED <<stateFiles, windowsEntry, gpu, binds, session, service, cleaner,
                   claims>>

SwitchCleansUp ==
    /\ switcher = "clean" /\ session
    /\ binds' = binds - 1 /\ switcher' = "off"
    /\ UNCHANGED <<stateFiles, windowsEntry, gpu, desktop, service, cleaner, claims>>

-----------------------------------------------------------------------------
(* systemd, the user and Windows *)

BootStartsDisplay ==
    /\ service = "done"
    /\ dm' = TRUE /\ service' = "off"
    /\ UNCHANGED <<stateFiles, windowsEntry, gpu, binds, session, switcher, cleaner,
                   claims>>

(* By autologin or by hand. A session may outlive the display manager.     *)
SessionChanges ==
    /\ session' = ~session /\ (session' => dm)
    /\ UNCHANGED <<stateFiles, windowsEntry, gpu, binds, dm, service, switcher,
                   cleaner, claims>>

WindowsAddsEntry ==
    /\ service = "gpu" /\ windowsEntry' = TRUE
    /\ UNCHANGED <<stateFiles, gpu, binds, desktop, service, switcher, cleaner, claims>>

GpuInit ==
    /\ gpuFile = FALSE /\ userFile = FALSE /\ windowsEntry \in BOOLEAN
    /\ gpu = "host" /\ binds = 0 /\ dm = FALSE /\ session = FALSE
    /\ service = "gpu" /\ switcher = "off" /\ cleaner = FALSE
    /\ claims = 1

GpuNext ==
    \/ ServiceGpu \/ ServiceClaim \/ ServiceUser \/ ServiceLogin \/ ServiceSpawn
    \/ ServiceWindows \/ CleanUp
    \/ StartSwitch \/ NoteUser \/ NoteGpu \/ SwitchReboots \/ StopDisplay
    \/ WaitForNobody \/ ReleaseGpu \/ SwitchLogin \/ StartDisplay \/ SwitchCleansUp
    \/ PowerOff \/ BootStartsDisplay \/ SessionChanges \/ WindowsAddsEntry

-----------------------------------------------------------------------------
(* Properties *)

(* Nothing of a switch outlives it, wherever the power goes: a request for *)
(* the GPU is acted on by one boot at most, so that one the machine does   *)
(* not survive is undone by the next boot (before the first request,       *)
(* claims counts as used); and every autologin has one script under way    *)
(* that will remove it, also when a switch begins before the one of the    *)
(* last boot is cleaned up.                                                *)
SwitchIsOneShot ==
    /\ claims <= 1 /\ (gpu = "vm" => claims = 1)
    /\ binds = (IF cleaner THEN 1 ELSE 0) + (IF service = "spawn" THEN 1 ELSE 0)
               + (IF switcher \in {"start", "clean"} THEN 1 ELSE 0)

(* "claim a GPU for VFIO before it is claimed and initialized by the       *)
(* display manager" (the service), and take it back only when no process   *)
(* of a display manager or session is left that could use it.              *)
NobodyUsesMovingGpu ==
    service = "claim" \/ switcher = "release" => ~dm /\ ~session

=============================================================================
