--------------------------- MODULE BootWindowsProofs ---------------------------
(* Theorems about boot_windows.py beside auto_tpm_encrypt.py, with nothing *)
(* else running from its check to the reboot. Without that they are false: *)
(* the answer of the check is stale by the time the firmware acts on it.   *)
EXTENDS BootWindows, AutoTpmEncryptProofs

(* The state of the check itself.                                          *)
GateTyped == gate \in Gate /\ due \subseteq Users /\ bootNext \in BOOLEAN

(* Whoever has a sync due is still to be asked, or was noted.              *)
SyncInv ==
    /\ SyncedBeforeWindows
    /\ gate.pc = "sync" /\ ~gate.nosync => due \subseteq gate.users \cup gate.overdue

(* The gate alone has the machine: a volume with a blank password is still *)
(* to be looked at or was found, and from the verdict until the firmware   *)
(* acts on BootNext there is none.                                         *)
Alone ==
    /\ gate.pc # "off" => job = NoJob /\ booted.os \in OS \cup Media
    /\ gate.pc \notin {"off", "reboot"} => ~bootNext
    /\ bootNext => job = NoJob

ScanInv ==
    /\ gate.pc = "scan" /\ ~gate.found
       => \A p \in Partition : blanks[p] > 0 => p \in gate.todo
    /\ gate.pc \in {"set_next", "reboot"} \/ bootNext => NoBlankPassword

(* What auto_tpm_encrypt.py keeps by itself.                               *)
Kept == TypeInv /\ HeaderInv

GateInv == GateTyped /\ SyncInv /\ Alone /\ ScanInv

-----------------------------------------------------------------------------
(* Apart from the check's own mapping and the boot entry it may delete, a  *)
(* step is one of auto_tpm_encrypt.py and its machine: BootNext alone      *)
(* never starts Windows next to a blank password.                          *)
LEMMA StepIsKnown ==
  ASSUME ScanInv, [GateNext]_allVars
  PROVE  \/ Next
         \/ /\ UNCHANGED <<diskVars, backups, fileVars, tpm, booted, job>>
            /\ mapped' \in {mapped, TRUE, FALSE}
            /\ wbm' \in {wbm, FALSE}
  <1>1. CASE FirmwareBootsWindows
    <2>1. BootWindows
      BY <1>1 DEF FirmwareBootsWindows, BootWindows, ScanInv
    <2> QED BY <2>1 DEF Next, Machine
  <1>2. CASE Script \/ User \/ Shutdown \/ FirmwareBootsLinux
             \/ (\E a \in Addr : WindowsUsesTpm(a))
    BY <1>2 DEF Next, Machine, Shutdown, FirmwareBootsLinux
  <1>3. CASE \/ vars' = vars \/ \E u \in Users : UserEdits(u)
    BY <1>3 DEF UserEdits, vars, machineVars
  <1>4. CASE GateStep
    BY <1>4 DEF GateStep, StartGate, CheckUser, SyncVerdict, ScanOpen,
           ScanClose, ScanVerdict, SetBootNext, RequestReboot, GateAbort, vars,
           machineVars, KillWindowsBootManager
  <1> QED BY <1>1, <1>2, <1>3, <1>4 DEF GateNext, allVars

(* So the types and the headers stay as they are,                          *)
LEMMA EveryStepKeeps ==
  ASSUME Kept, ScanInv, [GateNext]_allVars
  PROVE  Kept'
  <1>1. CASE Next
    <2>1. TypeInv'
      BY <1>1, TypeEncrypt, TypeSetup, TypeDecrypt, TypeRest, UserAsks
         DEF Kept, Next, Script
    <2>2. HeaderInv'
      BY <1>1, HeaderEncrypt, HeaderSetup, HeaderDecrypt, HeaderRest, UserAsks
         DEF Kept, Next, Script
    <2> QED BY <2>1, <2>2 DEF Kept
  <1>2. CASE /\ UNCHANGED <<diskVars, backups, fileVars, tpm, booted, job>>
             /\ mapped' \in {mapped, TRUE, FALSE} /\ wbm' \in {wbm, FALSE}
    <2>1. TypeInv'
      BY <1>2 DEF Kept, TypeInv, TypeOK, JobShape, diskVars, fileVars
    <2>2. HeaderInv'
      BY <1>2 DEF Kept, HeaderInv, Part, diskVars
    <2> QED BY <2>1, <2>2 DEF Kept
  <1> QED BY <1>1, <1>2, StepIsKnown

(* and so does the boot entry's absence next to a blank password.          *)
LEMMA WindowsStillSealed ==
  ASSUME EfiDeleteReliable, TypeInv, ScanInv, WindowsInv, [GateNext]_allVars
  PROVE  WindowsInv'
  <1>1. CASE Next
    BY <1>1, WindowsScript, WindowsRest, UserAsks DEF Next, Script
  <1>2. CASE UNCHANGED <<diskVars, booted, job>> /\ wbm' \in {wbm, FALSE}
    <2>1. NoBlankPassword' <=> NoBlankPassword
      BY <1>2 DEF NoBlankPassword, diskVars
    <2>2. booted' = booted /\ job' = job
      BY <1>2
    <2>3. wbm' = wbm \/ wbm' = FALSE
      BY <1>2
    <2>4. wbm' => wbm
      BY <2>3, Zenon
    <2> QED BY <2>1, <2>2, <2>4 DEF WindowsInv, WindowsOnlyWhenSealed
  <1> QED BY <1>1, <1>2, StepIsKnown

-----------------------------------------------------------------------------
(* The steps of the check.                                                 *)
LEMMA GateStepInv ==
  ASSUME Exclusive, TypeInv, HeaderInv, GateInv, GateStep
  PROVE  GateInv'
  <1>0. /\ gate \in Gate /\ due \subseteq Users /\ bootNext \in BOOLEAN
        /\ blanks \in [Partition -> Nat]
    BY DEF GateInv, GateTyped, TypeInv, TypeOK
  <1>1. UNCHANGED <<blanks, booted, job>>
    BY DEF GateStep, StartGate, CheckUser, SyncVerdict, ScanOpen, ScanClose,
           ScanVerdict, SetBootNext, RequestReboot, GateAbort, vars, diskVars,
           machineVars
  <1>2. NoBlankPassword' <=> NoBlankPassword
    BY <1>1 DEF NoBlankPassword
  <1>3. NoGate \in Gate /\ NoGate.pc = "off"
    BY DEF NoGate, Gate
  <1> USE <1>0 DEF Gate
  <1>4. CASE gate' = NoGate /\ due' = due /\ bootNext' = bootNext
    BY <1>1, <1>2, <1>3, <1>4 DEF GateInv, GateTyped, SyncInv, Alone, ScanInv,
                             SyncedBeforeWindows
  <1>5. ASSUME NEW nosync \in BOOLEAN, StartGate(nosync) PROVE GateInv'
    <2>1. /\ gate' \in Gate /\ gate'.pc = "sync" /\ gate'.nosync = nosync
          /\ gate'.users = IF nosync THEN {} ELSE Users
      BY <1>5 DEF StartGate, NoGate
    <2>2. job = NoJob /\ ~bootNext /\ UNCHANGED <<due, bootNext>>
          /\ booted.os \in OS \cup Media
      BY <1>5 DEF StartGate
    <2> QED BY <1>1, <1>2, <2>1, <2>2
            DEF GateInv, GateTyped, SyncInv, Alone, ScanInv, SyncedBeforeWindows
  <1>6. ASSUME NEW u \in Users, CheckUser(u) PROVE GateInv'
    <2>1. due' \subseteq due
      BY <1>6 DEF CheckUser
    <2>2. /\ gate' \in Gate /\ gate'.pc = "sync" /\ gate.pc = "sync"
          /\ gate'.nosync = gate.nosync /\ gate'.users = gate.users \ {u}
          /\ gate'.overdue = gate.overdue \cup ((due \cup due') \cap {u})
      BY <1>6, <2>1 DEF CheckUser
    <2>3. bootNext' = bootNext
      BY <1>6 DEF CheckUser
    <2> QED BY <1>1, <1>2, <2>1, <2>2, <2>3
            DEF GateInv, GateTyped, SyncInv, Alone, ScanInv, SyncedBeforeWindows
  <1>7. CASE SyncVerdict /\ gate' # NoGate
    <2>1. /\ gate' \in Gate /\ gate'.pc = "scan" /\ gate'.nosync = gate.nosync
          /\ gate'.todo = {p \in Partition : IsLuks(p)} /\ gate.pc = "sync"
          /\ gate.users = {} /\ gate.overdue = {}
          /\ UNCHANGED <<due, bootNext>>
      BY <1>7 DEF SyncVerdict
    <2>2. \A p \in Partition : blanks[p] > 0 => IsLuks(p)
      BY DEF HeaderInv, IsLuks, TypeInv, TypeOK, FsState
    <2> QED BY <1>1, <1>2, <2>1, <2>2
            DEF GateInv, GateTyped, SyncInv, Alone, ScanInv, SyncedBeforeWindows
  <1>8. ASSUME NEW p \in Partition, ScanOpen(p) PROVE GateInv'
    <2>1. /\ gate' \in Gate /\ gate.pc = "scan" /\ gate'.nosync = gate.nosync
          /\ gate'.todo = gate.todo \ {p}
          /\ gate'.pc \in {"scan", "opened"}
          /\ UNCHANGED <<due, bootNext>>
      BY <1>8 DEF ScanOpen
    <2>2. gate'.pc = "scan" /\ ~gate'.found => ~gate.found /\ blanks[p] = 0
      BY <1>8 DEF ScanOpen
    <2> QED BY <1>1, <1>2, <2>1, <2>2
            DEF GateInv, GateTyped, SyncInv, Alone, ScanInv, SyncedBeforeWindows
  <1>9. CASE ScanClose
    <2>1. /\ gate' \in Gate /\ gate.pc = "opened" /\ gate'.nosync = gate.nosync
          /\ gate'.pc = "scan" /\ gate'.found
          /\ UNCHANGED <<due, bootNext>>
      BY <1>9 DEF ScanClose
    <2> QED BY <1>1, <1>2, <2>1
            DEF GateInv, GateTyped, SyncInv, Alone, ScanInv, SyncedBeforeWindows
  <1>10. CASE ScanVerdict /\ gate' # NoGate
    <2>1. /\ gate' \in Gate /\ gate.pc = "scan" /\ gate'.nosync = gate.nosync
          /\ gate'.pc = "set_next" /\ ~gate.found /\ gate.todo = {}
          /\ UNCHANGED <<due, bootNext>>
      BY <1>10 DEF ScanVerdict
    <2>2. NoBlankPassword
      BY <2>1 DEF GateInv, ScanInv, NoBlankPassword
    <2> QED BY <1>1, <1>2, <2>1, <2>2
            DEF GateInv, GateTyped, SyncInv, Alone, ScanInv, SyncedBeforeWindows
  <1>11. CASE SetBootNext
    <2>1. /\ gate' \in Gate /\ gate.pc = "set_next" /\ gate'.nosync = gate.nosync
          /\ gate'.pc = "reboot" /\ bootNext' \in BOOLEAN /\ due' = due
      BY <1>11 DEF SetBootNext
    <2> QED BY <1>1, <1>2, <2>1
            DEF GateInv, GateTyped, SyncInv, Alone, ScanInv, SyncedBeforeWindows
  <1>12. CASE RequestReboot \/ GateAbort
    BY <1>4, <1>12 DEF RequestReboot, GateAbort
  <1>13. CASE SyncVerdict \/ ScanVerdict
    BY <1>4, <1>7, <1>10, <1>13 DEF SyncVerdict, ScanVerdict
  <1> QED BY <1>5, <1>6, <1>8, <1>9, <1>11, <1>12, <1>13 DEF GateStep

(* Everything else happens before the check or after the reboot.           *)
LEMMA OtherStepInv ==
  ASSUME Exclusive, TypeInv, GateInv, GateNext, ~GateStep
  PROVE  GateInv'
  <1>0. /\ gate \in Gate /\ due \subseteq Users /\ bootNext \in BOOLEAN
    BY DEF GateInv, GateTyped
  <1>1. NoGate \in Gate /\ NoGate.pc = "off"
    BY DEF NoGate, Gate
  <1>2. NoJob.pc = "idle" /\ NoJob.op = "none"
    BY NoJobShape
  <1>3. CASE gate.pc = "off" /\ ~bootNext /\ UNCHANGED <<gate, bootNext>>
             /\ due' \subseteq Users
    BY <1>0, <1>3 DEF GateInv, GateTyped, SyncInv, Alone, ScanInv,
                 SyncedBeforeWindows
  <1>4. CASE Script /\ UNCHANGED gateVars
    <2>1. job # NoJob
      BY <1>2, <1>4
         DEF Script, EncryptStep, SetupStep, DecryptStep, WriteBackup, EncNext,
        EncPrepare, ReencryptStart, ReencryptFinish, AddKey, OpenAndGrow,
        CopyKeyToRoot, CloseMapping, SetupAddress, SetupEvict, SetupPersist,
        SetupKillWindowsBootManager, SetupAddBlank, SetupRemoveBlank,
        WriteUnsealScript, WritePacmanHook, InstallEfiBinary, DecOpenRoot,
        DecCloseRoot, DecNext, DecRemoveBlank, DecConvertKeys,
        DecConvertLuks1, DecStart, DecFinish, DecEvict, DecRemoveHooks, At,
        Finish, Abort
    <2> QED BY <1>0, <1>3, <1>4, <2>1 DEF GateInv, Alone, gateVars
  <1>5. CASE Undisturbed /\ User /\ UNCHANGED gateVars
    BY <1>0, <1>3, <1>5 DEF Undisturbed, gateVars
  <1>6. ASSUME NEW u \in Users, UserEdits(u) PROVE GateInv'
    BY <1>0, <1>3, <1>6 DEF UserEdits, Undisturbed
  <1>7. CASE Shutdown
    <2>1. gate' = NoGate /\ UNCHANGED <<due, bootNext, blanks>> /\ job' = NoJob
      BY <1>7 DEF Shutdown, PowerOff, diskVars
    <2> QED BY <1>0, <1>1, <2>1 DEF GateInv, GateTyped, SyncInv, Alone, ScanInv,
                               SyncedBeforeWindows, NoBlankPassword
  <1>8. ASSUME booted.os \in {"off", "windows"} PROVE gate.pc = "off"
    BY <1>8, ConstantsAssumption DEF GateInv, Alone
  <1>9. CASE FirmwareBootsLinux
    BY <1>0, <1>3, <1>8, <1>9
       DEF FirmwareBootsLinux, BootLinux, BootMedium, gateVars
  <1>10. CASE FirmwareBootsWindows
    <2>1. /\ gate.pc = "off" /\ UNCHANGED <<gate, due>> /\ ~bootNext'
          /\ bootNext' \in BOOLEAN
      BY <1>8, <1>10 DEF FirmwareBootsWindows
    <2> QED BY <1>0, <2>1 DEF GateInv, GateTyped, SyncInv, Alone, ScanInv,
                         SyncedBeforeWindows
  <1>11. ASSUME NEW a \in Addr, WindowsUsesTpm(a), UNCHANGED gateVars
         PROVE  GateInv'
    <2>1. gate.pc = "off" /\ UNCHANGED <<gate, due, bootNext, job, blanks>>
      BY <1>8, <1>11 DEF WindowsUsesTpm, gateVars, diskVars
    <2> QED BY <1>0, <2>1 DEF GateInv, GateTyped, SyncInv, Alone, ScanInv,
                         SyncedBeforeWindows, NoBlankPassword
  <1> QED BY <1>4, <1>5, <1>6, <1>7, <1>9, <1>10, <1>11 DEF GateNext

(* Both, in every reachable state.                                         *)
LEMMA GateInvariant ==
  ASSUME Exclusive
  PROVE  GateSpec => [](Kept /\ GateInv)
  <1>1. GateInit => Kept /\ GateInv
    <2> SUFFICES ASSUME GateInit PROVE Kept /\ GateInv
      OBVIOUS
    <2>1. Init
      BY DEF GateInit
    <2>2. TypeInv
      BY <2>1, TypeInit
    <2>3. HeaderInv
      BY <2>1, NoJobShape DEF Init, HeaderInv, Part
    <2>4. gate.pc = "off" /\ gate \in Gate /\ due = {} /\ ~bootNext
          /\ bootNext \in BOOLEAN
      BY DEF GateInit, NoGate, Gate
    <2> QED BY <2>2, <2>3, <2>4 DEF Kept, GateInv, GateTyped, SyncInv, Alone,
                                    ScanInv, SyncedBeforeWindows
  <1>2. Kept /\ GateInv /\ [GateNext]_allVars => Kept' /\ GateInv'
    <2> SUFFICES ASSUME Kept, GateInv, [GateNext]_allVars
                 PROVE  Kept' /\ GateInv'
      OBVIOUS
    <2>1. Kept'
      BY EveryStepKeeps DEF GateInv
    <2>2. CASE UNCHANGED allVars
      BY <2>1, <2>2 DEF GateInv, GateTyped, SyncInv, Alone, ScanInv, allVars,
                        SyncedBeforeWindows, NoBlankPassword, vars, gateVars,
                        diskVars, machineVars
    <2> QED BY <2>1, <2>2, GateStepInv, OtherStepInv DEF Kept
  <1> QED BY <1>1, <1>2, PTL DEF GateSpec

(* With nothing else running between its check and the reboot, Windows is  *)
(* never started while some volume opens with the blank password: neither  *)
(* by boot_windows.py nor, after any abort, by a boot entry left behind.   *)
THEOREM GateOpensOnlyWhenSealed ==
  ASSUME Exclusive, EfiDeleteReliable
  PROVE  GateSpec => []WindowsOnlyWhenSealed
  <1>1. GateInit => WindowsInv
    BY NoJobShape DEF GateInit, Init, WindowsInv, NoBlankPassword,
                      WindowsOnlyWhenSealed
  <1>2. Kept /\ GateInv /\ WindowsInv /\ [GateNext]_allVars => WindowsInv'
    BY WindowsStillSealed DEF Kept, GateInv
  <1>3. WindowsInv => WindowsOnlyWhenSealed
    BY DEF WindowsInv
  <1> QED BY <1>1, <1>2, <1>3, GateInvariant, PTL DEF GateSpec

(* Unless the sync check was skipped, it goes on to the blank passwords,   *)
(* to BootNext and to the reboot only when nobody has a sync due.          *)
THEOREM GateSyncsFirst ==
  ASSUME Exclusive
  PROVE  GateSpec => []SyncedBeforeWindows
  <1>1. GateInv => SyncedBeforeWindows
    BY DEF GateInv, SyncInv
  <1> QED BY <1>1, GateInvariant, PTL

=============================================================================
