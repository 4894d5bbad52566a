------------------------- MODULE AutoTpmEncryptProofs -------------------------
(* Theorems about AutoTpmEncrypt, for every value of its constants.        *)
EXTENDS SealRefinement, TLAPS

(* Where a run that encrypts can be, outside the setup it calls.           *)
EncryptPc == {"backup", "enc_next", "prepare", "reencrypt", "reencrypting",
              "add_key", "open", "copy_key", "close"}

(* From here on the setup has chosen its TPM address.                      *)
AddressPc == {"evict", "persist", "kill_wbm", "add_blank", "remove_blank",
              "script", "pac_hook", "install"}

(* What a run in progress carries with it.                                 *)
JobShape ==
    /\ job.pc # "idle" => job.os \in OS /\ booted.os \in OS \cup Media
    /\ job.pc \in EncryptPc => job.op = "encrypt"
    /\ job.op = "encrypt" => job.key \in Key
    /\ job.pc \in AddressPc => job.addr \in Addr

TypeInv == TypeOK /\ JobShape

(* What may begin while no run is in progress, in this model or in Wizard, *)
(* whose encryption asks for a plain root only and whose checks may delete *)
(* the Windows boot entry or leave a mapping behind.                       *)
BeginEncrypt(o, s, k) ==
    /\ ScriptMayStart
    /\ booted.os # o
    /\ fs[<<o, "root">>] = "plain"
    /\ job' = [op |-> "encrypt", pc |-> "backup", os |-> o, sel |-> s,
               todo |-> s, role |-> "root", key |-> k, addr |-> None]
    /\ UNCHANGED <<diskVars, backups, fileVars, machineVars>>

LookAround ==
    /\ ScriptMayStart
    /\ wbm' \in {FALSE, wbm} /\ mapped' \in {TRUE, mapped}
    /\ UNCHANGED <<diskVars, backups, fileVars, tpm, booted, job>>

Asks ==
    \/ \E o \in OS : \E s \in Selections[o] :
          \/ \E k \in Key \ backups : BeginEncrypt(o, s, k)
          \/ \E k \in backups : StartDecrypt(o, s, k)
    \/ \E o \in OS, op \in {"hook", "menu"} : StartSetup(o, op)
    \/ \E p \in Partition, k \in backups : AddBlankPassword(p, k)
    \/ LookAround

(* What the user enters includes the root.                                 *)
LEMMA SelectionRoles ==
  ASSUME NEW o \in OS, NEW s \in Selections[o]
  PROVE  s \in SUBSET Roles /\ "root" \in s
  BY ConstantsAssumption

(* The user of this model asks for no more.                                *)
LEMMA UserAsks == User => Asks
  <1>1. ASSUME NEW o \in OS, NEW s \in Selections[o], NEW k, StartEncrypt(o, s, k)
        PROVE  BeginEncrypt(o, s, k)
    BY <1>1, SelectionRoles DEF StartEncrypt, BeginEncrypt, MenuMayStart
  <1> QED BY <1>1 DEF User, Asks

(* None of it writes more than a blank keyslot; a run begins at its start. *)
LEMMA AsksStart ==
  ASSUME Asks
  PROVE  /\ UNCHANGED <<fs, keys, uuid, backups, secret, hookAddr, pacHook, efi,
                        tpm, booted>>
         /\ job = NoJob
         /\ \/ job' = job
            \/ /\ job'.pc = "backup" /\ job'.op = "encrypt" /\ job'.os \in OS
               /\ job'.todo \in Selections[job'.os]
            \/ job'.pc = "dec_open" /\ job'.op = "decrypt"
            \/ job'.pc = "address" /\ job'.op \in {"hook", "menu"}
  <1> USE DEF diskVars, fileVars, machineVars, MenuMayStart, ScriptMayStart
  <1>1. ASSUME NEW o \in OS, NEW s \in Selections[o], NEW k,
               BeginEncrypt(o, s, k)
        PROVE  /\ UNCHANGED <<fs, keys, uuid, backups, secret, hookAddr, pacHook,
                              efi, tpm, booted>>
               /\ job = NoJob
               /\ job'.pc = "backup" /\ job'.op = "encrypt"
               /\ job'.os = o /\ job'.todo = s
    BY <1>1 DEF BeginEncrypt
  <1>2. ASSUME NEW o, NEW s, NEW k, StartDecrypt(o, s, k)
        PROVE  /\ UNCHANGED <<fs, keys, uuid, backups, secret, hookAddr, pacHook,
                              efi, tpm, booted>>
               /\ job = NoJob
               /\ job'.pc = "dec_open" /\ job'.op = "decrypt"
    BY <1>2 DEF StartDecrypt
  <1>3. ASSUME NEW o, NEW op \in {"hook", "menu"}, StartSetup(o, op)
        PROVE  /\ UNCHANGED <<fs, keys, uuid, backups, secret, hookAddr, pacHook,
                              efi, tpm, booted>>
               /\ job = NoJob
               /\ job'.pc = "address" /\ job'.op \in {"hook", "menu"}
    BY <1>3 DEF StartSetup
  <1>4. ASSUME NEW p, NEW k, AddBlankPassword(p, k)
        PROVE  /\ UNCHANGED <<fs, keys, uuid, backups, secret, hookAddr, pacHook,
                              efi, tpm, booted, job>>
               /\ job = NoJob
    BY <1>4 DEF AddBlankPassword
  <1>5. LookAround => /\ UNCHANGED <<fs, keys, uuid, backups, secret, hookAddr,
                                     pacHook, efi, tpm, booted, job>>
                      /\ job = NoJob
    BY DEF LookAround
  <1> QED BY <1>1, <1>2, <1>3, <1>4, <1>5 DEF Asks

(* Init has the types and no run.                                          *)
LEMMA TypeInit == Init => TypeInv
  <1> SUFFICES ASSUME Init PROVE TypeInv
    OBVIOUS
  <1>1. fs \in [Partition -> FsState] /\ blanks \in [Partition -> Nat]
        /\ keys \in [Partition -> SUBSET Key]
        /\ uuid \in [Partition -> Key \cup {None}]
    BY DEF Init, FsState
  <1>2. /\ backups \in SUBSET Key
        /\ secret \in [OS -> Key \cup {None}]
        /\ hookAddr \in [OS -> Addr \cup {None}]
        /\ pacHook \in [OS -> SUBSET Roles]
        /\ efi \in [OS -> EfiBinary \cup {None}]
    BY DEF Init
  <1>3. tpm \in [Addr -> Sealed \cup {None}] /\ wbm \in BOOLEAN
        /\ mapped \in BOOLEAN
    BY DEF Init
  <1>4. booted \in Pcr
    BY ConstantsAssumption DEF Init, Pcr, Host
  <1>5. job \in Job
    BY ConstantsAssumption DEF Init, NoJob, Job, Op, Pc
  <1>6. JobShape
    BY DEF Init, NoJob, JobShape, EncryptPc, AddressPc
  <1> QED BY <1>1, <1>2, <1>3, <1>4, <1>5, <1>6 DEF TypeInv, TypeOK

(* Going to the next partition of a loop.                                  *)
LEMMA GotoWithShape ==
  ASSUME NEW l \in Pc, NEW r \in Roles, job \in Job, GotoWith(l, r)
  PROVE  /\ job' \in Job
         /\ job'.pc = l /\ job'.op = job.op /\ job'.os = job.os
         /\ job'.key = job.key /\ job'.addr = job.addr /\ job'.sel = job.sel
         /\ job'.role = r /\ job'.todo = job.todo \ {r}
  <1>1. job.todo \ {r} \in SUBSET Roles
    BY DEF Job
  <1> QED BY <1>1 DEF GotoWith, Job

(* A keyslot more or, where there is one, less keeps the count natural.    *)
LEMMA BlankCount ==
  ASSUME NEW p, blanks \in [Partition -> Nat],
         \/ blanks' = [blanks EXCEPT ![p] = @ + 1]
         \/ blanks[p] > 0 /\ blanks' = [blanks EXCEPT ![p] = @ - 1]
  PROVE  blanks' \in [Partition -> Nat]
  <1>1. \A q \in Partition : blanks[q] \in Nat
    OBVIOUS
  <1>2. CASE blanks' = [blanks EXCEPT ![p] = @ + 1]
    <2>1. p \in Partition => blanks[p] + 1 \in Nat
      BY <1>1
    <2> QED BY <1>2, <2>1
  <1>3. CASE blanks[p] > 0 /\ blanks' = [blanks EXCEPT ![p] = @ - 1]
    <2>1. p \in Partition => blanks[p] - 1 \in Nat
      BY <1>1, <1>3
    <2> QED BY <1>3, <2>1
  <1> QED BY <1>2, <1>3

(* Every step of encrypt() keeps the types and the shape of the run.       *)
LEMMA TypeEncrypt == TypeInv /\ EncryptStep => TypeInv'
  <1> SUFFICES ASSUME TypeInv, EncryptStep PROVE TypeInv'
    OBVIOUS
  <1> USE ConstantsAssumption
      DEF TypeInv, TypeOK, JobShape, Job, EncryptPc, AddressPc, Part, At, Goto,
          GotoWith, diskVars, fileVars, machineVars, Pc
  <1>1. CASE WriteBackup BY <1>1 DEF WriteBackup
  <1>2. CASE EncNext
    <2>1. CASE job.todo = {} /\ Goto("done")
      BY <1>2, <2>1 DEF EncNext
    <2>2. ASSUME NEW r \in Roles, GotoWith("prepare", r)
          PROVE  TypeInv'
      BY ZenonT(60), <1>2, <2>2, GotoWithShape DEF EncNext
    <2> QED BY <1>2, <2>1, <2>2 DEF EncNext
  <1>3. CASE EncPrepare BY <1>3 DEF EncPrepare, KillWindowsBootManager
  <1>4. CASE ReencryptStart BY <1>4 DEF ReencryptStart, FsState
  <1>5. CASE ReencryptFinish BY <1>5 DEF ReencryptFinish, FsState
  <1>6. CASE AddKey BY ZenonT(60), <1>6 DEF AddKey
  <1>7. CASE OpenAndGrow BY <1>7 DEF OpenAndGrow
  <1>8. CASE CopyKeyToRoot BY <1>8 DEF CopyKeyToRoot
  <1>9. CASE CloseMapping BY <1>9 DEF CloseMapping
  <1> QED BY <1>1, <1>2, <1>3, <1>4, <1>5, <1>6, <1>7, <1>8, <1>9 DEF EncryptStep

(* What the setup installs is a binary.                                    *)
LEMMA NewBinaryIsBinary ==
  TypeInv /\ InstallEfiBinary => NewBinary(job.os) \in EfiBinary
  <1> SUFFICES ASSUME TypeInv, InstallEfiBinary
               PROVE  NewBinary(job.os) \in EfiBinary
    OBVIOUS
  <1>1. job.addr \in Addr /\ job.os \in OS
    BY DEF InstallEfiBinary, At, TypeInv, JobShape, AddressPc
  <1>2. [r \in Roles |-> IF r \in job.sel THEN uuid[<<job.os, r>>] ELSE None]
           \in [Roles -> Key \cup {None}]
    BY <1>1 DEF TypeInv, TypeOK, Partition
  <1>3. (IF efi[job.os] = None THEN 1 ELSE efi[job.os].ver + 1) \in 1 .. MaxVer
    BY <1>1, ConstantsAssumption DEF InstallEfiBinary, TypeInv, TypeOK, EfiBinary
  <1> QED BY <1>1, <1>2, <1>3 DEF NewBinary, EfiBinary

(* Every step of setup_auto_tpm_decrypt() does.                            *)
LEMMA TypeSetup == TypeInv /\ SetupStep => TypeInv'
  <1> SUFFICES ASSUME TypeInv, SetupStep PROVE TypeInv'
    OBVIOUS
  <1> USE ConstantsAssumption
      DEF TypeInv, TypeOK, JobShape, Job, EncryptPc, AddressPc, At, Goto,
          GotoWith, diskVars, fileVars, machineVars, Pc
  <1>1. CASE SetupAddress
    <2>1. hookAddr[job.os] # None => hookAddr[job.os] \in Addr
      BY <1>1 DEF SetupAddress
    <2>2. PICK a \in Addr, l \in {"evict", "persist"} :
            job' = [job EXCEPT !.addr = a, !.pc = l]
      BY <1>1, <2>1 DEF SetupAddress
    <2>3. /\ job' \in Job /\ job'.os = job.os /\ job'.op = job.op
          /\ job'.key = job.key /\ job'.addr = a /\ job'.pc = l
      BY <2>2
    <2> QED BY <1>1, <2>2, <2>3 DEF SetupAddress
  <1>2. CASE SetupEvict BY <1>2 DEF SetupEvict
  <1>3. CASE SetupPersist
    <2>1. [key |-> secret[job.os], pcr |-> booted] \in Sealed
      BY <1>3 DEF SetupPersist, Sealed
    <2>2. tpm' \in [Addr -> Sealed \cup {None}]
      BY <1>3, <2>1 DEF SetupPersist
    <2>3. PICK l \in {"kill_wbm", "remove_blank"} :
            job' = [job EXCEPT !.pc = l, !.todo = job.sel]
      BY <1>3 DEF SetupPersist
    <2>4. /\ job' \in Job /\ job'.os = job.os /\ job'.op = job.op
          /\ job'.key = job.key /\ job'.addr = job.addr /\ job'.pc = l
      BY <2>3
    <2> QED BY <1>3, <2>2, <2>4 DEF SetupPersist
  <1>4. CASE SetupKillWindowsBootManager
    BY <1>4 DEF SetupKillWindowsBootManager, KillWindowsBootManager
  <1>5. CASE SetupAddBlank
    <2>1. CASE job.todo = {} /\ Goto("script") /\ UNCHANGED blanks
      BY <1>5, <2>1 DEF SetupAddBlank
    <2>2. ASSUME NEW r \in Roles, GotoWith("add_blank", r),
                 blanks' = [blanks EXCEPT ![<<job.os, r>>] = @ + 1]
          PROVE  TypeInv'
      <3>1. blanks' \in [Partition -> Nat]
        BY <2>2, BlankCount
      <3> QED BY ZenonT(60), <1>5, <2>2, <3>1, GotoWithShape DEF SetupAddBlank
    <2> QED BY <1>5, <2>1, <2>2 DEF SetupAddBlank
  <1>6. CASE SetupRemoveBlank
    <2>1. CASE job.todo = {} /\ Goto("done") /\ UNCHANGED blanks
      BY <1>6, <2>1 DEF SetupRemoveBlank
    <2>2. ASSUME NEW r \in Roles, RemoveOneBlank(<<job.os, r>>), UNCHANGED job
          PROVE  TypeInv'
      <3>1. blanks' \in [Partition -> Nat]
        BY <2>2, BlankCount DEF RemoveOneBlank
      <3> QED BY <1>6, <2>2, <3>1 DEF SetupRemoveBlank
    <2>3. ASSUME NEW r \in Roles, GotoWith("remove_blank", r), UNCHANGED blanks
          PROVE  TypeInv'
      BY ZenonT(60), <1>6, <2>3, GotoWithShape DEF SetupRemoveBlank
    <2> QED BY <1>6, <2>1, <2>2, <2>3 DEF SetupRemoveBlank
  <1>7. CASE WriteUnsealScript BY <1>7 DEF WriteUnsealScript
  <1>8. CASE WritePacmanHook BY <1>8 DEF WritePacmanHook
  <1>9. CASE InstallEfiBinary
    <2>1. job.addr \in Addr /\ job.os \in OS
      BY <1>9 DEF InstallEfiBinary
    <2>2. NewBinary(job.os) \in EfiBinary
      BY <1>9, NewBinaryIsBinary
    <2> QED BY <1>9, <2>1, <2>2 DEF InstallEfiBinary
  <1> QED BY <1>1, <1>2, <1>3, <1>4, <1>5, <1>6, <1>7, <1>8, <1>9 DEF SetupStep

(* Every step of decrypt() does.                                           *)
LEMMA TypeDecrypt == TypeInv /\ DecryptStep => TypeInv'
  <1> SUFFICES ASSUME TypeInv, DecryptStep PROVE TypeInv'
    OBVIOUS
  <1> USE ConstantsAssumption
      DEF TypeInv, TypeOK, JobShape, Job, EncryptPc, AddressPc, Part, At, Goto,
          GotoWith, diskVars, fileVars, machineVars, Pc
  <1>1. CASE DecOpenRoot BY <1>1 DEF DecOpenRoot
  <1>2. CASE DecCloseRoot BY <1>2 DEF DecCloseRoot
  <1>3. CASE DecNext
    <2>1. CASE job.todo = {} /\ Goto("done")
      BY <1>3, <2>1 DEF DecNext
    <2>2. ASSUME NEW r \in Roles, GotoWith("dec_remove_blank", r)
          PROVE  TypeInv'
      BY ZenonT(120), <1>3, <2>2, GotoWithShape DEF DecNext
    <2> QED BY <1>3, <2>1, <2>2 DEF DecNext
  <1>4. CASE DecRemoveBlank
    <2>1. CASE RemoveOneBlank(Part) /\ UNCHANGED job
      <3>1. blanks' \in [Partition -> Nat]
        BY <2>1, BlankCount DEF RemoveOneBlank
      <3> QED BY <1>4, <2>1, <3>1 DEF DecRemoveBlank
    <2>2. CASE Goto("convert_keys") /\ UNCHANGED blanks
      BY <1>4, <2>2 DEF DecRemoveBlank
    <2> QED BY <1>4, <2>1, <2>2 DEF DecRemoveBlank
  <1>5. CASE DecConvertKeys BY <1>5 DEF DecConvertKeys
  <1>6. CASE DecConvertLuks1 BY <1>6 DEF DecConvertLuks1, FsState
  <1>7. CASE DecStart BY <1>7 DEF DecStart, FsState
  <1>8. CASE DecFinish BY ZenonT(60), <1>8 DEF DecFinish, FsState
  <1>9. CASE DecEvict BY <1>9 DEF DecEvict
  <1>10. CASE DecRemoveHooks BY <1>10 DEF DecRemoveHooks
  <1> QED BY <1>1, <1>2, <1>3, <1>4, <1>5, <1>6, <1>7, <1>8, <1>9, <1>10
          DEF DecryptStep

(* No run in progress: the shape is trivial.                               *)
LEMMA NoJobShape == NoJob \in Job /\ NoJob.pc = "idle" /\ NoJob.op = "none"
  BY ConstantsAssumption DEF NoJob, Job, Op, Pc

(* A run in progress works on a partition of one of the OSes.              *)
LEMMA PartIsPartition == TypeInv /\ job.pc # "idle" => Part \in Partition
  BY DEF TypeInv, TypeOK, JobShape, Job, Part, Partition

(* The end of a run does, and so do what a user starts and what the        *)
(* machine does.                                                           *)
LEMMA TypeRest == TypeInv /\ (Finish \/ Abort \/ Asks \/ Machine) => TypeInv'
  <1> SUFFICES ASSUME TypeInv, Finish \/ Abort \/ Asks \/ Machine PROVE TypeInv'
    OBVIOUS
  <1> USE ConstantsAssumption
      DEF TypeInv, TypeOK, JobShape, EncryptPc, AddressPc,
          diskVars, fileVars, machineVars
  <1>1. CASE Finish BY <1>1, NoJobShape DEF Finish
  <1>2. CASE Abort BY <1>2, NoJobShape DEF Abort
  <1>3. ASSUME NEW o \in OS, NEW s \in Selections[o], NEW k \in Key,
               BeginEncrypt(o, s, k)
        PROVE  TypeInv'
    BY <1>3 DEF BeginEncrypt, MenuMayStart, ScriptMayStart, Job, Op, Pc
  <1>4. ASSUME NEW o \in OS, NEW s \in Selections[o], NEW k \in backups,
               StartDecrypt(o, s, k)
        PROVE  TypeInv'
    BY <1>4 DEF StartDecrypt, MenuMayStart, ScriptMayStart, Job, Op, Pc
  <1>5. ASSUME NEW o \in OS, NEW op \in {"hook", "menu"}, StartSetup(o, op)
        PROVE  TypeInv'
    BY <1>5 DEF StartSetup, ScriptMayStart, Job, Op, Pc
  <1>6. ASSUME NEW p \in Partition, NEW k \in backups, AddBlankPassword(p, k)
        PROVE  TypeInv'
    <2>1. blanks' \in [Partition -> Nat]
      BY <1>6, BlankCount DEF AddBlankPassword
    <2>2. wbm' \in BOOLEAN
      BY <1>6 DEF AddBlankPassword, KillWindowsBootManager
    <2> QED BY <1>6, <2>1, <2>2 DEF AddBlankPassword
  <1>7. CASE PowerOff
    <2>1. booted' \in Pcr
      BY <1>7 DEF PowerOff, Pcr, Host
    <2> QED BY <1>7, <2>1, NoJobShape DEF PowerOff
  <1>8. ASSUME NEW o \in OS, BootLinux(o) PROVE TypeInv'
    <2>1. efi[o] # None => efi[o].ver \in 0 .. MaxVer
      BY DEF EfiBinary
    <2>2. booted' \in Pcr /\ booted'.os = o
      BY <1>8, <2>1 DEF BootLinux, CanBootEncrypted, Pcr, Host
    <2> QED BY <1>8, <2>2 DEF BootLinux
  <1>9. ASSUME NEW m \in Media, BootMedium(m) PROVE TypeInv'
    <2>1. booted' \in Pcr /\ booted'.os \in OS \cup Media
      BY <1>9 DEF BootMedium, Pcr, Host
    <2> QED BY <1>9, <2>1 DEF BootMedium
  <1>10. CASE BootWindows
    <2>1. booted' \in Pcr
      BY <1>10 DEF BootWindows, Pcr, Host
    <2>2. job.pc = "idle" \/ booted.os \in OS \cup Media
      OBVIOUS
    <2>3. job.pc = "idle"
      BY <1>10, <2>2 DEF BootWindows
    <2> QED BY <1>10, <2>1, <2>3 DEF BootWindows
  <1>11. ASSUME NEW a \in Addr, WindowsUsesTpm(a) PROVE TypeInv'
    <2>1. Foreign \in Sealed
      BY DEF Foreign, Sealed, Pcr, Host
    <2> QED BY <1>11, <2>1 DEF WindowsUsesTpm
  <1>12. CASE LookAround
    <2>1. wbm' \in BOOLEAN /\ mapped' \in BOOLEAN
      BY <1>12, Zenon DEF LookAround
    <2> QED BY <1>12, <2>1 DEF LookAround
  <1> HIDE DEF TypeInv
  <1>13. CASE Asks
    BY <1>3, <1>4, <1>5, <1>6, <1>12, <1>13 DEF Asks
  <1>14. CASE Machine
    BY <1>7, <1>8, <1>9, <1>10, <1>11, <1>14 DEF Machine
  <1> QED BY <1>1, <1>2, <1>13, <1>14

(* Every reachable state of the model has its type.                        *)
THEOREM TypeCorrect == Spec => [](TypeOK /\ JobShape)
  <1>1. TypeInv /\ UNCHANGED vars => TypeInv'
    BY DEF TypeInv, TypeOK, JobShape, vars, diskVars, fileVars, machineVars
  <1>2. TypeInv /\ [Next]_vars => TypeInv'
    BY <1>1, TypeEncrypt, TypeSetup, TypeDecrypt, TypeRest, UserAsks DEF Next, Script
  <1> QED BY <1>2, TypeInit, PTL DEF Spec, TypeInv

-----------------------------------------------------------------------------
(* KeysBackedUp is not inductive: AddKey and CopyKeyToRoot use the key of  *)
(* the run, so it must be known to be backed up from WriteBackup on.       *)
KeysInv ==
    /\ KeysBackedUp
    /\ job.op = "encrypt" /\ job.pc # "backup" => job.key \in backups

(* encrypt() uses no key before it has stored it.                          *)
LEMMA KeysEncrypt == TypeInv /\ KeysInv /\ EncryptStep => KeysInv'
  <1> SUFFICES ASSUME TypeInv, KeysInv, EncryptStep PROVE KeysInv'
    OBVIOUS
  <1>0. job \in Job /\ (job.pc \in EncryptPc => job.op = "encrypt")
    BY DEF TypeInv, TypeOK, JobShape
  <1> USE DEF KeysInv, KeysBackedUp, At, Goto, Part, EncryptPc, Job,
              diskVars, fileVars, machineVars
  <1>1. CASE WriteBackup BY <1>0, <1>1 DEF WriteBackup
  <1>2. CASE EncNext
    <2>1. /\ job'.op = job.op /\ job'.key = job.key
          /\ UNCHANGED <<keys, backups, secret, tpm>>
      BY <1>0, <1>2, GotoWithShape DEF EncNext, Pc
    <2> QED BY <1>0, <1>2, <2>1 DEF EncNext
  <1>3. CASE EncPrepare BY <1>0, <1>3 DEF EncPrepare
  <1>4. CASE ReencryptStart
    BY <1>0, <1>4 DEF ReencryptStart, TypeInv, TypeOK
  <1>5. CASE ReencryptFinish BY <1>0, <1>5 DEF ReencryptFinish
  <1>6. CASE AddKey
    BY <1>0, <1>6 DEF AddKey, TypeInv, TypeOK
  <1>7. CASE OpenAndGrow BY <1>0, <1>7 DEF OpenAndGrow
  <1>8. CASE CopyKeyToRoot
    BY <1>0, <1>8 DEF CopyKeyToRoot, TypeInv, TypeOK
  <1>9. CASE CloseMapping BY <1>0, <1>9 DEF CloseMapping
  <1> QED BY <1>1, <1>2, <1>3, <1>4, <1>5, <1>6, <1>7, <1>8, <1>9 DEF EncryptStep

(* The setup seals only KEY_PATH; no step of it makes or stores a key.     *)
LEMMA KeysSetup == TypeInv /\ KeysInv /\ SetupStep => KeysInv'
  <1> SUFFICES ASSUME TypeInv, KeysInv, SetupStep PROVE KeysInv'
    OBVIOUS
  <1>0. job \in Job /\ job.pc # "idle" /\ job.pc # "backup" /\ job.os \in OS
    BY DEF TypeInv, TypeOK, JobShape, SetupStep, SetupAddress, SetupEvict,
           SetupPersist, SetupKillWindowsBootManager, SetupAddBlank,
           SetupRemoveBlank, WriteUnsealScript, WritePacmanHook,
           InstallEfiBinary, At
  <1>1. job'.op = job.op /\ job'.key = job.key
    BY ZenonT(60), <1>0, GotoWithShape
       DEF SetupStep, SetupAddress, SetupEvict, SetupPersist,
           SetupKillWindowsBootManager, SetupAddBlank, SetupRemoveBlank,
           WriteUnsealScript, WritePacmanHook, InstallEfiBinary, Goto, Job, Pc
  <1>2. UNCHANGED <<keys, backups, secret>>
    BY DEF SetupStep, SetupAddress, SetupEvict, SetupPersist,
           SetupKillWindowsBootManager, SetupAddBlank, SetupRemoveBlank,
           WriteUnsealScript, WritePacmanHook, InstallEfiBinary,
           diskVars, fileVars
  <1>3. \A a \in Addr : tpm'[a] # None => tpm'[a].key \in backups \cup {None}
    <2>1. CASE SetupEvict
      BY <2>1 DEF SetupEvict, KeysInv, KeysBackedUp, TypeInv, TypeOK
    <2>2. CASE SetupPersist
      BY <1>0, <2>2 DEF SetupPersist, KeysInv, KeysBackedUp, TypeInv, TypeOK
    <2>3. CASE ~SetupEvict /\ ~SetupPersist
      <3>1. UNCHANGED tpm
        BY <2>3 DEF SetupStep, SetupAddress, SetupKillWindowsBootManager,
           SetupAddBlank, SetupRemoveBlank, WriteUnsealScript, WritePacmanHook,
           InstallEfiBinary, machineVars
      <3> QED BY <3>1 DEF KeysInv, KeysBackedUp
    <2> QED BY <2>1, <2>2, <2>3
  <1> QED BY <1>0, <1>1, <1>2, <1>3 DEF KeysInv, KeysBackedUp

(* decrypt() only takes keys away.                                         *)
LEMMA KeysDecrypt == TypeInv /\ KeysInv /\ DecryptStep => KeysInv'
  <1> SUFFICES ASSUME TypeInv, KeysInv, DecryptStep PROVE KeysInv'
    OBVIOUS
  <1>0. job \in Job /\ job.pc # "backup"
    BY DEF TypeInv, TypeOK, DecryptStep, DecOpenRoot, DecCloseRoot, DecNext,
           DecRemoveBlank, DecConvertKeys, DecConvertLuks1, DecStart,
           DecFinish, DecEvict, DecRemoveHooks, At
  <1>1. job'.op = job.op /\ job'.key = job.key
    BY SMTT(30), <1>0, GotoWithShape
       DEF DecryptStep, DecOpenRoot, DecCloseRoot, DecNext, DecRemoveBlank,
           DecConvertKeys, DecConvertLuks1, DecStart, DecFinish, DecEvict,
           DecRemoveHooks, Goto, Job, Pc
  <1>2. UNCHANGED <<backups, secret>>
    BY DEF DecryptStep, DecOpenRoot, DecCloseRoot, DecNext, DecRemoveBlank,
           DecConvertKeys, DecConvertLuks1, DecStart, DecFinish, DecEvict,
           DecRemoveHooks, fileVars
  <1>3. \A p \in Partition : keys'[p] \subseteq keys[p]
    BY DEF DecryptStep, DecOpenRoot, DecCloseRoot, DecNext, DecRemoveBlank,
           DecConvertKeys, DecConvertLuks1, DecStart, DecFinish, DecEvict,
           DecRemoveHooks, diskVars, TypeInv, TypeOK
  <1>4. \A a \in Addr : tpm'[a] # None => tpm'[a] = tpm[a]
    BY DEF DecryptStep, DecOpenRoot, DecCloseRoot, DecNext, DecRemoveBlank,
           DecConvertKeys, DecConvertLuks1, DecStart, DecFinish, DecEvict,
           DecRemoveHooks, machineVars, TypeInv, TypeOK
  <1> QED BY <1>0, <1>1, <1>2, <1>3, <1>4 DEF KeysInv, KeysBackedUp

(* Neither users nor the machine bring in a key of this script.            *)
LEMMA KeysRest == TypeInv /\ KeysInv /\ (Finish \/ Abort \/ Asks \/ Machine)
                  => KeysInv'
  <1> SUFFICES ASSUME TypeInv, KeysInv, Finish \/ Abort \/ Asks \/ Machine
               PROVE  KeysInv'
    OBVIOUS
  <1>1. UNCHANGED <<keys, backups, secret>>
    BY DEF Finish, Abort, Asks, LookAround, Machine, BeginEncrypt, StartDecrypt,
           StartSetup, AddBlankPassword, PowerOff, BootLinux, BootMedium,
           BootWindows, WindowsUsesTpm, diskVars, fileVars
  <1>2. \A a \in Addr : tpm'[a] # None => tpm'[a] = tpm[a] \/ tpm'[a] = Foreign
    BY DEF Finish, Abort, Asks, LookAround, Machine, BeginEncrypt, StartDecrypt,
           StartSetup, AddBlankPassword, PowerOff, BootLinux, BootMedium,
           BootWindows, WindowsUsesTpm, machineVars, TypeInv, TypeOK
  <1>3. job'.op = "encrypt" => job' = job \/ job'.pc = "backup"
    <2>1. CASE Asks
      BY <2>1, AsksStart
    <2>2. CASE Finish \/ Abort \/ Machine
      <3>1. job' = job \/ job' = NoJob
        BY <2>2 DEF Finish, Abort, Machine, PowerOff, BootLinux, BootMedium,
                    BootWindows, WindowsUsesTpm
      <3> QED BY <3>1, NoJobShape
    <2> QED BY <2>1, <2>2
  <1> QED BY <1>1, <1>2, <1>3 DEF KeysInv, KeysBackedUp, Foreign

(* KeysInv holds in every reachable state.                                 *)
LEMMA KeysInvariant == Spec => []KeysInv
  <1>1. Init => KeysInv
    BY DEF Init, KeysInv, KeysBackedUp, NoJob
  <1>2. KeysInv /\ UNCHANGED vars => KeysInv'
    BY DEF KeysInv, KeysBackedUp, vars, diskVars, fileVars, machineVars
  <1>3. TypeInv /\ KeysInv /\ [Next]_vars => KeysInv'
    BY <1>2, KeysEncrypt, KeysSetup, KeysDecrypt, KeysRest, UserAsks DEF Next, Script
  <1>4. TypeInv <=> TypeOK /\ JobShape
    BY DEF TypeInv
  <1> QED BY <1>1, <1>3, <1>4, TypeCorrect, PTL DEF Spec

(* Every key that opens a volume, lies on a root or is sealed in the TPM   *)
(* has a backup file, whatever is interrupted and whatever Windows does to *)
(* the TPM.                                                                *)
THEOREM KeysAlwaysBackedUp == Spec => []KeysBackedUp
  <1>1. KeysInv => KeysBackedUp
    BY DEF KeysInv
  <1> QED BY <1>1, KeysInvariant, PTL

-----------------------------------------------------------------------------
(* WindowsOnlyWhenSealed is not inductive either: that the firmware starts *)
(* Windows on a sealed machine only rests on the boot entry being gone     *)
(* whenever there is a blank password or one is about to be added.         *)
WindowsInv ==
    /\ WindowsOnlyWhenSealed
    /\ wbm => NoBlankPassword
    /\ wbm => job.pc \notin {"reencrypt", "add_blank"}

(* Taking blank passwords away does not create one.                        *)
LEMMA RemoveKeepsNoBlank ==
  ASSUME NEW p, blanks \in [Partition -> Nat], NoBlankPassword, RemoveOneBlank(p)
  PROVE  NoBlankPassword'
  <1>1. p \notin Partition
    BY DEF NoBlankPassword, RemoveOneBlank
  <1> QED BY <1>1 DEF NoBlankPassword, RemoveOneBlank

(* A run needs a Linux, so it never runs next to Windows, and it adds a    *)
(* blank password only after it has deleted the boot entry.                *)
LEMMA WindowsScript ==
  ASSUME EfiDeleteReliable, TypeInv, WindowsInv,
         EncryptStep \/ SetupStep \/ DecryptStep
  PROVE  WindowsInv'
  <1> USE DEF EncryptStep, SetupStep, DecryptStep, WriteBackup, EncNext,
        EncPrepare, ReencryptStart, ReencryptFinish, AddKey, OpenAndGrow,
        CopyKeyToRoot, CloseMapping, SetupAddress, SetupEvict, SetupPersist,
        SetupKillWindowsBootManager, SetupAddBlank, SetupRemoveBlank,
        WriteUnsealScript, WritePacmanHook, InstallEfiBinary, DecOpenRoot,
        DecCloseRoot, DecNext, DecRemoveBlank, DecConvertKeys,
        DecConvertLuks1, DecStart, DecFinish, DecEvict, DecRemoveHooks, At
  <1>0. job \in Job /\ blanks \in [Partition -> Nat]
    BY DEF TypeInv, TypeOK
  <1>1. booted' = booted
    BY DEF machineVars
  <1>2. booted.os # "windows"
    <2>1. job.pc # "idle"
      OBVIOUS
    <2> QED BY <2>1, ConstantsAssumption DEF TypeInv, JobShape
  <1>3. wbm' => wbm
    BY DEF KillWindowsBootManager, machineVars
  <1>4. wbm' => NoBlankPassword'
    <2>1. CASE ReencryptStart \/ SetupAddBlank
      <3>1. job.pc \in {"reencrypt", "add_blank"}
        BY <2>1
      <3> QED BY <1>3, <3>1 DEF WindowsInv
    <2>2. CASE DecFinish
      <3>1. blanks' = [blanks EXCEPT ![Part] = 0]
        BY <2>2
      <3> HIDE DEF DecFinish
      <3> QED BY <1>0, <1>3, <3>1 DEF WindowsInv, NoBlankPassword
    <2>3. CASE blanks' = blanks
      BY <1>3, <2>3 DEF WindowsInv, NoBlankPassword
    <2>4. ASSUME NEW p, RemoveOneBlank(p) PROVE wbm' => NoBlankPassword'
      BY <1>0, <1>3, <2>4, RemoveKeepsNoBlank DEF WindowsInv
    <2> QED BY <2>1, <2>2, <2>3, <2>4 DEF diskVars
  <1>5. wbm' => job'.pc \notin {"reencrypt", "add_blank"}
    <2>1. CASE EncPrepare \/ SetupKillWindowsBootManager
      BY <2>1 DEF KillWindowsBootManager
    <2>2. CASE SetupAddBlank
      BY <1>3, <2>2 DEF WindowsInv
    <2>3. CASE ~(EncPrepare \/ SetupKillWindowsBootManager \/ SetupAddBlank)
      BY ZenonT(60), <1>0, <2>3, GotoWithShape DEF Goto, Job, Pc
    <2> QED BY <2>1, <2>2, <2>3
  <1> QED BY <1>1, <1>2, <1>4, <1>5 DEF WindowsInv, WindowsOnlyWhenSealed

(* add_blank_password() deletes the boot entry itself; the firmware starts *)
(* Windows while the entry exists, hence only on a sealed machine.         *)
LEMMA WindowsRest ==
  ASSUME EfiDeleteReliable, TypeInv, WindowsInv,
         Finish \/ Abort \/ Asks \/ Machine
  PROVE  WindowsInv'
  <1>1. CASE \E p \in Partition, k \in backups : AddBlankPassword(p, k)
    <2>1. ~wbm' /\ booted' = booted /\ booted.os \in OS \cup Media
      BY <1>1 DEF AddBlankPassword, KillWindowsBootManager, MenuMayStart,
                  ScriptMayStart
    <2>2. booted.os # "windows"
      BY <2>1, ConstantsAssumption
    <2> QED BY <2>1, <2>2 DEF WindowsInv, WindowsOnlyWhenSealed
  <1>2. CASE BootWindows
    <2>1. NoBlankPassword /\ blanks' = blanks /\ job' = job
      BY <1>2 DEF BootWindows, WindowsInv, diskVars
    <2>2. job.pc = "idle"
      <3>1. booted.os = "off"
        BY <1>2 DEF BootWindows
      <3> QED BY <3>1, ConstantsAssumption DEF TypeInv, JobShape
    <2> QED BY <2>1, <2>2 DEF WindowsInv, WindowsOnlyWhenSealed, NoBlankPassword
  <1>3. CASE ~BootWindows
             /\ ~\E p \in Partition, k \in backups : AddBlankPassword(p, k)
    <2>1. blanks' = blanks /\ (wbm' => wbm)
      <3>1. CASE LookAround
        <4>1. blanks' = blanks /\ wbm' \in {FALSE, wbm}
          BY <3>1 DEF LookAround, diskVars
        <4>2. CASE wbm' = FALSE BY <4>1, <4>2
        <4>3. CASE wbm' = wbm BY <4>1, <4>3
        <4> QED BY <4>1, <4>2, <4>3
      <3>2. CASE ~LookAround
        <4>1. blanks' = blanks /\ wbm' = wbm
          BY <1>3, <3>2 DEF Finish, Abort, Asks, Machine, BeginEncrypt,
             StartDecrypt, StartSetup, PowerOff, BootLinux, BootMedium,
             WindowsUsesTpm, diskVars, machineVars
        <4> QED BY <4>1
      <3> QED BY <3>1, <3>2
    <2>2. booted'.os = "windows" => booted' = booted
      <3>1. CASE \E o \in OS : BootLinux(o)
        BY <3>1, ConstantsAssumption DEF BootLinux
      <3>2. CASE \E m \in Media : BootMedium(m)
        BY <3>2, ConstantsAssumption DEF BootMedium
      <3>3. CASE PowerOff
        BY <3>3 DEF PowerOff
      <3> QED BY <1>3, <3>1, <3>2, <3>3
              DEF Finish, Abort, Asks, LookAround, Machine, BeginEncrypt, StartDecrypt,
                  StartSetup, WindowsUsesTpm, machineVars
    <2>3. job' = job \/ job'.pc \in {"idle", "backup", "dec_open", "address"}
      <3>1. CASE Asks
        BY <3>1, AsksStart
      <3>2. CASE Finish \/ Abort \/ Machine
        <4>1. job' = job \/ job' = NoJob
          BY <1>3, <3>2 DEF Finish, Abort, Machine, PowerOff, BootLinux,
                            BootMedium, WindowsUsesTpm
        <4> QED BY <4>1, NoJobShape
      <3> QED BY <3>1, <3>2
    <2> QED BY <2>1, <2>2, <2>3
            DEF WindowsInv, WindowsOnlyWhenSealed, NoBlankPassword
  <1> QED BY <1>1, <1>2, <1>3

(* WindowsInv holds in every reachable state.                              *)
LEMMA WindowsInvariant ==
  ASSUME EfiDeleteReliable
  PROVE  Spec => []WindowsInv
  <1>1. Init => WindowsInv
    BY NoJobShape
       DEF Init, WindowsInv, WindowsOnlyWhenSealed, NoBlankPassword
  <1>2. WindowsInv /\ UNCHANGED vars => WindowsInv'
    BY DEF WindowsInv, WindowsOnlyWhenSealed, NoBlankPassword, vars, diskVars,
           machineVars
  <1>3. TypeInv /\ WindowsInv /\ [Next]_vars => WindowsInv'
    BY <1>2, WindowsScript, WindowsRest, UserAsks DEF Next, Script
  <1>4. TypeInv <=> TypeOK /\ JobShape
    BY DEF TypeInv
  <1> QED BY <1>1, <1>3, <1>4, TypeCorrect, PTL DEF Spec

(* If efibootmgr deletes the entry it is asked to delete, Windows never    *)
(* runs while a volume of any OS opens with the blank password, wherever   *)
(* a run of the script is cut short.                                       *)
THEOREM WindowsRunsOnlyWhenSealed ==
  ASSUME EfiDeleteReliable
  PROVE  Spec => []WindowsOnlyWhenSealed
  <1>1. WindowsInv => WindowsOnlyWhenSealed
    BY DEF WindowsInv
  <1> QED BY <1>1, WindowsInvariant, PTL

-----------------------------------------------------------------------------
(* AutoTpmEncrypt implements SealLifeCycle: the initial states map to      *)
(* initial states and every step maps to a step of the life cycle or       *)
(* leaves the mapped state alone.                                          *)

(* What the headers hold while a run works on them. Without it a step of   *)
(* decrypt() could make an open volume plain, and one of encrypt() could   *)
(* turn a plain volume into an encrypted one behind the life cycle's back. *)
HeaderInv ==
    /\ \A p \in Partition : fs[p] \in {"plain", "decrypting"} => blanks[p] = 0
    /\ job.pc \in {"reencrypting", "add_key"} => fs[Part] # "plain"
    /\ job.pc \in {"convert_keys", "convert_luks1", "dec_start", "decrypting"}
       => blanks[Part] = 0 /\ fs[Part] # "plain"

(* encrypt() writes a header with a blank keyslot and never a plain one.   *)
LEMMA HeaderEncrypt == TypeInv /\ HeaderInv /\ EncryptStep => HeaderInv'
  <1> SUFFICES ASSUME TypeInv, HeaderInv, EncryptStep PROVE HeaderInv'
    OBVIOUS
  <1>0. /\ job \in Job /\ fs \in [Partition -> FsState]
        /\ blanks \in [Partition -> Nat]
        /\ job.pc # "idle" => Part \in Partition
    BY PartIsPartition DEF TypeInv, TypeOK
  <1> USE <1>0 DEF HeaderInv, At, Goto, Part, Job, diskVars
  <1>1. CASE WriteBackup BY <1>1 DEF WriteBackup
  <1>2. CASE EncNext
    <2>1. job'.pc \in {"prepare", "done"}
      BY <1>2, GotoWithShape DEF EncNext, Pc
    <2> QED BY <1>2, <2>1 DEF EncNext
  <1>3. CASE EncPrepare BY <1>3 DEF EncPrepare
  <1>4. CASE ReencryptStart BY <1>4 DEF ReencryptStart
  <1>5. CASE ReencryptFinish BY <1>5 DEF ReencryptFinish
  <1>6. CASE AddKey BY <1>6 DEF AddKey
  <1>7. CASE OpenAndGrow BY <1>7 DEF OpenAndGrow
  <1>8. CASE CopyKeyToRoot BY <1>8 DEF CopyKeyToRoot
  <1>9. CASE CloseMapping BY <1>9 DEF CloseMapping
  <1> QED BY <1>1, <1>2, <1>3, <1>4, <1>5, <1>6, <1>7, <1>8, <1>9 DEF EncryptStep

(* A blank keyslot more on an openable volume, or one less where there is  *)
(* one, leaves plain and decrypting volumes alone.                         *)
LEMMA HeaderBlank ==
  ASSUME NEW p, blanks \in [Partition -> Nat], HeaderInv, Openable(p), fs' = fs,
         \/ blanks' = [blanks EXCEPT ![p] = @ + 1]
         \/ blanks' = [blanks EXCEPT ![p] = @ - 1]
  PROVE  \A q \in Partition :
            fs'[q] \in {"plain", "decrypting"} => blanks'[q] = 0
  BY DEF HeaderInv, Openable

(* The setup touches blank keyslots only, and only of openable volumes.    *)
LEMMA HeaderSetup == TypeInv /\ HeaderInv /\ SetupStep => HeaderInv'
  <1> SUFFICES ASSUME TypeInv, HeaderInv, SetupStep PROVE HeaderInv'
    OBVIOUS
  <1>0. job \in Job /\ blanks \in [Partition -> Nat]
    BY DEF TypeInv, TypeOK
  <1> USE DEF SetupStep, SetupAddress, SetupEvict, SetupPersist,
        SetupKillWindowsBootManager, SetupAddBlank, SetupRemoveBlank,
        WriteUnsealScript, WritePacmanHook, InstallEfiBinary
  <1>1. fs' = fs
    BY DEF diskVars
  <1>2. \/ blanks' = blanks
        \/ \E p : /\ Openable(p)
                  /\ \/ blanks' = [blanks EXCEPT ![p] = @ + 1]
                     \/ blanks' = [blanks EXCEPT ![p] = @ - 1]
    BY DEF diskVars, RemoveOneBlank
  <1>3. job'.pc \in {"evict", "persist", "kill_wbm", "add_blank",
                     "remove_blank", "script", "pac_hook", "install",
                     "close", "done"}
    BY ZenonT(60), <1>0, GotoWithShape DEF Goto, Job, Pc, At
  <1> QED BY <1>0, <1>1, <1>2, <1>3, HeaderBlank DEF HeaderInv

(* decrypt() converts and decrypts a volume only without blank keyslots.   *)
LEMMA HeaderDecrypt == TypeInv /\ HeaderInv /\ DecryptStep => HeaderInv'
  <1> SUFFICES ASSUME TypeInv, HeaderInv, DecryptStep PROVE HeaderInv'
    OBVIOUS
  <1>0. /\ job \in Job /\ fs \in [Partition -> FsState]
        /\ blanks \in [Partition -> Nat]
        /\ job.pc # "idle" => Part \in Partition
    BY PartIsPartition DEF TypeInv, TypeOK
  <1> USE <1>0 DEF HeaderInv, At, Goto, Part, Job, diskVars
  <1>1. CASE DecOpenRoot BY <1>1 DEF DecOpenRoot
  <1>2. CASE DecCloseRoot BY <1>2 DEF DecCloseRoot
  <1>3. CASE DecNext
    <2>1. job'.pc \in {"dec_remove_blank", "done"}
      BY <1>3, GotoWithShape DEF DecNext, Pc
    <2> QED BY <1>3, <2>1 DEF DecNext
  <1>4. CASE DecRemoveBlank
    <2>1. CASE RemoveOneBlank(Part) /\ UNCHANGED job
      BY <1>4, <2>1, HeaderBlank DEF DecRemoveBlank, RemoveOneBlank
    <2>2. CASE Openable(Part) /\ blanks[Part] = 0 /\ Goto("convert_keys")
               /\ UNCHANGED blanks
      BY <1>4, <2>2 DEF DecRemoveBlank, Openable
    <2> QED BY <1>4, <2>1, <2>2 DEF DecRemoveBlank
  <1>5. CASE DecConvertKeys BY <1>5 DEF DecConvertKeys
  <1>6. CASE DecConvertLuks1 BY <1>6 DEF DecConvertLuks1
  <1>7. CASE DecStart BY <1>7 DEF DecStart
  <1>8. CASE DecFinish BY <1>8 DEF DecFinish
  <1>9. CASE DecEvict BY <1>9 DEF DecEvict
  <1>10. CASE DecRemoveHooks BY <1>10 DEF DecRemoveHooks
  <1> QED BY <1>1, <1>2, <1>3, <1>4, <1>5, <1>6, <1>7, <1>8, <1>9, <1>10
          DEF DecryptStep

(* Neither the end of a run nor users nor the machine write a header.      *)
LEMMA HeaderRest == TypeInv /\ HeaderInv /\ (Finish \/ Abort \/ Asks \/ Machine)
                    => HeaderInv'
  <1> SUFFICES ASSUME TypeInv, HeaderInv, Finish \/ Abort \/ Asks \/ Machine
               PROVE  HeaderInv'
    OBVIOUS
  <1>0. blanks \in [Partition -> Nat]
    BY DEF TypeInv, TypeOK
  <1>1. fs' = fs
    BY DEF Finish, Abort, Asks, LookAround, Machine, BeginEncrypt, StartDecrypt,
           StartSetup, AddBlankPassword, PowerOff, BootLinux, BootMedium,
           BootWindows, WindowsUsesTpm, diskVars
  <1>2. CASE \E p \in Partition, k \in backups : AddBlankPassword(p, k)
    <2>1. job' = job /\ job.pc = "idle"
      BY <1>2, NoJobShape DEF AddBlankPassword, MenuMayStart, ScriptMayStart
    <2>2. \E p : Openable(p) /\ blanks' = [blanks EXCEPT ![p] = @ + 1]
      BY <1>2 DEF AddBlankPassword
    <2> QED BY <1>0, <1>1, <2>1, <2>2, HeaderBlank DEF HeaderInv
  <1>3. CASE ~\E p \in Partition, k \in backups : AddBlankPassword(p, k)
    <2>1. blanks' = blanks
      BY <1>3 DEF Finish, Abort, Asks, LookAround, Machine, BeginEncrypt, StartDecrypt,
           StartSetup, PowerOff, BootLinux, BootMedium, BootWindows,
           WindowsUsesTpm, diskVars
    <2>2. job' = job \/ job'.pc \in {"idle", "backup", "dec_open", "address"}
      <3>1. CASE Asks
        BY <3>1, AsksStart
      <3>2. CASE Finish \/ Abort \/ Machine
        <4>1. job' = job \/ job' = NoJob
          BY <3>2 DEF Finish, Abort, Machine, PowerOff, BootLinux, BootMedium,
                      BootWindows, WindowsUsesTpm
        <4> QED BY <4>1, NoJobShape
      <3> QED BY <3>1, <3>2
    <2> QED BY <1>1, <2>1, <2>2 DEF HeaderInv, Part
  <1> QED BY <1>2, <1>3

(* Only volumes with a LUKS header have blank keyslots, and a volume is    *)
(* converted and decrypted only once it has none.                          *)
LEMMA HeaderInvariant == Spec => []HeaderInv
  <1>1. Init => HeaderInv
    BY NoJobShape DEF Init, HeaderInv
  <1>2. HeaderInv /\ UNCHANGED vars => HeaderInv'
    BY DEF HeaderInv, vars, diskVars, Part
  <1>3. TypeInv /\ HeaderInv /\ [Next]_vars => HeaderInv'
    BY <1>2, HeaderEncrypt, HeaderSetup, HeaderDecrypt, HeaderRest, UserAsks
       DEF Next, Script
  <1>4. TypeInv <=> TypeOK /\ JobShape
    BY DEF TypeInv
  <1> QED BY <1>1, <1>3, <1>4, TypeCorrect, PTL DEF Spec

-----------------------------------------------------------------------------
(* The state of a volume, told by its file system and its blank keyslots.  *)
LEMMA VolumeCases ==
  ASSUME NEW p \in Partition, blanks \in [Partition -> Nat]
  PROVE  VolumeState(p) = IF fs[p] = "plain" THEN "plain"
                          ELSE IF blanks[p] > 0 THEN "open" ELSE "sealed"
  <1>1. blanks[p] > 0 \/ blanks[p] = 0
    OBVIOUS
  <1> QED BY <1>1 DEF VolumeState

(* The same of the state after a step.                                     *)
LEMMA VolumeCasesNext ==
  ASSUME NEW p \in Partition, blanks' \in [Partition -> Nat]
  PROVE  VolumeState(p)' = IF fs'[p] = "plain" THEN "plain"
                           ELSE IF blanks'[p] > 0 THEN "open" ELSE "sealed"
  <1>1. blanks'[p] > 0 \/ blanks'[p] = 0
    OBVIOUS
  <1> QED BY <1>1 DEF VolumeState

(* A step that changes the header of one partition changes one volume.     *)
LEMMA OneVolume ==
  ASSUME NEW p \in Partition, blanks \in [Partition -> Nat],
         blanks' \in [Partition -> Nat],
         \A q \in Partition \ {p} : fs'[q] = fs[q] /\ blanks'[q] = blanks[q]
  PROVE  VolBar' = [VolBar EXCEPT ![p] = VolumeState(p)']
  <1>1. \A q \in Partition \ {p} : VolumeState(q)' = VolumeState(q)
    BY VolumeCases, VolumeCasesNext
  <1> QED BY <1>1 DEF VolBar

(* One that changes no header changes no volume.                           *)
LEMMA NoVolume == fs' = fs /\ blanks' = blanks => VolBar' = VolBar
  BY DEF VolBar, VolumeState

(* Whatever a run adds or removes, its machine runs a Linux.               *)
LEMMA RunningLinux ==
  /\ booted.os \in OS \cup Media => RunningBar = "linux"
  /\ booted' = booted => RunningBar' = RunningBar
  BY DEF RunningBar

(* A blank keyslot more opens a volume that was sealed; with the Windows   *)
(* boot entry gone that is Open, and on a volume that was open already it  *)
(* is no more than RemoveEntry.                                            *)
LEMMA AddingIsOpening ==
  ASSUME NEW p \in Partition, TypeInv, HeaderInv, TypeInv',
         booted.os \in OS \cup Media, booted' = booted,
         Openable(p), blanks' = [blanks EXCEPT ![p] = @ + 1], fs' = fs, ~wbm'
  PROVE  LifeCycle!Open(p) \/ LifeCycle!RemoveEntry
  <1>0. blanks \in [Partition -> Nat] /\ blanks' \in [Partition -> Nat]
        /\ wbm' \in BOOLEAN
    BY DEF TypeInv, TypeOK
  <1>1. VolumeState(p)' = "open"
    <2>1. blanks'[p] > 0
      BY <1>0
    <2>2. fs'[p] # "plain"
      BY DEF Openable
    <2> QED BY <1>0, <2>1, <2>2, VolumeCasesNext
  <1>2. VolBar' = [VolBar EXCEPT ![p] = "open"]
    BY <1>0, <1>1, OneVolume
  <1>3. VolBar[p] \in {"open", "sealed"}
    BY <1>0, VolumeCases DEF VolBar, Openable
  <1>4. VolBar[p] = "open" => VolBar' = VolBar
    BY <1>2 DEF VolBar
  <1>5. RunningBar = "linux" /\ RunningBar' = RunningBar /\ wbm' = FALSE
    BY <1>0, RunningLinux
  <1> QED BY <1>2, <1>3, <1>4, <1>5 DEF LifeCycle!Open, LifeCycle!RemoveEntry

(* A blank keyslot less is invisible until the last one, which seals.      *)
LEMMA RemovingIsSealing ==
  ASSUME NEW p \in Partition, TypeInv, TypeInv',
         booted.os \in OS \cup Media, booted' = booted,
         RemoveOneBlank(p), fs' = fs, wbm' = wbm
  PROVE  LifeCycle!Seal(p) \/ UNCHANGED LifeCycle!vars
  <1>0. blanks \in [Partition -> Nat] /\ blanks' \in [Partition -> Nat]
    BY DEF TypeInv, TypeOK
  <1>1. VolumeState(p) = "open" /\ fs[p] # "plain"
    BY <1>0, VolumeCases DEF RemoveOneBlank, Openable
  <1>2. VolumeState(p)' \in {"open", "sealed"}
    BY <1>0, <1>1, VolumeCasesNext
  <1>3. VolBar' = [VolBar EXCEPT ![p] = VolumeState(p)']
    BY <1>0, OneVolume DEF RemoveOneBlank
  <1>4. VolBar[p] = "open"
    BY <1>1 DEF VolBar
  <1>5. VolumeState(p)' = "open" => VolBar' = VolBar
    BY <1>3, <1>4 DEF VolBar
  <1>6. RunningBar = "linux" /\ RunningBar' = RunningBar
    BY RunningLinux
  <1> QED BY <1>2, <1>3, <1>4, <1>5, <1>6 DEF LifeCycle!Seal, LifeCycle!vars

(* A step that changes neither a header nor what runs.                     *)
LEMMA HiddenStep ==
  ASSUME fs' = fs, blanks' = blanks, booted' = booted, wbm' = wbm
  PROVE  UNCHANGED LifeCycle!vars
  BY NoVolume, RunningLinux DEF LifeCycle!vars

(* A run in progress is on a Linux.                                        *)
LEMMA RunNeedsLinux ==
  TypeInv /\ job.pc # "idle" => booted.os \in OS \cup Media /\ job.os \in OS
  BY DEF TypeInv, JobShape

(* encrypt(): writing the LUKS header opens a plain volume, deleting the   *)
(* boot entry removes the entry, and nothing else is visible.              *)
LEMMA SimEncrypt ==
  ASSUME EfiDeleteReliable, TypeInv, TypeInv', WindowsInv, HeaderInv, EncryptStep
  PROVE  LifeCycle!Next \/ UNCHANGED LifeCycle!vars
  <1>0. /\ blanks \in [Partition -> Nat] /\ blanks' \in [Partition -> Nat]
        /\ fs \in [Partition -> FsState] /\ wbm \in BOOLEAN
    BY DEF TypeInv, TypeOK
  <1>1. CASE EncPrepare
    <2>1. /\ booted.os \in OS \cup Media /\ booted' = booted
          /\ fs' = fs /\ blanks' = blanks /\ wbm' = FALSE
      BY <1>1, RunNeedsLinux
         DEF EncPrepare, At, KillWindowsBootManager, diskVars
    <2>2. LifeCycle!RemoveEntry
      BY <2>1, NoVolume, RunningLinux DEF LifeCycle!RemoveEntry
    <2> QED BY <2>2 DEF LifeCycle!Next
  <1>2. CASE ReencryptStart
    <2>1. PICK p \in Partition : p = Part
      BY <1>2, PartIsPartition DEF ReencryptStart, At
    <2>2. /\ fs[p] = "plain" /\ fs'= [fs EXCEPT ![p] = "encrypting"]
          /\ blanks' = [blanks EXCEPT ![p] = 1] /\ wbm' = FALSE
          /\ booted.os \in OS \cup Media /\ booted' = booted
      BY <1>0, <1>2, <2>1, RunNeedsLinux
         DEF ReencryptStart, At, machineVars, WindowsInv
    <2>3. VolBar[p] = "plain"
      BY <1>0, <2>2, VolumeCases DEF VolBar
    <2>4. VolumeState(p)' = "open"
      BY <1>0, <2>2, VolumeCasesNext
    <2>5. VolBar' = [VolBar EXCEPT ![p] = "open"]
      BY <1>0, <2>2, <2>4, OneVolume
    <2>6. LifeCycle!Open(p)
      BY <2>2, <2>3, <2>5, RunningLinux DEF LifeCycle!Open
    <2> QED BY <2>6 DEF LifeCycle!Next
  <1>3. CASE ReencryptFinish
    <2>1. PICK p \in Partition : p = Part
      BY <1>3, PartIsPartition DEF ReencryptFinish, At
    <2>2. /\ fs[p] # "plain" /\ fs'= [fs EXCEPT ![p] = "luks2"]
          /\ blanks' = blanks /\ wbm' = wbm /\ booted' = booted
      BY <1>3, <2>1 DEF ReencryptFinish, At, machineVars, HeaderInv
    <2>3. VolumeState(p)' = VolumeState(p)
      BY <1>0, <2>2, VolumeCases, VolumeCasesNext
    <2>4. VolBar' = [VolBar EXCEPT ![p] = VolBar[p]]
      BY <1>0, <2>2, <2>3, OneVolume DEF VolBar
    <2>5. VolBar' = VolBar
      BY <2>4 DEF VolBar
    <2> QED BY <2>2, <2>5, RunningLinux DEF LifeCycle!vars
  <1>4. CASE ~(EncPrepare \/ ReencryptStart \/ ReencryptFinish)
    <2>1. UNCHANGED <<fs, blanks, booted, wbm>>
      BY <1>4 DEF EncryptStep, WriteBackup, EncNext, AddKey, OpenAndGrow,
                  CopyKeyToRoot, CloseMapping, diskVars, machineVars
    <2> QED BY <2>1, HiddenStep
  <1> QED BY <1>1, <1>2, <1>3, <1>4

(* The setup: adding a blank password opens, removing the last one seals.  *)
LEMMA SimSetup ==
  ASSUME EfiDeleteReliable, TypeInv, TypeInv', WindowsInv, HeaderInv, SetupStep
  PROVE  LifeCycle!Next \/ UNCHANGED LifeCycle!vars
  <1>0. wbm \in BOOLEAN
    BY DEF TypeInv, TypeOK
  <1>1. CASE SetupKillWindowsBootManager
    <2>1. /\ booted.os \in OS \cup Media /\ booted' = booted
          /\ fs' = fs /\ blanks' = blanks /\ wbm' = FALSE
      BY <1>1, RunNeedsLinux
         DEF SetupKillWindowsBootManager, At, KillWindowsBootManager, diskVars
    <2>2. LifeCycle!RemoveEntry
      BY <2>1, NoVolume, RunningLinux DEF LifeCycle!RemoveEntry
    <2> QED BY <2>2 DEF LifeCycle!Next
  <1>2. CASE SetupAddBlank
    <2>1. /\ booted.os \in OS \cup Media /\ booted' = booted /\ job.os \in OS
          /\ fs' = fs /\ wbm' = wbm /\ ~wbm
      BY <1>2, RunNeedsLinux DEF SetupAddBlank, At, machineVars, WindowsInv
    <2>2. CASE blanks' = blanks
      BY <2>1, <2>2, HiddenStep
    <2>3. ASSUME NEW r \in Roles, Openable(<<job.os, r>>),
                 blanks' = [blanks EXCEPT ![<<job.os, r>>] = @ + 1]
          PROVE  LifeCycle!Next
      <3>1. PICK p \in Partition : p = <<job.os, r>>
        BY <2>1 DEF Partition
      <3>2. LifeCycle!Open(p) \/ LifeCycle!RemoveEntry
        BY <2>1, <2>3, <3>1, AddingIsOpening
      <3> QED BY <3>2 DEF LifeCycle!Next
    <2> QED BY <1>2, <2>2, <2>3 DEF SetupAddBlank
  <1>3. CASE SetupRemoveBlank
    <2>1. /\ booted.os \in OS \cup Media /\ booted' = booted /\ job.os \in OS
          /\ fs' = fs /\ wbm' = wbm
      BY <1>3, RunNeedsLinux DEF SetupRemoveBlank, At, machineVars
    <2>2. CASE blanks' = blanks
      BY <2>1, <2>2, HiddenStep
    <2>3. ASSUME NEW r \in Roles, RemoveOneBlank(<<job.os, r>>)
          PROVE  LifeCycle!Next \/ UNCHANGED LifeCycle!vars
      <3>1. PICK p \in Partition : p = <<job.os, r>>
        BY <2>1 DEF Partition
      <3>2. LifeCycle!Seal(p) \/ UNCHANGED LifeCycle!vars
        BY <2>1, <2>3, <3>1, RemovingIsSealing
      <3> QED BY <3>2 DEF LifeCycle!Next
    <2> QED BY <1>3, <2>2, <2>3 DEF SetupRemoveBlank
  <1>4. CASE ~(SetupKillWindowsBootManager \/ SetupAddBlank \/ SetupRemoveBlank)
    <2>1. UNCHANGED <<fs, blanks, booted, wbm>>
      BY <1>4 DEF SetupStep, SetupAddress, SetupEvict, SetupPersist,
                  WriteUnsealScript, WritePacmanHook, InstallEfiBinary,
                  diskVars, machineVars
    <2> QED BY <2>1, HiddenStep
  <1> QED BY <1>1, <1>2, <1>3, <1>4

(* decrypt(): the last blank password seals, the conversions are           *)
(* invisible, and the end of the decryption makes a sealed volume plain.   *)
LEMMA SimDecrypt ==
  ASSUME TypeInv, TypeInv', HeaderInv, DecryptStep
  PROVE  LifeCycle!Next \/ UNCHANGED LifeCycle!vars
  <1>0. /\ blanks \in [Partition -> Nat] /\ blanks' \in [Partition -> Nat]
        /\ fs \in [Partition -> FsState]
    BY DEF TypeInv, TypeOK
  <1>1. CASE DecRemoveBlank
    <2>1. /\ booted.os \in OS \cup Media /\ booted' = booted
          /\ fs' = fs /\ wbm' = wbm
      BY <1>1, RunNeedsLinux DEF DecRemoveBlank, At, machineVars
    <2>2. CASE blanks' = blanks
      BY <2>1, <2>2, HiddenStep
    <2>3. CASE RemoveOneBlank(Part)
      <3>1. PICK p \in Partition : p = Part
        BY <1>1, PartIsPartition DEF DecRemoveBlank, At
      <3>2. LifeCycle!Seal(p) \/ UNCHANGED LifeCycle!vars
        BY <2>1, <2>3, <3>1, RemovingIsSealing
      <3> QED BY <3>2 DEF LifeCycle!Next
    <2> QED BY <1>1, <2>2, <2>3 DEF DecRemoveBlank
  <1>2. CASE DecConvertLuks1 \/ DecStart
    <2>1. PICK p \in Partition : p = Part
      BY <1>2, PartIsPartition DEF DecConvertLuks1, DecStart, At
    <2>2. PICK f \in {"luks1", "decrypting"} :
             /\ fs[p] # "plain" /\ fs'= [fs EXCEPT ![p] = f]
             /\ blanks' = blanks /\ wbm' = wbm /\ booted' = booted
      BY <1>2, <2>1 DEF DecConvertLuks1, DecStart, At, machineVars, HeaderInv
    <2>3. VolumeState(p)' = VolumeState(p)
      BY <1>0, <2>2, VolumeCases, VolumeCasesNext
    <2>4. VolBar' = [VolBar EXCEPT ![p] = VolBar[p]]
      BY <1>0, <2>2, <2>3, OneVolume DEF VolBar
    <2>5. VolBar' = VolBar
      BY <2>4 DEF VolBar
    <2> QED BY <2>2, <2>5, RunningLinux DEF LifeCycle!vars
  <1>3. CASE DecFinish
    <2>1. PICK p \in Partition : p = Part
      BY <1>3, PartIsPartition DEF DecFinish, At
    <2>2. /\ fs[p] # "plain" /\ blanks[p] = 0
          /\ fs' = [fs EXCEPT ![p] = "plain"]
          /\ blanks' = [blanks EXCEPT ![p] = 0]
          /\ booted.os \in OS \cup Media /\ booted' = booted /\ wbm' = wbm
      BY <1>3, <2>1, RunNeedsLinux DEF DecFinish, At, machineVars, HeaderInv
    <2>3. VolBar[p] = "sealed"
      BY <1>0, <2>2, VolumeCases DEF VolBar
    <2>4. VolumeState(p)' = "plain"
      BY <1>0, <2>2, VolumeCasesNext
    <2>5. VolBar' = [VolBar EXCEPT ![p] = "plain"]
      BY <1>0, <2>2, <2>4, OneVolume
    <2>6. LifeCycle!Decrypt(p)
      BY <2>2, <2>3, <2>5, RunningLinux DEF LifeCycle!Decrypt
    <2> QED BY <2>6 DEF LifeCycle!Next
  <1>4. CASE ~(DecRemoveBlank \/ DecConvertLuks1 \/ DecStart \/ DecFinish)
    <2>1. UNCHANGED <<fs, blanks, booted, wbm>>
      BY <1>4 DEF DecryptStep, DecOpenRoot, DecCloseRoot, DecNext,
                  DecConvertKeys, DecEvict, DecRemoveHooks,
                  diskVars, machineVars
    <2> QED BY <2>1, HiddenStep
  <1> QED BY <1>1, <1>2, <1>3, <1>4

(* Users, and the machine: switching off and booting are visible. Windows  *)
(* starts only when no volume is open.                                     *)
LEMMA SimRest ==
  ASSUME EfiDeleteReliable, TypeInv, TypeInv', WindowsInv, HeaderInv,
         Finish \/ Abort \/ User \/ Machine
  PROVE  LifeCycle!Next \/ UNCHANGED LifeCycle!vars
  <1>0. blanks \in [Partition -> Nat] /\ wbm \in BOOLEAN
    BY DEF TypeInv, TypeOK
  <1>1. ASSUME NEW p \in Partition, NEW k \in backups, AddBlankPassword(p, k)
        PROVE  LifeCycle!Next
    <2>1. LifeCycle!Open(p) \/ LifeCycle!RemoveEntry
      BY <1>1, AddingIsOpening
         DEF AddBlankPassword, KillWindowsBootManager, MenuMayStart,
             ScriptMayStart
    <2> QED BY <2>1 DEF LifeCycle!Next
  <1>2. CASE PowerOff
    <2>1. VolBar' = VolBar /\ wbm' = wbm
      BY <1>2, NoVolume DEF PowerOff, diskVars
    <2>2. RunningBar' = "off"
      BY <1>2, ConstantsAssumption DEF PowerOff, RunningBar
    <2> QED BY <2>1, <2>2 DEF LifeCycle!SwitchOff, LifeCycle!Next
  <1>3. CASE (\E o \in OS : BootLinux(o)) \/ \E m \in Media : BootMedium(m)
    <2>1. VolBar' = VolBar /\ wbm' = wbm
      BY <1>3, NoVolume DEF BootLinux, BootMedium, diskVars
    <2>2. RunningBar = "off"
      BY <1>3, ConstantsAssumption DEF BootLinux, BootMedium, RunningBar
    <2>3. booted'.os \in OS \cup Media
      <3>1. ASSUME NEW o \in OS, BootLinux(o) PROVE booted'.os = o
        BY <3>1 DEF BootLinux
      <3>2. ASSUME NEW m \in Media, BootMedium(m) PROVE booted'.os = m
        BY <3>2 DEF BootMedium
      <3> QED BY <1>3, <3>1, <3>2
    <2>4. RunningBar' = "linux"
      BY <2>3 DEF RunningBar
    <2> QED BY <2>1, <2>2, <2>4 DEF LifeCycle!StartLinux, LifeCycle!Next
  <1>4. CASE BootWindows
    <2>1. VolBar' = VolBar /\ wbm' \in {wbm, TRUE}
      BY <1>4, NoVolume DEF BootWindows, diskVars
    <2>2. RunningBar = "off" /\ RunningBar' = "windows"
      BY <1>4, ConstantsAssumption DEF BootWindows, RunningBar
    <2>3. \A p \in Partition : VolBar[p] # "open"
      <3>1. NoBlankPassword
        BY <1>4 DEF BootWindows, WindowsInv
      <3> QED BY <1>0, <3>1, VolumeCases DEF NoBlankPassword, VolBar
    <2> QED BY <2>1, <2>2, <2>3 DEF LifeCycle!StartWindows, LifeCycle!Next
  <1>5. CASE Finish \/ Abort \/ \E a \in Addr : WindowsUsesTpm(a)
    BY <1>5, HiddenStep DEF Finish, Abort, WindowsUsesTpm, diskVars, machineVars
  <1>6. ASSUME NEW o \in OS, NEW s, NEW k, NEW op,
               StartEncrypt(o, s, k) \/ StartDecrypt(o, s, k) \/ StartSetup(o, op)
        PROVE  UNCHANGED LifeCycle!vars
    BY <1>6, HiddenStep
       DEF StartEncrypt, StartDecrypt, StartSetup, diskVars, machineVars
  <1>7. CASE User
    BY <1>1, <1>6, <1>7 DEF User
  <1> QED BY <1>2, <1>3, <1>4, <1>5, <1>7 DEF Machine

(* Every volume keeps to the life cycle, whatever the number of OSes,      *)
(* partitions and keys and wherever runs are cut short: AutoTpmEncrypt     *)
(* implements SealLifeCycle if efibootmgr deletes what it is asked to.     *)
THEOREM VolumesKeepLifeCycle ==
  ASSUME EfiDeleteReliable
  PROVE  Spec => ImplementsLifeCycle
  <1>1. Init => LifeCycle!Init
    <2> SUFFICES ASSUME Init PROVE LifeCycle!Init
      OBVIOUS
    <2>1. VolBar = [p \in Partition |-> "plain"]
      BY DEF Init, VolBar, VolumeState
    <2>2. RunningBar = "off"
      BY ConstantsAssumption DEF Init, RunningBar
    <2> QED BY <2>1, <2>2 DEF Init, LifeCycle!Init
  <1>2. TypeInv /\ TypeInv' /\ WindowsInv /\ HeaderInv /\ [Next]_vars
        => [LifeCycle!Next]_LifeCycle!vars
    <2>1. UNCHANGED vars => UNCHANGED LifeCycle!vars
      BY HiddenStep DEF vars, diskVars, machineVars
    <2> QED BY <2>1, SimEncrypt, SimSetup, SimDecrypt, SimRest DEF Next, Script
  <1>3. TypeInv <=> TypeOK /\ JobShape
    BY DEF TypeInv
  <1> QED BY <1>1, <1>2, <1>3, TypeCorrect, WindowsInvariant, HeaderInvariant, PTL
          DEF Spec, ImplementsLifeCycle, LifeCycle!Spec

=============================================================================
