----------------------------- MODULE WizardProofs -----------------------------
(* Theorems about Wizard: the guarantees of AutoTpmEncrypt hold for a      *)
(* machine on which the update wizard runs too, the wizard's key file is   *)
(* always the right one, and the check of the booted OS is right when it   *)
(* says "sealed". For any number of keys, binaries, keyslots and TPM       *)
(* addresses (two or more), and any of the partitions SteamOS may have.    *)
EXTENDS Wizard, SetupProofs

(* The invariants of AutoTpmEncrypt, which every step keeps.               *)
Whole ==
    /\ Base /\ CourseInv /\ LuksInv /\ LoopInv /\ FreshInv
    /\ AllOpenable

(* The newest key file of a DATA_DIR is one of the backups.                *)
NewestInv == newest \in [Linux -> backups \cup {None}]

(* The partitions of each OS are one selection, so nobody leaves any out.  *)
LEMMA TheirSelection ==
  /\ OneSelection
  /\ \A o \in OS : Chosen[o] = RolesOf(o) /\ RolesOf(o) \in Selections[o]
  /\ SteamOS \in OS /\ Recovery \in OS /\ SteamOS # Recovery
  /\ RolesOf(SteamOS) = Roles /\ RolesOf(Recovery) = {"root"}
  /\ "root" \in Roles /\ \A o \in OS : RolesOf(o) \subseteq Roles
                                       /\ "root" \in RolesOf(o)
  <1>1. /\ OS = {SteamOS, Recovery} /\ SteamOS # Recovery
        /\ Selections = [o \in OS |-> {RolesOf(o)}]
    BY WizardAssumption
  <1>2. \A o \in OS : Selections[o] = {RolesOf(o)}
    BY <1>1
  <1>3. \A o \in OS : Chosen[o] = RolesOf(o)
    BY <1>2 DEF Chosen
  <1> QED BY <1>1, <1>2, <1>3, ConstantsAssumption DEF OneSelection, RolesOf

-----------------------------------------------------------------------------
(* The wizard asks for nothing else than what begins runs anyway: its keys *)
(* are backups, its partitions those of SteamOS.                           *)
LEMMA WizardAsks == NewestInv /\ WizardUser => Asks
  <1> SUFFICES ASSUME NewestInv, WizardUser PROVE Asks
    OBVIOUS
  <1> USE DEF MenuMayStart, ScriptMayStart, WizardMayStart
  <1>0. booted.os \in Linux => newest[booted.os] \in backups \cup {None}
    BY DEF NewestInv
  <1>1. ASSUME NEW k \in Key, WizardAddBlank(k) PROVE Asks
    <2>1. k \in backups
      BY <1>0, <1>1 DEF WizardAddBlank, TryToFindKeyfile, Linux
    <2>2. RecoveryRoot \in Partition
      BY TheirSelection DEF RecoveryRoot, Partition
    <2>3. CASE /\ Openable(RecoveryRoot) /\ k \in keys[RecoveryRoot]
               /\ HasFreeKeySlot(RecoveryRoot)
      <3>1. AddBlankPassword(RecoveryRoot, k)
        BY <1>1, <2>3 DEF WizardAddBlank, AddBlankPassword
      <3> QED BY <2>1, <2>2, <3>1 DEF Asks
    <2>4. CASE ~(/\ Openable(RecoveryRoot) /\ k \in keys[RecoveryRoot]
                 /\ HasFreeKeySlot(RecoveryRoot))
      <3>1. wbm' \in {FALSE, wbm}
        BY <1>1 DEF WizardAddBlank, KillWindowsBootManager
      <3>2. LookAround
        BY <1>1, <2>4, <3>1 DEF WizardAddBlank, LookAround, diskVars
      <3> QED BY <3>2 DEF Asks
    <2> QED BY <2>3, <2>4
  <1>2. ASSUME NEW k \in Key, WizardDecrypt(k) PROVE Asks
    <2>1. k \in backups
      BY <1>0, <1>2 DEF WizardDecrypt, TryToFindKeyfile, Linux
    <2>2. StartDecrypt(SteamOS, Roles, k)
      BY <1>2 DEF WizardDecrypt
    <2> QED BY <2>1, <2>2, TheirSelection DEF Asks
  <1>3. ASSUME NEW k \in Key \ backups, WizardEncrypt(k) PROVE Asks
    <2>1. BeginEncrypt(SteamOS, Roles, k)
      BY <1>3 DEF WizardEncrypt, BeginEncrypt
    <2> QED BY <2>1, TheirSelection DEF Asks
  <1>4. CASE WizardSeal
    BY <1>4 DEF WizardSeal, Asks
  <1>5. CASE CheckInterrupted
    <2>1. LookAround
      BY <1>5 DEF CheckInterrupted, LookAround
    <2> QED BY <2>1 DEF Asks
  <1>6. ASSUME NEW o \in OS, EnsureBootedOsIsSealed(o) PROVE Asks
    <2>1. wbm' \in {FALSE, wbm}
      BY <1>6 DEF EnsureBootedOsIsSealed, KillWindowsBootManager
    <2>2. LookAround
      BY <1>6, <2>1 DEF EnsureBootedOsIsSealed, LookAround
    <2> QED BY <2>2 DEF Asks
  <1> QED BY <1>1, <1>2, <1>3, <1>4, <1>5, <1>6 DEF WizardUser

(* So every step beside the wizard is one the lemmas of the other modules  *)
(* are about.                                                              *)
LEMMA WizardSteps == NewestInv /\ WizardNext => Script \/ Asks \/ Machine
  BY WizardAsks, UserAsks DEF WizardNext, Next

(* The invariants of AutoTpmEncrypt are kept.                              *)
LEMMA WholeStep == Whole /\ (Script \/ Asks \/ Machine) => Whole'
  <1> SUFFICES ASSUME Whole, Script \/ Asks \/ Machine PROVE Whole'
    OBVIOUS
  <1>0. /\ OneSelection
        /\ EncryptStep \/ SetupStep \/ DecryptStep \/ Finish \/ Abort \/ Asks
           \/ Machine
    BY TheirSelection DEF Script
  <1>1. /\ Base /\ Known /\ TypeInv /\ KeysInv /\ HeaderInv /\ RunInv /\ NameInv
        /\ KeyedInv /\ BinaryInv /\ BootedRootKeyed
        /\ CourseInv /\ LuksInv /\ LoopInv /\ FreshInv /\ AllOpenable
    BY DEF Whole, Base, Known
  <1>2. TypeInv'
    BY <1>0, <1>1, TypeEncrypt, TypeSetup, TypeDecrypt, TypeRest
  <1>3. KeysInv'
    BY <1>0, <1>1, KeysEncrypt, KeysSetup, KeysDecrypt, KeysRest
  <1>4. HeaderInv'
    BY <1>0, <1>1, HeaderEncrypt, HeaderSetup, HeaderDecrypt, HeaderRest
  <1>5. RunInv'
    BY <1>0, <1>1, RunEncrypt, RunSetup, RunDecrypt, RunRest
  <1>6. NameInv'
    BY <1>0, <1>1, NameEncrypt, NameDecrypt, NameRest
  <1>7. KeyedInv'
    BY <1>0, <1>1, KeyedEncrypt, KeyedSetup, KeyedDecrypt, KeyedRest
  <1>8. BinaryInv'
    BY <1>0, <1>1, BinaryEncrypt, BinarySetup, BinaryDecrypt, BinaryRest
  <1>9. BootedRootKeyed'
    BY <1>0, <1>1, BootedRootScript, BootedRootRest
  <1>10. CourseInv'
    BY <1>0, <1>1, CourseEncrypt, CourseSetup, CourseDecrypt, CourseRest
  <1>11. LuksInv'
    BY <1>0, <1>1, LuksEncrypt, LuksSetup, LuksDecrypt, LuksRest
  <1>12. LoopInv'
    BY <1>0, <1>1, LoopEncrypt, LoopSetup, LoopRest
  <1>13. FreshInv'
    BY <1>0, <1>1, FreshEncrypt, FreshSetup, FreshDecrypt, FreshRest
  <1>14. AllOpenable'
    BY <1>0, <1>1, OpenableEncrypt, OpenableSetup, OpenableDecrypt, OpenableRest
  <1> QED BY <1>2, <1>3, <1>4, <1>5, <1>6, <1>7, <1>8, <1>9, <1>10, <1>11,
             <1>12, <1>13, <1>14 DEF Whole, Base, Known

(* Only encrypt() stores a key, in the DATA_DIR of the OS it runs on.      *)
LEMMA BackupsGrow ==
  ASSUME TypeInv, Script \/ Asks \/ Machine
  PROVE  \/ backups' = backups
         \/ WriteBackup /\ backups' = backups \cup {job.key}
            /\ booted' = booted /\ booted.os \in Linux
  <1>1. CASE WriteBackup
    BY <1>1 DEF WriteBackup, TypeInv, JobShape, At, machineVars, Linux
  <1>2. CASE ~WriteBackup
    <2>1. CASE Asks
      BY <2>1, AsksStart
    <2>2. CASE Script \/ Machine
      BY <1>2, <2>2
         DEF Script, EncryptStep, SetupStep, DecryptStep, EncNext, EncPrepare,
             ReencryptStart, ReencryptFinish, AddKey, OpenAndGrow,
             CopyKeyToRoot, CloseMapping, SetupAddress, SetupEvict,
             SetupPersist, SetupKillWindowsBootManager, SetupAddBlank,
             SetupRemoveBlank, WriteUnsealScript, WritePacmanHook,
             InstallEfiBinary, DecOpenRoot, DecCloseRoot, DecNext,
             DecRemoveBlank, DecConvertKeys, DecConvertLuks1, DecStart,
             DecFinish, DecEvict, DecRemoveHooks, Finish, Abort, Machine,
             PowerOff, BootLinux, BootMedium, BootWindows, WindowsUsesTpm
    <2> QED BY <2>1, <2>2
  <1> QED BY <1>1, <1>2

(* The newest file stays a backup.                                         *)
LEMMA NewestStep == Whole /\ NewestInv /\ WizardNext => NewestInv'
  <1> SUFFICES ASSUME Whole, NewestInv, WizardNext PROVE NewestInv'
    OBVIOUS
  <1>0. TypeInv
    BY DEF Whole, Base, Known
  <1>1. CASE backups' = backups
    BY <1>1 DEF WizardNext, NewestInv
  <1>2. CASE backups' # backups
    <2>1. /\ backups' = backups \cup {job.key} /\ booted.os \in Linux
          /\ newest' = [newest EXCEPT ![booted.os] = job.key]
      BY <1>0, <1>2, BackupsGrow, WizardSteps DEF WizardNext, FileKey
    <2> QED BY <2>1 DEF NewestInv
  <1> QED BY <1>1, <1>2

-----------------------------------------------------------------------------
(* NewestKeyFits is not inductive: that a new key file never lies over the *)
(* key of a finished volume rests on encrypt() beginning only when the     *)
(* other OS has no LUKS volume left, down to the partitions it lacks.      *)
KeysFiled ==
    \A o, other \in OS : o # other =>
        \A r \in Roles :
            IsLuks(<<o, r>>) => keys[<<o, r>>] \subseteq {newest[other]}

OthersPlain == \A o \in OS : \A r \in Roles \ RolesOf(o) : fs[<<o, r>>] = "plain"

RunFiled ==
    /\ job.pc # "idle" => job.role \in RolesOf(job.os)
    /\ job.op = "encrypt" /\ job.pc # "backup" => newest[booted.os] = job.key
    /\ job.pc = "backup" => /\ job.key \notin backups
                            /\ \A r \in Roles : ~IsLuks(<<job.os, r>>)
    /\ job.pc \in {"reencrypting", "add_key"} => keys[Part] = {}
    /\ job.pc = "convert_luks1" => IsLuks(Part)

FilesInv == KeysFiled /\ OthersPlain /\ RunFiled

RunStep == EncryptStep \/ SetupStep \/ DecryptStep

(* A run keeps its OS and its key, and takes its partitions from its loop. *)
LEMMA RunGoesOn ==
  ASSUME TypeInv, RunStep
  PROVE  /\ job'.op = job.op /\ job'.os = job.os /\ job'.key = job.key
         /\ job'.role = job.role \/ job'.role \in job.todo
         /\ job.pc # "idle" /\ job.os \in OS /\ booted' = booted
         /\ job'.pc \notin {"idle", "backup"}
  <1>0. job \in Job
    BY DEF TypeInv, TypeOK
  <1>1. job.pc # "idle" /\ job.os \in OS /\ booted' = booted
    BY DEF TypeInv, JobShape, RunStep, EncryptStep, SetupStep, DecryptStep,
           WriteBackup, EncNext, EncPrepare, ReencryptStart, ReencryptFinish,
           AddKey, OpenAndGrow, CopyKeyToRoot, CloseMapping, SetupAddress,
           SetupEvict, SetupPersist, SetupKillWindowsBootManager, SetupAddBlank,
           SetupRemoveBlank, WriteUnsealScript, WritePacmanHook,
           InstallEfiBinary, DecOpenRoot, DecCloseRoot, DecNext, DecRemoveBlank,
           DecConvertKeys, DecConvertLuks1, DecStart, DecFinish, DecEvict,
           DecRemoveHooks, At, machineVars
  <1>2. CASE \E l \in Pc \ {"idle", "backup"}, r \in Roles :
               r \in job.todo /\ GotoWith(l, r)
    BY <1>0, <1>1, <1>2, GotoWithShape
  <1>3. CASE \E l \in Pc \ {"idle", "backup"} : Goto(l)
    BY <1>0, <1>1, <1>3 DEF Goto, Job
  <1>4. CASE job' = job /\ job.pc # "backup"
    BY <1>1, <1>4
  <1>5. CASE SetupAddress
    <2>1. PICK a \in Addr \cup {None}, l \in {"evict", "persist"} :
            job' = [job EXCEPT !.addr = a, !.pc = l]
      BY <1>1, <1>5 DEF SetupAddress, TypeInv, TypeOK
    <2> QED BY <1>0, <1>1, <2>1 DEF Job
  <1>6. CASE SetupPersist
    <2>1. PICK l \in {"kill_wbm", "remove_blank"} :
            job' = [job EXCEPT !.pc = l, !.todo = job.sel]
      BY <1>6 DEF SetupPersist
    <2> QED BY <1>0, <1>1, <2>1 DEF Job
  <1>7. CASE EncryptStep
    BY <1>2, <1>3, <1>7
       DEF EncryptStep, WriteBackup, EncNext, EncPrepare, ReencryptStart,
           ReencryptFinish, AddKey, OpenAndGrow, CopyKeyToRoot, CloseMapping,
           EncryptsNext, Pc
  <1>8. CASE SetupStep
    BY <1>2, <1>3, <1>4, <1>5, <1>6, <1>8
       DEF SetupStep, SetupEvict, SetupKillWindowsBootManager, SetupAddBlank,
           SetupRemoveBlank, WriteUnsealScript, WritePacmanHook,
           InstallEfiBinary, VisitsNext, At, Pc
  <1>9. CASE DecryptStep
    BY <1>2, <1>3, <1>4, <1>9
       DEF DecryptStep, DecOpenRoot, DecCloseRoot, DecNext, DecRemoveBlank,
           DecConvertKeys, DecConvertLuks1, DecStart, DecFinish, DecEvict,
           DecRemoveHooks, VisitsNext, At, Pc
  <1> QED BY <1>7, <1>8, <1>9 DEF RunStep

(* The steps of a run that write a header.                                 *)
LEMMA HeaderWriters ==
  ASSUME RunStep
  PROVE  \/ UNCHANGED <<fs, keys>>
         \/ ReencryptStart \/ ReencryptFinish \/ AddKey \/ DecConvertLuks1
         \/ DecStart \/ DecFinish
  BY DEF RunStep, EncryptStep, SetupStep, DecryptStep,
         WriteBackup, EncNext, EncPrepare,
         OpenAndGrow, CopyKeyToRoot, CloseMapping, SetupAddress,
         SetupEvict, SetupPersist, SetupKillWindowsBootManager, SetupAddBlank,
         SetupRemoveBlank, WriteUnsealScript, WritePacmanHook,
         InstallEfiBinary, DecOpenRoot, DecCloseRoot, DecNext, DecRemoveBlank,
         DecConvertKeys, DecEvict, DecRemoveHooks, diskVars

(* What those steps do to the volumes of the two OSes: only the partition  *)
(* of the run changes, and only AddKey puts a key on it, its own.          *)
LEMMA VolumesOfRun ==
  ASSUME Whole, FilesInv, RunStep
  PROVE  \A o \in OS, r \in Roles :
           \/ fs'[<<o, r>>] = fs[<<o, r>>] /\ keys'[<<o, r>>] = keys[<<o, r>>]
           \/ /\ o = job.os /\ r = job.role
              /\ \/ keys'[<<o, r>>] = {}
                 \/ keys'[<<o, r>>] = {job.key} /\ job.op = "encrypt"
                    /\ job.pc # "backup"
                 \/ keys'[<<o, r>>] = keys[<<o, r>>] /\ IsLuks(<<o, r>>)
                 \/ ~IsLuks(<<o, r>>)'
  <1>0. /\ TypeInv /\ job.os \in OS /\ job.pc # "idle" /\ job.role \in Roles
        /\ job \in Job
        /\ job.pc \in EncryptPc => job.op = "encrypt"
    BY RunGoesOn DEF Whole, Base, Known, TypeInv, TypeOK, Job, JobShape
  <1> SUFFICES ASSUME NEW o \in OS, NEW r \in Roles
               PROVE  \/ /\ fs'[<<o, r>>] = fs[<<o, r>>]
                         /\ keys'[<<o, r>>] = keys[<<o, r>>]
                      \/ /\ o = job.os /\ r = job.role
                         /\ \/ keys'[<<o, r>>] = {}
                            \/ /\ keys'[<<o, r>>] = {job.key}
                               /\ job.op = "encrypt" /\ job.pc # "backup"
                            \/ /\ keys'[<<o, r>>] = keys[<<o, r>>]
                               /\ IsLuks(<<o, r>>)
                            \/ ~IsLuks(<<o, r>>)'
    OBVIOUS
  <1>1. CASE UNCHANGED <<fs, keys>>
    BY <1>1
  <1>2. ASSUME NEW v, fs' = [fs EXCEPT ![Part] = v]
        PROVE  fs'[<<o, r>>] = IF o = job.os /\ r = job.role
                               THEN v ELSE fs[<<o, r>>]
    BY <1>0, <1>2, FsOfOthers
  <1>3. ASSUME NEW v, keys' = [keys EXCEPT ![Part] = v]
        PROVE  keys'[<<o, r>>] = IF o = job.os /\ r = job.role
                                 THEN v ELSE keys[<<o, r>>]
    BY <1>0, <1>3, KeysOfOthers
  <1>4. CASE ReencryptStart
    BY <1>2, <1>3, <1>4 DEF ReencryptStart
  <1>5. CASE ReencryptFinish
    <2>1. fs' = [fs EXCEPT ![Part] = "luks2"] /\ keys' = keys /\ keys[Part] = {}
      BY <1>5 DEF ReencryptFinish, FilesInv, RunFiled, At
    <2> QED BY <1>2, <2>1 DEF Part
  <1>6. CASE AddKey
    <2>1. /\ keys[Part] = {} /\ fs' = fs
          /\ job.op = "encrypt" /\ job.pc # "backup"
      BY <1>0, <1>6 DEF AddKey, FilesInv, RunFiled, At, EncryptPc
    <2>2. keys' = [keys EXCEPT ![Part] = {job.key}]
      <3>1. keys[Part] \cup {job.key} = {job.key}
        BY <2>1
      <3> QED BY <1>6, <3>1 DEF AddKey
    <2> QED BY <1>3, <2>1, <2>2
  <1>7. CASE DecConvertLuks1
    <2>1. fs' = [fs EXCEPT ![Part] = "luks1"] /\ keys' = keys /\ IsLuks(Part)
      BY <1>7 DEF DecConvertLuks1, FilesInv, RunFiled, At
    <2>2. CASE o = job.os /\ r = job.role
      <3>1. <<o, r>> = Part
        BY <2>2 DEF Part
      <3> QED BY <2>1, <2>2, <3>1
    <2>3. CASE ~(o = job.os /\ r = job.role)
      BY <1>2, <2>1, <2>3
    <2> QED BY <2>2, <2>3
  <1>8. CASE DecStart
    <2>1. fs' = [fs EXCEPT ![Part] = "decrypting"] /\ keys' = keys
      BY <1>8 DEF DecStart
    <2>2. fs'[<<o, r>>] = IF o = job.os /\ r = job.role
                          THEN "decrypting" ELSE fs[<<o, r>>]
      BY <1>2, <2>1
    <2>3. CASE o = job.os /\ r = job.role
      <3>1. fs'[<<o, r>>] = "decrypting"
        BY <2>2, <2>3
      <3>2. ~IsLuks(<<o, r>>)'
        BY <3>1 DEF IsLuks
      <3> QED BY <2>3, <3>2
    <2> QED BY <2>1, <2>2, <2>3
  <1>9. CASE DecFinish
    BY <1>2, <1>3, <1>9 DEF DecFinish
  <1> QED BY <1>1, <1>4, <1>5, <1>6, <1>7, <1>8, <1>9, HeaderWriters

(* The key files while a run goes on: WriteBackup files the key of the run *)
(* with the OS it runs on, which is the other one.                         *)
LEMMA FiledByRun ==
  ASSUME Media = {}, Whole, NewestInv, FilesInv, WizardNext, RunStep
  PROVE  /\ booted.os \in OS
         /\ job.op = "encrypt" => job.os # booted.os
         /\ \/ newest' = newest /\ ~WriteBackup
            \/ /\ WriteBackup /\ UNCHANGED <<fs, keys>>
               /\ newest'[booted.os] = job.key
               /\ \A o \in OS : o # booted.os => newest'[o] = newest[o]
               /\ \A r \in Roles : ~IsLuks(<<job.os, r>>)
               /\ job.op = "encrypt"
  <1>0. TypeInv
    BY DEF Whole, Base, Known
  <1>1. booted.os \in OS /\ Linux = OS
    BY <1>0, RunGoesOn DEF TypeInv, JobShape, Linux
  <1>2. job.op = "encrypt" => job.os # booted.os
    BY DEF Whole, Base, Known, RunInv
  <1>3. CASE WriteBackup
    <2>1. /\ job.key \notin backups /\ \A r \in Roles : ~IsLuks(<<job.os, r>>)
          /\ backups' = backups \cup {job.key} /\ job.op = "encrypt"
          /\ UNCHANGED <<fs, keys>>
      BY <1>0, <1>3 DEF WriteBackup, At, FilesInv, RunFiled, TypeInv, JobShape,
                        EncryptPc, diskVars
    <2>2. newest' = [newest EXCEPT ![booted.os] = job.key]
      BY <2>1 DEF WizardNext, FileKey
    <2> QED BY <1>1, <1>2, <1>3, <2>1, <2>2 DEF NewestInv
  <1>4. CASE ~WriteBackup
    <2>1. backups' = backups
      BY <1>0, <1>4, BackupsGrow DEF RunStep, Script
    <2> QED BY <1>1, <1>2, <1>4, <2>1 DEF WizardNext
  <1> QED BY <1>3, <1>4

(* A run leaves the key files fitting.                                     *)
LEMMA FilesRun ==
  ASSUME Media = {}, Whole, NewestInv, FilesInv, WizardNext, RunStep
  PROVE  FilesInv'
  <1>0. /\ TypeInv /\ job \in Job /\ job.todo \subseteq RolesOf(job.os)
        /\ job.role \in Roles /\ job.pc \in EncryptPc => job.op = "encrypt"
    <2>1. TypeInv /\ job \in Job /\ job.todo \subseteq job.sel
          /\ (job.pc # "idle" => job.sel = Chosen[job.os])
      BY DEF Whole, Base, Known, RunInv, TypeInv, TypeOK
    <2>2. job.os \in OS /\ job.pc # "idle"
      BY <2>1, RunGoesOn
    <2> QED BY <2>1, <2>2, TheirSelection DEF Job, TypeInv, JobShape
  <1>1. /\ job'.op = job.op /\ job'.os = job.os /\ job'.key = job.key
        /\ job'.role = job.role \/ job'.role \in job.todo
        /\ job.pc # "idle" /\ job.os \in OS /\ booted' = booted
        /\ job'.pc \notin {"idle", "backup"}
    BY <1>0, RunGoesOn
  <1>2. KeysFiled'
    <2> SUFFICES ASSUME NEW o \in OS, NEW other \in OS, o # other,
                        NEW r \in Roles, IsLuks(<<o, r>>)'
                 PROVE  keys'[<<o, r>>] \subseteq {newest'[other]}
      BY DEF KeysFiled
    <2>1. CASE WriteBackup
      <3>1. /\ IsLuks(<<o, r>>) /\ o # job.os /\ job.os # booted.os
            /\ booted.os \in OS /\ keys' = keys
            /\ \A c \in OS : c # booted.os => newest'[c] = newest[c]
        BY <2>1, FiledByRun DEF IsLuks
      <3>2. other # booted.os
        BY <1>1, <3>1, TheirSelection, WizardAssumption
      <3> QED BY <3>1, <3>2 DEF FilesInv, KeysFiled
    <2>2. CASE ~WriteBackup
      <3>1. newest' = newest /\ booted.os \in OS
            /\ (job.op = "encrypt" => job.os # booted.os)
        BY <2>2, FiledByRun
      <3>2. CASE /\ fs'[<<o, r>>] = fs[<<o, r>>]
                 /\ keys'[<<o, r>>] = keys[<<o, r>>]
        BY <3>1, <3>2 DEF FilesInv, KeysFiled, IsLuks
      <3>3. CASE keys'[<<o, r>>] = {}
        BY <3>3
      <3>4. CASE /\ o = job.os /\ keys'[<<o, r>>] = {job.key}
                 /\ job.op = "encrypt" /\ job.pc # "backup"
        <4>1. other = booted.os
          BY <3>1, <3>4, WizardAssumption
        <4>2. newest[booted.os] = job.key
          BY <3>4 DEF FilesInv, RunFiled
        <4> QED BY <3>1, <3>4, <4>1, <4>2
      <3>5. CASE keys'[<<o, r>>] = keys[<<o, r>>] /\ IsLuks(<<o, r>>)
        BY <3>1, <3>5 DEF FilesInv, KeysFiled
      <3> QED BY <3>2, <3>3, <3>4, <3>5, VolumesOfRun
    <2> QED BY <2>1, <2>2
  <1>3. OthersPlain'
    <2> SUFFICES ASSUME NEW o \in OS, NEW r \in Roles \ RolesOf(o)
                 PROVE  fs'[<<o, r>>] = "plain"
      BY DEF OthersPlain
    <2>1. ~(o = job.os /\ r = job.role)
      BY <1>1 DEF FilesInv, RunFiled
    <2> QED BY <2>1, VolumesOfRun DEF FilesInv, OthersPlain
  <1>4. job'.role \in RolesOf(job'.os)
    BY <1>0, <1>1 DEF FilesInv, RunFiled
  <1>5. job'.op = "encrypt" => newest'[booted'.os] = job'.key
    <2>1. CASE WriteBackup
      BY <1>1, <2>1, FiledByRun
    <2>2. CASE ~WriteBackup
      <3>1. newest' = newest
        BY <2>2, FiledByRun
      <3>2. job.pc # "backup" \/ job.op # "encrypt"
        BY <1>0, <2>2, GotoWithShape
           DEF RunStep, EncryptStep, SetupStep, DecryptStep, EncNext,
               EncPrepare, ReencryptStart, ReencryptFinish, AddKey, OpenAndGrow,
               CopyKeyToRoot, CloseMapping, SetupAddress, SetupEvict,
               SetupPersist, SetupKillWindowsBootManager, SetupAddBlank,
               SetupRemoveBlank, WriteUnsealScript, WritePacmanHook,
               InstallEfiBinary, DecOpenRoot, DecCloseRoot, DecNext,
               DecRemoveBlank, DecConvertKeys, DecConvertLuks1, DecStart,
               DecFinish, DecEvict, DecRemoveHooks, At
      <3> QED BY <1>1, <3>1, <3>2 DEF FilesInv, RunFiled
    <2> QED BY <2>1, <2>2
  <1>6. job'.pc \in {"reencrypting", "add_key"} => keys'[Part'] = {}
    <2> SUFFICES ASSUME job'.pc \in {"reencrypting", "add_key"}
                 PROVE  keys'[Part'] = {}
      OBVIOUS
    <2>1. ReencryptStart \/ ReencryptFinish
      BY ZenonT(60), <1>0, GotoWithShape
         DEF RunStep, EncryptStep, SetupStep, DecryptStep, WriteBackup, EncNext,
             EncPrepare, AddKey, OpenAndGrow, CopyKeyToRoot, CloseMapping,
             SetupAddress, SetupEvict, SetupPersist,
             SetupKillWindowsBootManager, SetupAddBlank, SetupRemoveBlank,
             WriteUnsealScript, WritePacmanHook, InstallEfiBinary, DecOpenRoot,
             DecCloseRoot, DecNext, DecRemoveBlank, DecConvertKeys,
             DecConvertLuks1, DecStart, DecFinish, DecEvict, DecRemoveHooks,
             At, Goto, Job, Pc
    <2>2. Part' = Part /\ Part \in Partition
      BY <1>0, <1>1, <2>1, PartIsPartition
         DEF ReencryptStart, ReencryptFinish, Goto, Part, Job
    <2>3. keys \in [Partition -> SUBSET Key]
      BY <1>0 DEF TypeInv, TypeOK
    <2> QED BY <2>1, <2>2, <2>3
            DEF ReencryptStart, ReencryptFinish, FilesInv, RunFiled, At
  <1>7. job'.pc = "convert_luks1" => IsLuks(Part)'
    <2> SUFFICES ASSUME job'.pc = "convert_luks1" PROVE IsLuks(Part)'
      OBVIOUS
    <2>1. DecConvertKeys
      BY ZenonT(60), <1>0, GotoWithShape
         DEF RunStep, EncryptStep, SetupStep, DecryptStep, WriteBackup, EncNext,
             EncPrepare, ReencryptStart, ReencryptFinish, AddKey, OpenAndGrow,
             CopyKeyToRoot, CloseMapping, SetupAddress, SetupEvict,
             SetupPersist, SetupKillWindowsBootManager, SetupAddBlank,
             SetupRemoveBlank, WriteUnsealScript, WritePacmanHook,
             InstallEfiBinary, DecOpenRoot, DecCloseRoot, DecNext,
             DecRemoveBlank, DecConvertLuks1, DecStart, DecFinish, DecEvict,
             DecRemoveHooks, At, Goto, Job, Pc
    <2> QED BY <1>0, <2>1 DEF DecConvertKeys, Goto, Part, Job, IsLuks, diskVars
  <1> QED BY <1>1, <1>2, <1>3, <1>4, <1>5, <1>6, <1>7 DEF FilesInv, RunFiled

(* An encryption begins with a new key and when the OS has no LUKS volume. *)
LEMMA EncryptsPlain ==
  ASSUME Whole, FilesInv, Next \/ WizardUser, job'.pc = "backup", job' # job
  PROVE  job'.key \notin backups /\ \A r \in Roles : ~IsLuks(<<job'.os, r>>)
  <1>0. TypeInv /\ job \in Job
    BY DEF Whole, Base, Known, TypeInv, TypeOK
  <1>1. ASSUME NEW o \in OS, NEW s \in Selections[o], NEW k \in Key \ backups,
               StartEncrypt(o, s, k)
        PROVE  job'.key \notin backups /\ \A r \in Roles : ~IsLuks(<<job'.os, r>>)
    <2>1. s = RolesOf(o)
      BY TheirSelection, ChosenIsSelection
    <2>2. \A r \in Roles : fs[<<o, r>>] = "plain"
      BY <1>1, <2>1 DEF StartEncrypt, FilesInv, OthersPlain
    <2>3. job'.key = k /\ job'.os = o
      BY <1>1 DEF StartEncrypt
    <2> QED BY <2>2, <2>3 DEF IsLuks
  <1>2. ASSUME NEW k \in Key \ backups, WizardEncrypt(k)
        PROVE  job'.key \notin backups /\ \A r \in Roles : ~IsLuks(<<job'.os, r>>)
    <2>1. job'.key = k /\ job'.os = SteamOS /\ EncryptedNvme = {}
      BY <1>2 DEF WizardEncrypt
    <2> QED BY <2>1 DEF EncryptedNvme
  <1>3. ~RunStep
    BY <1>0, RunGoesOn
  <1>4. ~(Finish \/ Abort \/ Machine)
    BY NoJobShape DEF Finish, Abort, Machine, PowerOff, BootLinux, BootMedium,
                      BootWindows, WindowsUsesTpm
  <1>5. ASSUME NEW o, NEW op, StartSetup(o, op) PROVE job'.pc = "address"
    BY <1>5 DEF StartSetup
  <1>6. ASSUME NEW o, NEW s, NEW k, StartDecrypt(o, s, k) PROVE job'.pc = "dec_open"
    BY <1>6 DEF StartDecrypt
  <1>7. ASSUME NEW p, NEW k, AddBlankPassword(p, k) PROVE job' = job
    BY <1>7 DEF AddBlankPassword
  <1>8. CASE User
    BY <1>1, <1>5, <1>6, <1>7, <1>8 DEF User
  <1>9. CASE WizardUser
    BY <1>2, <1>5, <1>6, <1>9
       DEF WizardUser, WizardAddBlank, WizardDecrypt, WizardSeal,
           CheckInterrupted, EnsureBootedOsIsSealed
  <1> QED BY <1>3, <1>4, <1>8, <1>9 DEF Next, Script, RunStep

(* Outside a run nobody writes a header or a key file; a run begins with   *)
(* the root.                                                               *)
LEMMA FilesRest ==
  ASSUME Whole, NewestInv, FilesInv, WizardNext, ~RunStep
  PROVE  FilesInv'
  <1>0. TypeInv
    BY DEF Whole, Base, Known
  <1>1. Finish \/ Abort \/ Asks \/ Machine
    BY WizardSteps DEF Script, RunStep
  <1>2. UNCHANGED <<fs, keys, backups>>
    <2>1. CASE Asks
      BY <2>1, AsksStart
    <2>2. CASE Finish \/ Abort \/ Machine
      BY <2>2 DEF Finish, Abort, Machine, PowerOff, BootLinux, BootMedium,
                  BootWindows, WindowsUsesTpm, diskVars
    <2> QED BY <1>1, <2>1, <2>2
  <1>3. newest' = newest
    BY <1>2 DEF WizardNext
  <1>4. KeysFiled' /\ OthersPlain'
    BY <1>2, <1>3 DEF FilesInv, KeysFiled, OthersPlain, IsLuks
  <1>5. /\ job'.pc \in {"idle", "backup", "dec_open", "address"}
        /\ job'.pc = "address" => job'.op # "encrypt"
    BY <1>0, <1>1, RestStarts
  <1>6. job'.pc \in {"idle", "dec_open"} => job'.op # "encrypt"
    <2>1. RunInv'
      BY <1>1, WholeStep DEF Script, Whole, Base, Known
    <2> QED BY <2>1 DEF RunInv, DecryptPc
  <1>7. job'.pc # "idle" => job'.role \in RolesOf(job'.os)
    <2>1. CASE Asks
      <3>1. ASSUME NEW o \in OS, NEW s, NEW k,
                   BeginEncrypt(o, s, k) \/ StartDecrypt(o, s, k)
            PROVE  job'.role = "root" /\ job'.os \in OS
        BY <3>1 DEF BeginEncrypt, StartDecrypt
      <3>2. ASSUME NEW o \in OS, NEW op, StartSetup(o, op)
            PROVE  job'.role = "root" /\ job'.os \in OS
        BY <3>2 DEF StartSetup
      <3>3. ASSUME NEW p, NEW k, AddBlankPassword(p, k) PROVE job' = job
        BY <3>3 DEF AddBlankPassword
      <3>4. LookAround => job' = job
        BY DEF LookAround
      <3>5. job.pc = "idle"
        BY <2>1, AsksStart, NoJobShape
      <3> QED BY <2>1, <3>1, <3>2, <3>3, <3>4, <3>5, TheirSelection DEF Asks
    <2>2. CASE Finish \/ Abort \/ Machine
      <3>1. job' = job \/ job' = NoJob
        BY <2>2 DEF Finish, Abort, Machine, PowerOff, BootLinux, BootMedium,
                    BootWindows, WindowsUsesTpm
      <3> QED BY <3>1, NoJobShape DEF FilesInv, RunFiled
    <2> QED BY <1>1, <2>1, <2>2
  <1>8. (job.pc = "backup" => /\ job.key \notin backups
                              /\ \A r \in Roles : ~IsLuks(<<job.os, r>>))'
    <2>1. CASE job' = job
      BY <1>2, <2>1 DEF FilesInv, RunFiled, IsLuks
    <2>2. CASE job' # job
      <3>1. job'.pc = "backup" => /\ job'.key \notin backups
                                  /\ \A r \in Roles : ~IsLuks(<<job'.os, r>>)
        BY <2>2, EncryptsPlain DEF WizardNext
      <3> QED BY <1>2, <3>1 DEF IsLuks
    <2> QED BY <2>1, <2>2
  <1> QED BY <1>4, <1>5, <1>6, <1>7, <1>8 DEF FilesInv, RunFiled

-----------------------------------------------------------------------------
(* The check of the booted OS looks at blank passwords only. It is right   *)
(* because an OS that runs its current binary and whose object is sealed   *)
(* to other PCRs was booted with the blank password, which is still there: *)
(* it is only taken away after the object was sealed anew. No new binary   *)
(* has the version of the running one.                                     *)
Misfits(o) ==
    /\ BootedFromCurrentBinary(o) /\ tpm[efi[o].addr] # None
    /\ tpm[efi[o].addr].key = secret[o] /\ tpm[efi[o].addr].pcr # booted

VerdictInv ==
    /\ \A o \in OS : Misfits(o) => blanks[Root(o)] > 0
    /\ \A o \in OS : booted.os = o /\ booted.ver # 0 => booted.ver <= efi[o].ver

(* An OS that runs its current binary has the root which the binary names. *)
LEMMA CurrentMatches ==
  ASSUME Whole, NEW o \in OS, BootedFromCurrentBinary(o)
  PROVE  /\ Match(o) /\ booted.os = o /\ efi[o] # None
         /\ hookAddr[o] = efi[o].addr /\ hookAddr[o] \in Addr
         /\ \A r \in Chosen[o] : secret[o] \in keys[<<o, r>>]
  <1>1. efi \in [OS -> EfiBinary \cup {None}]
    BY DEF Whole, Base, Known, TypeInv, TypeOK
  <1>2. booted.os = o /\ booted.ver # 0 /\ efi[o] # None /\ efi[o].addr \in Addr
    BY <1>1 DEF BootedFromCurrentBinary, EfiBinary
  <1>3. Match(o)
    BY <1>2 DEF Whole, FreshInv, BootedMatch
  <1> QED BY <1>2, <1>3 DEF Whole, FreshInv, Sealable

(* A step that keeps binaries and KEY_PATH of the booted OS and seals to   *)
(* nothing but the running binary, if it does not take the last blank      *)
(* password from the root.                                                 *)
LEMMA VerdictKept ==
  ASSUME TypeInv, VerdictInv, booted' = booted,
         \A o \in OS : booted.os = o =>
            /\ efi'[o] = efi[o] /\ secret'[o] = secret[o]
            /\ blanks[Root(o)] > 0 => blanks'[Root(o)] > 0,
         \A a \in Addr : \/ tpm'[a] = tpm[a] \/ tpm'[a] = None
                         \/ tpm'[a].pcr = booted
  PROVE  VerdictInv'
  <1>1. efi \in [OS -> EfiBinary \cup {None}]
    BY DEF TypeInv, TypeOK
  <1>2. ASSUME NEW o \in OS, Misfits(o)' PROVE blanks'[Root(o)] > 0
    <2>1. /\ booted.os = o /\ efi'[o] = efi[o] /\ secret'[o] = secret[o]
          /\ BootedFromCurrentBinary(o)
      BY <1>2 DEF Misfits, BootedFromCurrentBinary
    <2>2. efi[o].addr \in Addr
      BY <1>1, <2>1 DEF BootedFromCurrentBinary, EfiBinary
    <2>3. /\ tpm'[efi[o].addr] # None /\ tpm'[efi[o].addr].key = secret[o]
          /\ tpm'[efi[o].addr].pcr # booted
      BY <1>2, <2>1 DEF Misfits
    <2>4. tpm'[efi[o].addr] = tpm[efi[o].addr]
      BY <2>2, <2>3
    <2>5. Misfits(o)
      BY <2>1, <2>3, <2>4 DEF Misfits
    <2> QED BY <2>1, <2>5 DEF VerdictInv
  <1>3. \A o \in OS : booted'.os = o /\ booted'.ver # 0 => booted'.ver <= efi'[o].ver
    BY DEF VerdictInv
  <1> QED BY <1>2, <1>3 DEF VerdictInv, Root

(* A run seals before it takes blank passwords away, and encrypts and      *)
(* decrypts only the OS that is not booted.                                *)
LEMMA VerdictRun == ASSUME Whole, VerdictInv, RunStep PROVE VerdictInv'
  <1>0. /\ TypeInv /\ job \in Job /\ job.os \in OS /\ job.pc # "idle"
        /\ booted' = booted /\ booted \in Pcr
        /\ efi \in [OS -> EfiBinary \cup {None}]
        /\ secret \in [OS -> Key \cup {None}]
        /\ tpm \in [Addr -> Sealed \cup {None}]
        /\ blanks \in [Partition -> Nat]
        /\ job.op \in {"encrypt", "decrypt"} => job.os # booted.os
        /\ job.op \in {"hook", "menu"} => job.os = booted.os
        /\ job.pc \in EncryptPc => job.op = "encrypt"
        /\ job.pc \in DecryptPc => job.op = "decrypt"
    BY RunGoesOn DEF Whole, Base, Known, RunInv, TypeInv, TypeOK, JobShape
  <1> USE <1>0 DEF At
  <1>1. CASE SetupEvict \/ DecEvict \/ SetupPersist
    <2>1. UNCHANGED <<blanks, efi, secret>>
      BY <1>1 DEF SetupEvict, DecEvict, SetupPersist, diskVars, fileVars
    <2>2. \A a \in Addr : \/ tpm'[a] = tpm[a] \/ tpm'[a] = None
                          \/ tpm'[a].pcr = booted
      BY <1>1 DEF SetupEvict, DecEvict, SetupPersist
    <2> QED BY <2>1, <2>2, VerdictKept
  <1>2. CASE InstallEfiBinary
    <2>1. /\ efi' = [efi EXCEPT ![job.os] = NewBinary(job.os)]
          /\ UNCHANGED <<blanks, secret, tpm>>
      BY <1>2 DEF InstallEfiBinary, diskVars, machineVars
    <2>2. CASE job.os # booted.os
      BY <2>1, <2>2, VerdictKept
    <2>3. CASE job.os = booted.os
      <3>1. \A o \in OS : booted.os = o => o = job.os
        BY <2>3
      <3>2. booted.ver # 0 => efi[job.os] # None
        BY <2>3 DEF Whole, FreshInv, BootedMatch, Match
      <3>3. booted.ver \in Nat
        BY DEF Pcr
      <3>4. efi'[job.os] = NewBinary(job.os)
        BY <2>1
      <3>5. efi[job.os] # None => /\ efi[job.os].ver \in Nat
                                  /\ efi'[job.os].ver = efi[job.os].ver + 1
        BY <3>4 DEF NewBinary, EfiBinary
      <3>6. efi[job.os] = None => efi'[job.os].ver = 1
        BY <3>4 DEF NewBinary
      <3>7. booted.ver # 0 => booted.ver < efi'[job.os].ver
        BY <2>3, <3>2, <3>3, <3>5 DEF VerdictInv
      <3>8. booted.ver # efi'[job.os].ver
        BY <3>3, <3>5, <3>6, <3>7
      <3>9. \A o \in OS : ~Misfits(o)'
        BY <3>1, <3>8 DEF Misfits, BootedFromCurrentBinary
      <3>10. \A o \in OS : booted'.os = o /\ booted'.ver # 0
                            => booted'.ver <= efi'[o].ver
        BY <3>1, <3>3, <3>5, <3>6, <3>7
      <3> QED BY <3>9, <3>10 DEF VerdictInv
    <2> QED BY <2>2, <2>3
  <1>3. CASE CopyKeyToRoot
    <2>1. /\ secret' = [secret EXCEPT ![job.os] = job.key]
          /\ UNCHANGED <<blanks, efi, tpm>> /\ job.os # booted.os
      BY <1>3 DEF CopyKeyToRoot, diskVars, machineVars, EncryptPc
    <2> QED BY <2>1, VerdictKept
  <1>4. CASE ReencryptStart \/ DecFinish \/ DecRemoveBlank
    <2>1. UNCHANGED <<efi, tpm, secret>> /\ job.os # booted.os
      BY <1>4 DEF ReencryptStart, DecFinish, DecRemoveBlank, fileVars,
                  machineVars, EncryptPc, DecryptPc
    <2>2. blanks' = blanks \/ \E n : blanks' = [blanks EXCEPT ![Part] = n]
      BY <1>4 DEF ReencryptStart, DecFinish, DecRemoveBlank, RemoveOneBlank
    <2>3. ASSUME NEW o \in OS, booted.os = o
          PROVE  blanks'[Root(o)] = blanks[Root(o)]
      <3>1. Root(o) # Part /\ Root(o) \in Partition
        BY <2>1, <2>3, ChosenRoles DEF Root, Part, Partition
      <3> QED BY <2>2, <3>1
    <2> QED BY <2>1, <2>3, VerdictKept
  <1>5. CASE SetupAddBlank
    <2>1. UNCHANGED <<efi, tpm, secret>>
      BY <1>5 DEF SetupAddBlank, fileVars, machineVars
    <2>2. blanks' = blanks \/ \E p : blanks' = [blanks EXCEPT ![p] = @ + 1]
      BY <1>5 DEF SetupAddBlank
    <2>3. \A o \in OS : blanks[Root(o)] > 0 => blanks'[Root(o)] > 0
      BY <2>2, ChosenRoles DEF Root, Partition
    <2> QED BY <2>1, <2>3, VerdictKept
  <1>6. CASE SetupRemoveBlank
    <2>1. UNCHANGED <<efi, tpm, secret>>
      BY <1>6 DEF SetupRemoveBlank, fileVars, machineVars
    <2>2. job.op = "menu" /\ job.os = booted.os
      BY <1>6 DEF SetupRemoveBlank, Whole, Base, Known, RunInv
    <2>3. tpm[job.addr] = [key |-> secret[job.os], pcr |-> booted]
      BY <1>6, <2>2 DEF SetupRemoveBlank, Whole, LoopInv, RemoveLoop
    <2>4. ASSUME NEW o \in OS PROVE ~Misfits(o)'
      <3> SUFFICES ASSUME Misfits(o)' PROVE FALSE
        OBVIOUS
      <3>1. BootedFromCurrentBinary(o) /\ tpm[efi[o].addr].pcr # booted
        BY <2>1 DEF Misfits, BootedFromCurrentBinary
      <3>2. o = job.os /\ hookAddr[o] = efi[o].addr /\ hookAddr[o] # None
        BY <2>2, <3>1, CurrentMatches, ConstantsAssumption
      <3>3. job.addr = efi[o].addr
        BY <1>6, <3>2 DEF SetupRemoveBlank, Whole, CourseInv, AddressPc
      <3>4. tpm[efi[o].addr].pcr = booted
        BY <2>3, <3>3
      <3> QED BY <3>1, <3>4
    <2> QED BY <2>1, <2>4 DEF VerdictInv
  <1>7. CASE ~(\/ SetupEvict \/ DecEvict \/ SetupPersist \/ InstallEfiBinary
               \/ CopyKeyToRoot \/ ReencryptStart \/ DecFinish
               \/ DecRemoveBlank \/ SetupAddBlank \/ SetupRemoveBlank)
    <2>1. UNCHANGED <<efi, tpm, secret, blanks>>
      BY <1>7
         DEF RunStep, EncryptStep, SetupStep, DecryptStep, WriteBackup, EncNext,
             EncPrepare, ReencryptFinish, AddKey, OpenAndGrow, CloseMapping,
             SetupAddress, SetupKillWindowsBootManager, WriteUnsealScript,
             WritePacmanHook, DecOpenRoot, DecCloseRoot, DecNext,
             DecConvertKeys, DecConvertLuks1, DecStart, DecRemoveHooks,
             diskVars, fileVars, machineVars
    <2> QED BY <2>1, VerdictKept
  <1> QED BY <1>1, <1>2, <1>3, <1>4, <1>5, <1>6, <1>7

(* An encrypted OS comes up by an object sealed to the binary it boots, or *)
(* by the blank password on its root.                                      *)
LEMMA VerdictRest ==
  ASSUME Whole, VerdictInv, Finish \/ Abort \/ Asks \/ Machine
  PROVE  VerdictInv'
  <1>0. /\ TypeInv /\ blanks \in [Partition -> Nat]
        /\ efi \in [OS -> EfiBinary \cup {None}] /\ backups \subseteq Key
    BY DEF Whole, Base, Known, TypeInv, TypeOK
  <1>1. CASE Asks
    <2>1. UNCHANGED <<efi, tpm, secret, booted>>
      BY <1>1, AsksStart
    <2>2. blanks' = blanks \/ \E p : blanks' = [blanks EXCEPT ![p] = @ + 1]
      BY <1>1 DEF Asks, LookAround, BeginEncrypt, StartDecrypt, StartSetup,
                  AddBlankPassword, diskVars
    <2>3. \A o \in OS : blanks[Root(o)] > 0 => blanks'[Root(o)] > 0
      BY <1>0, <2>2, ChosenRoles DEF Root, Partition
    <2> QED BY <1>0, <2>1, <2>3, VerdictKept
  <1>2. CASE Finish \/ Abort
    <2>1. UNCHANGED <<efi, tpm, secret, booted, blanks>>
      BY <1>2 DEF Finish, Abort, diskVars, fileVars, machineVars
    <2> QED BY <1>0, <2>1, VerdictKept
  <1>3. CASE booted'.os \notin OS
    BY <1>3 DEF VerdictInv, Misfits, BootedFromCurrentBinary
  <1>4. ASSUME NEW o \in OS, BootLinux(o) PROVE VerdictInv'
    <2>1. /\ UNCHANGED <<efi, tpm, secret, blanks>> /\ booted'.os = o
          /\ \A c \in OS : booted'.os = c => c = o
      BY <1>4 DEF BootLinux, diskVars, fileVars
    <2>2. CASE booted' = [os |-> o, ver |-> 0]
      <3>1. ~Misfits(o)' /\ booted'.ver = 0
        BY <1>0, <2>1, <2>2 DEF Misfits, BootedFromCurrentBinary, EfiBinary
      <3>2. \A c \in OS : Misfits(c)' => c = o
        BY <2>1 DEF Misfits, BootedFromCurrentBinary
      <3> QED BY <3>1, <3>2 DEF VerdictInv
    <2>3. CASE CanBootEncrypted(o) /\ booted' = [os |-> o, ver |-> efi[o].ver]
      <3>1. efi[o] # None /\ efi[o].uuids["root"] # None
        BY <1>0, <2>3, ConstantsAssumption
           DEF CanBootEncrypted, Whole, Base, BinaryInv
      <3>2. TpmOpens(o, "root") \/ blanks[Root(o)] > 0
        BY <2>3, <3>1, ChosenRoles DEF CanBootEncrypted, Root
      <3>3. TpmOpens(o, "root") => ~Misfits(o)'
        BY <2>1, <2>3 DEF TpmOpens, Misfits
      <3>4. \A c \in OS : Misfits(c)' => c = o
        BY <2>1 DEF Misfits, BootedFromCurrentBinary
      <3>5. booted'.ver = efi'[o].ver /\ efi[o].ver \in Nat
        BY <1>0, <2>1, <2>3, <3>1 DEF EfiBinary
      <3>6. \A c \in OS : booted'.os = c /\ booted'.ver # 0
                           => booted'.ver <= efi'[c].ver
        BY <2>1, <3>5
      <3>7. \A c \in OS : Misfits(c)' => blanks'[Root(c)] > 0
        BY <2>1, <3>2, <3>3, <3>4
      <3> QED BY <3>6, <3>7 DEF VerdictInv, Root
    <2> QED BY <1>4, <2>2, <2>3 DEF BootLinux
  <1>5. Machine => (\E o \in OS : BootLinux(o)) \/ booted'.os \notin OS
    <2>1. PowerOff => booted'.os = "off"
      BY DEF PowerOff
    <2>2. BootWindows => booted'.os = "windows"
      BY DEF BootWindows
    <2>3. ASSUME NEW m \in Media, BootMedium(m) PROVE booted'.os = "live"
      BY <2>3, ConstantsAssumption DEF BootMedium
    <2>4. ASSUME NEW a, WindowsUsesTpm(a) PROVE booted'.os = "windows"
      BY <2>4 DEF WindowsUsesTpm
    <2> QED BY <2>1, <2>2, <2>3, <2>4, ConstantsAssumption DEF Machine
  <1> QED BY <1>1, <1>2, <1>3, <1>4, <1>5

-----------------------------------------------------------------------------
(* The machine as the guide leaves it: what is on each volume and in each  *)
(* file of the two OSes, key(o) being the key of OS o.                     *)
LEMMA SetUpState ==
  ASSUME SetUp
  PROVE  /\ TypeInv /\ job = NoJob /\ booted = [os |-> "off", ver |-> 0]
         /\ \A p \in Partition : blanks[p] = 0
         /\ \A a \in Addr : tpm[a] # None => tpm[a].key \in backups
         /\ \A o \in OS : pacHook[o] = RolesOf(o)
         /\ newest \in [Linux -> backups \cup {None}]
         /\ \A o, other \in OS : o # other => newest[other] = secret[o]
         /\ \A o \in OS :
              /\ secret[o] \in backups /\ efi[o] # None
              /\ hookAddr[o] = efi[o].addr
              /\ \A r \in RolesOf(o) :
                   /\ fs[<<o, r>>] = "luks2" /\ keys[<<o, r>>] = {secret[o]}
                   /\ uuid[<<o, r>>] = secret[o] /\ efi[o].uuids[r] = secret[o]
              /\ \A r \in Roles \ RolesOf(o) :
                   /\ fs[<<o, r>>] = "plain" /\ keys[<<o, r>>] = {}
                   /\ efi[o].uuids[r] = None
  <1>1. PICK ks \in Key, kr \in Key :
        LET key == [o \in OS |-> IF o = Recovery THEN kr ELSE ks]
            addr == [o \in OS |-> IF o = Recovery THEN 1 ELSE 0]
            luks == {p \in Partition : p[2] \in RolesOf(p[1])}
            binary(o) == [addr |-> addr[o], ver |-> 1,
                          uuids |-> [r \in Roles |->
                              IF r \in RolesOf(o) THEN key[o] ELSE None]]
            owner(a) == CHOOSE o \in {SteamOS, Recovery} : addr[o] = a
        IN
        /\ ks # kr
        /\ fs = [p \in Partition |-> IF p \in luks THEN "luks2" ELSE "plain"]
        /\ blanks = [p \in Partition |-> 0]
        /\ keys = [p \in Partition |-> IF p \in luks THEN {key[p[1]]} ELSE {}]
        /\ uuid = [p \in Partition |-> IF p \in luks THEN key[p[1]] ELSE None]
        /\ backups = {ks, kr}
        /\ secret = key
        /\ hookAddr = addr
        /\ pacHook = [o \in OS |-> RolesOf(o)]
        /\ efi = [o \in OS |-> binary(o)]
        /\ tpm = [a \in Addr |->
                    IF a \in {0, 1}
                    THEN [key |-> key[owner(a)],
                          pcr |-> [os |-> owner(a), ver |-> 1]]
                    ELSE None]
        /\ wbm \in BOOLEAN
        /\ booted = [os |-> "off", ver |-> 0]
        /\ mapped = FALSE
        /\ job = NoJob
        /\ newest = [o \in Linux |-> IF o = Recovery THEN ks
                                     ELSE IF o = SteamOS THEN kr ELSE None]
    BY DEF SetUp
  <1> DEFINE key == [o \in OS |-> IF o = Recovery THEN kr ELSE ks]
             addr == [o \in OS |-> IF o = Recovery THEN 1 ELSE 0]
             luks == {p \in Partition : p[2] \in RolesOf(p[1])}
             binary(o) == [addr |-> addr[o], ver |-> 1,
                           uuids |-> [r \in Roles |->
                               IF r \in RolesOf(o) THEN key[o] ELSE None]]
             owner(a) == CHOOSE o \in {SteamOS, Recovery} : addr[o] = a
  <1>2. /\ fs = [p \in Partition |-> IF p \in luks THEN "luks2" ELSE "plain"]
        /\ blanks = [p \in Partition |-> 0]
        /\ keys = [p \in Partition |-> IF p \in luks THEN {key[p[1]]} ELSE {}]
        /\ uuid = [p \in Partition |-> IF p \in luks THEN key[p[1]] ELSE None]
        /\ backups = {ks, kr}
        /\ secret = key
        /\ hookAddr = addr
        /\ pacHook = [o \in OS |-> RolesOf(o)]
        /\ efi = [o \in OS |-> binary(o)]
        /\ tpm = [a \in Addr |->
                    IF a \in {0, 1}
                    THEN [key |-> key[owner(a)],
                          pcr |-> [os |-> owner(a), ver |-> 1]]
                    ELSE None]
        /\ booted = [os |-> "off", ver |-> 0]
        /\ job = NoJob
        /\ newest = [o \in Linux |-> IF o = Recovery THEN ks
                                     ELSE IF o = SteamOS THEN kr ELSE None]
    BY <1>1
  <1>3. wbm \in BOOLEAN /\ mapped = FALSE
    BY <1>1
  <1>4. /\ \A o \in OS : key[o] \in {ks, kr}
        /\ \A o \in OS : addr[o] \in {0, 1}
        /\ 0 \in Addr /\ 1 \in Addr /\ 1 \in 1 .. MaxVer
    BY ConstantsAssumption, WizardAssumption DEF Addr
  <1>5. \A o, other \in OS : o # other => newest[other] = key[o]
    BY <1>2, WizardAssumption DEF Linux
  <1>6. \A o \in OS : /\ binary(o) \in EfiBinary
                      /\ binary(o).addr = addr[o]
                      /\ \A r \in Roles : binary(o).uuids[r] =
                           IF r \in RolesOf(o) THEN key[o] ELSE None
    <2> SUFFICES ASSUME NEW o \in OS
                 PROVE  /\ binary(o) \in EfiBinary
                        /\ binary(o).addr = addr[o]
                        /\ \A r \in Roles : binary(o).uuids[r] =
                             IF r \in RolesOf(o) THEN key[o] ELSE None
      OBVIOUS
    <2>1. PICK u : u = [r \in Roles |-> IF r \in RolesOf(o) THEN key[o] ELSE None]
      OBVIOUS
    <2>2. u \in [Roles -> Key \cup {None}]
      BY <1>4, <2>1
    <2>3. addr[o] \in Addr /\ 1 \in 1 .. MaxVer
      BY <1>4
    <2>4. binary(o) = [addr |-> addr[o], ver |-> 1, uuids |-> u]
      BY <2>1
    <2> HIDE DEF addr, key
    <2>5. [addr |-> addr[o], ver |-> 1, uuids |-> u] \in EfiBinary
      BY <2>2, <2>3 DEF EfiBinary
    <2> QED BY <2>1, <2>4, <2>5
  <1>7. \A a \in {0, 1} : owner(a) \in OS
    <2>1. \A a \in {0, 1} : \E o \in {SteamOS, Recovery} : addr[o] = a
      BY WizardAssumption
    <2> HIDE DEF addr
    <2>2. \A a \in {0, 1} : owner(a) \in {SteamOS, Recovery}
      BY <2>1
    <2> HIDE DEF owner
    <2> QED BY <2>2, WizardAssumption
  <1> HIDE DEF binary, owner
  <1>8. \A o \in OS, r \in Roles : <<o, r>> \in luks <=> r \in RolesOf(o)
    BY DEF Partition
  <1> HIDE DEF luks
  <1>9. \A o \in OS : key[o] \in Key
    BY <1>4
  <1> HIDE DEF key, addr
  <1>10. \A a \in Addr : \/ tpm[a] = None
                         \/ /\ tpm[a] \in Sealed /\ tpm[a].key \in backups
    <2> SUFFICES ASSUME NEW a \in Addr, a \in {0, 1}
                 PROVE  tpm[a] \in Sealed /\ tpm[a].key \in backups
      BY <1>2
    <2>1. tpm[a] = [key |-> key[owner(a)], pcr |-> [os |-> owner(a), ver |-> 1]]
      BY <1>2
    <2>2. owner(a) \in OS /\ 1 \in 0 .. MaxVer
      BY <1>4, <1>7
    <2>3. key[owner(a)] \in Key /\ key[owner(a)] \in backups
      BY <1>2, <1>4, <1>9, <2>2
    <2> QED BY <2>1, <2>2, <2>3 DEF Sealed, Pcr, Host
  <1>11. \A o \in OS : RolesOf(o) \subseteq Roles
    BY TheirSelection
  <1>12. TypeOK
    <2>1. fs \in [Partition -> FsState] /\ blanks \in [Partition -> Nat]
      BY <1>2 DEF FsState
    <2>2. keys \in [Partition -> SUBSET Key] /\ uuid \in [Partition -> Key \cup {None}]
      BY <1>2, <1>9 DEF Partition
    <2>3. /\ backups \in SUBSET Key /\ secret \in [OS -> Key \cup {None}]
          /\ hookAddr \in [OS -> Addr \cup {None}]
      BY <1>2, <1>4, <1>9 DEF key, addr
    <2>4. pacHook \in [OS -> SUBSET Roles] /\ efi \in [OS -> EfiBinary \cup {None}]
      BY <1>2, <1>6, <1>11
    <2>5. tpm \in [Addr -> Sealed \cup {None}]
      BY <1>2, <1>10
    <2>6. booted \in Pcr
      BY <1>2, ConstantsAssumption DEF Pcr, Host
    <2>7. job \in Job /\ wbm \in BOOLEAN /\ mapped \in BOOLEAN
      BY <1>2, <1>3, NoJobShape, Zenon
    <2> QED BY <2>1, <2>2, <2>3, <2>4, <2>5, <2>6, <2>7 DEF TypeOK
  <1>13. JobShape
    BY <1>2, NoJobShape DEF JobShape, EncryptPc, AddressPc
  <1>14. ASSUME NEW o \in OS
         PROVE  /\ secret[o] = key[o] /\ secret[o] \in backups
                /\ efi[o] = binary(o) /\ efi[o] # None
                /\ hookAddr[o] = efi[o].addr
    BY <1>2, <1>4, <1>6, NoneAssumption
  <1>15. ASSUME NEW o \in OS, NEW r \in Roles
         PROVE  /\ r \in RolesOf(o) =>
                     /\ fs[<<o, r>>] = "luks2" /\ keys[<<o, r>>] = {key[o]}
                     /\ uuid[<<o, r>>] = key[o] /\ efi[o].uuids[r] = key[o]
                /\ r \notin RolesOf(o) =>
                     /\ fs[<<o, r>>] = "plain" /\ keys[<<o, r>>] = {}
                     /\ efi[o].uuids[r] = None
    <2>1. <<o, r>> \in Partition
      BY DEF Partition
    <2> QED BY <1>2, <1>6, <1>8, <1>14, <2>1
  <1>16. newest \in [Linux -> backups \cup {None}]
    BY <1>2
  <1>17. /\ TypeInv /\ job = NoJob /\ booted = [os |-> "off", ver |-> 0]
         /\ \A p \in Partition : blanks[p] = 0
         /\ \A o \in OS : pacHook[o] = RolesOf(o)
    BY <1>2, <1>12, <1>13 DEF TypeInv
  <1>18. \A o, other \in OS : o # other => newest[other] = secret[o]
    BY <1>5, <1>14
  <1>19. \A o \in OS :
           /\ \A r \in RolesOf(o) :
                /\ fs[<<o, r>>] = "luks2" /\ keys[<<o, r>>] = {secret[o]}
                /\ uuid[<<o, r>>] = secret[o] /\ efi[o].uuids[r] = secret[o]
           /\ \A r \in Roles \ RolesOf(o) :
                /\ fs[<<o, r>>] = "plain" /\ keys[<<o, r>>] = {}
                /\ efi[o].uuids[r] = None
    BY <1>11, <1>14, <1>15
  <1>20. \A a \in Addr : tpm[a] # None => tpm[a].key \in backups
    BY <1>10
  <1> QED BY <1>14, <1>16, <1>17, <1>18, <1>19, <1>20

(* That machine satisfies all the invariants.                              *)
LEMMA SetUpWhole ==
  SetUp => Whole /\ NewestInv /\ FilesInv /\ VerdictInv
  <1> SUFFICES ASSUME SetUp PROVE Whole /\ NewestInv /\ FilesInv /\ VerdictInv
    OBVIOUS
  <1>1. /\ TypeInv /\ job = NoJob /\ booted = [os |-> "off", ver |-> 0]
        /\ \A p \in Partition : blanks[p] = 0
        /\ \A a \in Addr : tpm[a] # None => tpm[a].key \in backups
        /\ \A o \in OS : pacHook[o] = RolesOf(o)
    BY SetUpState
  <1>2. /\ NewestInv
        /\ \A o, other \in OS : o # other => newest[other] = secret[o]
    BY SetUpState DEF NewestInv
  <1>3. \A o \in OS :
          /\ secret[o] \in backups /\ efi[o] # None
          /\ hookAddr[o] = efi[o].addr
          /\ \A r \in RolesOf(o) :
               /\ fs[<<o, r>>] = "luks2" /\ keys[<<o, r>>] = {secret[o]}
               /\ uuid[<<o, r>>] = secret[o] /\ efi[o].uuids[r] = secret[o]
          /\ \A r \in Roles \ RolesOf(o) :
               /\ fs[<<o, r>>] = "plain" /\ keys[<<o, r>>] = {}
               /\ efi[o].uuids[r] = None
    BY SetUpState
  <1>4. job.pc = "idle" /\ job.op = "none" /\ job.todo = {} /\ job.sel = {}
    BY <1>1 DEF NoJob
  <1>5. booted.ver = 0 /\ \A o \in OS : booted.os # o
    BY <1>1, ConstantsAssumption
  <1>6. /\ \A o \in OS : /\ RolesOf(o) \subseteq Roles /\ "root" \in RolesOf(o)
                         /\ Chosen[o] = RolesOf(o)
        /\ "root" \in Roles
    BY TheirSelection
  <1>7. \A p \in Partition : \E o \in OS, r \in Roles : p = <<o, r>>
    BY DEF Partition
  <1>8. KeysInv
    BY <1>1, <1>3, <1>4, <1>7 DEF KeysInv, KeysBackedUp
  <1>9. HeaderInv
    BY <1>1, <1>4 DEF HeaderInv
  <1>10. RunInv
    BY <1>1, <1>4, <1>6 DEF RunInv, EncryptPc, DecryptPc, EncHeaderPc, DecHeaderPc
  <1>11. NameInv
    BY <1>3, <1>4, <1>7 DEF NameInv
  <1>12. KeyedInv
    BY <1>3, <1>4, <1>6
       DEF KeyedInv, RootStandsForAll, EncryptKeys, DecryptKeys, SetupKeys,
           HasKey, EncryptPc, DecryptPc, DecHeaderPc
  <1>13. BinaryInv /\ BootedRootKeyed
    BY <1>3, <1>4, <1>5, <1>6 DEF BinaryInv, BootedRootKeyed, HasKey, EncryptPc
  <1>14. CourseInv /\ LoopInv
    BY <1>4 DEF CourseInv, LoopInv, AddLoop, RemoveLoop, Installed, AddressPc
  <1>15. LuksInv
    BY <1>3, <1>4, <1>5, <1>6 DEF LuksInv, EncryptPc, SetupPc, AddressPc
  <1>16. FreshInv
    <2>1. FreshRoot /\ BootedMatch
      BY <1>4, <1>5 DEF FreshRoot, BootedMatch, SetupPc, AddressPc
    <2>2. ASSUME NEW o \in OS, NEW r \in Chosen[o]
          PROVE  secret[o] \in keys[<<o, r>>]
      <3>1. r \in RolesOf(o)
        BY <1>6
      <3>2. keys[<<o, r>>] = {secret[o]}
        BY <1>3, <3>1
      <3> QED BY <3>2
    <2>3. Sealable
      BY <1>3, <2>2 DEF Sealable
    <2>4. ASSUME NEW o \in OS, NEW r \in Roles, efi[o].uuids[r] # None
          PROVE  r \in Chosen[o]
      <3>1. r \in RolesOf(o)
        BY <1>3, <2>4
      <3> QED BY <1>6, <3>1
    <2> QED BY <2>1, <2>3, <2>4 DEF FreshInv, NamesChosen
  <1>17. AllOpenable
    BY SMTT(30), <1>3, <1>7 DEF AllOpenable
  <1>18. FilesInv
    BY <1>2, <1>3, <1>4 DEF FilesInv, KeysFiled, OthersPlain, RunFiled
  <1>19. VerdictInv
    BY <1>5 DEF VerdictInv, Misfits, BootedFromCurrentBinary
  <1> QED BY <1>1, <1>2, <1>8, <1>9, <1>10, <1>11, <1>12, <1>13, <1>14, <1>15,
             <1>16, <1>17, <1>18, <1>19 DEF Whole, Base, Known

(* A step that changes nothing keeps them.                                 *)
LEMMA WizardStutters ==
  ASSUME UNCHANGED wizardVars
  PROVE  /\ Whole => Whole'
         /\ NewestInv => NewestInv'
         /\ FilesInv => FilesInv'
         /\ VerdictInv => VerdictInv'
  <1>1. UNCHANGED <<fs, blanks, keys, uuid, backups, secret, hookAddr, pacHook,
                    efi, tpm, wbm, booted, mapped, job, newest>>
    BY DEF wizardVars, vars, diskVars, fileVars, machineVars
  <1>2. TypeInv => TypeInv'
    BY <1>1 DEF TypeInv, TypeOK, JobShape
  <1>3. KeysInv /\ HeaderInv /\ RunInv /\ NameInv
        => (KeysInv /\ HeaderInv /\ RunInv /\ NameInv)'
    BY <1>1 DEF KeysInv, KeysBackedUp, HeaderInv, RunInv, NameInv, Part
  <1>4. KeyedInv /\ BinaryInv /\ BootedRootKeyed
        => (KeyedInv /\ BinaryInv /\ BootedRootKeyed)'
    BY <1>1 DEF KeyedInv, RootStandsForAll, EncryptKeys, DecryptKeys, SetupKeys,
                BinaryInv, BootedRootKeyed, HasKey, Ahead
  <1>5. CourseInv /\ LuksInv => (CourseInv /\ LuksInv)'
    BY <1>1 DEF CourseInv, LuksInv, HasKey, Ahead, Part
  <1>6. LoopInv => LoopInv'
    BY <1>1 DEF LoopInv, AddLoop, RemoveLoop, Installed, OpensBlank, Openable
  <1>7. FreshInv /\ AllOpenable => (FreshInv /\ AllOpenable)'
    BY <1>1 DEF FreshInv, FreshRoot, Sealable, NamesChosen, BootedMatch, Match,
                AllOpenable
  <1>8. /\ NewestInv => NewestInv'
        /\ FilesInv => FilesInv'
    BY <1>1 DEF NewestInv, FilesInv, KeysFiled, OthersPlain, RunFiled, IsLuks, Part
  <1>9. VerdictInv => VerdictInv'
    BY <1>1 DEF VerdictInv, Misfits, BootedFromCurrentBinary
  <1> QED BY <1>2, <1>3, <1>4, <1>5, <1>6, <1>7, <1>8, <1>9 DEF Whole, Base, Known

(* The invariants, in every reachable state.                               *)
LEMMA WizardInvariant == WizardSpec => [](Whole /\ NewestInv /\ VerdictInv)
  <1>1. SetUp => Whole /\ NewestInv /\ VerdictInv
    BY SetUpWhole
  <1>2. Whole /\ NewestInv /\ VerdictInv /\ [WizardNext]_wizardVars
        => (Whole /\ NewestInv /\ VerdictInv)'
    <2> SUFFICES ASSUME Whole, NewestInv, VerdictInv, [WizardNext]_wizardVars
                 PROVE  (Whole /\ NewestInv /\ VerdictInv)'
      OBVIOUS
    <2>1. CASE WizardNext
      <3>1. Script \/ Asks \/ Machine
        BY <2>1, WizardSteps
      <3>2. VerdictInv'
        BY <3>1, VerdictRun, VerdictRest DEF Script, RunStep
      <3> QED BY <2>1, <3>1, <3>2, WholeStep, NewestStep
    <2>2. CASE UNCHANGED wizardVars
      BY <2>2, WizardStutters
    <2> QED BY <2>1, <2>2
  <1> QED BY <1>1, <1>2, PTL DEF WizardSpec

(* On a machine that is updated with the wizard too, wherever a run or the *)
(* update is cut short, every encrypted volume can be opened again: by the *)
(* blank password or by a key of which a backup exists.                    *)
THEOREM WizardRecoverable == WizardSpec => []Recoverable
  <1>1. Whole => Recoverable
    BY DEF Whole, Base, Known, KeysInv, KeysBackedUp, AllOpenable, Recoverable
  <1> QED BY <1>1, WizardInvariant, PTL

(* Windows never runs while a volume opens with the blank password, if     *)
(* efibootmgr deletes what it is asked to delete: the wizard's blank       *)
(* password comes after the boot entry is gone, like any other.            *)
THEOREM WizardKeepsWindowsOut ==
  ASSUME EfiDeleteReliable
  PROVE  WizardSpec => []WindowsOnlyWhenSealed
  <1>1. SetUp => WindowsInv
    <2>1. SetUp => /\ job.pc = "idle" /\ booted.os # "windows" /\ NoBlankPassword
      BY SetUpState, NoJobShape DEF NoBlankPassword
    <2> QED BY <2>1 DEF WindowsInv, WindowsOnlyWhenSealed
  <1>2. Whole /\ NewestInv /\ WindowsInv /\ [WizardNext]_wizardVars => WindowsInv'
    <2> SUFFICES ASSUME Whole, NewestInv, WindowsInv, [WizardNext]_wizardVars
                 PROVE  WindowsInv'
      OBVIOUS
    <2>1. CASE WizardNext
      <3>1. TypeInv
        BY DEF Whole, Base, Known
      <3>2. Script \/ Asks \/ Machine
        BY <2>1, WizardSteps
      <3> QED BY <3>1, <3>2, WindowsScript, WindowsRest DEF Script
    <2>2. CASE UNCHANGED wizardVars
      BY <2>2 DEF WindowsInv, WindowsOnlyWhenSealed, NoBlankPassword,
                  wizardVars, vars, diskVars, machineVars
    <2> QED BY <2>1, <2>2
  <1>3. WindowsInv => WindowsOnlyWhenSealed
    BY DEF WindowsInv
  <1> QED BY <1>1, <1>2, <1>3, WizardInvariant, PTL DEF WizardSpec

(* As long as the two OSes only encrypt each other, the newest key file in *)
(* the DATA_DIR of one, which try_to_find_keyfile() takes, is the key of   *)
(* each finished volume of the other.                                      *)
THEOREM WizardTakesRightKey ==
  ASSUME Media = {}
  PROVE  WizardSpec => []NewestKeyFits
  <1>1. SetUp => FilesInv
    BY SetUpWhole
  <1>2. Whole /\ NewestInv /\ FilesInv /\ [WizardNext]_wizardVars => FilesInv'
    BY FilesRun, FilesRest, WizardStutters
  <1>3. FilesInv => NewestKeyFits
    <2> SUFFICES ASSUME FilesInv, NEW o \in {SteamOS, Recovery},
                        NEW other \in {SteamOS, Recovery}, NEW r \in Roles,
                        o # other, IsLuks(<<o, r>>), keys[<<o, r>>] # {}
                 PROVE  newest[other] \in keys[<<o, r>>]
      BY DEF NewestKeyFits
    <2>1. o \in OS /\ other \in OS
      BY WizardAssumption
    <2>2. keys[<<o, r>>] \subseteq {newest[other]}
      BY <2>1 DEF FilesInv, KeysFiled
    <2> QED BY <2>2
  <1> QED BY <1>1, <1>2, <1>3, WizardInvariant, PTL DEF WizardSpec

(* When ensure_booted_os_is_sealed() says "sealed" on an OS that runs its  *)
(* current binary and the object at its address holds its own key, the TPM *)
(* opens every volume at the next boot: blank passwords alone are a sound  *)
(* witness, whatever was cut short, reinstalled or encrypted again before. *)
THEOREM SealedVerdictIsTrue == WizardSpec => []SealedVerdictTrue
  <1>1. Whole /\ VerdictInv => SealedVerdictTrue
    <2> SUFFICES ASSUME Whole, VerdictInv, NEW o \in OS, SaysSealed(o),
                        BootedFromCurrentBinary(o), tpm[hookAddr[o]] # None,
                        tpm[hookAddr[o]].key = secret[o], NEW r \in pacHook[o]
                 PROVE  TpmOpens(o, r)
      BY DEF SealedVerdictTrue
    <2>1. /\ hookAddr[o] = efi[o].addr
          /\ \A q \in Chosen[o] : secret[o] \in keys[<<o, q>>]
      BY CurrentMatches
    <2>2. pacHook[o] = Chosen[o] /\ "root" \in Chosen[o]
      BY TheirSelection DEF Whole, Base, Known, RunInv
    <2>3. blanks[Root(o)] = 0
      BY <2>2 DEF SaysSealed, Root
    <2>4. ~Misfits(o)
      BY <2>3 DEF VerdictInv
    <2>5. tpm[efi[o].addr].pcr = [os |-> o, ver |-> efi[o].ver]
      BY <2>1, <2>4 DEF Misfits, BootedFromCurrentBinary
    <2> QED BY <2>1, <2>2, <2>5 DEF TpmOpens
  <1> QED BY <1>1, WizardInvariant, PTL

=============================================================================
