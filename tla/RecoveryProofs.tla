---------------------------- MODULE RecoveryProofs ----------------------------
(* Wherever a run is cut short, every volume can be opened again: the      *)
(* proof of Recoverable, for users who always enter the same partitions of *)
(* an OS. (With different entries it is false, as the run Selection shows.) *)
EXTENDS AutoTpmEncryptProofs

OneSelection == \A o \in OS : \A s, t \in Selections[o] : s = t
Chosen == [o \in OS |-> UNION Selections[o]]

DecryptPc == {"dec_open", "dec_close", "dec_next", "dec_remove_blank",
              "convert_keys", "convert_luks1", "dec_start", "decrypting",
              "dec_evict", "dec_hooks"}

(* Where encrypt() and decrypt() work on the header of one partition.      *)
EncHeaderPc == {"prepare", "reencrypt", "reencrypting", "add_key"}
DecHeaderPc == {"dec_remove_blank", "convert_keys", "convert_luks1",
                "dec_start", "decrypting"}

Root(o) == <<o, "root">>

(* The order of the loops: encrypt() takes the root last, the others first. *)
LEMMA RootLast ==
  ASSUME NEW todo \in SUBSET Roles, EncryptsNext("root", todo)
  PROVE  todo \ {"root"} = {}
  <1>1. Rank["root"] = 3 /\ Rank["home"] = 2 /\ Rank["var"] = 1
    BY DEF Rank
  <1> QED BY <1>1, ConstantsAssumption DEF EncryptsNext, AllRoles

(* The loops of the setup and of decrypt() take the root first.            *)
LEMMA RootFirst ==
  ASSUME NEW todo \in SUBSET Roles, NEW r \in Roles, VisitsNext(r, todo)
  PROVE  "root" \notin todo \ {r}
  <1>1. Rank["root"] = 3 /\ Rank["home"] = 2 /\ Rank["var"] = 1
    BY DEF Rank
  <1> QED BY <1>1, ConstantsAssumption DEF VisitsNext, AllRoles

(* What the user enters is always the same, and contains the root.         *)
LEMMA ChosenIsSelection ==
  ASSUME OneSelection, NEW o \in OS, NEW s \in Selections[o]
  PROVE  s = Chosen[o] /\ "root" \in s
  BY ConstantsAssumption DEF OneSelection, Chosen

-----------------------------------------------------------------------------
(* What a run knows of itself: which partitions, on which OS, and what is  *)
(* left of its loop.                                                       *)
RunInv ==
    /\ job.pc = "idle" => job.op = "none"
    /\ job.pc # "idle" => job.sel = Chosen[job.os] /\ "root" \in job.sel
    /\ job.todo \subseteq job.sel
    /\ \A o \in OS : pacHook[o] \in {{}, Chosen[o]}
    /\ \A o \in OS : Chosen[o] = {} \/ "root" \in Chosen[o]
    /\ job.op \in {"encrypt", "decrypt"} => job.os # booted.os
    /\ job.op \in {"hook", "menu"} => job.os = booted.os
    /\ job.pc \in DecryptPc => job.op = "decrypt"
    /\ job.pc \in {"address", "evict", "persist"}
       => job.op \in {"encrypt", "hook", "menu"}
    /\ job.pc = "remove_blank" => job.op = "menu"
    /\ job.pc \in {"script", "pac_hook", "install"} => job.todo = {}
    /\ job.pc = "kill_wbm" => job.todo = job.sel
    /\ job.pc \in EncryptPc => "root" \in job.todo \/ job.todo = {}
    /\ job.pc \in EncHeaderPc => (job.role = "root" <=> job.todo = {})
    /\ job.pc \in {"dec_open", "dec_close"}
       => job.role = "root" /\ job.todo = job.sel
    /\ job.pc \in DecHeaderPc => job.role \notin job.todo /\ "root" \notin job.todo

(* encrypt() takes one partition after the other, the root last.           *)
LEMMA RunEncrypt == TypeInv /\ RunInv /\ EncryptStep => RunInv'
  <1> SUFFICES ASSUME TypeInv, RunInv, EncryptStep PROVE RunInv'
    OBVIOUS
  <1>0. job \in Job /\ (job.pc \in EncryptPc => job.op = "encrypt")
    BY DEF TypeInv, TypeOK, JobShape
  <1> USE <1>0 DEF RunInv, At, Goto, EncryptPc, DecryptPc, EncHeaderPc,
          DecHeaderPc, Job, fileVars, machineVars
  <1>1. CASE WriteBackup BY <1>1 DEF WriteBackup
  <1>2. CASE EncNext
    <2>1. CASE job.todo = {} /\ Goto("done")
      BY <1>2, <2>1 DEF EncNext
    <2>2. ASSUME NEW r \in Roles, EncryptsNext(r, job.todo), GotoWith("prepare", r)
          PROVE  RunInv'
      <3>1. /\ r = "root" => job.todo \ {r} = {}
            /\ r \in job.todo /\ "root" \in job.todo
        BY <1>2, <2>2, RootLast DEF EncNext, EncryptsNext
      <3>2. /\ job'.pc = "prepare" /\ job'.op = job.op /\ job'.os = job.os
            /\ job'.sel = job.sel /\ job'.role = r /\ job'.todo = job.todo \ {r}
        BY <2>2, GotoWithShape DEF Pc
      <3> QED BY <1>2, <3>1, <3>2 DEF EncNext
    <2> QED BY <1>2, <2>1, <2>2 DEF EncNext
  <1>3. CASE EncPrepare BY <1>3 DEF EncPrepare
  <1>4. CASE ReencryptStart BY <1>4 DEF ReencryptStart
  <1>5. CASE ReencryptFinish BY <1>5 DEF ReencryptFinish
  <1>6. CASE AddKey BY <1>6 DEF AddKey
  <1>7. CASE OpenAndGrow BY <1>7 DEF OpenAndGrow
  <1>8. CASE CopyKeyToRoot BY <1>8 DEF CopyKeyToRoot
  <1>9. CASE CloseMapping BY <1>9 DEF CloseMapping
  <1> QED BY <1>1, <1>2, <1>3, <1>4, <1>5, <1>6, <1>7, <1>8, <1>9 DEF EncryptStep

(* The setup runs through the partitions of the run that called it.        *)
LEMMA RunSetup == TypeInv /\ RunInv /\ SetupStep => RunInv'
  <1> SUFFICES ASSUME TypeInv, RunInv, SetupStep PROVE RunInv'
    OBVIOUS
  <1>0. job \in Job /\ pacHook \in [OS -> SUBSET Roles]
    BY DEF TypeInv, TypeOK
  <1> USE <1>0 DEF RunInv, At, Goto, EncryptPc, DecryptPc, EncHeaderPc,
          DecHeaderPc, Job, fileVars, machineVars
  <1>1. CASE SetupAddress
    <2>1. PICK a \in Addr \cup {None}, l \in {"evict", "persist"} :
            job' = [job EXCEPT !.addr = a, !.pc = l]
      BY <1>1 DEF SetupAddress, TypeInv, TypeOK, JobShape
    <2>2. /\ job'.os = job.os /\ job'.op = job.op /\ job'.sel = job.sel
          /\ job'.todo = job.todo /\ job'.role = job.role /\ job'.pc = l
      BY <2>1
    <2> QED BY <1>1, <2>2 DEF SetupAddress
  <1>2. CASE SetupEvict BY <1>2 DEF SetupEvict
  <1>3. CASE SetupPersist
    <2>1. PICK l \in {"kill_wbm", "remove_blank"} :
            /\ job' = [job EXCEPT !.pc = l, !.todo = job.sel]
            /\ l = "remove_blank" => job.op \notin {"encrypt", "hook"}
      BY <1>3 DEF SetupPersist, WasAutorun
    <2>2. /\ job'.os = job.os /\ job'.op = job.op /\ job'.sel = job.sel
          /\ job'.todo = job.sel /\ job'.role = job.role /\ job'.pc = l
      BY <2>1
    <2>3. l = "remove_blank" => job.op = "menu"
      BY <1>3, <2>1 DEF SetupPersist
    <2> QED BY <1>3, <2>2, <2>3 DEF SetupPersist
  <1>4. CASE SetupKillWindowsBootManager
    BY <1>4 DEF SetupKillWindowsBootManager
  <1>5. CASE SetupAddBlank
    <2>1. CASE job.todo = {} /\ Goto("script")
      BY <1>5, <2>1 DEF SetupAddBlank
    <2>2. ASSUME NEW r \in Roles, GotoWith("add_blank", r) PROVE RunInv'
      BY SMTT(30), <1>5, <2>2, GotoWithShape DEF SetupAddBlank, Pc
    <2> QED BY <1>5, <2>1, <2>2 DEF SetupAddBlank
  <1>6. CASE SetupRemoveBlank
    <2>1. CASE job.todo = {} /\ Goto("done")
      BY <1>6, <2>1 DEF SetupRemoveBlank
    <2>2. CASE UNCHANGED job
      BY <1>6, <2>2 DEF SetupRemoveBlank
    <2>3. ASSUME NEW r \in Roles, GotoWith("remove_blank", r) PROVE RunInv'
      BY SMTT(30), <1>6, <2>3, GotoWithShape DEF SetupRemoveBlank, Pc
    <2> QED BY <1>6, <2>1, <2>2, <2>3 DEF SetupRemoveBlank
  <1>7. CASE WriteUnsealScript BY <1>7 DEF WriteUnsealScript
  <1>8. CASE WritePacmanHook BY <1>8 DEF WritePacmanHook
  <1>9. CASE InstallEfiBinary BY <1>9 DEF InstallEfiBinary
  <1> QED BY <1>1, <1>2, <1>3, <1>4, <1>5, <1>6, <1>7, <1>8, <1>9 DEF SetupStep

(* decrypt() takes the root first.                                         *)
LEMMA RunDecrypt == TypeInv /\ RunInv /\ DecryptStep => RunInv'
  <1> SUFFICES ASSUME TypeInv, RunInv, DecryptStep PROVE RunInv'
    OBVIOUS
  <1>0. job \in Job /\ pacHook \in [OS -> SUBSET Roles]
    BY DEF TypeInv, TypeOK
  <1> USE <1>0 DEF RunInv, At, Goto, EncryptPc, DecryptPc, EncHeaderPc,
          DecHeaderPc, Job, fileVars, machineVars
  <1>1. CASE DecOpenRoot BY <1>1 DEF DecOpenRoot
  <1>2. CASE DecCloseRoot BY <1>2 DEF DecCloseRoot
  <1>3. CASE DecNext
    <2>1. CASE job.todo = {} /\ Goto("done")
      BY <1>3, <2>1 DEF DecNext
    <2>2. ASSUME NEW r \in Roles, VisitsNext(r, job.todo),
                 GotoWith("dec_remove_blank", r)
          PROVE  RunInv'
      <3>1. "root" \notin job.todo \ {r}
        BY <2>2, RootFirst
      <3>2. /\ job'.pc = "dec_remove_blank" /\ job'.op = job.op
            /\ job'.os = job.os /\ job'.sel = job.sel /\ job'.role = r
            /\ job'.todo = job.todo \ {r}
        BY <2>2, GotoWithShape DEF Pc
      <3> QED BY <1>3, <3>1, <3>2 DEF DecNext
    <2> QED BY <1>3, <2>1, <2>2 DEF DecNext
  <1>4. CASE DecRemoveBlank BY <1>4 DEF DecRemoveBlank
  <1>5. CASE DecConvertKeys BY <1>5 DEF DecConvertKeys
  <1>6. CASE DecConvertLuks1 BY <1>6 DEF DecConvertLuks1
  <1>7. CASE DecStart BY <1>7 DEF DecStart
  <1>8. CASE DecFinish BY <1>8 DEF DecFinish
  <1>9. CASE DecEvict BY <1>9 DEF DecEvict
  <1>10. CASE DecRemoveHooks BY <1>10 DEF DecRemoveHooks
  <1> QED BY <1>1, <1>2, <1>3, <1>4, <1>5, <1>6, <1>7, <1>8, <1>9, <1>10
          DEF DecryptStep

(* A machine without a Linux on it has no run.                             *)
LEMMA NoRunWhenOff ==
  ASSUME TypeInv, booted.os \in {"off", "windows"}
  PROVE  job.pc = "idle"
  BY ConstantsAssumption DEF TypeInv, JobShape

(* A run starts with the partitions the user enters or the hook names, for *)
(* an OS that is not booted or for the booted one.                         *)
LEMMA RunRest ==
  ASSUME OneSelection, TypeInv, RunInv, Finish \/ Abort \/ Asks \/ Machine
  PROVE  RunInv'
  <1>0. job \in Job
    BY DEF TypeInv, TypeOK
  <1> USE DEF RunInv, EncryptPc, DecryptPc, EncHeaderPc, DecHeaderPc,
              fileVars, machineVars
  <1>1. CASE Finish \/ Abort
    BY <1>1 DEF Finish, Abort, NoJob
  <1>2. ASSUME NEW o \in OS, NEW s \in Selections[o], NEW k,
               BeginEncrypt(o, s, k) \/ StartDecrypt(o, s, k)
        PROVE  RunInv'
    BY <1>2, ChosenIsSelection DEF BeginEncrypt, StartDecrypt
  <1>3. ASSUME NEW o \in OS, NEW op \in {"hook", "menu"}, StartSetup(o, op)
        PROVE  RunInv'
    BY <1>3 DEF StartSetup
  <1>4. ASSUME NEW p \in Partition, NEW k \in backups, AddBlankPassword(p, k)
        PROVE  RunInv'
    BY <1>4 DEF AddBlankPassword
  <1>5. CASE PowerOff
    BY <1>5 DEF PowerOff, NoJob
  <1>6. CASE (\E o \in OS : BootLinux(o)) \/ (\E m \in Media : BootMedium(m))
             \/ BootWindows
    <2>1. job.pc = "idle"
      BY <1>6, NoRunWhenOff DEF BootLinux, BootMedium, BootWindows
    <2> QED BY <1>6, <2>1 DEF BootLinux, BootMedium, BootWindows
  <1>7. ASSUME NEW a \in Addr, WindowsUsesTpm(a) PROVE RunInv'
    BY <1>7 DEF WindowsUsesTpm
  <1>8. CASE LookAround
    BY <1>8 DEF LookAround
  <1> HIDE DEF RunInv
  <1>9. CASE Asks BY <1>2, <1>3, <1>4, <1>8, <1>9 DEF Asks
  <1>10. CASE Machine BY <1>5, <1>6, <1>7, <1>10 DEF Machine
  <1> QED BY <1>1, <1>9, <1>10

(* The facts about runs hold in every reachable state.                     *)
LEMMA RunInvariant ==
  ASSUME OneSelection
  PROVE  Spec => []RunInv
  <1>1. Init => RunInv
    <2>1. \A o \in OS : Chosen[o] = {} \/ "root" \in Chosen[o]
      BY ConstantsAssumption DEF Chosen
    <2> QED BY <2>1 DEF Init, RunInv, NoJob, EncryptPc, DecryptPc,
                   EncHeaderPc, DecHeaderPc
  <1>2. RunInv /\ UNCHANGED vars => RunInv'
    BY DEF RunInv, vars, fileVars, machineVars
  <1>3. TypeInv /\ RunInv /\ [Next]_vars => RunInv'
    BY <1>2, RunEncrypt, RunSetup, RunDecrypt, RunRest, UserAsks DEF Next, Script
  <1>4. TypeInv <=> TypeOK /\ JobShape
    BY DEF TypeInv
  <1> QED BY <1>1, <1>3, <1>4, TypeCorrect, PTL DEF Spec

-----------------------------------------------------------------------------
(* A plain volume has no key, a volume with a key is named after a key     *)
(* that is backed up: the one of the run that encrypted it.                *)
NameInv ==
    /\ \A p \in Partition : fs[p] = "plain" => keys[p] = {}
    /\ \A p \in Partition : keys[p] # {} => uuid[p] \in backups
    /\ job.pc \in {"reencrypting", "add_key"} => uuid[Part] = job.key

(* The disk after encrypt() or decrypt() worked on its partition.          *)
LEMMA NameEncrypt ==
  TypeInv /\ KeysInv /\ HeaderInv /\ NameInv /\ EncryptStep => NameInv'
  <1> SUFFICES ASSUME TypeInv, KeysInv, HeaderInv, NameInv, EncryptStep
               PROVE  NameInv'
    OBVIOUS
  <1>0. /\ job \in Job /\ fs \in [Partition -> FsState]
        /\ keys \in [Partition -> SUBSET Key]
        /\ uuid \in [Partition -> Key \cup {None}]
        /\ job.pc # "idle" => Part \in Partition
        /\ job.pc \in EncryptPc => job.op = "encrypt"
    BY PartIsPartition DEF TypeInv, TypeOK, JobShape
  <1> USE <1>0 DEF NameInv, At, Goto, Part, Job, diskVars
  <1>1. CASE WriteBackup BY <1>1 DEF WriteBackup
  <1>2. CASE EncNext
    <2>1. job'.pc \in {"prepare", "done"}
      BY <1>2, GotoWithShape DEF EncNext, Pc
    <2> QED BY <1>2, <2>1 DEF EncNext
  <1>3. CASE EncPrepare BY <1>3 DEF EncPrepare
  <1>4. CASE ReencryptStart BY <1>4 DEF ReencryptStart
  <1>5. CASE ReencryptFinish BY <1>5 DEF ReencryptFinish
  <1>6. CASE AddKey
    <2>1. fs[Part] # "plain" /\ uuid[Part] \in backups
      BY <1>6 DEF AddKey, HeaderInv, KeysInv, EncryptPc
    <2> QED BY <1>6, <2>1 DEF AddKey
  <1>7. CASE OpenAndGrow BY <1>7 DEF OpenAndGrow
  <1>8. CASE CopyKeyToRoot BY <1>8 DEF CopyKeyToRoot
  <1>9. CASE CloseMapping BY <1>9 DEF CloseMapping
  <1> QED BY <1>1, <1>2, <1>3, <1>4, <1>5, <1>6, <1>7, <1>8, <1>9 DEF EncryptStep

(* decrypt() ends with a plain volume without keys.                        *)
LEMMA NameDecrypt == TypeInv /\ HeaderInv /\ NameInv /\ DecryptStep => NameInv'
  <1> SUFFICES ASSUME TypeInv, HeaderInv, NameInv, DecryptStep
               PROVE  NameInv'
    OBVIOUS
  <1>0. /\ job \in Job /\ fs \in [Partition -> FsState]
        /\ keys \in [Partition -> SUBSET Key]
        /\ uuid \in [Partition -> Key \cup {None}]
        /\ job.pc # "idle" => Part \in Partition
    BY PartIsPartition DEF TypeInv, TypeOK
  <1>1. job'.pc \notin {"reencrypting", "add_key"}
    BY ZenonT(60), <1>0, GotoWithShape
       DEF DecryptStep, DecOpenRoot, DecCloseRoot, DecNext, DecRemoveBlank,
           DecConvertKeys, DecConvertLuks1, DecStart, DecFinish, DecEvict,
           DecRemoveHooks, Goto, At, Job, Pc
  <1>2. CASE DecConvertLuks1 \/ DecStart
    BY <1>0, <1>1, <1>2 DEF DecConvertLuks1, DecStart, NameInv, Part
  <1>3. CASE DecFinish
    BY <1>0, <1>1, <1>3 DEF DecFinish, NameInv, Part, At
  <1>4. CASE ~(DecConvertLuks1 \/ DecStart \/ DecFinish)
    <2>1. UNCHANGED <<fs, keys, uuid, backups>>
      BY <1>4 DEF DecryptStep, DecOpenRoot, DecCloseRoot, DecNext,
           DecRemoveBlank, DecConvertKeys, DecEvict, DecRemoveHooks, diskVars
    <2> QED BY <1>1, <2>1 DEF NameInv
  <1> QED BY <1>2, <1>3, <1>4

(* Nobody else writes a header.                                            *)
LEMMA NameRest ==
  TypeInv /\ NameInv /\ (SetupStep \/ Finish \/ Abort \/ Asks \/ Machine)
  => NameInv'
  <1> SUFFICES ASSUME TypeInv, NameInv,
                      SetupStep \/ Finish \/ Abort \/ Asks \/ Machine
               PROVE  NameInv'
    OBVIOUS
  <1>1. UNCHANGED <<fs, keys, uuid, backups>>
    BY DEF SetupStep, SetupAddress, SetupEvict, SetupPersist,
           SetupKillWindowsBootManager, SetupAddBlank, SetupRemoveBlank,
           WriteUnsealScript, WritePacmanHook, InstallEfiBinary, Finish, Abort,
           Asks, LookAround, Machine, BeginEncrypt, StartDecrypt, StartSetup,
           AddBlankPassword, PowerOff, BootLinux, BootMedium, BootWindows,
           WindowsUsesTpm, diskVars
  <1>2. job' = job \/ job'.pc \notin {"reencrypting", "add_key"}
    <2>1. CASE SetupStep
      BY ZenonT(60), <2>1, GotoWithShape
         DEF SetupStep, SetupAddress, SetupEvict, SetupPersist,
             SetupKillWindowsBootManager, SetupAddBlank, SetupRemoveBlank,
             WriteUnsealScript, WritePacmanHook, InstallEfiBinary,
             Goto, Job, Pc, TypeInv, TypeOK
    <2>2. CASE Asks
      BY <2>2, AsksStart
    <2>3. CASE Finish \/ Abort \/ Machine
      <3>1. job' = job \/ job' = NoJob
        BY <2>3 DEF Finish, Abort, Machine, PowerOff, BootLinux, BootMedium,
                    BootWindows, WindowsUsesTpm
      <3> QED BY <3>1, NoJobShape
    <2> QED BY <2>1, <2>2, <2>3
  <1> QED BY <1>1, <1>2 DEF NameInv, Part

(* The names and keys of volumes agree in every reachable state.           *)
LEMMA NameInvariant == Spec => []NameInv
  <1>1. Init => NameInv
    BY NoJobShape DEF Init, NameInv
  <1>2. NameInv /\ UNCHANGED vars => NameInv'
    BY DEF NameInv, vars, diskVars, Part
  <1>3. TypeInv /\ KeysInv /\ HeaderInv /\ NameInv /\ [Next]_vars => NameInv'
    BY <1>2, NameEncrypt, NameDecrypt, NameRest, UserAsks DEF Next, Script
  <1>4. TypeInv <=> TypeOK /\ JobShape
    BY DEF TypeInv
  <1> QED BY <1>1, <1>3, <1>4, TypeCorrect, KeysInvariant, HeaderInvariant, PTL
          DEF Spec

-----------------------------------------------------------------------------
(* Who has a key when. The root gets its key last and loses it first, so a *)
(* root with a key stands for the whole OS.                                *)
Known == TypeInv /\ KeysInv /\ HeaderInv /\ RunInv /\ NameInv

HasKey(o, r) == keys[<<o, r>>] # {}

(* encrypt() has yet to give the partition its key.                        *)
Ahead(r) == r \in job.todo \/ (r = job.role /\ job.pc \in EncHeaderPc)

RootStandsForAll ==
    \A o \in OS : HasKey(o, "root") => \A r \in Chosen[o] : HasKey(o, r)

EncryptKeys ==
    job.pc \in EncryptPc =>
        /\ Ahead("root") => ~HasKey(job.os, "root")
        /\ \A r \in Chosen[job.os] : Ahead(r) \/ HasKey(job.os, r)

DecryptKeys ==
    /\ job.pc \in DecryptPc \ {"dec_open"} => \A r \in job.todo : HasKey(job.os, r)
    /\ job.pc \in DecHeaderPc =>
        /\ HasKey(job.os, job.role)
        /\ job.role # "root" => ~HasKey(job.os, "root")
    /\ job.pc \in {"dec_next", "dec_evict", "dec_hooks"} /\ "root" \notin job.todo
       => ~HasKey(job.os, "root")

SetupKeys ==
    /\ job.pc \in {"add_blank", "remove_blank", "script", "pac_hook", "install"}
    /\ "root" \notin job.todo
    => HasKey(job.os, "root")

KeyedInv == RootStandsForAll /\ EncryptKeys /\ DecryptKeys /\ SetupKeys

(* What the EFI binary says of the root: it names a key that is backed up, *)
(* and a root of that name has a key. A root being encrypted again has     *)
(* another name.                                                           *)
BinaryInv ==
    /\ \A o \in OS : efi[o] # None =>
          /\ efi[o].uuids["root"] \in backups
          /\ uuid[Root(o)] = efi[o].uuids["root"] => HasKey(o, "root")
    /\ /\ job.pc \in EncryptPc /\ efi[job.os] # None
       /\ \/ "root" \in job.todo
          \/ job.role = "root" /\ job.pc \in {"prepare", "reencrypt"}
       => efi[job.os].uuids["root"] # job.key

(* The root of the running OS is plain or has a key.                       *)
BootedRootKeyed ==
    \A o \in OS : booted.os = o => fs[Root(o)] = "plain" \/ HasKey(o, "root")

(* The keys after a step on the partition of the run.                      *)
LEMMA KeysOfOthers ==
  ASSUME TypeInv, job.pc # "idle", NEW v, keys' = [keys EXCEPT ![Part] = v]
  PROVE  \A o \in OS, r \in Roles :
           keys'[<<o, r>>] = IF o = job.os /\ r = job.role THEN v
                                                           ELSE keys[<<o, r>>]
  <1>1. keys \in [Partition -> SUBSET Key]
    BY DEF TypeInv, TypeOK
  <1> SUFFICES ASSUME NEW o \in OS, NEW r \in Roles
               PROVE  keys'[<<o, r>>] = IF o = job.os /\ r = job.role
                                        THEN v ELSE keys[<<o, r>>]
    OBVIOUS
  <1>2. <<o, r>> \in Partition
    BY DEF Partition
  <1>3. <<o, r>> = Part <=> o = job.os /\ r = job.role
    BY DEF Part
  <1> QED BY <1>1, <1>2, <1>3

(* What the user enters are partitions.                                    *)
LEMMA ChosenRoles == (\A o \in OS : Chosen[o] \subseteq Roles) /\ "root" \in Roles
  BY ConstantsAssumption DEF Chosen

(* encrypt() clears the keys of a partition only while the root has none,  *)
(* and gives the root its key when all the others have theirs.             *)
LEMMA KeyedEncrypt == Known /\ KeyedInv /\ EncryptStep => KeyedInv'
  <1> SUFFICES ASSUME Known, KeyedInv, EncryptStep PROVE KeyedInv'
    OBVIOUS
  <1>0. /\ TypeInv /\ job \in Job /\ job.pc \in EncryptPc /\ job.os \in OS
        /\ job.pc # "idle"
    BY DEF Known, TypeInv, TypeOK, JobShape, EncryptStep, WriteBackup, EncNext,
           EncPrepare, ReencryptStart, ReencryptFinish, AddKey, OpenAndGrow,
           CopyKeyToRoot, CloseMapping, At, EncryptPc
  <1>1. CASE EncNext
    <2>1. keys' = keys
      BY <1>1 DEF EncNext, diskVars
    <2>2. CASE job.todo = {} /\ Goto("done")
      <3>1. job'.pc = "done"
        BY <1>0, <2>2 DEF Goto, Job
      <3> QED BY <2>1, <3>1
              DEF KeyedInv, RootStandsForAll, EncryptKeys, DecryptKeys,
                  SetupKeys, HasKey, EncryptPc, DecryptPc, DecHeaderPc
    <2>3. ASSUME NEW r \in Roles, EncryptsNext(r, job.todo),
                 GotoWith("prepare", r)
          PROVE  KeyedInv'
      <3>1. /\ job'.pc = "prepare" /\ job'.os = job.os /\ job'.role = r
            /\ job'.todo = job.todo \ {r} /\ r \in job.todo
        BY <1>0, <2>3, GotoWithShape DEF Pc, EncryptsNext
      <3>2. \A q : Ahead(q)' <=> Ahead(q)
        BY <1>1, <3>1 DEF Ahead, EncHeaderPc, EncNext, At
      <3>3. EncryptKeys'
        BY <1>0, <2>1, <3>1, <3>2 DEF KeyedInv, EncryptKeys, HasKey
      <3> QED BY <2>1, <3>1, <3>3
              DEF KeyedInv, RootStandsForAll, DecryptKeys, SetupKeys, HasKey,
                  DecryptPc, DecHeaderPc
    <2> QED BY <1>1, <2>2, <2>3 DEF EncNext
  <1>2. CASE ReencryptStart
    <2>1. /\ job'.pc = "reencrypting" /\ job'.os = job.os
          /\ job'.role = job.role /\ job'.todo = job.todo
          /\ job.pc = "reencrypt"
      BY <1>0, <1>2 DEF ReencryptStart, Goto, At, Job
    <2>2. \A o \in OS, r \in Roles :
            keys'[<<o, r>>] = IF o = job.os /\ r = job.role THEN {}
                                                            ELSE keys[<<o, r>>]
      BY <1>0, <1>2, KeysOfOthers DEF ReencryptStart
    <2>3. Ahead("root") /\ ~HasKey(job.os, "root")
      <3>1. job.role = "root" \/ "root" \in job.todo
        BY <2>1 DEF Known, RunInv, EncHeaderPc, EncryptPc
      <3> QED BY <1>0, <2>1, <3>1 DEF Ahead, EncHeaderPc, KeyedInv, EncryptKeys
    <2>4. RootStandsForAll'
      BY <2>2, <2>3, ChosenRoles DEF KeyedInv, RootStandsForAll, HasKey
    <2>5. \A r \in Roles : Ahead(r)' <=> Ahead(r)
      BY <2>1 DEF Ahead, EncHeaderPc
    <2>6. Ahead(job.role)'
      BY <2>1 DEF Ahead, EncHeaderPc
    <2>7. ~HasKey(job.os, "root")'
      BY <1>0, <2>1, <2>2, <2>3, ChosenRoles DEF HasKey
    <2>8. ASSUME NEW r \in Chosen[job.os] PROVE Ahead(r)' \/ HasKey(job.os, r)'
      BY <1>0, <2>1, <2>2, <2>5, <2>6, ChosenRoles
         DEF HasKey, KeyedInv, EncryptKeys
    <2>9. EncryptKeys'
      BY <2>1, <2>7, <2>8 DEF EncryptKeys, HasKey
    <2> QED BY <2>1, <2>4, <2>9 DEF KeyedInv, DecryptKeys, SetupKeys,
                                    DecryptPc, DecHeaderPc
  <1>3. CASE AddKey
    <2>1. /\ job'.pc = "open" /\ job'.os = job.os
          /\ job'.role = job.role /\ job'.todo = job.todo
          /\ job.pc = "add_key"
      BY <1>0, <1>3 DEF AddKey, Goto, At, Job
    <2>2. \A o \in OS, r \in Roles :
            keys'[<<o, r>>] = IF o = job.os /\ r = job.role
                              THEN keys[Part] \cup {job.key}
                              ELSE keys[<<o, r>>]
      <3>1. keys' = [keys EXCEPT ![Part] = keys[Part] \cup {job.key}]
        BY <1>3 DEF AddKey
      <3> QED BY <1>0, <3>1, KeysOfOthers
    <2>3. job.role = "root" <=> job.todo = {}
      BY <2>1 DEF Known, RunInv, EncHeaderPc
    <2>4. ASSUME NEW r \in Chosen[job.os] PROVE Ahead(r)' \/ HasKey(job.os, r)'
      BY <1>0, <2>1, <2>2, ChosenRoles
         DEF HasKey, Ahead, KeyedInv, EncryptKeys
    <2>5. job.role = "root" => \A r \in Chosen[job.os] : HasKey(job.os, r)'
      BY <2>1, <2>3, <2>4 DEF Ahead, EncHeaderPc
    <2>6. \A o \in OS, r \in Roles : HasKey(o, r) => HasKey(o, r)'
      BY <2>2 DEF HasKey, Part
    <2>7. RootStandsForAll'
      <3> SUFFICES ASSUME NEW o \in OS, HasKey(o, "root")', NEW r \in Chosen[o]
                   PROVE  HasKey(o, r)'
        BY DEF RootStandsForAll
      <3>1. CASE o = job.os /\ job.role = "root"
        BY <2>1, <2>5, <3>1 DEF HasKey
      <3>2. CASE ~(o = job.os /\ job.role = "root")
        <4>1. HasKey(o, "root")
          BY <2>2, <3>2, ChosenRoles DEF HasKey
        <4> QED BY <2>6, <4>1, ChosenRoles DEF KeyedInv, RootStandsForAll
      <3> QED BY <3>1, <3>2
    <2>8. Ahead("root")' => ~HasKey(job.os, "root")'
      <3> SUFFICES ASSUME Ahead("root")' PROVE ~HasKey(job.os, "root")'
        OBVIOUS
      <3>1. "root" \in job.todo
        BY <2>1 DEF Ahead, EncHeaderPc
      <3>2. job.role # "root" /\ ~HasKey(job.os, "root")
        BY <1>0, <2>3, <3>1 DEF Ahead, KeyedInv, EncryptKeys
      <3> QED BY <1>0, <2>1, <2>2, <3>2, ChosenRoles DEF HasKey
    <2>9. EncryptKeys'
      BY <2>1, <2>4, <2>8 DEF EncryptKeys, HasKey
    <2> QED BY <2>1, <2>7, <2>9 DEF KeyedInv, DecryptKeys, SetupKeys,
                                    DecryptPc, DecHeaderPc
  <1>4. CASE ~(EncNext \/ ReencryptStart \/ AddKey)
    <2>1. /\ job'.os = job.os /\ job'.role = job.role /\ job'.todo = job.todo
          /\ job'.pc \in EncryptPc \cup {"address"}
          /\ (job'.pc \in EncHeaderPc <=> job.pc \in EncHeaderPc)
          /\ keys' = keys
      BY <1>0, <1>4
         DEF EncryptStep, WriteBackup, EncPrepare, ReencryptFinish,
             OpenAndGrow, CopyKeyToRoot, CloseMapping, diskVars, At, Goto, Job,
             EncHeaderPc, EncryptPc
    <2>2. \A r : Ahead(r)' <=> Ahead(r)
      BY <2>1 DEF Ahead
    <2>3. EncryptKeys'
      BY <1>0, <2>1, <2>2 DEF KeyedInv, EncryptKeys, HasKey
    <2>4. RootStandsForAll'
      BY <2>1 DEF KeyedInv, RootStandsForAll, HasKey
    <2> QED BY <2>1, <2>3, <2>4 DEF KeyedInv, DecryptKeys, SetupKeys,
                                    DecryptPc, DecHeaderPc, EncryptPc
  <1> QED BY <1>1, <1>2, <1>3, <1>4

(* The setup gets past the root only if the root has a key: luksAddKey     *)
(* needs one, and the menu works on the booted root.                       *)
LEMMA KeyedSetup ==
  Known /\ KeyedInv /\ BootedRootKeyed /\ SetupStep => KeyedInv'
  <1> SUFFICES ASSUME Known, KeyedInv, BootedRootKeyed, SetupStep
               PROVE  KeyedInv'
    OBVIOUS
  <1>0. job \in Job /\ job.os \in OS /\ TypeInv
    BY DEF Known, TypeInv, TypeOK, JobShape, SetupStep, SetupAddress,
           SetupEvict, SetupPersist, SetupKillWindowsBootManager,
           SetupAddBlank, SetupRemoveBlank, WriteUnsealScript,
           WritePacmanHook, InstallEfiBinary, At
  <1>1. keys' = keys
    BY DEF SetupStep, SetupAddress, SetupEvict, SetupPersist,
           SetupKillWindowsBootManager, SetupAddBlank, SetupRemoveBlank,
           WriteUnsealScript, WritePacmanHook, InstallEfiBinary, diskVars
  <1>2. RootStandsForAll'
    BY <1>1 DEF KeyedInv, RootStandsForAll, HasKey
  <1>3. \A o, r : HasKey(o, r)' <=> HasKey(o, r)
    BY <1>1 DEF HasKey
  <1>4. CASE SetupAddress \/ SetupEvict \/ SetupPersist
             \/ SetupKillWindowsBootManager
    <2>1. /\ job'.os = job.os
          /\ \/ job'.pc \in {"evict", "persist", "kill_wbm"}
             \/ job'.pc \in {"add_blank", "remove_blank"} /\ "root" \in job'.todo
      <3>1. CASE SetupAddress
        BY <1>0, <3>1 DEF SetupAddress, Job
      <3>2. CASE SetupEvict
        BY <1>0, <3>2 DEF SetupEvict, Goto, Job
      <3>3. CASE SetupPersist
        <4>1. "root" \in job.sel
          BY <3>3 DEF SetupPersist, At, Known, RunInv
        <4> QED BY <1>0, <3>3, <4>1 DEF SetupPersist, Job
      <3>4. CASE SetupKillWindowsBootManager
        <4>1. "root" \in job.todo
          BY <3>4 DEF SetupKillWindowsBootManager, At, Known, RunInv
        <4> QED BY <1>0, <3>4, <4>1 DEF SetupKillWindowsBootManager, Goto, Job
      <3> QED BY <1>4, <3>1, <3>2, <3>3, <3>4
    <2> QED BY <1>2, <2>1 DEF KeyedInv, EncryptKeys, DecryptKeys, SetupKeys,
                              EncryptPc, DecryptPc, DecHeaderPc
  <1>5. CASE SetupAddBlank
    <2>1. CASE job.todo = {} /\ Goto("script")
      <3>1. /\ job'.os = job.os /\ job'.todo = {} /\ job'.pc = "script"
            /\ HasKey(job.os, "root")
        BY <1>0, <1>5, <2>1
           DEF SetupAddBlank, At, Goto, Job, KeyedInv, SetupKeys
      <3> QED BY <1>2, <1>3, <3>1
              DEF KeyedInv, EncryptKeys, DecryptKeys, SetupKeys,
                  EncryptPc, DecryptPc, DecHeaderPc
    <2>2. ASSUME NEW r \in Roles, GotoWith("add_blank", r),
                 secret[job.os] \in keys[<<job.os, r>>]
          PROVE  KeyedInv'
      <3>1. /\ job'.os = job.os /\ job'.todo = job.todo \ {r}
            /\ job'.pc = "add_blank" /\ job.pc = "add_blank"
        BY <1>0, <1>5, <2>2, GotoWithShape DEF Pc, SetupAddBlank, At
      <3>2. HasKey(job.os, r)
        BY <2>2 DEF HasKey
      <3>3. SetupKeys'
        BY <1>3, <3>1, <3>2 DEF KeyedInv, SetupKeys
      <3> QED BY <1>2, <3>1, <3>3
              DEF KeyedInv, EncryptKeys, DecryptKeys,
                  EncryptPc, DecryptPc, DecHeaderPc
    <2> QED BY <1>5, <2>1, <2>2 DEF SetupAddBlank
  <1>6. CASE SetupRemoveBlank
    <2>1. CASE job.todo = {} /\ Goto("done")
      <3>1. job'.pc = "done"
        BY <1>0, <2>1 DEF Goto, Job
      <3> QED BY <1>2, <3>1
              DEF KeyedInv, EncryptKeys, DecryptKeys, SetupKeys,
                  EncryptPc, DecryptPc, DecHeaderPc
    <2>2. CASE UNCHANGED job
      BY <1>2, <1>3, <2>2
         DEF KeyedInv, EncryptKeys, DecryptKeys, SetupKeys, Ahead
    <2>3. ASSUME NEW r \in Roles, GotoWith("remove_blank", r),
                 Openable(<<job.os, r>>)
          PROVE  KeyedInv'
      <3>1. /\ job'.os = job.os /\ job'.todo = job.todo \ {r}
            /\ job'.pc = "remove_blank" /\ job.pc = "remove_blank"
        BY <1>0, <1>6, <2>3, GotoWithShape DEF Pc, SetupRemoveBlank, At
      <3>2. r = "root" => HasKey(job.os, r)
        <4>1. job.os = booted.os
          BY <3>1 DEF Known, RunInv
        <4> QED BY <1>0, <2>3, <4>1 DEF BootedRootKeyed, Openable, Root
      <3>3. SetupKeys'
        BY <1>3, <3>1, <3>2 DEF KeyedInv, SetupKeys
      <3> QED BY <1>2, <3>1, <3>3
              DEF KeyedInv, EncryptKeys, DecryptKeys,
                  EncryptPc, DecryptPc, DecHeaderPc
    <2> QED BY <1>6, <2>1, <2>2, <2>3 DEF SetupRemoveBlank
  <1>7. CASE WriteUnsealScript \/ WritePacmanHook \/ InstallEfiBinary
    <2>1. /\ job'.os = job.os /\ job'.todo = {}
          /\ job'.pc \in {"pac_hook", "install", "close", "done"}
          /\ HasKey(job.os, "root")
      BY <1>0, <1>7
         DEF WriteUnsealScript, WritePacmanHook, InstallEfiBinary, At, Goto,
             Job, KeyedInv, SetupKeys, Known, RunInv
    <2>2. \A r \in Chosen[job.os] : HasKey(job.os, r)
      BY <1>0, <2>1 DEF KeyedInv, RootStandsForAll
    <2>3. EncryptKeys'
      <3>1. job'.pc \in EncryptPc => ~Ahead("root")'
        BY <2>1 DEF Ahead, EncHeaderPc
      <3> QED BY <1>3, <2>1, <2>2, <3>1 DEF EncryptKeys
    <2> QED BY <1>2, <1>3, <2>1, <2>3
            DEF KeyedInv, DecryptKeys, SetupKeys, DecryptPc, DecHeaderPc
  <1> QED BY <1>4, <1>5, <1>6, <1>7 DEF SetupStep

(* decrypt() starts when the root has a key, hence when all have one, and  *)
(* takes the root's key away before any other.                             *)
LEMMA KeyedDecrypt == Known /\ KeyedInv /\ DecryptStep => KeyedInv'
  <1> SUFFICES ASSUME Known, KeyedInv, DecryptStep PROVE KeyedInv'
    OBVIOUS
  <1>0. /\ TypeInv /\ job \in Job /\ job.os \in OS /\ job.pc # "idle"
    BY DEF Known, TypeInv, TypeOK, JobShape, DecryptStep, DecOpenRoot,
           DecCloseRoot, DecNext, DecRemoveBlank, DecConvertKeys,
           DecConvertLuks1, DecStart, DecFinish, DecEvict, DecRemoveHooks, At
  <1>1. CASE DecOpenRoot
    <2>1. /\ job'.pc = "dec_close" /\ job'.os = job.os
          /\ job'.todo = job.sel /\ job.sel = Chosen[job.os] /\ keys' = keys
      BY <1>0, <1>1
         DEF DecOpenRoot, Goto, At, Job, Known, RunInv, diskVars
    <2>2. HasKey(job.os, "root")
      BY <1>1 DEF DecOpenRoot, At, Known, RunInv, HasKey, Part
    <2>3. \A r \in job'.todo : HasKey(job.os, r)'
      BY <1>0, <2>1, <2>2 DEF KeyedInv, RootStandsForAll, HasKey
    <2> QED BY <2>1, <2>3
            DEF KeyedInv, RootStandsForAll, HasKey, EncryptKeys, DecryptKeys,
                SetupKeys, EncryptPc, DecHeaderPc
  <1>2. CASE DecNext
    <2>1. keys' = keys /\ job.pc = "dec_next"
      BY <1>2 DEF DecNext, diskVars, At
    <2>2. CASE job.todo = {} /\ Goto("done")
      <3>1. job'.pc = "done"
        BY <1>0, <2>2 DEF Goto, Job
      <3> QED BY <2>1, <3>1
              DEF KeyedInv, RootStandsForAll, EncryptKeys, DecryptKeys,
                  SetupKeys, HasKey, EncryptPc, DecryptPc, DecHeaderPc
    <2>3. ASSUME NEW r \in Roles, VisitsNext(r, job.todo),
                 GotoWith("dec_remove_blank", r)
          PROVE  KeyedInv'
      <3>1. /\ job'.pc = "dec_remove_blank" /\ job'.os = job.os
            /\ job'.role = r /\ job'.todo = job.todo \ {r} /\ r \in job.todo
        BY <1>0, <2>3, GotoWithShape DEF Pc, VisitsNext
      <3>2. r # "root" => ~HasKey(job.os, "root")
        <4>1. "root" \notin job.todo \ {r}
          BY <1>0, <2>3, RootFirst DEF Job
        <4> QED BY <2>1, <4>1 DEF KeyedInv, DecryptKeys
      <3>3. \A q \in job.todo : HasKey(job.os, q)
        BY <2>1 DEF KeyedInv, DecryptKeys, DecryptPc
      <3>4. DecryptKeys'
        BY <2>1, <3>1, <3>2, <3>3 DEF DecryptKeys, HasKey
      <3> QED BY <2>1, <3>1, <3>4
              DEF KeyedInv, RootStandsForAll, HasKey, EncryptKeys, SetupKeys,
                  EncryptPc
    <2> QED BY <1>2, <2>2, <2>3 DEF DecNext
  <1>3. CASE DecFinish
    <2>1. /\ job.pc = "decrypting" /\ job'.os = job.os
          /\ job'.role = job.role /\ job'.todo = job.todo
          /\ job'.pc \in {"dec_evict", "dec_next"}
      BY <1>0, <1>3 DEF DecFinish, Goto, At, Job
    <2>2. \A o \in OS, r \in Roles :
            keys'[<<o, r>>] = IF o = job.os /\ r = job.role THEN {}
                                                            ELSE keys[<<o, r>>]
      BY <1>0, <1>3, KeysOfOthers DEF DecFinish
    <2>3. job.role \notin job.todo /\ job.todo \subseteq Roles
      BY <1>0, <2>1 DEF Known, RunInv, DecHeaderPc, Job
    <2>4. ~HasKey(job.os, "root")'
      BY <1>0, <2>1, <2>2, ChosenRoles
         DEF HasKey, KeyedInv, DecryptKeys, DecHeaderPc
    <2>5. RootStandsForAll'
      BY <2>1, <2>2, <2>4, ChosenRoles DEF KeyedInv, RootStandsForAll, HasKey
    <2>6. \A r \in job.todo : HasKey(job.os, r)'
      BY <1>0, <2>1, <2>2, <2>3
         DEF HasKey, KeyedInv, DecryptKeys, DecryptPc
    <2> QED BY <2>1, <2>4, <2>5, <2>6
            DEF KeyedInv, DecryptKeys, EncryptKeys, SetupKeys, EncryptPc,
                DecHeaderPc
  <1>4. CASE ~(DecOpenRoot \/ DecNext \/ DecFinish)
    <2>1. /\ job'.os = job.os /\ job'.role = job.role /\ job'.todo = job.todo
          /\ keys' = keys
      BY <1>0, <1>4
         DEF DecryptStep, DecCloseRoot, DecRemoveBlank, DecConvertKeys,
             DecConvertLuks1, DecStart, DecEvict, DecRemoveHooks, diskVars,
             Goto, Job
    <2>2. /\ job.pc \in DecryptPc \ {"dec_open"}
          /\ job'.pc \in DecryptPc \ {"dec_open"}
          /\ job'.pc \in DecHeaderPc <=> job.pc \in DecHeaderPc
          /\ \/ job.pc = "dec_close"
             \/ job'.pc \in {"dec_next", "dec_evict", "dec_hooks"}
                <=> job.pc \in {"dec_next", "dec_evict", "dec_hooks"}
      BY <1>0, <1>4
         DEF DecryptStep, DecCloseRoot, DecRemoveBlank, DecConvertKeys,
             DecConvertLuks1, DecStart, DecEvict, DecRemoveHooks, At, Goto,
             Job, DecryptPc, DecHeaderPc
    <2>3. job.pc = "dec_close" => "root" \in job.todo
      BY DEF Known, RunInv
    <2>4. \A o, r : HasKey(o, r)' <=> HasKey(o, r)
      BY <2>1 DEF HasKey
    <2>5. DecryptKeys'
      BY <2>1, <2>2, <2>3, <2>4 DEF KeyedInv, DecryptKeys
    <2> QED BY <2>2, <2>4, <2>5
            DEF KeyedInv, RootStandsForAll, EncryptKeys, SetupKeys, EncryptPc,
                DecryptPc
  <1> QED BY <1>1, <1>2, <1>3, <1>4

(* encrypt() starts on plain partitions, which have no key.                *)
LEMMA KeyedRest ==
  ASSUME OneSelection, Known, KeyedInv, Finish \/ Abort \/ Asks \/ Machine
  PROVE  KeyedInv'
  <1>1. keys' = keys
    BY DEF Finish, Abort, Asks, LookAround, Machine, BeginEncrypt, StartDecrypt,
           StartSetup, AddBlankPassword, PowerOff, BootLinux, BootMedium,
           BootWindows, WindowsUsesTpm, diskVars
  <1>2. RootStandsForAll' /\ \A o, r : HasKey(o, r)' <=> HasKey(o, r)
    BY <1>1 DEF KeyedInv, RootStandsForAll, HasKey
  <1>3. CASE job'.pc \in {"idle", "dec_open", "address"}
    BY <1>2, <1>3 DEF KeyedInv, EncryptKeys, DecryptKeys, SetupKeys, EncryptPc,
                      DecryptPc, DecHeaderPc
  <1>4. CASE job' = job
    BY <1>2, <1>4 DEF KeyedInv, EncryptKeys, DecryptKeys, SetupKeys, Ahead
  <1>5. ASSUME NEW o \in OS, NEW s \in Selections[o], NEW k, BeginEncrypt(o, s, k)
        PROVE  KeyedInv'
    <2>1. s = Chosen[o] /\ "root" \in s
      BY ChosenIsSelection
    <2>2. /\ job'.pc = "backup" /\ job'.os = o /\ job'.todo = s
          /\ fs[<<o, "root">>] = "plain"
      BY <1>5, <2>1 DEF BeginEncrypt
    <2>3. ~HasKey(o, "root")
      BY <2>2, ChosenRoles DEF Known, NameInv, HasKey, Partition
    <2>4. EncryptKeys'
      BY <1>2, <2>1, <2>2, <2>3 DEF EncryptKeys, Ahead
    <2> QED BY <1>2, <2>2, <2>4
            DEF KeyedInv, DecryptKeys, SetupKeys, DecryptPc, DecHeaderPc
  <1>6. CASE Asks
    <2>1. ASSUME NEW o \in OS, NEW s, NEW k, StartDecrypt(o, s, k)
          PROVE  KeyedInv'
      BY <1>3, <2>1 DEF StartDecrypt
    <2>2. ASSUME NEW o \in OS, NEW op, StartSetup(o, op)
          PROVE  KeyedInv'
      BY <1>3, <2>2 DEF StartSetup
    <2>3. ASSUME NEW p, NEW k, AddBlankPassword(p, k)
          PROVE  KeyedInv'
      BY <1>4, <2>3 DEF AddBlankPassword
    <2>4. CASE LookAround
      BY <1>4, <2>4 DEF LookAround
    <2> QED BY <1>5, <1>6, <2>1, <2>2, <2>3, <2>4 DEF Asks
  <1>7. CASE Finish \/ Abort \/ Machine
    <2>1. job' = job \/ job' = NoJob
      BY <1>7 DEF Finish, Abort, Machine, PowerOff, BootLinux, BootMedium,
                  BootWindows, WindowsUsesTpm
    <2> QED BY <1>3, <1>4, <2>1, NoJobShape
  <1> QED BY <1>6, <1>7

-----------------------------------------------------------------------------
(* encrypt() names the root after a new key, which no binary knows.        *)
LEMMA BinaryEncrypt == Known /\ BinaryInv /\ EncryptStep => BinaryInv'
  <1> SUFFICES ASSUME Known, BinaryInv, EncryptStep PROVE BinaryInv'
    OBVIOUS
  <1>0. /\ TypeInv /\ job \in Job /\ job.pc \in EncryptPc /\ job.os \in OS
        /\ job.pc # "idle" /\ uuid \in [Partition -> Key \cup {None}]
    BY DEF Known, TypeInv, TypeOK, JobShape, EncryptStep, WriteBackup, EncNext,
           EncPrepare, ReencryptStart, ReencryptFinish, AddKey, OpenAndGrow,
           CopyKeyToRoot, CloseMapping, At, EncryptPc
  <1>1. efi' = efi /\ backups \subseteq backups'
    BY DEF EncryptStep, WriteBackup, EncNext, EncPrepare, ReencryptStart,
           ReencryptFinish, AddKey, OpenAndGrow, CopyKeyToRoot, CloseMapping,
           fileVars
  <1>2. \A o \in OS : efi'[o] # None =>
          /\ efi'[o].uuids["root"] \in backups'
          /\ uuid'[Root(o)] = efi'[o].uuids["root"] => HasKey(o, "root")'
    <2>1. CASE ReencryptStart
      <3>1. uuid' = [uuid EXCEPT ![Part] = job.key] /\ job.pc = "reencrypt"
        BY <2>1 DEF ReencryptStart, At
      <3>2. \A o \in OS, r \in Roles :
              keys'[<<o, r>>] = IF o = job.os /\ r = job.role THEN {}
                                                              ELSE keys[<<o, r>>]
        BY <1>0, <2>1, KeysOfOthers DEF ReencryptStart
      <3> SUFFICES ASSUME NEW o \in OS, efi[o] # None
                   PROVE  /\ efi[o].uuids["root"] \in backups'
                          /\ uuid'[Root(o)] = efi[o].uuids["root"]
                             => HasKey(o, "root")'
        BY <1>1
      <3>3. Root(o) \in Partition
        BY ChosenRoles DEF Root, Partition
      <3>4. CASE o = job.os /\ job.role = "root"
        <4>1. uuid'[Root(o)] = job.key
          BY <1>0, <3>1, <3>3, <3>4 DEF Root, Part
        <4>2. efi[o].uuids["root"] # job.key
          BY <1>0, <3>1, <3>4 DEF BinaryInv
        <4> QED BY <1>1, <4>1, <4>2 DEF BinaryInv
      <3>5. CASE ~(o = job.os /\ job.role = "root")
        <4>1. Root(o) # Part
          BY <3>5 DEF Root, Part
        <4>2. uuid'[Root(o)] = uuid[Root(o)]
          BY <1>0, <3>1, <3>3, <4>1
        <4>3. keys'[<<o, "root">>] = keys[<<o, "root">>]
          BY <3>2, <3>5, ChosenRoles
        <4> QED BY <1>1, <4>2, <4>3 DEF BinaryInv, HasKey
      <3> QED BY <3>4, <3>5
    <2>2. CASE ~ReencryptStart
      <3>1. uuid' = uuid
        BY <2>2 DEF EncryptStep, WriteBackup, EncNext, EncPrepare,
           ReencryptFinish, AddKey, OpenAndGrow, CopyKeyToRoot, CloseMapping,
           diskVars
      <3>2. \A o \in OS : HasKey(o, "root") => HasKey(o, "root")'
        <4>1. CASE AddKey
          <5>1. keys' = [keys EXCEPT ![Part] = keys[Part] \cup {job.key}]
            BY <4>1 DEF AddKey
          <5>2. \A o \in OS, r \in Roles :
                  keys'[<<o, r>>] = IF o = job.os /\ r = job.role
                                    THEN keys[Part] \cup {job.key}
                                    ELSE keys[<<o, r>>]
            BY <1>0, <5>1, KeysOfOthers
          <5> QED BY <5>2, ChosenRoles DEF HasKey
        <4>2. CASE ~AddKey
          <5>1. keys' = keys
            BY <2>2, <4>2 DEF EncryptStep, WriteBackup, EncNext, EncPrepare,
               ReencryptFinish, OpenAndGrow, CopyKeyToRoot, CloseMapping,
               diskVars
          <5> QED BY <5>1 DEF HasKey
        <4> QED BY <4>1, <4>2
      <3> QED BY <1>1, <3>1, <3>2 DEF BinaryInv
    <2> QED BY <2>1, <2>2
  <1>3. /\ job'.pc \in EncryptPc /\ efi'[job'.os] # None
        /\ \/ "root" \in job'.todo
           \/ job'.role = "root" /\ job'.pc \in {"prepare", "reencrypt"}
        => efi'[job'.os].uuids["root"] # job'.key
    <2>1. CASE EncNext
      <3>1. CASE job.todo = {} /\ Goto("done")
        BY <1>0, <3>1 DEF Goto, Job, EncryptPc
      <3>2. ASSUME NEW r \in Roles, r \in job.todo, GotoWith("prepare", r)
            PROVE  /\ job'.os = job.os /\ job'.key = job.key
                   /\ job'.role = r /\ job'.todo = job.todo \ {r}
        BY <1>0, <3>2, GotoWithShape DEF Pc
      <3> QED BY <1>0, <1>1, <2>1, <3>1, <3>2
              DEF EncNext, EncryptsNext, BinaryInv
    <2>2. CASE ~EncNext
      <3>1. /\ job'.os = job.os /\ job'.key = job.key /\ job'.role = job.role
            /\ job'.todo = job.todo
            /\ job'.pc \in {"prepare", "reencrypt"}
               => job.pc \in {"prepare", "reencrypt"}
        BY <1>0, <2>2
           DEF EncryptStep, WriteBackup, EncPrepare, ReencryptStart,
               ReencryptFinish, AddKey, OpenAndGrow, CopyKeyToRoot,
               CloseMapping, At, Goto, Job
      <3> QED BY <1>0, <1>1, <3>1 DEF BinaryInv
    <2> QED BY <2>1, <2>2
  <1> QED BY <1>2, <1>3 DEF BinaryInv

(* The setup installs a binary only when the root has a key, and names     *)
(* that root in it.                                                        *)
LEMMA BinarySetup == Known /\ KeyedInv /\ BinaryInv /\ SetupStep => BinaryInv'
  <1> SUFFICES ASSUME Known, KeyedInv, BinaryInv, SetupStep PROVE BinaryInv'
    OBVIOUS
  <1>0. /\ TypeInv /\ job \in Job /\ job.os \in OS
        /\ efi \in [OS -> EfiBinary \cup {None}]
    BY DEF Known, TypeInv, TypeOK, JobShape, SetupStep, SetupAddress,
           SetupEvict, SetupPersist, SetupKillWindowsBootManager,
           SetupAddBlank, SetupRemoveBlank, WriteUnsealScript,
           WritePacmanHook, InstallEfiBinary, At
  <1>1. UNCHANGED <<keys, uuid, backups>>
    BY DEF SetupStep, SetupAddress, SetupEvict, SetupPersist,
           SetupKillWindowsBootManager, SetupAddBlank, SetupRemoveBlank,
           WriteUnsealScript, WritePacmanHook, InstallEfiBinary, diskVars
  <1>2. CASE InstallEfiBinary
    <2>1. /\ job'.os = job.os /\ job'.todo = {} /\ job'.pc \in {"close", "done"}
          /\ HasKey(job.os, "root") /\ "root" \in job.sel
      BY <1>0, <1>2 DEF InstallEfiBinary, At, Goto, Job, KeyedInv, SetupKeys,
                        Known, RunInv
    <2>2. NewBinary(job.os).uuids["root"] = uuid[Root(job.os)]
      BY <2>1, ChosenRoles DEF NewBinary, Root
    <2>3. uuid[Root(job.os)] \in backups
      BY <1>0, <2>1, ChosenRoles DEF Known, NameInv, HasKey, Root, Partition
    <2>4. \A o \in OS : efi'[o] = IF o = job.os THEN NewBinary(o) ELSE efi[o]
      BY <1>0, <1>2 DEF InstallEfiBinary
    <2>5. \A o \in OS : efi'[o] # None =>
            /\ efi'[o].uuids["root"] \in backups'
            /\ uuid'[Root(o)] = efi'[o].uuids["root"] => HasKey(o, "root")'
      BY <1>0, <1>1, <2>1, <2>2, <2>3, <2>4 DEF BinaryInv, HasKey
    <2> QED BY <2>1, <2>5 DEF BinaryInv
  <1>3. CASE ~InstallEfiBinary
    <2>1. efi' = efi
      BY <1>3 DEF SetupStep, SetupAddress, SetupEvict, SetupPersist,
           SetupKillWindowsBootManager, SetupAddBlank, SetupRemoveBlank,
           WriteUnsealScript, WritePacmanHook, fileVars
    <2>2. job'.pc \in {"evict", "persist", "kill_wbm", "add_blank",
                       "remove_blank", "script", "pac_hook", "install", "done"}
      BY ZenonT(60), <1>0, <1>3, GotoWithShape
         DEF SetupStep, SetupAddress, SetupEvict, SetupPersist,
             SetupKillWindowsBootManager, SetupAddBlank, SetupRemoveBlank,
             WriteUnsealScript, WritePacmanHook, Goto, At, Job, Pc
    <2> QED BY <1>1, <2>1, <2>2 DEF BinaryInv, HasKey, EncryptPc
  <1> QED BY <1>2, <1>3

(* decrypt() takes the name of a volume away with its keys.                *)
LEMMA BinaryDecrypt == Known /\ BinaryInv /\ DecryptStep => BinaryInv'
  <1> SUFFICES ASSUME Known, BinaryInv, DecryptStep PROVE BinaryInv'
    OBVIOUS
  <1>0. /\ TypeInv /\ job \in Job /\ job.os \in OS /\ job.pc # "idle"
        /\ uuid \in [Partition -> Key \cup {None}] /\ backups \subseteq Key
    BY DEF Known, TypeInv, TypeOK, JobShape, DecryptStep, DecOpenRoot,
           DecCloseRoot, DecNext, DecRemoveBlank, DecConvertKeys,
           DecConvertLuks1, DecStart, DecFinish, DecEvict, DecRemoveHooks, At
  <1>1. UNCHANGED <<efi, backups>>
    BY DEF DecryptStep, DecOpenRoot, DecCloseRoot, DecNext, DecRemoveBlank,
           DecConvertKeys, DecConvertLuks1, DecStart, DecFinish, DecEvict,
           DecRemoveHooks, fileVars
  <1>2. job'.pc \notin EncryptPc
    BY ZenonT(120), <1>0, GotoWithShape
       DEF DecryptStep, DecOpenRoot, DecCloseRoot, DecNext, DecRemoveBlank,
           DecConvertKeys, DecConvertLuks1, DecStart, DecFinish, DecEvict,
           DecRemoveHooks, Goto, At, Job, Pc, EncryptPc
  <1>3. CASE DecFinish
    <2>1. uuid' = [uuid EXCEPT ![Part] = None]
      BY <1>3 DEF DecFinish
    <2>2. \A o \in OS, r \in Roles :
            keys'[<<o, r>>] = IF o = job.os /\ r = job.role THEN {}
                                                            ELSE keys[<<o, r>>]
      BY <1>0, <1>3, KeysOfOthers DEF DecFinish
    <2>3. ASSUME NEW o \in OS, efi[o] # None,
                 uuid'[Root(o)] = efi[o].uuids["root"]
          PROVE  HasKey(o, "root")'
      <3>1. Root(o) \in Partition
        BY ChosenRoles DEF Root, Partition
      <3>2. uuid'[Root(o)] # None
        BY <1>0, <2>3, ConstantsAssumption DEF BinaryInv
      <3>3. Root(o) # Part /\ uuid'[Root(o)] = uuid[Root(o)]
        BY <1>0, <2>1, <3>1, <3>2
      <3>4. ~(o = job.os /\ "root" = job.role)
        BY <3>3 DEF Root, Part
      <3> QED BY <2>2, <2>3, <3>3, <3>4, ChosenRoles DEF BinaryInv, HasKey
    <2> QED BY <1>1, <1>2, <2>3 DEF BinaryInv
  <1>4. CASE ~DecFinish
    <2>1. UNCHANGED <<keys, uuid>>
      BY <1>4 DEF DecryptStep, DecOpenRoot, DecCloseRoot, DecNext,
           DecRemoveBlank, DecConvertKeys, DecConvertLuks1, DecStart, DecEvict,
           DecRemoveHooks, diskVars
    <2> QED BY <1>1, <1>2, <2>1 DEF BinaryInv, HasKey
  <1> QED BY <1>3, <1>4

(* A key is generated only if it has no backup, so no binary knows it.     *)
LEMMA BinaryRest ==
  ASSUME Known, BinaryInv, Finish \/ Abort \/ Asks \/ Machine
  PROVE  BinaryInv'
  <1>1. UNCHANGED <<keys, uuid, backups, efi>>
    BY DEF Finish, Abort, Asks, LookAround, Machine, BeginEncrypt, StartDecrypt,
           StartSetup, AddBlankPassword, PowerOff, BootLinux, BootMedium,
           BootWindows, WindowsUsesTpm, diskVars, fileVars
  <1>2. \A o \in OS : efi'[o] # None =>
          /\ efi'[o].uuids["root"] \in backups'
          /\ uuid'[Root(o)] = efi'[o].uuids["root"] => HasKey(o, "root")'
    BY <1>1 DEF BinaryInv, HasKey
  <1>3. CASE job'.pc \in {"idle", "dec_open", "address"}
    BY <1>2, <1>3 DEF BinaryInv, EncryptPc
  <1>4. CASE job' = job
    BY <1>1, <1>2, <1>4 DEF BinaryInv
  <1>5. ASSUME NEW o \in OS, NEW s, NEW k \in Key \ backups, BeginEncrypt(o, s, k)
        PROVE  BinaryInv'
    <2>1. job'.os = o /\ job'.key = k
      BY <1>5 DEF BeginEncrypt
    <2> QED BY <1>1, <1>2, <2>1 DEF BinaryInv
  <1>6. CASE Asks
    <2>1. ASSUME NEW o \in OS, NEW s, NEW k, StartDecrypt(o, s, k)
          PROVE  BinaryInv'
      BY <1>3, <2>1 DEF StartDecrypt
    <2>2. ASSUME NEW o \in OS, NEW op, StartSetup(o, op)
          PROVE  BinaryInv'
      BY <1>3, <2>2 DEF StartSetup
    <2>3. ASSUME NEW p, NEW k, AddBlankPassword(p, k)
          PROVE  BinaryInv'
      BY <1>4, <2>3 DEF AddBlankPassword
    <2>4. CASE LookAround
      BY <1>4, <2>4 DEF LookAround
    <2> QED BY <1>5, <1>6, <2>1, <2>2, <2>3, <2>4 DEF Asks
  <1>7. CASE Finish \/ Abort \/ Machine
    <2>1. job' = job \/ job' = NoJob
      BY <1>7 DEF Finish, Abort, Machine, PowerOff, BootLinux, BootMedium,
                  BootWindows, WindowsUsesTpm
    <2> QED BY <1>3, <1>4, <2>1, NoJobShape
  <1> QED BY <1>6, <1>7

(* The root of the booted OS is not touched: encrypt() and decrypt() work  *)
(* on another OS.                                                          *)
LEMMA BootedRootScript ==
  Known /\ BootedRootKeyed /\ (EncryptStep \/ SetupStep \/ DecryptStep)
  => BootedRootKeyed'
  <1> SUFFICES ASSUME Known, BootedRootKeyed,
                      EncryptStep \/ SetupStep \/ DecryptStep
               PROVE  BootedRootKeyed'
    OBVIOUS
  <1>1. booted' = booted
    BY DEF EncryptStep, SetupStep, DecryptStep, WriteBackup, EncNext,
        EncPrepare, ReencryptStart, ReencryptFinish, AddKey, OpenAndGrow,
        CopyKeyToRoot, CloseMapping, SetupAddress, SetupEvict, SetupPersist,
        SetupKillWindowsBootManager, SetupAddBlank, SetupRemoveBlank,
        WriteUnsealScript, WritePacmanHook, InstallEfiBinary, DecOpenRoot,
        DecCloseRoot, DecNext, DecRemoveBlank, DecConvertKeys,
        DecConvertLuks1, DecStart, DecFinish, DecEvict, DecRemoveHooks,
        machineVars
  <1>2. CASE ReencryptStart \/ ReencryptFinish \/ AddKey \/ DecConvertLuks1
             \/ DecStart \/ DecFinish
    <2>1. job.os # booted.os
      BY <1>2 DEF ReencryptStart, ReencryptFinish, AddKey, DecConvertLuks1,
                  DecStart, DecFinish, At, Known, RunInv, TypeInv, JobShape,
                  EncryptPc, DecryptPc
    <2>2. /\ fs \in [Partition -> FsState] /\ keys \in [Partition -> SUBSET Key]
      BY DEF Known, TypeInv, TypeOK
    <2> SUFFICES ASSUME NEW o \in OS, booted.os = o
                 PROVE  fs'[Root(o)] = fs[Root(o)] /\ keys'[Root(o)] = keys[Root(o)]
      BY <1>1 DEF BootedRootKeyed, HasKey, Root
    <2>3. Root(o) \in Partition /\ Root(o) # Part
      BY <2>1, ChosenRoles DEF Root, Partition, Part
    <2> QED BY <1>2, <2>2, <2>3 DEF ReencryptStart, ReencryptFinish, AddKey,
                                    DecConvertLuks1, DecStart, DecFinish
  <1>3. CASE ~(ReencryptStart \/ ReencryptFinish \/ AddKey \/ DecConvertLuks1
               \/ DecStart \/ DecFinish)
    <2>1. fs' = fs /\ keys' = keys
      BY <1>3 DEF EncryptStep, SetupStep, DecryptStep, WriteBackup, EncNext,
        EncPrepare, OpenAndGrow,
        CopyKeyToRoot, CloseMapping, SetupAddress, SetupEvict, SetupPersist,
        SetupKillWindowsBootManager, SetupAddBlank, SetupRemoveBlank,
        WriteUnsealScript, WritePacmanHook, InstallEfiBinary, DecOpenRoot,
        DecCloseRoot, DecNext, DecRemoveBlank, DecConvertKeys,
        DecEvict, DecRemoveHooks, diskVars
    <2> QED BY <1>1, <2>1 DEF BootedRootKeyed, HasKey
  <1> QED BY <1>2, <1>3

(* An encrypted OS boots only from a binary that names its root.           *)
LEMMA BootedRootRest ==
  ASSUME Known, BinaryInv, BootedRootKeyed, Finish \/ Abort \/ Asks \/ Machine
  PROVE  BootedRootKeyed'
  <1>1. UNCHANGED <<keys, fs>>
    BY DEF Finish, Abort, Asks, LookAround, Machine, BeginEncrypt, StartDecrypt,
           StartSetup, AddBlankPassword, PowerOff, BootLinux, BootMedium,
           BootWindows, WindowsUsesTpm, diskVars
  <1>2. ASSUME NEW o \in OS, BootLinux(o)
        PROVE  booted'.os = o /\ (fs[Root(o)] = "plain" \/ HasKey(o, "root"))
    <2>1. booted'.os = o
      BY <1>2 DEF BootLinux
    <2>2. CASE fs[<<o, "root">>] = "plain"
      BY <2>1, <2>2 DEF Root
    <2>3. CASE CanBootEncrypted(o)
      <3>1. efi[o] # None /\ efi[o].uuids["root"] \in backups
        BY <2>3 DEF CanBootEncrypted, BinaryInv
      <3>2. efi[o].uuids["root"] # None
        BY <3>1, ConstantsAssumption DEF Known, TypeInv, TypeOK
      <3>3. uuid[Root(o)] = efi[o].uuids["root"]
        BY <2>3, <3>2, ChosenRoles DEF CanBootEncrypted, Root
      <3> QED BY <2>1, <3>1, <3>3 DEF BinaryInv
    <2> QED BY <1>2, <2>2, <2>3 DEF BootLinux
  <1>3. CASE PowerOff \/ BootWindows \/ \E m \in Media : BootMedium(m)
    <2>1. booted'.os \in {"off", "windows", "live"}
      <3>1. ASSUME NEW m \in Media, BootMedium(m) PROVE booted'.os = "live"
        BY <3>1, ConstantsAssumption DEF BootMedium
      <3>2. CASE PowerOff BY <3>2 DEF PowerOff
      <3>3. CASE BootWindows BY <3>3 DEF BootWindows
      <3> QED BY <1>3, <3>1, <3>2, <3>3
    <2> QED BY <2>1, ConstantsAssumption DEF BootedRootKeyed
  <1>4. CASE booted' = booted
    BY <1>1, <1>4 DEF BootedRootKeyed, HasKey
  <1>5. CASE \E o \in OS : BootLinux(o)
    BY <1>1, <1>2, <1>5 DEF BootedRootKeyed, HasKey
  <1>6. CASE Finish \/ Abort \/ Asks \/ \E a \in Addr : WindowsUsesTpm(a)
    <2>1. booted' = booted
      BY <1>6 DEF Finish, Abort, Asks, LookAround, BeginEncrypt, StartDecrypt, StartSetup,
                  AddBlankPassword, WindowsUsesTpm, machineVars
    <2> QED BY <1>4, <2>1
  <1> QED BY <1>3, <1>5, <1>6 DEF Machine

(* Keys, binaries and the booted root, together: each needs the others.    *)
LEMMA KeyedInvariant ==
  ASSUME OneSelection
  PROVE  Spec => [](Known /\ KeyedInv /\ BinaryInv /\ BootedRootKeyed)
  <1>1. Init => KeyedInv /\ BinaryInv /\ BootedRootKeyed
    <2> SUFFICES ASSUME Init PROVE KeyedInv /\ BinaryInv /\ BootedRootKeyed
      OBVIOUS
    <2>1. job.pc = "idle"
      BY NoJobShape DEF Init
    <2>2. \A o \in OS : ~HasKey(o, "root") /\ efi[o] = None
      BY ChosenRoles DEF Init, HasKey, Partition
    <2>3. \A o \in OS : booted.os # o
      BY ConstantsAssumption DEF Init
    <2> QED BY <2>1, <2>2, <2>3
            DEF KeyedInv, RootStandsForAll, EncryptKeys, DecryptKeys, SetupKeys,
                BinaryInv, BootedRootKeyed, EncryptPc, DecryptPc, DecHeaderPc
  <1>2. KeyedInv /\ BinaryInv /\ BootedRootKeyed /\ UNCHANGED vars
        => (KeyedInv /\ BinaryInv /\ BootedRootKeyed)'
    BY DEF KeyedInv, RootStandsForAll, EncryptKeys, DecryptKeys, SetupKeys,
           BinaryInv, BootedRootKeyed, HasKey, Ahead, vars, diskVars, fileVars,
           machineVars
  <1>3. Known /\ KeyedInv /\ BinaryInv /\ BootedRootKeyed /\ [Next]_vars
        => (KeyedInv /\ BinaryInv /\ BootedRootKeyed)'
    <2>1. Known /\ KeyedInv /\ BootedRootKeyed /\ Next => KeyedInv'
      BY KeyedEncrypt, KeyedSetup, KeyedDecrypt, KeyedRest, UserAsks DEF Next, Script
    <2>2. Known /\ KeyedInv /\ BinaryInv /\ Next => BinaryInv'
      BY BinaryEncrypt, BinarySetup, BinaryDecrypt, BinaryRest, UserAsks DEF Next, Script
    <2>3. Known /\ BinaryInv /\ BootedRootKeyed /\ Next => BootedRootKeyed'
      BY BootedRootScript, BootedRootRest, UserAsks DEF Next, Script
    <2> QED BY <1>2, <2>1, <2>2, <2>3
  <1>4. Spec => []Known
    <2>1. TypeInv <=> TypeOK /\ JobShape
      BY DEF TypeInv
    <2> QED BY <2>1, TypeCorrect, KeysInvariant, HeaderInvariant, RunInvariant,
               NameInvariant, PTL DEF Known
  <1> QED BY <1>1, <1>3, <1>4, PTL DEF Spec

-----------------------------------------------------------------------------
(* Every encrypted volume opens with the blank password or with a key.     *)
AllOpenable == \A p \in Partition : fs[p] # "plain" => blanks[p] > 0 \/ keys[p] # {}

(* A blank keyslot is removed only from a volume that has a key.           *)
LEMMA OpenableAfterRemoval ==
  ASSUME NEW p \in Partition, TypeInv, AllOpenable, keys[p] # {},
         RemoveOneBlank(p), keys' = keys, fs' = fs
  PROVE  AllOpenable'
  <1>1. blanks \in [Partition -> Nat]
    BY DEF TypeInv, TypeOK
  <1> QED BY <1>1 DEF AllOpenable, RemoveOneBlank

(* A blank keyslot more does no harm.                                      *)
LEMMA OpenableAfterAdding ==
  ASSUME NEW p, TypeInv, AllOpenable, blanks' = [blanks EXCEPT ![p] = @ + 1],
         keys' = keys, fs' = fs
  PROVE  AllOpenable'
  <1>1. blanks \in [Partition -> Nat]
    BY DEF TypeInv, TypeOK
  <1> QED BY <1>1 DEF AllOpenable

(* encrypt(): the new header opens with the blank password, and keeps it.  *)
LEMMA OpenableEncrypt == Known /\ AllOpenable /\ EncryptStep => AllOpenable'
  <1> SUFFICES ASSUME Known, AllOpenable, EncryptStep PROVE AllOpenable'
    OBVIOUS
  <1>0. /\ fs \in [Partition -> FsState] /\ keys \in [Partition -> SUBSET Key]
        /\ blanks \in [Partition -> Nat]
    BY DEF Known, TypeInv, TypeOK
  <1>1. CASE ReencryptStart
    BY <1>0, <1>1 DEF ReencryptStart, AllOpenable
  <1>2. CASE ReencryptFinish
    <2>1. fs[Part] # "plain"
      BY <1>2 DEF ReencryptFinish, At, Known, HeaderInv
    <2> QED BY <1>0, <1>2, <2>1 DEF ReencryptFinish, AllOpenable
  <1>3. CASE AddKey
    BY <1>0, <1>3 DEF AddKey, AllOpenable
  <1>4. CASE ~(ReencryptStart \/ ReencryptFinish \/ AddKey)
    <2>1. UNCHANGED <<fs, blanks, keys>>
      BY <1>4 DEF EncryptStep, WriteBackup, EncNext, EncPrepare, OpenAndGrow,
                  CopyKeyToRoot, CloseMapping, diskVars
    <2> QED BY <2>1 DEF AllOpenable
  <1> QED BY <1>1, <1>2, <1>3, <1>4

(* The setup: the menu removes blank passwords of the booted OS, whose     *)
(* root has a key, and a root with a key stands for all.                   *)
LEMMA OpenableSetup ==
  Known /\ KeyedInv /\ BootedRootKeyed /\ AllOpenable /\ SetupStep
  => AllOpenable'
  <1> SUFFICES ASSUME Known, KeyedInv, BootedRootKeyed, AllOpenable, SetupStep
               PROVE  AllOpenable'
    OBVIOUS
  <1>0. TypeInv /\ job \in Job
    BY DEF Known, TypeInv, TypeOK
  <1>1. UNCHANGED <<fs, keys>>
    BY DEF SetupStep, SetupAddress, SetupEvict, SetupPersist,
           SetupKillWindowsBootManager, SetupAddBlank, SetupRemoveBlank,
           WriteUnsealScript, WritePacmanHook, InstallEfiBinary, diskVars
  <1>2. CASE blanks' = blanks
    BY <1>1, <1>2 DEF AllOpenable
  <1>3. CASE \E p : blanks' = [blanks EXCEPT ![p] = @ + 1]
    BY <1>0, <1>1, <1>3, OpenableAfterAdding
  <1>4. ASSUME NEW r \in Roles, At("remove_blank"), VisitsNext(r, job.todo),
               RemoveOneBlank(<<job.os, r>>)
        PROVE  AllOpenable'
    <2>1. job.os \in OS /\ job.os = booted.os /\ r \in Chosen[job.os]
      BY <1>0, <1>4 DEF At, Known, RunInv, TypeInv, JobShape, VisitsNext
    <2>2. HasKey(job.os, "root")
      <3>1. CASE r = "root"
        BY <1>4, <2>1, <3>1
           DEF BootedRootKeyed, Root, RemoveOneBlank, Openable
      <3>2. CASE r # "root"
        <4>1. "root" \notin job.todo \ {r}
          BY <1>0, <1>4, RootFirst DEF Job
        <4>2. "root" \notin job.todo
          BY <3>2, <4>1
        <4> QED BY <1>4, <4>2 DEF At, KeyedInv, SetupKeys
      <3> QED BY <3>1, <3>2
    <2>3. keys[<<job.os, r>>] # {}
      BY <2>1, <2>2 DEF KeyedInv, RootStandsForAll, HasKey
    <2>4. <<job.os, r>> \in Partition
      BY <2>1 DEF Partition
    <2> QED BY <1>0, <1>1, <1>4, <2>3, <2>4, OpenableAfterRemoval
  <1>5. CASE SetupAddBlank
    BY <1>2, <1>3, <1>5 DEF SetupAddBlank
  <1>6. CASE SetupRemoveBlank
    BY <1>2, <1>4, <1>6 DEF SetupRemoveBlank
  <1>7. CASE ~(SetupAddBlank \/ SetupRemoveBlank)
    <2>1. blanks' = blanks
      BY <1>7 DEF SetupStep, SetupAddress, SetupEvict, SetupPersist,
           SetupKillWindowsBootManager, WriteUnsealScript, WritePacmanHook,
           InstallEfiBinary, diskVars
    <2> QED BY <1>2, <2>1
  <1> QED BY <1>5, <1>6, <1>7

(* decrypt() removes the blank passwords of volumes that have a key.       *)
LEMMA OpenableDecrypt ==
  Known /\ KeyedInv /\ AllOpenable /\ DecryptStep => AllOpenable'
  <1> SUFFICES ASSUME Known, KeyedInv, AllOpenable, DecryptStep
               PROVE  AllOpenable'
    OBVIOUS
  <1>0. /\ fs \in [Partition -> FsState] /\ keys \in [Partition -> SUBSET Key]
        /\ blanks \in [Partition -> Nat] /\ TypeInv
    BY DEF Known, TypeInv, TypeOK
  <1>1. CASE DecRemoveBlank
    <2>1. CASE blanks' = blanks
      BY <1>1, <2>1 DEF DecRemoveBlank, AllOpenable
    <2>2. CASE RemoveOneBlank(Part)
      <3>1. PICK p \in Partition : p = Part
        BY <1>0, <1>1, PartIsPartition DEF DecRemoveBlank, At
      <3>2. keys[p] # {}
        BY <1>1, <3>1 DEF DecRemoveBlank, At, KeyedInv, DecryptKeys,
                          DecHeaderPc, HasKey, Part
      <3> QED BY <1>0, <1>1, <2>2, <3>1, <3>2, OpenableAfterRemoval
              DEF DecRemoveBlank
    <2> QED BY <1>1, <2>1, <2>2 DEF DecRemoveBlank
  <1>2. CASE DecConvertLuks1 \/ DecStart
    <2>1. fs[Part] # "plain"
      BY <1>2 DEF DecConvertLuks1, DecStart, At, Known, HeaderInv
    <2> QED BY <1>0, <1>2, <2>1 DEF DecConvertLuks1, DecStart, AllOpenable
  <1>3. CASE DecFinish
    BY <1>0, <1>3 DEF DecFinish, AllOpenable
  <1>4. CASE ~(DecRemoveBlank \/ DecConvertLuks1 \/ DecStart \/ DecFinish)
    <2>1. UNCHANGED <<fs, blanks, keys>>
      BY <1>4 DEF DecryptStep, DecOpenRoot, DecCloseRoot, DecNext,
                  DecConvertKeys, DecEvict, DecRemoveHooks, diskVars
    <2> QED BY <2>1 DEF AllOpenable
  <1> QED BY <1>1, <1>2, <1>3, <1>4

(* Users only add blank passwords; the machine leaves the disks alone.     *)
LEMMA OpenableRest ==
  Known /\ AllOpenable /\ (Finish \/ Abort \/ Asks \/ Machine) => AllOpenable'
  <1> SUFFICES ASSUME Known, AllOpenable, Finish \/ Abort \/ Asks \/ Machine
               PROVE  AllOpenable'
    OBVIOUS
  <1>1. UNCHANGED <<fs, keys>>
    BY DEF Finish, Abort, Asks, LookAround, Machine, BeginEncrypt, StartDecrypt,
           StartSetup, AddBlankPassword, PowerOff, BootLinux, BootMedium,
           BootWindows, WindowsUsesTpm, diskVars
  <1>2. blanks' = blanks \/ \E p : blanks' = [blanks EXCEPT ![p] = @ + 1]
    BY DEF Finish, Abort, Asks, LookAround, Machine, BeginEncrypt, StartDecrypt,
           StartSetup, AddBlankPassword, PowerOff, BootLinux, BootMedium,
           BootWindows, WindowsUsesTpm, diskVars
  <1>3. TypeInv
    BY DEF Known
  <1> QED BY <1>1, <1>2, <1>3, OpenableAfterAdding DEF AllOpenable

(* Wherever a run of the script is cut short, by an error, by the user or  *)
(* by a power loss, every volume that is not plain opens with the blank    *)
(* password or with a key of which a backup exists, for any number of OSes *)
(* and partitions, if the user always enters the same partitions.          *)
THEOREM AlwaysRecoverable ==
  ASSUME OneSelection
  PROVE  Spec => []Recoverable
  <1>1. Init => AllOpenable
    BY DEF Init, AllOpenable
  <1>2. AllOpenable /\ UNCHANGED vars => AllOpenable'
    BY DEF AllOpenable, vars, diskVars
  <1>3. Known /\ KeyedInv /\ BootedRootKeyed /\ AllOpenable /\ [Next]_vars
        => AllOpenable'
    BY <1>2, OpenableEncrypt, OpenableSetup, OpenableDecrypt, OpenableRest, UserAsks
       DEF Next, Script
  <1>4. Known /\ AllOpenable => Recoverable
    BY DEF Known, KeysInv, KeysBackedUp, AllOpenable, Recoverable
  <1> QED BY <1>1, <1>3, <1>4, KeyedInvariant, PTL DEF Spec

=============================================================================
