------------------------------ MODULE SetupProofs ------------------------------
(* What a completed run leaves behind: encrypt() and the pacman hook leave *)
(* an OS that boots, the setup from the menu one that the TPM opens. Both  *)
(* for users who always enter the same partitions.                         *)
EXTENDS RecoveryProofs

SetupPc == {"address"} \cup AddressPc

(* What is known of every reachable state from RecoveryProofs.             *)
Base == Known /\ KeyedInv /\ BinaryInv /\ BootedRootKeyed

-----------------------------------------------------------------------------
(* More about the course of a run, and the TPM address it works with: once *)
(* the OS has an unseal script, a run keeps to the address in it.          *)
CourseInv ==
    /\ job.pc = "backup" => "root" \in job.todo
    /\ job.pc = "open" => (job.role = "root" <=> job.todo = {})
    /\ job.pc = "copy_key" => job.role = "root" /\ job.todo = {}
    /\ job.pc \in {"kill_wbm", "add_blank", "script", "pac_hook", "install"}
       => job.op \in {"encrypt", "hook"}
    /\ job.pc \in {"dec_evict", "dec_hooks"} => "root" \notin job.todo
    /\ job.op = "encrypt" /\ job.pc = "done" => job.todo = {}
    /\ job.op = "menu" /\ job.pc = "done" => job.todo = {} /\ job.addr \in Addr
    /\ /\ job.pc \in AddressPc \/ (job.op = "menu" /\ job.pc = "done")
       /\ hookAddr[job.os] # None
       => job.addr = hookAddr[job.os]
    /\ job.pc \in {"pac_hook", "install"} => job.addr = hookAddr[job.os]

(* encrypt() hands over to the setup when the root is the last to be done. *)
LEMMA CourseEncrypt == Known /\ CourseInv /\ EncryptStep => CourseInv'
  <1> SUFFICES ASSUME Known, CourseInv, EncryptStep PROVE CourseInv'
    OBVIOUS
  <1>0. /\ job \in Job /\ job.op = "encrypt"
        /\ job.pc \in EncHeaderPc => (job.role = "root" <=> job.todo = {})
    BY DEF Known, RunInv, TypeInv, TypeOK, JobShape, EncryptStep, WriteBackup,
           EncNext, EncPrepare, ReencryptStart, ReencryptFinish, AddKey,
           OpenAndGrow, CopyKeyToRoot, CloseMapping, At, EncryptPc
  <1> USE <1>0 DEF CourseInv, At, Goto, Job, AddressPc, EncHeaderPc
  <1>1. CASE WriteBackup BY <1>1 DEF WriteBackup
  <1>2. CASE EncNext
    <2>1. /\ job'.pc \in {"prepare", "done"} /\ job'.op = "encrypt"
          /\ job'.pc = "done" => job'.todo = {}
      <3>1. CASE job.todo = {} /\ Goto("done")
        BY <3>1
      <3>2. ASSUME NEW r \in Roles, GotoWith("prepare", r)
            PROVE  job'.pc = "prepare" /\ job'.op = "encrypt"
        BY <3>2, GotoWithShape DEF Pc
      <3> QED BY <1>2, <3>1, <3>2 DEF EncNext
    <2> QED BY <2>1
  <1>3. CASE EncPrepare BY <1>3 DEF EncPrepare
  <1>4. CASE ReencryptStart BY <1>4 DEF ReencryptStart
  <1>5. CASE ReencryptFinish BY <1>5 DEF ReencryptFinish
  <1>6. CASE AddKey BY <1>6 DEF AddKey
  <1>7. CASE OpenAndGrow BY <1>7 DEF OpenAndGrow
  <1>8. CASE CopyKeyToRoot BY <1>8 DEF CopyKeyToRoot
  <1>9. CASE CloseMapping BY <1>9 DEF CloseMapping
  <1> QED BY <1>1, <1>2, <1>3, <1>4, <1>5, <1>6, <1>7, <1>8, <1>9 DEF EncryptStep

(* The setup uses the address of the unseal script, or writes its own.     *)
LEMMA CourseSetup == Known /\ CourseInv /\ SetupStep => CourseInv'
  <1> SUFFICES ASSUME Known, CourseInv, SetupStep PROVE CourseInv'
    OBVIOUS
  <1>0. /\ job \in Job /\ job.os \in OS
        /\ hookAddr \in [OS -> Addr \cup {None}]
        /\ job.pc \in AddressPc => job.addr \in Addr
        /\ job.pc \in {"address", "evict", "persist"}
           => job.op \in {"encrypt", "hook", "menu"}
    BY DEF Known, RunInv, TypeInv, TypeOK, JobShape, SetupStep, SetupAddress,
           SetupEvict, SetupPersist, SetupKillWindowsBootManager,
           SetupAddBlank, SetupRemoveBlank, WriteUnsealScript,
           WritePacmanHook, InstallEfiBinary, At
  <1> USE <1>0 DEF CourseInv, At, Goto, Job, AddressPc, fileVars
  <1>1. CASE SetupAddress
    <2>1. PICK a \in Addr, l \in {"evict", "persist"} :
            /\ job' = [job EXCEPT !.addr = a, !.pc = l]
            /\ hookAddr[job.os] # None => a = hookAddr[job.os]
      BY <1>1 DEF SetupAddress
    <2>2. job'.os = job.os /\ job'.pc = l /\ job'.addr = a
      BY <2>1
    <2> QED BY <1>1, <2>1, <2>2 DEF SetupAddress
  <1>2. CASE SetupEvict BY <1>2 DEF SetupEvict
  <1>3. CASE SetupPersist
    <2>1. PICK l \in {"kill_wbm", "remove_blank"} :
            /\ job' = [job EXCEPT !.pc = l, !.todo = job.sel]
            /\ l = "kill_wbm" => job.op \in {"encrypt", "hook"}
      BY <1>3 DEF SetupPersist, WasAutorun
    <2>2. /\ job'.os = job.os /\ job'.op = job.op /\ job'.pc = l
          /\ job'.addr = job.addr
      BY <2>1
    <2> QED BY <1>3, <2>1, <2>2 DEF SetupPersist
  <1>4. CASE SetupKillWindowsBootManager
    BY <1>4 DEF SetupKillWindowsBootManager
  <1>5. CASE SetupAddBlank
    <2>1. CASE job.todo = {} /\ Goto("script")
      BY <1>5, <2>1 DEF SetupAddBlank
    <2>2. ASSUME NEW r \in Roles, GotoWith("add_blank", r) PROVE CourseInv'
      BY <1>5, <2>2, GotoWithShape DEF SetupAddBlank, Pc
    <2> QED BY <1>5, <2>1, <2>2 DEF SetupAddBlank
  <1>6. CASE SetupRemoveBlank
    <2>1. CASE job.todo = {} /\ Goto("done")
      BY <1>6, <2>1 DEF SetupRemoveBlank
    <2>2. CASE UNCHANGED job
      BY <1>6, <2>2 DEF SetupRemoveBlank
    <2>3. ASSUME NEW r \in Roles, GotoWith("remove_blank", r) PROVE CourseInv'
      BY <1>6, <2>3, GotoWithShape DEF SetupRemoveBlank, Pc
    <2> QED BY <1>6, <2>1, <2>2, <2>3 DEF SetupRemoveBlank
  <1>7. CASE WriteUnsealScript BY <1>7 DEF WriteUnsealScript
  <1>8. CASE WritePacmanHook BY <1>8 DEF WritePacmanHook
  <1>9. CASE InstallEfiBinary BY <1>9 DEF InstallEfiBinary
  <1> QED BY <1>1, <1>2, <1>3, <1>4, <1>5, <1>6, <1>7, <1>8, <1>9 DEF SetupStep

(* decrypt() is done with the root when it removes the unseal script.      *)
LEMMA CourseDecrypt == Known /\ CourseInv /\ DecryptStep => CourseInv'
  <1> SUFFICES ASSUME Known, CourseInv, DecryptStep PROVE CourseInv'
    OBVIOUS
  <1>0. /\ job \in Job /\ job.op = "decrypt"
        /\ job.pc \in DecHeaderPc => "root" \notin job.todo
    BY DEF Known, RunInv, TypeInv, TypeOK, DecryptStep, DecOpenRoot,
           DecCloseRoot, DecNext, DecRemoveBlank, DecConvertKeys,
           DecConvertLuks1, DecStart, DecFinish, DecEvict, DecRemoveHooks, At,
           DecryptPc
  <1>1. /\ job'.pc \in DecryptPc \cup {"done"} /\ job'.op = "decrypt"
    BY SMTT(30), <1>0, GotoWithShape
       DEF DecryptStep, DecOpenRoot, DecCloseRoot, DecNext, DecRemoveBlank,
           DecConvertKeys, DecConvertLuks1, DecStart, DecFinish, DecEvict,
           DecRemoveHooks, Goto, At, Job, Pc, DecryptPc
  <1>2. job'.pc \in {"dec_evict", "dec_hooks"} => "root" \notin job'.todo
    <2>1. CASE DecFinish \/ DecEvict
      BY <1>0, <2>1 DEF DecFinish, DecEvict, At, Goto, Job, DecHeaderPc,
                        CourseInv
    <2>2. CASE ~(DecFinish \/ DecEvict)
      BY <1>0, <2>2, GotoWithShape
         DEF DecryptStep, DecOpenRoot, DecCloseRoot, DecNext, DecRemoveBlank,
           DecConvertKeys, DecConvertLuks1, DecStart, DecRemoveHooks, Goto, At,
           Job, Pc
    <2> QED BY <2>1, <2>2
  <1> QED BY <1>1, <1>2 DEF CourseInv, DecryptPc, AddressPc

(* Every run starts before all of this.                                    *)
LEMMA CourseRest ==
  ASSUME OneSelection, Known, CourseInv, Finish \/ Abort \/ Asks \/ Machine
  PROVE  CourseInv'
  <1>1. hookAddr' = hookAddr
    BY DEF Finish, Abort, Asks, LookAround, Machine, BeginEncrypt, StartDecrypt,
           StartSetup, AddBlankPassword, PowerOff, BootLinux, BootMedium,
           BootWindows, WindowsUsesTpm, fileVars
  <1>2. \/ job' = job \/ job'.pc \in {"idle", "dec_open", "address"}
        \/ job'.pc = "backup" /\ "root" \in job'.todo
    <2>1. CASE Asks
      BY <2>1, AsksStart, ChosenIsSelection
    <2>2. CASE Finish \/ Abort \/ Machine
      <3>1. job' = job \/ job' = NoJob
        BY <2>2 DEF Finish, Abort, Machine, PowerOff, BootLinux, BootMedium,
                    BootWindows, WindowsUsesTpm
      <3> QED BY <3>1, NoJobShape
    <2> QED BY <2>1, <2>2
  <1> QED BY <1>1, <1>2 DEF CourseInv, AddressPc

(* The course of runs, in every reachable state.                           *)
LEMMA CourseInvariant ==
  ASSUME OneSelection
  PROVE  Spec => [](Base /\ CourseInv)
  <1>1. Init => CourseInv
    BY NoJobShape DEF Init, CourseInv, AddressPc
  <1>2. CourseInv /\ UNCHANGED vars => CourseInv'
    BY DEF CourseInv, vars, fileVars
  <1>3. Base /\ CourseInv /\ [Next]_vars => CourseInv'
    BY <1>2, CourseEncrypt, CourseSetup, CourseDecrypt, CourseRest, UserAsks
       DEF Next, Script, Base
  <1>4. Base <=> Known /\ KeyedInv /\ BinaryInv /\ BootedRootKeyed
    BY DEF Base
  <1> QED BY <1>1, <1>3, <1>4, KeyedInvariant, PTL DEF Spec

-----------------------------------------------------------------------------
(* Which volumes have a complete LUKS2 header. Once the root has a key the *)
(* others are done, and stay so until decrypt() has taken that key away.   *)
LuksInv ==
    /\ \A o \in OS : HasKey(o, "root") =>
          \A r \in Chosen[o] \ {"root"} : fs[<<o, r>>] = "luks2"
    /\ \A o \in OS : booted.os = o => fs[Root(o)] \in {"plain", "luks2"}
    /\ job.pc \in EncryptPc =>
          \A r \in Chosen[job.os] : Ahead(r) \/ fs[<<job.os, r>>] = "luks2"
    /\ job.pc = "add_key" => fs[Part] = "luks2"
    /\ job.op = "encrypt" /\ job.pc \in SetupPc => fs[Root(job.os)] = "luks2"

(* The file systems after a step on the partition of the run.              *)
LEMMA FsOfOthers ==
  ASSUME TypeInv, NEW v, fs' = [fs EXCEPT ![Part] = v]
  PROVE  \A o \in OS, r \in Roles :
           fs'[<<o, r>>] = IF o = job.os /\ r = job.role THEN v
                                                         ELSE fs[<<o, r>>]
  <1>1. fs \in [Partition -> FsState]
    BY DEF TypeInv, TypeOK
  <1> SUFFICES ASSUME NEW o \in OS, NEW r \in Roles
               PROVE  fs'[<<o, r>>] = IF o = job.os /\ r = job.role
                                      THEN v ELSE fs[<<o, r>>]
    OBVIOUS
  <1>2. <<o, r>> \in Partition
    BY DEF Partition
  <1>3. <<o, r>> = Part <=> o = job.os /\ r = job.role
    BY DEF Part
  <1> QED BY <1>1, <1>2, <1>3

(* encrypt() finishes each header before it goes on to the next partition. *)
LEMMA LuksEncrypt == Base /\ CourseInv /\ LuksInv /\ EncryptStep => LuksInv'
  <1> SUFFICES ASSUME Base, CourseInv, LuksInv, EncryptStep PROVE LuksInv'
    OBVIOUS
  <1>0. /\ TypeInv /\ job \in Job /\ job.pc \in EncryptPc /\ job.os \in OS
        /\ job.pc # "idle" /\ fs \in [Partition -> FsState] /\ job.role \in Roles
        /\ job.op = "encrypt" /\ job.os # booted.os
    BY DEF Base, Known, RunInv, TypeInv, TypeOK, JobShape, EncryptStep,
           WriteBackup, EncNext, EncPrepare, ReencryptStart, ReencryptFinish,
           AddKey, OpenAndGrow, CopyKeyToRoot, CloseMapping, At, EncryptPc, Job
  <1>1. booted' = booted
    BY DEF EncryptStep, WriteBackup, EncNext, EncPrepare, ReencryptStart,
           ReencryptFinish, AddKey, OpenAndGrow, CopyKeyToRoot, CloseMapping,
           machineVars
  <1>2. CASE ReencryptStart \/ ReencryptFinish
    <2>1. PICK v \in {"encrypting", "luks2"} : fs' = [fs EXCEPT ![Part] = v]
      BY <1>2 DEF ReencryptStart, ReencryptFinish
    <2>2. \A o \in OS, r \in Roles :
            fs'[<<o, r>>] = IF o = job.os /\ r = job.role THEN v
                                                          ELSE fs[<<o, r>>]
      BY <1>0, <2>1, FsOfOthers
    <2>3. /\ job.pc \in {"reencrypt", "reencrypting"}
          /\ job'.os = job.os /\ job'.role = job.role /\ job'.todo = job.todo
          /\ job'.pc \in {"reencrypting", "add_key"}
          /\ job'.pc = "add_key" => v = "luks2"
      <3>1. CASE ReencryptStart
        BY <1>0, <3>1 DEF ReencryptStart, At, Goto, Job
      <3>2. CASE ReencryptFinish
        <4>1. [fs EXCEPT ![Part] = v] = [fs EXCEPT ![Part] = "luks2"]
          BY <2>1, <3>2 DEF ReencryptFinish
        <4>2. Part \in Partition
          BY <1>0, PartIsPartition
        <4>3. v = "luks2"
          BY <1>0, <4>1, <4>2
        <4> QED BY <1>0, <3>2, <4>3 DEF ReencryptFinish, At, Goto, Job
      <3> QED BY <1>2, <3>1, <3>2
    <2>4. ~HasKey(job.os, "root")
      <3>1. Ahead("root")
        BY <2>3 DEF Base, Known, RunInv, Ahead, EncHeaderPc, EncryptPc
      <3> QED BY <1>0, <3>1 DEF Base, KeyedInv, EncryptKeys
    <2>5. \A o \in OS : HasKey(o, "root")' =>
            o # job.os /\ HasKey(o, "root")
      <3>1. \A o \in OS : HasKey(o, "root")' => HasKey(o, "root")
        <4>1. CASE ReencryptFinish
          BY <4>1 DEF ReencryptFinish, HasKey
        <4>2. CASE ReencryptStart
          <5>1. \A o \in OS, r \in Roles :
                  keys'[<<o, r>>] = IF o = job.os /\ r = job.role
                                    THEN {} ELSE keys[<<o, r>>]
            BY <1>0, <4>2, KeysOfOthers DEF ReencryptStart
          <5> QED BY <5>1, ChosenRoles DEF HasKey
        <4> QED BY <1>2, <4>1, <4>2
      <3> QED BY <2>4, <3>1
    <2>6. \A o \in OS : HasKey(o, "root")' =>
            \A r \in Chosen[o] \ {"root"} : fs'[<<o, r>>] = "luks2"
      BY <2>2, <2>5, ChosenRoles DEF LuksInv
    <2>7. \A o \in OS : booted'.os = o => fs'[Root(o)] \in {"plain", "luks2"}
      BY <1>0, <1>1, <2>2, ChosenRoles DEF LuksInv, Root
    <2>8. \A r \in Chosen[job.os] : Ahead(r)' \/ fs'[<<job.os, r>>] = "luks2"
      <3> SUFFICES ASSUME NEW r \in Chosen[job.os], ~Ahead(r)'
                   PROVE  fs'[<<job.os, r>>] = "luks2"
        OBVIOUS
      <3>1. r # job.role /\ ~Ahead(r)
        BY <2>3 DEF Ahead, EncHeaderPc
      <3> QED BY <1>0, <2>2, <3>1, ChosenRoles DEF LuksInv
    <2>9. job'.pc = "add_key" => fs'[Part'] = "luks2"
      BY <1>0, <2>2, <2>3 DEF Part
    <2> QED BY <2>3, <2>6, <2>7, <2>8, <2>9 DEF LuksInv, SetupPc, AddressPc
  <1>3. CASE ~(ReencryptStart \/ ReencryptFinish)
    <2>1. fs' = fs
      BY <1>3 DEF EncryptStep, WriteBackup, EncNext, EncPrepare, AddKey,
           OpenAndGrow, CopyKeyToRoot, CloseMapping, diskVars
    <2>2. CASE AddKey
      <3>1. /\ job.pc = "add_key" /\ job'.pc = "open" /\ job'.os = job.os
            /\ job'.role = job.role /\ job'.todo = job.todo
        BY <1>0, <2>2 DEF AddKey, At, Goto, Job
      <3>2. fs[<<job.os, job.role>>] = "luks2"
        BY <3>1 DEF LuksInv, Part
      <3>3. \A r \in Chosen[job.os] : Ahead(r)' \/ fs[<<job.os, r>>] = "luks2"
        BY <1>0, <3>1, <3>2 DEF LuksInv, Ahead
      <3>4. job.role = "root" => job.todo = {}
        BY <3>1 DEF Base, Known, RunInv, EncHeaderPc
      <3>5. \A o \in OS, r \in Roles :
              keys'[<<o, r>>] = IF o = job.os /\ r = job.role
                                THEN keys[Part] \cup {job.key}
                                ELSE keys[<<o, r>>]
        <4>1. keys' = [keys EXCEPT ![Part] = keys[Part] \cup {job.key}]
          BY <2>2 DEF AddKey
        <4> QED BY <1>0, <4>1, KeysOfOthers
      <3>6. ASSUME NEW o \in OS, HasKey(o, "root")',
                   NEW r \in Chosen[o] \ {"root"}
            PROVE  fs[<<o, r>>] = "luks2"
        <4>1. CASE o = job.os /\ job.role = "root"
          BY <3>1, <3>3, <3>4, <4>1 DEF Ahead, EncHeaderPc
        <4>2. CASE ~(o = job.os /\ job.role = "root")
          <5>1. HasKey(o, "root")
            BY <3>5, <3>6, <4>2, ChosenRoles DEF HasKey
          <5> QED BY <5>1 DEF LuksInv
        <4> QED BY <4>1, <4>2
      <3> QED BY <1>1, <2>1, <3>1, <3>3, <3>6 DEF LuksInv, SetupPc, AddressPc
    <2>3. CASE ~AddKey
      <3>1. keys' = keys
        BY <1>3, <2>3 DEF EncryptStep, WriteBackup, EncNext, EncPrepare,
           OpenAndGrow, CopyKeyToRoot, CloseMapping, diskVars
      <3>2. CASE EncNext
        <4>1. CASE job.todo = {} /\ Goto("done")
          <5>1. job'.pc = "done"
            BY <1>0, <4>1 DEF Goto, Job
          <5> QED BY <1>1, <2>1, <3>1, <5>1
                  DEF LuksInv, HasKey, EncryptPc, SetupPc, AddressPc
        <4>2. ASSUME NEW r \in Roles, r \in job.todo, GotoWith("prepare", r)
              PROVE  LuksInv'
          <5>1. /\ job'.pc = "prepare" /\ job'.os = job.os /\ job'.role = r
                /\ job'.todo = job.todo \ {r}
            BY <1>0, <4>2, GotoWithShape DEF Pc
          <5>2. \A q : Ahead(q)' <=> Ahead(q)
            BY <3>2, <4>2, <5>1 DEF Ahead, EncHeaderPc, EncNext, At
          <5> QED BY <1>0, <1>1, <2>1, <3>1, <5>1, <5>2
                  DEF LuksInv, HasKey, SetupPc, AddressPc
        <4> QED BY <3>2, <4>1, <4>2 DEF EncNext, EncryptsNext
      <3>3. CASE CopyKeyToRoot
        <4>1. /\ job.pc = "copy_key" /\ job'.pc = "address" /\ job'.os = job.os
          BY <1>0, <3>3 DEF CopyKeyToRoot, At, Goto, Job
        <4>2. fs[Root(job.os)] = "luks2"
          <5>1. ~Ahead("root") /\ "root" \in Chosen[job.os]
            BY <4>1 DEF CourseInv, Ahead, EncHeaderPc, Base, Known, RunInv
          <5> QED BY <1>0, <5>1 DEF LuksInv, Root
        <4> QED BY <1>1, <2>1, <3>1, <4>1, <4>2 DEF LuksInv, HasKey, EncryptPc
      <3>4. CASE ~(EncNext \/ CopyKeyToRoot)
        <4>1. /\ job'.os = job.os /\ job'.role = job.role
              /\ job'.todo = job.todo
              /\ job'.pc \in {"enc_next", "reencrypt", "copy_key", "close"}
              /\ (job'.pc \in EncHeaderPc <=> job.pc \in EncHeaderPc)
          BY <1>0, <1>3, <2>3, <3>4
             DEF EncryptStep, WriteBackup, EncPrepare, OpenAndGrow,
                 CloseMapping, At, Goto, Job, EncHeaderPc
        <4>2. \A r : Ahead(r)' <=> Ahead(r)
          BY <4>1 DEF Ahead
        <4> QED BY <1>0, <1>1, <2>1, <3>1, <4>1, <4>2
                DEF LuksInv, HasKey, SetupPc, AddressPc
      <3> QED BY <3>2, <3>3, <3>4
    <2> QED BY <2>2, <2>3
  <1> QED BY <1>2, <1>3

(* The setup writes no header; encrypt() gets control back when it has     *)
(* installed the binary, with every volume done.                           *)
LEMMA LuksSetup == Base /\ LuksInv /\ SetupStep => LuksInv'
  <1> SUFFICES ASSUME Base, LuksInv, SetupStep PROVE LuksInv'
    OBVIOUS
  <1>0. job \in Job /\ job.os \in OS /\ job.pc \in SetupPc
    BY DEF Base, Known, TypeInv, TypeOK, JobShape, SetupStep, SetupAddress,
           SetupEvict, SetupPersist, SetupKillWindowsBootManager,
           SetupAddBlank, SetupRemoveBlank, WriteUnsealScript,
           WritePacmanHook, InstallEfiBinary, At, SetupPc, AddressPc
  <1>1. UNCHANGED <<fs, keys, booted>>
    BY DEF SetupStep, SetupAddress, SetupEvict, SetupPersist,
           SetupKillWindowsBootManager, SetupAddBlank, SetupRemoveBlank,
           WriteUnsealScript, WritePacmanHook, InstallEfiBinary, diskVars,
           machineVars
  <1>2. CASE InstallEfiBinary
    <2>1. /\ job'.os = job.os /\ job.todo = {} /\ HasKey(job.os, "root")
          /\ (job'.pc = "close" /\ job.op = "encrypt") \/ job'.pc = "done"
      BY <1>0, <1>2 DEF InstallEfiBinary, At, Goto, Job, Base, KeyedInv,
                        SetupKeys, Known, RunInv
    <2>2. job.op = "encrypt" => \A r \in Chosen[job.os] : fs[<<job.os, r>>] = "luks2"
      BY <1>0, <2>1 DEF LuksInv, Root
    <2> QED BY <1>1, <2>1, <2>2 DEF LuksInv, HasKey, EncryptPc, SetupPc, AddressPc
  <1>3. CASE ~InstallEfiBinary
    <2>1. /\ job'.pc \in {"evict", "persist", "kill_wbm", "add_blank",
                       "remove_blank", "script", "pac_hook", "install", "done"}
          /\ job'.op = job.op /\ job'.os = job.os
      BY ZenonT(120), <1>0, <1>3, GotoWithShape
         DEF SetupStep, SetupAddress, SetupEvict, SetupPersist,
             SetupKillWindowsBootManager, SetupAddBlank, SetupRemoveBlank,
             WriteUnsealScript, WritePacmanHook, Goto, At, Job, Pc
    <2> QED BY <1>0, <1>1, <2>1 DEF LuksInv, HasKey, EncryptPc
  <1> QED BY <1>2, <1>3

(* decrypt() starts on another volume only once the root is plain.         *)
LEMMA LuksDecrypt == Base /\ LuksInv /\ DecryptStep => LuksInv'
  <1> SUFFICES ASSUME Base, LuksInv, DecryptStep PROVE LuksInv'
    OBVIOUS
  <1>0. /\ TypeInv /\ job \in Job /\ job.os \in OS /\ job.pc # "idle"
        /\ job.op = "decrypt" /\ job.os # booted.os /\ job.role \in Roles
        /\ fs \in [Partition -> FsState]
    BY DEF Base, Known, RunInv, TypeInv, TypeOK, JobShape, DecryptStep,
           DecOpenRoot, DecCloseRoot, DecNext, DecRemoveBlank, DecConvertKeys,
           DecConvertLuks1, DecStart, DecFinish, DecEvict, DecRemoveHooks, At,
           DecryptPc, Job
  <1>1. /\ booted' = booted /\ job'.op = "decrypt"
        /\ job'.pc \notin EncryptPc
    <2>1. job'.pc \in DecryptPc \cup {"done"} /\ job'.op = "decrypt"
      BY SMTT(30), <1>0, GotoWithShape
         DEF DecryptStep, DecOpenRoot, DecCloseRoot, DecNext, DecRemoveBlank,
           DecConvertKeys, DecConvertLuks1, DecStart, DecFinish, DecEvict,
           DecRemoveHooks, Goto, At, Job, Pc, DecryptPc
    <2>2. booted' = booted
      BY DEF DecryptStep, DecOpenRoot, DecCloseRoot, DecNext, DecRemoveBlank,
           DecConvertKeys, DecConvertLuks1, DecStart, DecFinish, DecEvict,
           DecRemoveHooks, machineVars
    <2> QED BY <2>1, <2>2 DEF DecryptPc, EncryptPc
  <1>2. CASE DecConvertLuks1 \/ DecStart \/ DecFinish
    <2>1. PICK v : fs' = [fs EXCEPT ![Part] = v]
      BY <1>2 DEF DecConvertLuks1, DecStart, DecFinish
    <2>2. \A o \in OS, r \in Roles :
            fs'[<<o, r>>] = IF o = job.os /\ r = job.role THEN v
                                                          ELSE fs[<<o, r>>]
      BY <1>0, <2>1, FsOfOthers
    <2>3. job.role # "root" => ~HasKey(job.os, "root")
      BY <1>2 DEF Base, KeyedInv, DecryptKeys, DecHeaderPc, DecConvertLuks1,
                  DecStart, DecFinish, At
    <2>4. \A o \in OS : HasKey(o, "root")' => HasKey(o, "root")
      <3>1. CASE DecFinish
        <4>1. \A o \in OS, r \in Roles :
                keys'[<<o, r>>] = IF o = job.os /\ r = job.role
                                  THEN {} ELSE keys[<<o, r>>]
          BY <1>0, <3>1, KeysOfOthers DEF DecFinish
        <4> QED BY <4>1, ChosenRoles DEF HasKey
      <3>2. CASE ~DecFinish
        BY <1>2, <3>2 DEF DecConvertLuks1, DecStart, HasKey
      <3> QED BY <3>1, <3>2
    <2>5. \A o \in OS : HasKey(o, "root")' =>
            \A r \in Chosen[o] \ {"root"} : fs'[<<o, r>>] = "luks2"
      BY <2>2, <2>3, <2>4, ChosenRoles DEF LuksInv
    <2>6. \A o \in OS : booted'.os = o => fs'[Root(o)] \in {"plain", "luks2"}
      BY <1>0, <1>1, <2>2, ChosenRoles DEF LuksInv, Root
    <2> QED BY <1>1, <2>5, <2>6 DEF LuksInv, EncryptPc
  <1>3. CASE ~(DecConvertLuks1 \/ DecStart \/ DecFinish)
    <2>1. fs' = fs /\ keys' = keys
      BY <1>3 DEF DecryptStep, DecOpenRoot, DecCloseRoot, DecNext,
           DecRemoveBlank, DecConvertKeys, DecEvict, DecRemoveHooks, diskVars
    <2> QED BY <1>1, <2>1 DEF LuksInv, HasKey, EncryptPc
  <1> QED BY <1>2, <1>3

(* An OS boots only with a plain or a LUKS2 root.                          *)
LEMMA LuksRest ==
  ASSUME OneSelection, Base, LuksInv, Finish \/ Abort \/ Asks \/ Machine
  PROVE  LuksInv'
  <1>1. UNCHANGED <<fs, keys>>
    BY DEF Finish, Abort, Asks, LookAround, Machine, BeginEncrypt, StartDecrypt,
           StartSetup, AddBlankPassword, PowerOff, BootLinux, BootMedium,
           BootWindows, WindowsUsesTpm, diskVars
  <1>2. \A o \in OS : booted'.os = o => fs'[Root(o)] \in {"plain", "luks2"}
    <2>1. CASE booted' = booted
      BY <1>1, <2>1 DEF LuksInv
    <2>2. ASSUME NEW o \in OS, BootLinux(o)
          PROVE  booted'.os = o /\ fs[Root(o)] \in {"plain", "luks2"}
      BY <2>2 DEF BootLinux, Root
    <2>3. ASSUME NEW m \in Media, BootMedium(m) PROVE booted'.os = "live"
      BY <2>3, ConstantsAssumption DEF BootMedium
    <2>4. ASSUME PowerOff PROVE booted'.os = "off"
      BY <2>4 DEF PowerOff
    <2>6. ASSUME BootWindows PROVE booted'.os = "windows"
      BY <2>6 DEF BootWindows
    <2>5. Finish \/ Abort \/ Asks \/ (\E a \in Addr : WindowsUsesTpm(a))
          => booted' = booted
      BY DEF Finish, Abort, Asks, LookAround, BeginEncrypt, StartDecrypt, StartSetup,
             AddBlankPassword, WindowsUsesTpm, machineVars
    <2> QED BY <1>1, <2>1, <2>2, <2>3, <2>4, <2>5, <2>6,
               ConstantsAssumption DEF Machine
  <1>3. \/ job' = job \/ job'.pc \in {"idle", "dec_open"}
        \/ job'.pc = "address" /\ job'.op # "encrypt"
        \/ job'.pc = "backup" /\ job'.todo = Chosen[job'.os]
    <2>1. CASE Asks
      BY <2>1, AsksStart, ChosenIsSelection
    <2>2. CASE Finish \/ Abort \/ Machine
      <3>1. job' = job \/ job' = NoJob
        BY <2>2 DEF Finish, Abort, Machine, PowerOff, BootLinux, BootMedium,
                    BootWindows, WindowsUsesTpm
      <3> QED BY <3>1, NoJobShape
    <2> QED BY <2>1, <2>2
  <1>4. \A o \in OS : HasKey(o, "root")' =>
          \A r \in Chosen[o] \ {"root"} : fs'[<<o, r>>] = "luks2"
    BY <1>1 DEF LuksInv, HasKey
  <1>5. CASE job' = job
    BY <1>1, <1>2, <1>4, <1>5 DEF LuksInv, Ahead, Part
  <1>6. CASE job' # job
    BY <1>2, <1>3, <1>4, <1>6 DEF LuksInv, EncryptPc, SetupPc, AddressPc, Ahead
  <1> QED BY <1>5, <1>6

(* The headers, in every reachable state.                                  *)
LEMMA LuksInvariant ==
  ASSUME OneSelection
  PROVE  Spec => []LuksInv
  <1>1. Init => LuksInv
    <2> SUFFICES ASSUME Init PROVE LuksInv
      OBVIOUS
    <2>1. job.pc = "idle"
      BY NoJobShape DEF Init
    <2>2. \A o \in OS : ~HasKey(o, "root") /\ booted.os # o
      BY ChosenRoles, ConstantsAssumption DEF Init, HasKey, Partition
    <2> QED BY <2>1, <2>2 DEF LuksInv, EncryptPc, SetupPc, AddressPc
  <1>2. LuksInv /\ UNCHANGED vars => LuksInv'
    BY DEF LuksInv, HasKey, Ahead, Part, vars, diskVars, machineVars
  <1>3. Base /\ CourseInv /\ LuksInv /\ [Next]_vars => LuksInv'
    BY <1>2, LuksEncrypt, LuksSetup, LuksDecrypt, LuksRest, UserAsks DEF Next, Script
  <1> QED BY <1>1, <1>3, CourseInvariant, PTL DEF Spec

-----------------------------------------------------------------------------
(* What the loops of the setup have done so far, and what a finished setup *)
(* has left: a binary whose volumes all open with the blank password.      *)
OpensBlank(o) ==
    /\ efi[o] # None
    /\ \A r \in Roles : efi[o].uuids[r] # None =>
          /\ fs[<<o, r>>] = "luks2" /\ uuid[<<o, r>>] = efi[o].uuids[r]
          /\ blanks[<<o, r>>] > 0

AddLoop ==
    job.pc \in {"add_blank", "script", "pac_hook", "install"} =>
        \A r \in job.sel \ job.todo :
            /\ blanks[<<job.os, r>>] > 0 /\ Openable(<<job.os, r>>)
            /\ secret[job.os] \in keys[<<job.os, r>>]

RemoveLoop ==
    job.op = "menu" /\ job.pc \in {"remove_blank", "done"} =>
        /\ \A r \in job.sel \ job.todo : blanks[<<job.os, r>>] = 0
        /\ tpm[job.addr] = [key |-> secret[job.os], pcr |-> booted]

Installed ==
    \/ job.op = "hook" /\ job.pc = "done"
    \/ /\ job.op = "encrypt" /\ "root" \notin job.todo
       /\ job.pc \in {"close", "enc_next", "done"}
    => OpensBlank(job.os)

LoopInv == AddLoop /\ RemoveLoop /\ Installed

(* The blank keyslots after a step on one partition of the run's OS.       *)
LEMMA BlanksOfOthers ==
  ASSUME TypeInv, job.os \in OS, NEW q \in Roles, NEW n,
         blanks' = [blanks EXCEPT ![<<job.os, q>>] = n]
  PROVE  /\ blanks'[<<job.os, q>>] = n
         /\ \A o \in OS, r \in Roles :
              ~(o = job.os /\ r = q) => blanks'[<<o, r>>] = blanks[<<o, r>>]
  <1>1. blanks \in [Partition -> Nat] /\ <<job.os, q>> \in Partition
    BY DEF TypeInv, TypeOK, Partition
  <1>2. blanks'[<<job.os, q>>] = n
    BY <1>1
  <1>3. ASSUME NEW o \in OS, NEW r \in Roles, ~(o = job.os /\ r = q)
        PROVE  blanks'[<<o, r>>] = blanks[<<o, r>>]
    <2>1. <<o, r>> \in Partition /\ <<o, r>> # <<job.os, q>>
      BY <1>3 DEF Partition
    <2> QED BY <1>1, <2>1
  <1> QED BY <1>2, <1>3

(* Outside its own steps a run is at its beginning or over.                *)
LEMMA RestStarts ==
  ASSUME TypeInv, Finish \/ Abort \/ Asks \/ Machine
  PROVE  /\ job'.pc \in {"idle", "backup", "dec_open", "address"}
         /\ job'.pc = "address" => job'.op # "encrypt"
  <1>1. CASE Asks
    BY <1>1, AsksStart, NoJobShape
  <1>2. CASE Finish \/ Abort \/ PowerOff
    BY <1>2, NoJobShape DEF Finish, Abort, PowerOff
  <1>3. CASE Machine /\ ~PowerOff
    <2>1. job' = job /\ booted.os \in {"off", "windows"}
      BY <1>3 DEF Machine, BootLinux, BootMedium, BootWindows, WindowsUsesTpm
    <2> QED BY <2>1, NoRunWhenOff
  <1> QED BY <1>1, <1>2, <1>3

(* A run of encrypt() reaches its end past an installed binary only.       *)
LEMMA LoopEncrypt == Base /\ CourseInv /\ LoopInv /\ EncryptStep => LoopInv'
  <1> SUFFICES ASSUME Base, CourseInv, LoopInv, EncryptStep PROVE LoopInv'
    OBVIOUS
  <1>0. /\ TypeInv /\ job \in Job /\ job.pc \in EncryptPc /\ job.op = "encrypt"
    BY DEF Base, Known, RunInv, TypeInv, TypeOK, JobShape, EncryptStep,
           WriteBackup, EncNext, EncPrepare, ReencryptStart, ReencryptFinish,
           AddKey, OpenAndGrow, CopyKeyToRoot, CloseMapping, At, EncryptPc
  <1>1. job'.pc \in EncryptPc \cup {"address", "done"} /\ job'.op = "encrypt"
    BY <1>0, GotoWithShape
       DEF EncryptStep, WriteBackup, EncNext, EncPrepare, ReencryptStart,
           ReencryptFinish, AddKey, OpenAndGrow, CopyKeyToRoot, CloseMapping,
           Goto, Job, Pc, EncryptPc
  <1>2. AddLoop' /\ RemoveLoop'
    BY <1>1 DEF AddLoop, RemoveLoop, EncryptPc
  <1> PICK o : o = job.os
    OBVIOUS
  <1>3. ASSUME "root" \notin job'.todo,
               job'.pc \in {"close", "enc_next", "done"}
        PROVE  OpensBlank(o)' /\ job'.os = o
    <2>1. CASE WriteBackup
      <3>1. "root" \in job'.todo
        BY <1>0, <2>1 DEF WriteBackup, At, Goto, Job, CourseInv
      <3> QED BY <1>3, <3>1
    <2>2. CASE OpenAndGrow
      <3>1. job.role # "root" /\ job'.todo = job.todo /\ job.pc = "open"
        BY <1>0, <1>3, <2>2 DEF OpenAndGrow, At, Goto, Job
      <3>2. "root" \in job.todo
        BY <3>1 DEF CourseInv, Base, Known, RunInv, EncryptPc
      <3> QED BY <1>3, <3>1, <3>2
    <2>3. CASE EncNext \/ CloseMapping
      <3>1. /\ job'.os = job.os /\ job'.todo = job.todo
            /\ job.pc \in {"close", "enc_next"}
        <4>1. CASE CloseMapping
          BY <1>0, <4>1 DEF CloseMapping, At, Goto, Job
        <4>2. ASSUME NEW r \in Roles, GotoWith("prepare", r)
              PROVE  job'.pc = "prepare"
          BY <1>0, <4>2, GotoWithShape DEF Pc
        <4>3. CASE EncNext
          BY <1>0, <1>3, <4>2, <4>3 DEF EncNext, At, Goto, Job
        <4> QED BY <2>3, <4>1, <4>3
      <3>2. OpensBlank(job.os)
        BY <1>0, <1>3, <3>1 DEF LoopInv, Installed
      <3>3. UNCHANGED <<fs, blanks, uuid, efi>>
        BY <2>3 DEF EncNext, CloseMapping, diskVars, fileVars
      <3> QED BY <3>1, <3>2, <3>3 DEF OpensBlank
    <2>4. CASE ~(WriteBackup \/ OpenAndGrow \/ EncNext \/ CloseMapping)
      BY <1>0, <1>3, <2>4
         DEF EncryptStep, EncPrepare, ReencryptStart, ReencryptFinish, AddKey,
             CopyKeyToRoot, Goto, Job
    <2> QED BY <2>1, <2>2, <2>3, <2>4
  <1>4. Installed'
    BY <1>1, <1>3 DEF Installed
  <1> QED BY <1>2, <1>4 DEF LoopInv

(* The setup, loop by loop.                                                *)
LEMMA LoopSetup ==
  Base /\ CourseInv /\ LuksInv /\ LoopInv /\ SetupStep => LoopInv'
  <1> SUFFICES ASSUME Base, CourseInv, LuksInv, LoopInv, SetupStep
               PROVE  LoopInv'
    OBVIOUS
  <1>0. /\ TypeInv /\ job \in Job /\ job.os \in OS /\ job.pc \in SetupPc
        /\ job.sel = Chosen[job.os] /\ job.sel \subseteq Roles /\ "root" \in job.sel
        /\ blanks \in [Partition -> Nat] /\ job.todo \subseteq Roles
        /\ tpm \in [Addr -> Sealed \cup {None}]
    BY DEF Base, Known, RunInv, TypeInv, TypeOK, JobShape, SetupStep,
           SetupAddress, SetupEvict, SetupPersist, SetupKillWindowsBootManager,
           SetupAddBlank, SetupRemoveBlank, WriteUnsealScript,
           WritePacmanHook, InstallEfiBinary, At, SetupPc, AddressPc, Job
  <1>1. UNCHANGED <<fs, keys, uuid, secret, booted>>
    BY DEF SetupStep, SetupAddress, SetupEvict, SetupPersist,
           SetupKillWindowsBootManager, SetupAddBlank, SetupRemoveBlank,
           WriteUnsealScript, WritePacmanHook, InstallEfiBinary, diskVars,
           fileVars, machineVars
  <1>2. CASE SetupAddress \/ SetupEvict
    <2>1. job'.pc \in {"evict", "persist"}
      BY <1>0, <1>2 DEF SetupAddress, SetupEvict, Goto, Job
    <2> QED BY <2>1 DEF LoopInv, AddLoop, RemoveLoop, Installed
  <1>3. CASE SetupPersist
    <2>1. PICK l \in {"kill_wbm", "remove_blank"} :
            job' = [job EXCEPT !.pc = l, !.todo = job.sel]
      BY <1>3 DEF SetupPersist
    <2>2. /\ job'.os = job.os /\ job'.sel = job.sel /\ job'.todo = job.sel
          /\ job'.pc = l /\ job'.addr = job.addr
      BY <1>0, <2>1 DEF Job
    <2>3. job.addr \in Addr
      BY <1>0, <1>3 DEF SetupPersist, At, TypeInv, JobShape, AddressPc
    <2>4. tpm'[job.addr] = [key |-> secret[job.os], pcr |-> booted]
      BY <1>0, <1>3, <2>3 DEF SetupPersist
    <2> QED BY <1>1, <2>2, <2>4 DEF LoopInv, AddLoop, RemoveLoop, Installed
  <1>4. CASE SetupKillWindowsBootManager
    <2>1. /\ job'.pc = "add_blank" /\ job'.todo = job.sel /\ job'.sel = job.sel
      BY <1>0, <1>4 DEF SetupKillWindowsBootManager, At, Goto, Job, Base, Known,
                        RunInv
    <2> QED BY <2>1 DEF LoopInv, AddLoop, RemoveLoop, Installed
  <1>5. CASE SetupAddBlank
    <2>1. CASE job.todo = {} /\ Goto("script") /\ UNCHANGED blanks
      <3>1. /\ job'.pc = "script" /\ job'.todo = job.todo /\ job'.sel = job.sel
            /\ job'.os = job.os /\ job.pc = "add_blank"
        BY <1>0, <1>5, <2>1 DEF SetupAddBlank, At, Goto, Job
      <3> QED BY <1>1, <2>1, <3>1
              DEF LoopInv, AddLoop, RemoveLoop, Installed, Openable
    <2>2. ASSUME NEW q \in Roles, GotoWith("add_blank", q),
                 Openable(<<job.os, q>>),
                 secret[job.os] \in keys[<<job.os, q>>],
                 blanks' = [blanks EXCEPT ![<<job.os, q>>] = @ + 1]
          PROVE  LoopInv'
      <3>1. /\ job'.pc = "add_blank" /\ job'.todo = job.todo \ {q}
            /\ job'.sel = job.sel /\ job'.os = job.os /\ job.pc = "add_blank"
        BY <1>0, <1>5, <2>2, GotoWithShape DEF SetupAddBlank, At, Pc
      <3>2. /\ blanks'[<<job.os, q>>] = blanks[<<job.os, q>>] + 1
            /\ \A r \in Roles \ {q} :
                 blanks'[<<job.os, r>>] = blanks[<<job.os, r>>]
        <4>1. PICK n \in Nat : n = blanks[<<job.os, q>>] + 1
          BY <1>0 DEF Partition
        <4>2. blanks' = [blanks EXCEPT ![<<job.os, q>>] = n]
          BY <2>2, <4>1
        <4> QED BY ZenonT(60), <1>0, <4>1, <4>2, BlanksOfOthers
      <3>3. blanks[<<job.os, q>>] \in Nat
        BY <1>0 DEF Partition
      <3>4. ASSUME NEW r \in job.sel \ job'.todo
            PROVE  /\ blanks'[<<job.os, r>>] > 0 /\ Openable(<<job.os, r>>)
                   /\ secret[job.os] \in keys[<<job.os, r>>]
        <4>1. CASE r = q
          BY <1>0, <2>2, <3>2, <3>3, <4>1
        <4>2. CASE r # q
          <5>1. r \in job.sel \ job.todo
            BY <3>1, <3>4, <4>2
          <5> QED BY <1>0, <3>1, <3>2, <4>2, <5>1 DEF LoopInv, AddLoop
        <4> QED BY <4>1, <4>2
      <3> QED BY <1>1, <3>1, <3>4
              DEF LoopInv, AddLoop, RemoveLoop, Installed, Openable
    <2> QED BY <1>5, <2>1, <2>2 DEF SetupAddBlank
  <1>6. CASE SetupRemoveBlank
    <2>0. /\ UNCHANGED tpm /\ job.pc = "remove_blank" /\ job.op = "menu"
      BY <1>6 DEF SetupRemoveBlank, machineVars, At, Base, Known, RunInv
    <2>1. CASE job.todo = {} /\ Goto("done") /\ UNCHANGED blanks
      <3>1. /\ job'.pc = "done" /\ job'.todo = job.todo /\ job'.sel = job.sel
            /\ job'.os = job.os /\ job'.op = job.op /\ job'.addr = job.addr
        BY <1>0, <1>6, <2>1 DEF Goto, Job
      <3> QED BY <1>1, <2>0, <2>1, <3>1
              DEF LoopInv, AddLoop, RemoveLoop, Installed
    <2>2. ASSUME NEW q \in Roles, q \in job.todo, UNCHANGED job,
                 RemoveOneBlank(<<job.os, q>>)
          PROVE  LoopInv'
      <3>1. \A r \in Roles \ {q} :
              blanks'[<<job.os, r>>] = blanks[<<job.os, r>>]
        <4>1. PICK n : n = blanks[<<job.os, q>>] - 1
          OBVIOUS
        <4>2. blanks' = [blanks EXCEPT ![<<job.os, q>>] = n]
          BY <2>2, <4>1 DEF RemoveOneBlank
        <4> QED BY <1>0, <4>2, BlanksOfOthers
      <3>2. \A r \in job.sel \ job.todo : blanks'[<<job.os, r>>] = 0
        BY <1>0, <2>0, <2>2, <3>1 DEF LoopInv, RemoveLoop
      <3> QED BY <1>1, <2>0, <2>2, <3>2
              DEF LoopInv, AddLoop, RemoveLoop, Installed
    <2>3. ASSUME NEW q \in Roles, GotoWith("remove_blank", q),
                 blanks[<<job.os, q>>] = 0, UNCHANGED blanks
          PROVE  LoopInv'
      <3>1. /\ job'.pc = "remove_blank" /\ job'.todo = job.todo \ {q}
            /\ job'.sel = job.sel /\ job'.os = job.os /\ job'.op = job.op
            /\ job'.addr = job.addr
        BY <1>0, <2>3, GotoWithShape DEF Pc
      <3> QED BY <1>1, <2>0, <2>3, <3>1
              DEF LoopInv, AddLoop, RemoveLoop, Installed
    <2> QED BY <1>6, <2>1, <2>2, <2>3 DEF SetupRemoveBlank, VisitsNext
  <1>7. CASE WriteUnsealScript \/ WritePacmanHook
    <2>1. /\ job'.pc \in {"pac_hook", "install"} /\ job'.todo = job.todo
          /\ job'.sel = job.sel /\ job'.os = job.os
          /\ job.pc \in {"script", "pac_hook"} /\ blanks' = blanks
      BY <1>0, <1>7
         DEF WriteUnsealScript, WritePacmanHook, At, Goto, Job, diskVars
    <2> QED BY <1>1, <2>1 DEF LoopInv, AddLoop, RemoveLoop, Installed, Openable
  <1>8. CASE InstallEfiBinary
    <2>1. /\ job'.pc \in {"close", "done"} /\ job'.os = job.os
          /\ job.pc = "install" /\ blanks' = blanks /\ job.todo = {}
          /\ job'.op = job.op /\ job.op \in {"encrypt", "hook"}
      BY <1>0, <1>8
         DEF InstallEfiBinary, At, Goto, Job, diskVars, Base, Known, RunInv,
             CourseInv
    <2>2. HasKey(job.os, "root")
      BY <2>1 DEF Base, KeyedInv, SetupKeys
    <2>3. ASSUME NEW r \in Chosen[job.os]
          PROVE  fs[<<job.os, r>>] = "luks2" /\ blanks[<<job.os, r>>] > 0
      <3>1. blanks[<<job.os, r>>] > 0 /\ Openable(<<job.os, r>>)
        BY <1>0, <2>1 DEF LoopInv, AddLoop
      <3>2. CASE r # "root"
        BY <1>0, <2>2, <3>1, <3>2 DEF LuksInv
      <3>3. CASE r = "root" /\ job.op = "encrypt"
        BY <1>0, <3>1, <3>3 DEF LuksInv, Root
      <3>4. CASE r = "root" /\ job.op = "hook"
        <4>1. booted.os = job.os
          BY <3>4 DEF Base, Known, RunInv
        <4> QED BY <1>0, <3>1, <3>4, <4>1 DEF LuksInv, Root, Openable
      <3> QED BY <2>1, <3>2, <3>3, <3>4
    <2>4. efi'[job.os] = NewBinary(job.os)
      BY <1>0, <1>8 DEF InstallEfiBinary, TypeInv, TypeOK
    <2>5. /\ NewBinary(job.os) # None
          /\ \A r \in Roles : NewBinary(job.os).uuids[r]
                = IF r \in Chosen[job.os] THEN uuid[<<job.os, r>>] ELSE None
      <3>1. NewBinary(job.os).uuids
              = [r \in Roles |-> IF r \in job.sel THEN uuid[<<job.os, r>>]
                                                  ELSE None]
        BY DEF NewBinary
      <3>2. NewBinary(job.os) # None
        BY <1>0, <1>8, NewBinaryIsBinary, NoneAssumption
      <3> QED BY <1>0, <3>1, <3>2
    <2>6. PICK o \in OS : o = job.os
      BY <1>0
    <2>7. OpensBlank(o)'
      BY <1>1, <2>1, <2>3, <2>4, <2>5, <2>6 DEF OpensBlank
    <2>8. job'.os = o
      BY <2>1, <2>6
    <2> QED BY <2>1, <2>7, <2>8 DEF LoopInv, AddLoop, RemoveLoop, Installed
  <1> QED BY <1>2, <1>3, <1>4, <1>5, <1>6, <1>7, <1>8 DEF SetupStep

(* decrypt() has no part in it, nor has the start of any run.              *)
LEMMA LoopRest ==
  ASSUME Base, CourseInv, LoopInv,
         DecryptStep \/ Finish \/ Abort \/ Asks \/ Machine
  PROVE  LoopInv'
  <1>0. TypeInv /\ job \in Job
    BY DEF Base, Known, TypeInv, TypeOK
  <1>1. CASE DecryptStep
    <2>1. job'.op = "decrypt" /\ job'.pc \in DecryptPc \cup {"done"}
      BY ZenonT(120), <1>0, <1>1, GotoWithShape
         DEF Base, Known, RunInv, DecryptStep, DecOpenRoot, DecCloseRoot,
             DecNext, DecRemoveBlank, DecConvertKeys, DecConvertLuks1,
             DecStart, DecFinish, DecEvict, DecRemoveHooks, Goto, At, Job, Pc,
             DecryptPc
    <2> QED BY <2>1 DEF LoopInv, AddLoop, RemoveLoop, Installed, DecryptPc
  <1>2. CASE Finish \/ Abort \/ Asks \/ Machine
    <2>1. job'.pc \in {"idle", "backup", "dec_open", "address"}
      BY <1>0, <1>2, RestStarts
    <2> QED BY <2>1 DEF LoopInv, AddLoop, RemoveLoop, Installed
  <1> QED BY <1>1, <1>2

(* The loops of the setup, in every reachable state.                       *)
LEMMA LoopInvariant ==
  ASSUME OneSelection
  PROVE  Spec => []LoopInv
  <1>1. Init => LoopInv
    BY NoJobShape DEF Init, LoopInv, AddLoop, RemoveLoop, Installed
  <1>2. LoopInv /\ UNCHANGED vars => LoopInv'
    BY DEF LoopInv, AddLoop, RemoveLoop, Installed, OpensBlank, Openable, vars,
           diskVars, fileVars, machineVars
  <1>3. Base /\ CourseInv /\ LuksInv /\ LoopInv /\ [Next]_vars => LoopInv'
    BY <1>2, LoopEncrypt, LoopSetup, LoopRest, UserAsks DEF Next, Script
  <1> QED BY <1>1, <1>3, CourseInvariant, LuksInvariant, PTL DEF Spec

-----------------------------------------------------------------------------
(* When the root is still the one the binary names, the run that installed *)
(* the binary has left its key and its address for the TPM everywhere.     *)
Match(o) == efi[o] # None /\ uuid[Root(o)] = efi[o].uuids["root"]

FreshRoot ==
    \/ job.op = "encrypt" /\ job.pc \in SetupPc
    \/ job.role = "root" /\ job.pc \in {"reencrypting", "add_key", "open", "copy_key"}
    => /\ uuid[Root(job.os)] = job.key
       /\ efi[job.os] # None => efi[job.os].uuids["root"] # job.key

Sealable ==
    \A o \in OS : Match(o) =>
        /\ hookAddr[o] = efi[o].addr
        /\ \A r \in Chosen[o] : secret[o] \in keys[<<o, r>>]

NamesChosen ==
    \A o \in OS : efi[o] # None =>
        \A r \in Roles : efi[o].uuids[r] # None => r \in Chosen[o]

BootedMatch == \A o \in OS : booted.os = o /\ booted.ver # 0 => Match(o)

FreshInv == FreshRoot /\ Sealable /\ NamesChosen /\ BootedMatch

(* A new or a vanished header leaves the OS without a matching binary.     *)
LEMMA MatchDisk ==
  ASSUME Base, ReencryptStart \/ DecFinish, NEW o \in OS
  PROVE  /\ o = job.os => ~Match(o)'
         /\ o # job.os => /\ Match(o)' <=> Match(o)
                          /\ \A r \in Roles : keys'[<<o, r>>] = keys[<<o, r>>]
         /\ job.os # booted.os
  <1>0. /\ TypeInv /\ job.os \in OS /\ job.pc # "idle" /\ efi' = efi
        /\ uuid \in [Partition -> Key \cup {None}] /\ backups \subseteq Key
        /\ Root(o) \in Partition
    BY ChosenRoles
       DEF Base, Known, TypeInv, TypeOK, JobShape, ReencryptStart, DecFinish,
           At, fileVars, Root, Partition
  <1>1. PICK v : uuid' = [uuid EXCEPT ![Part] = v] /\ v \in {job.key, None}
                 /\ keys' = [keys EXCEPT ![Part] = {}]
    BY DEF ReencryptStart, DecFinish
  <1>2. job.os # booted.os
    BY DEF Base, Known, RunInv, TypeInv, JobShape, ReencryptStart, DecFinish,
           At, EncryptPc, DecryptPc
  <1>3. CASE o # job.os
    <2>1. Root(o) # Part
      BY <1>3 DEF Root, Part
    <2>2. uuid'[Root(o)] = uuid[Root(o)]
      BY <1>0, <1>1, <2>1
    <2>3. \A r \in Roles : keys'[<<o, r>>] = keys[<<o, r>>]
      <3>1. \A c \in OS, r \in Roles :
              keys'[<<c, r>>] = IF c = job.os /\ r = job.role
                                THEN {} ELSE keys[<<c, r>>]
        BY <1>0, <1>1, KeysOfOthers
      <3> QED BY <1>3, <3>1
    <2> QED BY <1>0, <1>2, <1>3, <2>2, <2>3 DEF Match
  <1>4. CASE o = job.os /\ job.role = "root"
    <2>1. uuid'[Root(o)] = v
      BY <1>0, <1>1, <1>4 DEF Root, Part
    <2>2. ASSUME efi[o] # None PROVE efi[o].uuids["root"] # v
      <3>1. CASE ReencryptStart
        <4>1. uuid'[Root(o)] = job.key /\ job.pc = "reencrypt"
          BY <1>0, <1>4, <3>1 DEF ReencryptStart, At, Root, Part
        <4> QED BY <1>4, <2>1, <2>2, <4>1 DEF Base, BinaryInv, EncryptPc
      <3>2. CASE DecFinish
        <4>1. uuid'[Root(o)] = None
          BY <1>0, <1>4, <3>2 DEF DecFinish, Root, Part
        <4> QED BY <1>0, <2>1, <2>2, <4>1, ConstantsAssumption
                DEF Base, BinaryInv
      <3> QED BY <3>1, <3>2
    <2> QED BY <1>0, <1>2, <1>4, <2>1, <2>2 DEF Match
  <1>5. CASE o = job.os /\ job.role # "root"
    <2>1. Root(o) # Part
      BY <1>5 DEF Root, Part
    <2>2. uuid'[Root(o)] = uuid[Root(o)]
      BY <1>0, <1>1, <2>1
    <2>3. ~HasKey(o, "root")
      <3>1. CASE ReencryptStart
        <4>1. job.pc = "reencrypt" /\ "root" \in job.todo
          BY <1>5, <3>1 DEF ReencryptStart, At, Base, Known, RunInv, EncryptPc,
                            EncHeaderPc
        <4> QED BY <1>5, <4>1 DEF Base, KeyedInv, EncryptKeys, Ahead, EncryptPc
      <3>2. CASE DecFinish
        BY <1>5, <3>2 DEF DecFinish, At, Base, KeyedInv, DecryptKeys,
                          DecHeaderPc
      <3> QED BY <3>1, <3>2
    <2>4. ~Match(o)
      BY <1>0, <2>3 DEF Match, Base, BinaryInv
    <2> QED BY <1>0, <1>2, <1>5, <2>2, <2>4 DEF Match
  <1> QED BY <1>3, <1>4, <1>5

(* encrypt() makes a root that no binary knows, and overwrites KEY_PATH    *)
(* only on such a root.                                                    *)
LEMMA FreshEncrypt == Base /\ CourseInv /\ FreshInv /\ EncryptStep => FreshInv'
  <1> SUFFICES ASSUME Base, CourseInv, FreshInv, EncryptStep PROVE FreshInv'
    OBVIOUS
  <1>0. /\ TypeInv /\ job \in Job /\ job.os \in OS /\ job.op = "encrypt"
        /\ job.pc \in EncryptPc /\ job.pc # "idle"
        /\ secret \in [OS -> Key \cup {None}]
        /\ uuid \in [Partition -> Key \cup {None}]
    BY DEF Base, Known, RunInv, TypeInv, TypeOK, JobShape, EncryptStep,
           WriteBackup, EncNext, EncPrepare, ReencryptStart, ReencryptFinish,
           AddKey, OpenAndGrow, CopyKeyToRoot, CloseMapping, At, EncryptPc
  <1>1. UNCHANGED <<efi, hookAddr, booted>>
    BY DEF EncryptStep, WriteBackup, EncNext, EncPrepare, ReencryptStart,
           ReencryptFinish, AddKey, OpenAndGrow, CopyKeyToRoot, CloseMapping,
           fileVars, machineVars
  <1>2. NamesChosen'
    BY <1>1 DEF FreshInv, NamesChosen
  <1>3. CASE ReencryptStart
    <2>1. /\ job'.os = job.os /\ job'.key = job.key /\ job'.role = job.role
          /\ job'.pc = "reencrypting" /\ job.pc = "reencrypt" /\ secret' = secret
      BY <1>0, <1>3 DEF ReencryptStart, At, Goto, Job, fileVars
    <2>2. FreshRoot'
      <3> SUFFICES ASSUME job.role = "root"
                   PROVE  /\ uuid'[Root(job.os)] = job.key
                          /\ efi[job.os] # None
                             => efi[job.os].uuids["root"] # job.key
        BY <1>1, <2>1 DEF FreshRoot, SetupPc, AddressPc, Root
      <3>1. Root(job.os) \in Partition /\ Root(job.os) = Part
        BY <1>0, ChosenRoles DEF Root, Part, Partition
      <3> QED BY <1>0, <1>3, <2>1, <3>1 DEF ReencryptStart, Base, BinaryInv
    <2>3. Sealable'
      BY <1>1, <1>3, <2>1, MatchDisk, ChosenRoles DEF FreshInv, Sealable, Match
    <2>4. BootedMatch'
      BY <1>1, <1>3, MatchDisk DEF FreshInv, BootedMatch
    <2> QED BY <1>2, <2>2, <2>3, <2>4 DEF FreshInv
  <1>4. CASE CopyKeyToRoot
    <2>1. /\ job'.os = job.os /\ job'.key = job.key /\ job'.role = job.role
          /\ job.pc = "copy_key" /\ job.role = "root"
          /\ UNCHANGED <<uuid, keys>>
      BY <1>0, <1>4 DEF CopyKeyToRoot, At, Goto, Job, diskVars, CourseInv
    <2>2. FreshRoot' /\ BootedMatch'
      BY <1>1, <2>1 DEF FreshInv, FreshRoot, BootedMatch, Match, Root
    <2>3. ~Match(job.os)
      BY <2>1 DEF FreshInv, FreshRoot, Match
    <2>4. \A o \in OS : o # job.os => secret'[o] = secret[o]
      BY <1>0, <1>4 DEF CopyKeyToRoot
    <2>5. Sealable'
      BY <1>1, <2>1, <2>3, <2>4 DEF FreshInv, Sealable, Match, Root
    <2> QED BY <1>2, <2>2, <2>5 DEF FreshInv
  <1>5. CASE ~(ReencryptStart \/ CopyKeyToRoot)
    <2>1. UNCHANGED <<uuid, secret>>
      BY <1>5 DEF EncryptStep, WriteBackup, EncNext, EncPrepare,
           ReencryptFinish, AddKey, OpenAndGrow, CloseMapping, diskVars,
           fileVars
    <2>2. \A o \in OS, r \in Roles : keys[<<o, r>>] \subseteq keys'[<<o, r>>]
      <3>1. CASE AddKey
        <4>1. keys' = [keys EXCEPT ![Part] = keys[Part] \cup {job.key}]
          BY <3>1 DEF AddKey
        <4>2. \A o \in OS, r \in Roles :
                keys'[<<o, r>>] = IF o = job.os /\ r = job.role
                                  THEN keys[Part] \cup {job.key}
                                  ELSE keys[<<o, r>>]
          BY <1>0, <4>1, KeysOfOthers
        <4> QED BY <4>2 DEF Part
      <3>2. CASE ~AddKey
        BY <1>5, <3>2 DEF EncryptStep, WriteBackup, EncNext, EncPrepare,
             ReencryptFinish, OpenAndGrow, CloseMapping, diskVars
      <3> QED BY <3>1, <3>2
    <2>3. Sealable' /\ BootedMatch'
      BY <1>1, <2>1, <2>2, ChosenRoles
         DEF FreshInv, Sealable, BootedMatch, Match, Root
    <2>4. CASE ReencryptFinish \/ AddKey \/ OpenAndGrow
      <3>1. /\ job'.os = job.os /\ job'.key = job.key /\ job'.role = job.role
            /\ job'.pc \in {"add_key", "open", "copy_key", "close"}
            /\ job.pc \in {"reencrypting", "add_key", "open"}
        BY <1>0, <2>4 DEF ReencryptFinish, AddKey, OpenAndGrow, At, Goto, Job
      <3>2. FreshRoot'
        BY <1>1, <2>1, <3>1 DEF FreshInv, FreshRoot, SetupPc, AddressPc, Root
      <3> QED BY <1>2, <2>3, <3>2 DEF FreshInv
    <2>5. CASE WriteBackup \/ EncNext \/ EncPrepare \/ CloseMapping
      <3>1. job'.pc \in {"enc_next", "prepare", "reencrypt", "done"}
        BY <1>0, <2>5, GotoWithShape
           DEF WriteBackup, EncNext, EncPrepare, CloseMapping, Goto, Job, Pc
      <3>2. FreshRoot'
        BY <3>1 DEF FreshRoot, SetupPc, AddressPc
      <3> QED BY <1>2, <2>3, <3>2 DEF FreshInv
    <2> QED BY <1>5, <2>4, <2>5 DEF EncryptStep
  <1> QED BY <1>3, <1>4, <1>5

(* The setup leaves a matching binary, at the address of the script.       *)
LEMMA FreshSetup ==
  Base /\ CourseInv /\ LoopInv /\ FreshInv /\ SetupStep => FreshInv'
  <1> SUFFICES ASSUME Base, CourseInv, LoopInv, FreshInv, SetupStep
               PROVE  FreshInv'
    OBVIOUS
  <1>0. /\ TypeInv /\ job \in Job /\ job.os \in OS /\ job.pc \in SetupPc
        /\ job.sel = Chosen[job.os] /\ "root" \in job.sel
        /\ hookAddr \in [OS -> Addr \cup {None}]
        /\ efi \in [OS -> EfiBinary \cup {None}]
    BY DEF Base, Known, RunInv, TypeInv, TypeOK, JobShape, SetupStep,
           SetupAddress, SetupEvict, SetupPersist, SetupKillWindowsBootManager,
           SetupAddBlank, SetupRemoveBlank, WriteUnsealScript,
           WritePacmanHook, InstallEfiBinary, At, SetupPc, AddressPc, Job
  <1>1. UNCHANGED <<fs, keys, uuid, secret, booted>>
    BY DEF SetupStep, SetupAddress, SetupEvict, SetupPersist,
           SetupKillWindowsBootManager, SetupAddBlank, SetupRemoveBlank,
           WriteUnsealScript, WritePacmanHook, InstallEfiBinary, diskVars,
           fileVars, machineVars
  <1>2. CASE InstallEfiBinary
    <2>1. /\ job'.pc \in {"close", "done"} /\ hookAddr' = hookAddr
          /\ job.pc = "install" /\ job.todo = {} /\ job.addr = hookAddr[job.os]
      BY <1>0, <1>2
         DEF InstallEfiBinary, At, Goto, Job, Base, Known, RunInv, CourseInv
    <2>2. FreshRoot'
      BY <2>1 DEF FreshRoot, SetupPc, AddressPc
    <2>3. \A o \in OS : efi'[o] = IF o = job.os THEN NewBinary(o) ELSE efi[o]
      BY <1>0, <1>2 DEF InstallEfiBinary
    <2>4. /\ NewBinary(job.os) # None /\ NewBinary(job.os).addr = job.addr
          /\ \A r \in Roles : NewBinary(job.os).uuids[r]
                = IF r \in Chosen[job.os] THEN uuid[<<job.os, r>>] ELSE None
      <3>1. NewBinary(job.os) # None
        BY <1>0, <1>2, NewBinaryIsBinary, NoneAssumption
      <3> QED BY <1>0, <3>1 DEF NewBinary
    <2>5. NamesChosen'
      <3>1. ASSUME NEW o \in OS, o = job.os, NEW r \in Roles, efi'[o].uuids[r] # None
            PROVE  r \in Chosen[o]
        BY <2>3, <2>4, <3>1
      <3>2. ASSUME NEW o \in OS, o # job.os PROVE efi'[o] = efi[o]
        BY <2>3, <3>2
      <3> QED BY <3>1, <3>2 DEF FreshInv, NamesChosen
    <2>6. BootedMatch'
      BY <1>0, <1>1, <2>3, <2>4, ChosenRoles
         DEF FreshInv, BootedMatch, Match, Root
    <2>7. \A r \in Chosen[job.os] : secret[job.os] \in keys[<<job.os, r>>]
      BY <1>0, <2>1 DEF LoopInv, AddLoop
    <2>8. Sealable'
      BY <1>0, <1>1, <2>1, <2>3, <2>4, <2>7
         DEF FreshInv, Sealable, Match, Root
    <2> QED BY <2>2, <2>5, <2>6, <2>8 DEF FreshInv
  <1>3. CASE ~InstallEfiBinary
    <2>1. efi' = efi
      BY <1>3 DEF SetupStep, SetupAddress, SetupEvict, SetupPersist,
           SetupKillWindowsBootManager, SetupAddBlank, SetupRemoveBlank,
           WriteUnsealScript, WritePacmanHook, fileVars
    <2>2. NamesChosen' /\ BootedMatch'
      BY <1>1, <2>1 DEF FreshInv, NamesChosen, BootedMatch, Match
    <2>3. Sealable'
      <3>1. CASE WriteUnsealScript
        <4>1. \A o \in OS : hookAddr'[o] = IF o = job.os THEN job.addr
                                                         ELSE hookAddr[o]
          BY <1>0, <3>1 DEF WriteUnsealScript
        <4>2. hookAddr[job.os] # None => job.addr = hookAddr[job.os]
          BY <3>1 DEF WriteUnsealScript, At, CourseInv, AddressPc
        <4>3. \A o \in OS : efi[o] # None => efi[o].addr # None
          BY <1>0, ConstantsAssumption DEF EfiBinary
        <4> QED BY <1>0, <1>1, <2>1, <4>1, <4>2, <4>3
                DEF FreshInv, Sealable, Match
      <3>2. CASE ~WriteUnsealScript
        <4>1. hookAddr' = hookAddr
          BY <1>3, <3>2 DEF SetupStep, SetupAddress, SetupEvict, SetupPersist,
             SetupKillWindowsBootManager, SetupAddBlank, SetupRemoveBlank,
             WritePacmanHook, fileVars
        <4> QED BY <1>1, <2>1, <4>1 DEF FreshInv, Sealable, Match
      <3> QED BY <3>1, <3>2
    <2>4. /\ job'.os = job.os /\ job'.key = job.key /\ job'.op = job.op
          /\ job'.pc \in SetupPc \cup {"done"}
      <3> USE <1>0 DEF Goto, At, Job, Pc, SetupPc, AddressPc
      <3>1. CASE SetupAddress BY <3>1 DEF SetupAddress
      <3>2. CASE SetupPersist BY <3>2 DEF SetupPersist
      <3>3. CASE SetupAddBlank BY ZenonT(60), <3>3, GotoWithShape DEF SetupAddBlank
      <3>4. CASE SetupRemoveBlank BY ZenonT(60), <3>4, GotoWithShape DEF SetupRemoveBlank
      <3>5. CASE \/ SetupEvict \/ SetupKillWindowsBootManager
                 \/ WriteUnsealScript \/ WritePacmanHook
        BY <3>5 DEF SetupEvict, SetupKillWindowsBootManager, WriteUnsealScript,
                    WritePacmanHook
      <3> QED BY <1>3, <3>1, <3>2, <3>3, <3>4, <3>5 DEF SetupStep
    <2>5. FreshRoot'
      BY <1>0, <1>1, <2>1, <2>4 DEF FreshInv, FreshRoot, SetupPc, AddressPc, Root
    <2> QED BY <2>2, <2>3, <2>5 DEF FreshInv
  <1> QED BY <1>2, <1>3

(* decrypt() removes the script only of an OS whose root has lost its name. *)
LEMMA FreshDecrypt ==
  Base /\ CourseInv /\ FreshInv /\ DecryptStep => FreshInv'
  <1> SUFFICES ASSUME Base, CourseInv, FreshInv, DecryptStep PROVE FreshInv'
    OBVIOUS
  <1>0. /\ TypeInv /\ job \in Job /\ job.os \in OS
        /\ hookAddr \in [OS -> Addr \cup {None}]
    BY DEF Base, Known, TypeInv, TypeOK, JobShape, DecryptStep, DecOpenRoot,
           DecCloseRoot, DecNext, DecRemoveBlank, DecConvertKeys,
           DecConvertLuks1, DecStart, DecFinish, DecEvict, DecRemoveHooks, At
  <1>1. UNCHANGED <<efi, secret, booted>>
    BY DEF DecryptStep, DecOpenRoot, DecCloseRoot, DecNext, DecRemoveBlank,
           DecConvertKeys, DecConvertLuks1, DecStart, DecFinish, DecEvict,
           DecRemoveHooks, fileVars, machineVars
  <1>2. FreshRoot'
    <2>1. job'.pc \in DecryptPc \cup {"done"}
      BY ZenonT(60), <1>0, GotoWithShape
         DEF DecryptStep, DecOpenRoot, DecCloseRoot, DecNext, DecRemoveBlank,
             DecConvertKeys, DecConvertLuks1, DecStart, DecFinish, DecEvict,
             DecRemoveHooks, Goto, At, Job, Pc, DecryptPc
    <2> QED BY <2>1 DEF FreshRoot, SetupPc, AddressPc, DecryptPc
  <1>3. NamesChosen'
    BY <1>1 DEF FreshInv, NamesChosen
  <1>4. CASE DecFinish
    <2>1. hookAddr' = hookAddr
      BY <1>4 DEF DecFinish, fileVars
    <2>2. Sealable'
      BY <1>1, <1>4, <2>1, MatchDisk, ChosenRoles DEF FreshInv, Sealable, Match
    <2>3. BootedMatch'
      BY <1>1, <1>4, MatchDisk DEF FreshInv, BootedMatch
    <2> QED BY <1>2, <1>3, <2>2, <2>3 DEF FreshInv
  <1>5. CASE ~DecFinish
    <2>1. UNCHANGED <<uuid, keys>>
      BY <1>5 DEF DecryptStep, DecOpenRoot, DecCloseRoot, DecNext,
           DecRemoveBlank, DecConvertKeys, DecConvertLuks1, DecStart, DecEvict,
           DecRemoveHooks, diskVars
    <2>2. BootedMatch'
      BY <1>1, <2>1 DEF FreshInv, BootedMatch, Match
    <2>3. CASE DecRemoveHooks
      <3>1. job.pc = "dec_hooks" /\ "root" \notin job.todo
        BY <2>3 DEF DecRemoveHooks, At, CourseInv
      <3>2. ~Match(job.os)
        BY <1>0, <3>1 DEF Match, Base, KeyedInv, DecryptKeys, BinaryInv
      <3>3. \A o \in OS : o # job.os => hookAddr'[o] = hookAddr[o]
        BY <1>0, <2>3 DEF DecRemoveHooks
      <3>4. Sealable'
        BY <1>1, <2>1, <3>2, <3>3 DEF FreshInv, Sealable, Match
      <3> QED BY <1>2, <1>3, <2>2, <3>4 DEF FreshInv
    <2>4. CASE ~DecRemoveHooks
      <3>1. hookAddr' = hookAddr
        BY <1>5, <2>4 DEF DecryptStep, DecOpenRoot, DecCloseRoot, DecNext,
           DecRemoveBlank, DecConvertKeys, DecConvertLuks1, DecStart, DecEvict,
           fileVars
      <3>2. Sealable'
        BY <1>1, <2>1, <3>1 DEF FreshInv, Sealable, Match
      <3> QED BY <1>2, <1>3, <2>2, <3>2 DEF FreshInv
    <2> QED BY <2>3, <2>4
  <1> QED BY <1>4, <1>5

(* An encrypted OS boots only from a binary that matches its root.         *)
LEMMA FreshRest ==
  ASSUME Base, FreshInv, Finish \/ Abort \/ Asks \/ Machine
  PROVE  FreshInv'
  <1>0. TypeInv /\ backups \subseteq Key
    BY DEF Base, Known, TypeInv, TypeOK
  <1>1. UNCHANGED <<keys, uuid, efi, secret, hookAddr>>
    BY DEF Finish, Abort, Asks, LookAround, Machine, BeginEncrypt, StartDecrypt,
           StartSetup, AddBlankPassword, PowerOff, BootLinux, BootMedium,
           BootWindows, WindowsUsesTpm, diskVars, fileVars
  <1>2. /\ job'.pc \in {"idle", "backup", "dec_open", "address"}
        /\ job'.pc = "address" => job'.op # "encrypt"
    BY <1>0, RestStarts
  <1>3. FreshRoot'
    BY <1>2 DEF FreshRoot, SetupPc, AddressPc
  <1>4. Sealable' /\ NamesChosen'
    BY <1>1 DEF FreshInv, Sealable, NamesChosen, Match
  <1>5. ASSUME NEW o \in OS, BootLinux(o)
        PROVE  booted'.os = o /\ (booted'.ver # 0 => Match(o))
    <2>1. booted'.os = o
      BY <1>5 DEF BootLinux
    <2>2. CASE CanBootEncrypted(o)
      <3>1. efi[o] # None /\ efi[o].uuids["root"] # None
        BY <1>0, <2>2, ConstantsAssumption DEF CanBootEncrypted, Base, BinaryInv
      <3> QED BY <2>1, <2>2, <3>1, ChosenRoles DEF CanBootEncrypted, Match, Root
    <2>3. CASE booted' = [os |-> o, ver |-> 0]
      BY <2>1, <2>3
    <2> QED BY <1>5, <2>2, <2>3 DEF BootLinux
  <1>6. ASSUME NEW m \in Media, BootMedium(m) PROVE booted'.ver = 0
    BY <1>6 DEF BootMedium
  <1>7. CASE PowerOff \/ BootWindows
    <2>1. \E h : booted' = [os |-> h, ver |-> 0]
      BY <1>7 DEF PowerOff, BootWindows
    <2>2. booted'.ver = 0
      BY <2>1
    <2> QED BY <1>3, <1>4, <2>2 DEF FreshInv, BootedMatch
  <1>8. CASE booted' = booted
    BY <1>1, <1>3, <1>4, <1>8 DEF FreshInv, BootedMatch, Match
  <1>9. CASE Machine
    <2>1. ASSUME NEW o \in OS, BootLinux(o) PROVE FreshInv'
      BY <1>1, <1>3, <1>4, <1>5, <2>1 DEF FreshInv, BootedMatch, Match
    <2>2. ASSUME NEW m \in Media, BootMedium(m) PROVE FreshInv'
      BY <1>3, <1>4, <1>6, <2>2 DEF FreshInv, BootedMatch
    <2>3. ASSUME NEW a, WindowsUsesTpm(a) PROVE FreshInv'
      BY <1>8, <2>3 DEF WindowsUsesTpm
    <2> QED BY <1>7, <1>9, <2>1, <2>2, <2>3 DEF Machine
  <1>10. CASE Finish \/ Abort \/ Asks
    BY <1>8, <1>10 DEF Finish, Abort, Asks, LookAround, BeginEncrypt, StartDecrypt,
           StartSetup, AddBlankPassword, machineVars
  <1> QED BY <1>9, <1>10

(* Roots and their binaries, in every reachable state.                     *)
LEMMA FreshInvariant ==
  ASSUME OneSelection
  PROVE  Spec => []FreshInv
  <1>1. Init => FreshInv
    <2> SUFFICES ASSUME Init PROVE FreshInv
      OBVIOUS
    <2>1. job.pc = "idle"
      BY NoJobShape DEF Init
    <2>2. \A o \in OS : efi[o] = None /\ booted.ver = 0
      BY DEF Init
    <2> QED BY <2>1, <2>2 DEF FreshInv, FreshRoot, Sealable, NamesChosen,
                              BootedMatch, Match, SetupPc, AddressPc
  <1>2. FreshInv /\ UNCHANGED vars => FreshInv'
    BY DEF FreshInv, FreshRoot, Sealable, NamesChosen, BootedMatch, Match, vars,
           diskVars, fileVars, machineVars
  <1>3. Base /\ CourseInv /\ LoopInv /\ FreshInv /\ [Next]_vars => FreshInv'
    BY <1>2, FreshEncrypt, FreshSetup, FreshDecrypt, FreshRest, UserAsks DEF Next, Script
  <1> QED BY <1>1, <1>3, CourseInvariant, LoopInvariant, PTL DEF Spec

-----------------------------------------------------------------------------
(* When encrypt() or the pacman hook has run to its end the OS boots, with *)
(* the blank password on each volume its new binary needs: whatever was    *)
(* aborted, rebooted, decrypted or encrypted again before.                 *)
THEOREM AutorunBoots ==
  ASSUME OneSelection
  PROVE  Spec => []AutorunLeavesBootable
  <1>1. Base /\ CourseInv /\ LoopInv => AutorunLeavesBootable
    <2> SUFFICES ASSUME Base, CourseInv, LoopInv,
                        job.op \in {"encrypt", "hook"}, job.pc = "done"
                 PROVE  CanBootEncrypted(job.os)
      BY DEF AutorunLeavesBootable
    <2>1. job.op = "encrypt" => "root" \notin job.todo
      BY DEF CourseInv
    <2>2. OpensBlank(job.os)
      BY <2>1 DEF LoopInv, Installed
    <2> QED BY <2>2 DEF OpensBlank, CanBootEncrypted
  <1> QED BY <1>1, CourseInvariant, LoopInvariant, PTL

(* The setup from the menu takes blank passwords away from the OS it runs  *)
(* on only once the TPM opens every volume of its binary, and leaves none. *)
THEOREM MenuSeals ==
  ASSUME OneSelection
  PROVE  Spec => []MenuSealsBootedOs
  <1>1. Base /\ CourseInv /\ LoopInv /\ FreshInv => MenuSealsBootedOs
    <2> SUFFICES ASSUME Base, CourseInv, LoopInv, FreshInv, job.op = "menu",
                        job.pc \in {"remove_blank", "done"},
                        BootedFromCurrentBinary(job.os)
                 PROVE  /\ \A r \in Roles : efi[job.os].uuids[r] # None
                                              => TpmOpens(job.os, r)
                        /\ job.pc = "done"
                           => \A r \in job.sel : blanks[<<job.os, r>>] = 0
      BY DEF MenuSealsBootedOs
    <2>0. /\ job.os \in OS /\ job.sel = Chosen[job.os] /\ booted \in Pcr
          /\ efi \in [OS -> EfiBinary \cup {None}]
          /\ secret \in [OS -> Key \cup {None}]
      BY DEF Base, Known, RunInv, TypeInv, TypeOK, JobShape
    <2>1. /\ efi[job.os] # None /\ booted = [os |-> job.os, ver |-> efi[job.os].ver]
          /\ efi[job.os].ver # 0 /\ efi[job.os].addr \in Addr
      BY <2>0, ConstantsAssumption DEF BootedFromCurrentBinary, EfiBinary
    <2>2. Match(job.os)
      BY <2>0, <2>1 DEF FreshInv, BootedMatch
    <2>3. /\ hookAddr[job.os] = efi[job.os].addr
          /\ \A r \in Chosen[job.os] : secret[job.os] \in keys[<<job.os, r>>]
      BY <2>0, <2>2 DEF FreshInv, Sealable
    <2>4. job.addr = efi[job.os].addr
      BY <2>1, <2>3, ConstantsAssumption DEF CourseInv, AddressPc
    <2>5. tpm[efi[job.os].addr] = [key |-> secret[job.os], pcr |-> booted]
      BY <2>4 DEF LoopInv, RemoveLoop
    <2>6. tpm[efi[job.os].addr] # None
      BY <2>0, <2>5, NoneAssumption DEF Sealed
    <2>7. \A r \in Roles : efi[job.os].uuids[r] # None => TpmOpens(job.os, r)
      BY <2>0, <2>1, <2>3, <2>5, <2>6 DEF TpmOpens, FreshInv, NamesChosen
    <2>8. job.pc = "done" => \A r \in job.sel : blanks[<<job.os, r>>] = 0
      BY DEF CourseInv, LoopInv, RemoveLoop
    <2> QED BY <2>7, <2>8
  <1> QED BY <1>1, CourseInvariant, LoopInvariant, FreshInvariant, PTL

=============================================================================
