---------------------------- MODULE ReversalProofs ----------------------------
(* Theorems about Reversal: what a setup saves, what decrypt() puts back   *)
(* and what the verdict on the ESP is worth, wherever runs are cut short.  *)
(* fstab is filtered line by line; what that leaves is proved by looking   *)
(* at the first line where it would be something else.                     *)
EXTENDS Reversal, WellFoundedInduction, TLAPS

SetupPc == {"record", "reencrypt", "hook", "fstab", "create", "copy", "unlink",
            "install", "move", "install_copy", "mask"}
DecryptPc == {"reencrypt_back", "restore_fstab", "unmask", "restore"}
VerdictPc == {"verify", "decrypted"}

Job == [op : {"none", "encrypt", "hook", "decrypt", "verify"},
        pc : {"idle"} \cup SetupPc \cup DecryptPc \cup VerdictPc,
        file : Chainloader, sel : SUBSET {"home", "var"},
        died : BOOLEAN, there : BOOLEAN, matches : BOOLEAN]

(* Types, without fstab.                                                   *)
Typed ==
    /\ steamos \in BOOLEAN /\ masked \in BOOLEAN /\ encrypted \in BOOLEAN
    /\ intact \in BOOLEAN /\ setBack \in BOOLEAN
    /\ esp \in [EspFile -> Content]
    /\ dataDir \in [Dir -> [Chainloader -> Content]]
    /\ pacHook \in (SUBSET {"home", "var"}) \cup {NoHook}
    /\ job \in Job

(* The course of a run.                                                    *)
Course ==
    /\ job.pc = "idle" <=> job.op = "none"
    /\ job.pc \in SetupPc => job.op \in {"encrypt", "hook"}
    /\ job.pc \in DecryptPc => job.op = "decrypt"
    /\ job.pc \in VerdictPc => job.op \in {"decrypt", "verify"}
    /\ job.pc \in {"create", "copy", "unlink", "install", "mask", "restore"}
       => steamos
    /\ job.pc = "move" => ~steamos
    /\ job.pc \in {"record", "reencrypt"} => ~encrypted
    /\ job.op = "decrypt" /\ job.pc # "reencrypt_back" => ~encrypted

Shape == Typed /\ Course

(* The record a run starts with.                                           *)
LEMMA IdleShape == Idle \in Job /\ Idle.pc = "idle" /\ Idle.op = "none"
                   /\ Idle.file = "bootx64" /\ Idle.sel = {} /\ ~Idle.died
  BY DEF Idle, Job, Chainloader

(* A file of the ESP is written with something a file may hold.            *)
LEMMA EspWritten ==
  ASSUME esp \in [EspFile -> Content], NEW f, NEW v \in Content,
         esp' = [esp EXCEPT ![f] = v]
  PROVE  esp' \in [EspFile -> Content]
  OBVIOUS

(* And a backup.                                                           *)
LEMMA BackupWritten ==
  ASSUME dataDir \in [Dir -> [Chainloader -> Content]], NEW d \in Dir,
         NEW f \in Chainloader, NEW v \in Content,
         dataDir' = [dataDir EXCEPT ![d][f] = v]
  PROVE  /\ dataDir' \in [Dir -> [Chainloader -> Content]]
         /\ \A e \in Dir, g \in Chainloader :
              dataDir'[e][g] = IF e = d /\ g = f THEN v ELSE dataDir[e][g]
  OBVIOUS

(* Types and course along the setup.                                       *)
LEMMA ShapeSetup == Shape /\ SetupStep => Shape'
  <1> SUFFICES ASSUME Shape, SetupStep PROVE Shape'
    OBVIOUS
  <1> USE IdleShape DEF Shape, Typed, Course, Job, SetupPc, DecryptPc,
                        VerdictPc, At, Goto, GotoFile, Raise, Chainloader,
                        fixed, bootFiles, rootFiles, manifestVars
  <1>1. CASE RecordManifest
    BY ZenonT(120), <1>1 DEF RecordManifest, WriteManifest
  <1>2. CASE Reencrypt
    BY <1>2 DEF Reencrypt, OwnFile, EspFile, Content
  <1>3. CASE WritePacmanHook
    BY <1>3 DEF WritePacmanHook
  <1>4. CASE UpdateFstab
    BY ZenonT(60), <1>4 DEF UpdateFstab
  <1>5. CASE BackupCreate
    <2>1. /\ esp' \in [EspFile -> Content]
          /\ dataDir' \in [Dir -> [Chainloader -> Content]]
      BY <1>5, BackupWritten DEF BackupCreate, Content, Dir
    <2>2. \/ job' = Idle
          \/ \E l \in {"copy", "install", "mask"} : Goto(l)
      BY <1>5 DEF BackupCreate, AfterBackup
    <2>3. intact' \in BOOLEAN /\ UNCHANGED <<fixed, manifestVars, rootFiles, encrypted>>
      BY <1>5 DEF BackupCreate
    <2> QED BY <1>5, <2>1, <2>2, <2>3 DEF BackupCreate
  <1>6. CASE BackupCopy
    <2>1. dataDir' \in [Dir -> [Chainloader -> Content]]
      <3>1. esp[job.file] \in Content
        BY DEF EspFile
      <3> QED BY <1>6, <3>1, BackupWritten DEF BackupCopy, Dir
    <2>2. \/ job' = Idle
          \/ \E l \in {"unlink", "mask"} : Goto(l)
      BY <1>6 DEF BackupCopy
    <2>3. intact' \in BOOLEAN
          /\ UNCHANGED <<fixed, manifestVars, rootFiles, esp, encrypted>>
      BY <1>6 DEF BackupCopy
    <2> QED BY <1>6, <2>1, <2>2, <2>3 DEF BackupCopy
  <1>7. CASE BackupUnlink
    <2>1. esp' \in [EspFile -> Content]
      BY <1>7 DEF BackupUnlink, Content
    <2>2. \E l \in {"install", "mask"} : Goto(l)
      BY <1>7 DEF BackupUnlink, AfterBackup
    <2>3. UNCHANGED <<fixed, manifestVars, rootFiles, dataDir, encrypted, intact>>
      BY <1>7 DEF BackupUnlink
    <2> QED BY <1>7, <2>1, <2>2, <2>3 DEF BackupUnlink
  <1>8. CASE Install
    BY <1>8 DEF Install, Content
  <1>9. CASE InstallCopy
    <2>1. esp' \in [EspFile -> Content]
      BY <1>9 DEF InstallCopy, Content
    <2>2. job' = Idle \/ (steamos /\ GotoFile("create", "steamcl"))
      BY <1>9 DEF InstallCopy
    <2> QED BY ZenonT(60), <1>9, <2>1, <2>2 DEF InstallCopy
  <1>10. CASE Mask
    BY <1>10 DEF Mask
  <1> QED BY <1>1, <1>2, <1>3, <1>4, <1>5, <1>6, <1>7, <1>8, <1>9, <1>10
          DEF SetupStep

(* Along decrypt() and the comparison with the manifest.                   *)
LEMMA ShapeDecrypt == Shape /\ DecryptStep => Shape'
  <1> SUFFICES ASSUME Shape, DecryptStep PROVE Shape'
    OBVIOUS
  <1> USE IdleShape DEF Shape, Typed, Course, Job, SetupPc, DecryptPc,
                        VerdictPc, At, Goto, GotoFile, Raise, Chainloader,
                        fixed, bootFiles, rootFiles, manifestVars
  <1>1. CASE Decrypted BY <1>1 DEF Decrypted
  <1>2. CASE RestoreFstab BY <1>2 DEF RestoreFstab
  <1>3. CASE RemoveHooksAndMask
    <2>1. PICK l \in {"restore", "verify"}, f \in Chainloader :
            /\ job' = [job EXCEPT !.pc = l, !.file = f]
            /\ l = "restore" => steamos
      <3>1. CASE steamos
        BY <1>3, <3>1 DEF RemoveHooksAndMask
      <3>2. CASE ~steamos
        <4>1. job' = [job EXCEPT !.pc = "verify", !.file = job.file]
          BY ZenonT(60), <1>3, <3>2 DEF RemoveHooksAndMask
        <4> QED BY <4>1
      <3> QED BY <3>1, <3>2
    <2>2. masked' = FALSE /\ pacHook' = NoHook
      BY <1>3 DEF RemoveHooksAndMask
    <2> QED BY <1>3, <2>1, <2>2 DEF RemoveHooksAndMask
  <1>4. CASE RestoreChainloader
    <2>1. esp' \in [EspFile -> Content]
      <3>1. dataDir["other"][job.file] \in Content
        BY DEF Dir
      <3> QED BY <1>4, <3>1 DEF RestoreChainloader
    <2>2. PICK l \in {"restore", "verify"}, b \in BOOLEAN :
            job' = [job EXCEPT !.died = b, !.pc = l, !.file = "steamcl"]
      BY <1>4 DEF RestoreChainloader
    <2> QED BY <1>4, <2>1, <2>2 DEF RestoreChainloader
  <1>5. CASE EndDecrypt BY <1>5 DEF EndDecrypt
  <1>6. ASSUME NEW there \in BOOLEAN, VerifyManifest(there) PROVE Shape'
    <2>1. \/ job' = Idle /\ intact' = FALSE
          \/ /\ intact' = intact
             /\ \E b \in BOOLEAN :
                  job' = [job EXCEPT !.pc = "decrypted", !.there = there,
                                     !.matches = b]
      BY <1>6 DEF VerifyManifest, EspMatchesManifest
    <2>2. CASE job' = Idle /\ intact' = FALSE
      BY <1>6, <2>2 DEF VerifyManifest
    <2>3. ASSUME NEW b \in BOOLEAN,
                 job' = [job EXCEPT !.pc = "decrypted", !.there = there,
                                    !.matches = b]
          PROVE  /\ job' \in Job /\ job'.pc = "decrypted" /\ job'.op = job.op
      BY <2>3
    <2>4. CASE \E b \in BOOLEAN :
                 job' = [job EXCEPT !.pc = "decrypted", !.there = there,
                                    !.matches = b]
      BY ZenonT(60), <1>6, <2>1, <2>3, <2>4 DEF VerifyManifest
    <2> QED BY <2>1, <2>2, <2>4
  <1> QED BY <1>1, <1>2, <1>3, <1>4, <1>5, <1>6 DEF DecryptStep

(* Everything else.                                                        *)
LEMMA ShapeRest ==
  Shape /\ (User \/ Crash \/ \E v \in Stock : ServiceInstall(v)) => Shape'
  <1> SUFFICES ASSUME Shape, User \/ Crash \/ \E v \in Stock : ServiceInstall(v)
               PROVE  Shape'
    OBVIOUS
  <1> USE IdleShape DEF Shape, Typed, Course, Job, SetupPc, DecryptPc,
                        VerdictPc, Raise, Chainloader,
                        fixed, bootFiles, rootFiles, manifestVars
  <1>1. ASSUME NEW sel \in Selections, StartEncrypt(sel) PROVE Shape'
    BY <1>1, ReversalAssumption DEF StartEncrypt
  <1>2. CASE StartHook BY <1>2 DEF StartHook
  <1>3. CASE StartDecrypt BY <1>3 DEF StartDecrypt
  <1>4. CASE StartVerify BY <1>4 DEF StartVerify
  <1>5. CASE UserCopiesBackups BY <1>5 DEF UserCopiesBackups, Dir
  <1>6. CASE UserRestoresChainloader
    <2>1. PICK f \in Chainloader : esp' = [esp EXCEPT ![f] = dataDir["self"][f]]
      BY <1>6 DEF UserRestoresChainloader
    <2>2. dataDir["self"][f] \in Content
      BY DEF Dir
    <2> QED BY <1>6, <2>1, <2>2 DEF UserRestoresChainloader
  <1>7. CASE Crash BY <1>7 DEF Crash
  <1>8. ASSUME NEW v \in Stock, ServiceInstall(v) PROVE Shape'
    BY <1>8 DEF ServiceInstall, Content
  <1> QED BY <1>1, <1>2, <1>3, <1>4, <1>5, <1>6, <1>7, <1>8 DEF User

(* Types and course, in every reachable state.                             *)
LEMMA ShapeInvariant == Spec => []Shape
  <1>1. Init => Shape
    <2> SUFFICES ASSUME Init PROVE Shape
      OBVIOUS
    <2>1. Typed
      <3>1. /\ steamos \in BOOLEAN /\ masked \in BOOLEAN /\ job \in Job
            /\ encrypted \in BOOLEAN /\ intact \in BOOLEAN /\ setBack \in BOOLEAN
        BY IdleShape DEF Init
      <3>2. /\ esp \in [EspFile -> Content]
            /\ dataDir \in [Dir -> [Chainloader -> Content]]
            /\ pacHook \in (SUBSET {"home", "var"}) \cup {NoHook}
        BY DEF Init, Content
      <3> QED BY <3>1, <3>2 DEF Typed
    <2>2. Course
      BY IdleShape DEF Init, Course, SetupPc, DecryptPc, VerdictPc
    <2> QED BY <2>1, <2>2 DEF Shape
  <1>2. Shape /\ UNCHANGED vars => Shape'
    BY DEF Shape, Typed, Course, vars, fixed, bootFiles, rootFiles,
           manifestVars
  <1>3. Shape /\ [Next]_vars => Shape'
    BY <1>2, ShapeSetup, ShapeDecrypt, ShapeRest DEF Next
  <1> QED BY <1>1, <1>3, PTL DEF Spec

-----------------------------------------------------------------------------
(* A backup in the OS's own DATA_DIR is absent, unfinished or stock, and   *)
(* without one the ESP still has the stock file. Runs that come to their   *)
(* end leave no unfinished one, so none is carried to the other OS.        *)
Backups ==
    /\ job.pc = "copy" => /\ dataDir["self"][job.file] = "torn"
                          /\ esp[job.file] \in Stock
    /\ job.pc = "unlink" => dataDir["self"][job.file] \in Stock
    /\ steamos /\ job.pc \in {"install", "install_copy"}
       => dataDir["self"]["bootx64"] # "absent"
    /\ \A f \in Chainloader :
          /\ dataDir["self"][f] \in {"absent", "torn"} \cup Stock
          /\ steamos /\ dataDir["self"][f] = "absent" => esp[f] \in Stock
          /\ dataDir["other"][f] # "absent" => dataDir["self"][f] # "absent"
          /\ intact => /\ dataDir["self"][f] = "torn"
                          => job.pc = "copy" /\ job.file = f
                       /\ dataDir["other"][f] \in {"absent"} \cup Stock

(* As long as every run came to its end, the OS has its binary whenever it *)
(* could be booted, and a run of decrypt() that has missed no backup puts  *)
(* one chainloader after the other back.                                   *)
OwnBinary ==
    intact =>
        /\ encrypted
           /\ (job.pc = "idle" \/ job.op = "verify" \/ job.pc = "reencrypt_back")
           => Boots /\ (steamos => masked)
        /\ \/ job.pc \in {"create", "copy", "unlink"} /\ job.file = "steamcl"
           \/ job.pc = "mask"
           => Boots

Restored ==
    intact /\ steamos /\ job.op = "decrypt" /\ ~job.died =>
        /\ job.pc = "restore" /\ job.file = "steamcl" => esp["bootx64"] \in Stock
        /\ job.pc \in VerdictPc => \A f \in Chainloader : esp[f] \in Stock

(* The manifest's latest record is what encrypt() found.                   *)
ManifestInv ==
    /\ VerdictRight
    /\ manifest = [torn |-> manifest.torn, at |-> manifest.at]
    /\ DOMAIN manifest.at \subseteq Times
    /\ ~manifest.torn /\ ~setBack => Latest(manifest) = recorded

(* The setup saves a stock file before it removes it from the ESP.         *)
LEMMA BackupsSetup == Shape /\ Backups /\ SetupStep => Backups'
  <1> SUFFICES ASSUME Shape, Backups, SetupStep PROVE Backups'
    OBVIOUS
  <1>0. /\ job \in Job /\ esp \in [EspFile -> Content]
        /\ dataDir \in [Dir -> [Chainloader -> Content]]
        /\ job.file \in Chainloader /\ "bootx64" \in Chainloader
        /\ Chainloader \subseteq EspFile /\ "self" \in Dir /\ "other" \in Dir
        /\ {"absent", "torn", "ours", "old"} \cap Stock = {}
    BY ReversalAssumption DEF Shape, Typed, Job, Chainloader, EspFile, Dir
  <1>1. CASE UNCHANGED bootFiles /\ (intact' => intact)
             /\ job'.pc \notin {"copy", "unlink", "install", "install_copy"}
             /\ job.pc # "copy" /\ steamos' = steamos
    BY <1>0, <1>1 DEF Backups, bootFiles
  <1>2. CASE RecordManifest
    BY <1>0, <1>1, <1>2, IdleShape
       DEF RecordManifest, WriteManifest, At, Goto, Raise, Job, fixed
  <1>3. CASE Reencrypt
    <2>1. /\ dataDir' = dataDir /\ intact' = intact /\ steamos' = steamos
          /\ job'.pc = "hook" /\ job.pc # "copy"
      BY <1>0, <1>3 DEF Reencrypt, At, Goto, Job, fixed
    <2>2. \A f \in Chainloader : esp[f] \in Stock => esp'[f] \in Stock
      BY <1>0, <1>3 DEF Reencrypt
    <2> QED BY <1>0, <2>1, <2>2 DEF Backups
  <1>4. CASE WritePacmanHook
    BY <1>0, <1>1, <1>4 DEF WritePacmanHook, At, Goto, Job, fixed
  <1>5. CASE UpdateFstab
    BY <1>0, <1>1, <1>5 DEF UpdateFstab, At, GotoFile, Job, fixed
  <1>6. CASE BackupCreate
    <2>0. job.pc = "create" /\ steamos' = steamos /\ steamos
      BY <1>6 DEF BackupCreate, At, fixed, Shape, Course
    <2>1. CASE /\ dataDir["self"][job.file] = "absent"
               /\ dataDir' = [dataDir EXCEPT !["self"][job.file] = "torn"]
               /\ Goto("copy") /\ UNCHANGED <<esp, intact>>
      <3>1. \A e \in Dir, g \in Chainloader :
              dataDir'[e][g] = IF e = "self" /\ g = job.file THEN "torn"
                                                            ELSE dataDir[e][g]
        BY <1>0, <2>1
      <3>2. job'.pc = "copy" /\ job'.file = job.file
        BY <1>0, <2>1 DEF Goto, Job
      <3> QED BY <1>0, <2>0, <2>1, <3>1, <3>2 DEF Backups
    <2>2. CASE /\ dataDir["self"][job.file] # "absent"
               /\ esp' = [esp EXCEPT ![job.file] = "absent"]
               /\ Goto(AfterBackup) /\ UNCHANGED <<dataDir, intact>>
      <3>1. /\ job'.pc \in {"install", "mask"} /\ job'.file = job.file
            /\ job'.pc = "install" => job.file = "bootx64"
        BY <1>0, <2>2 DEF Goto, AfterBackup, Job
      <3>2. \A f \in Chainloader : f # job.file => esp'[f] = esp[f]
        BY <1>0, <2>2
      <3> QED BY <1>0, <2>0, <2>2, <3>1, <3>2 DEF Backups
    <2>3. CASE Raise /\ UNCHANGED bootFiles
      BY <1>0, <1>1, <2>0, <2>3, IdleShape DEF Raise
    <2> QED BY <1>6, <2>1, <2>2, <2>3 DEF BackupCreate
  <1>7. CASE BackupCopy
    <2>0. /\ job.pc = "copy" /\ steamos' = steamos /\ esp' = esp
          /\ esp[job.file] \in Stock
      BY <1>7 DEF BackupCopy, At, fixed, Backups
    <2>1. /\ dataDir' = [dataDir EXCEPT !["self"][job.file] = esp[job.file]]
          /\ Goto("unlink") /\ intact' = intact
      BY <1>0, <1>7, <2>0 DEF BackupCopy
    <2>2. \A e \in Dir, g \in Chainloader :
            dataDir'[e][g] = IF e = "self" /\ g = job.file THEN esp[job.file]
                                                          ELSE dataDir[e][g]
      BY <1>0, <2>1
    <2>3. job'.pc = "unlink" /\ job'.file = job.file
      BY <1>0, <2>1 DEF Goto, Job
    <2> QED BY <1>0, <2>0, <2>1, <2>2, <2>3 DEF Backups
  <1>8. CASE BackupUnlink
    <2>1. /\ job.pc = "unlink" /\ job'.pc \in {"install", "mask"}
          /\ job'.pc = "install" => job.file = "bootx64"
          /\ UNCHANGED <<steamos, dataDir, intact>>
      BY <1>0, <1>8 DEF BackupUnlink, At, Goto, AfterBackup, Job, fixed
    <2>2. \A f \in Chainloader : f # job.file => esp'[f] = esp[f]
      BY <1>0, <1>8 DEF BackupUnlink
    <2> QED BY <1>0, <2>1, <2>2 DEF Backups
  <1>9. CASE Install \/ InstallCopy
    <2>1. /\ job.pc \in {"install", "move", "install_copy"}
          /\ job'.pc \in {"install_copy", "create", "idle"}
          /\ UNCHANGED <<steamos, dataDir, intact>>
      BY <1>0, <1>9, IdleShape
         DEF Install, InstallCopy, At, Goto, GotoFile, Job, fixed
    <2>2. \A f \in Chainloader : f # "bootx64" => esp'[f] = esp[f]
      BY <1>0, <1>9 DEF Install, InstallCopy, OwnFile, Chainloader
    <2>3. steamos => dataDir["self"]["bootx64"] # "absent"
      BY <2>1 DEF Backups, Shape, Course
    <2> QED BY <1>0, <2>1, <2>2, <2>3 DEF Backups
  <1>10. CASE Mask
    BY <1>0, <1>1, <1>10, IdleShape DEF Mask, At, fixed
  <1> QED BY <1>2, <1>3, <1>4, <1>5, <1>6, <1>7, <1>8, <1>9, <1>10 DEF SetupStep

(* decrypt() writes to the ESP what was once carried to its own DATA_DIR.  *)
LEMMA BackupsRest == ASSUME Shape, Backups, Next, ~SetupStep PROVE Backups'
  <1>0. /\ job \in Job /\ esp \in [EspFile -> Content]
        /\ dataDir \in [Dir -> [Chainloader -> Content]]
        /\ job.file \in Chainloader /\ "bootx64" \in Chainloader
        /\ Chainloader \subseteq EspFile /\ "self" \in Dir /\ "other" \in Dir
        /\ {"absent", "torn", "ours", "old"} \cap Stock = {}
    BY ReversalAssumption DEF Shape, Typed, Job, Chainloader, EspFile, Dir
  <1>1. CASE UNCHANGED bootFiles /\ (intact' => intact)
             /\ job'.pc \notin {"copy", "unlink", "install", "install_copy"}
             /\ (intact' => job.pc # "copy") /\ steamos' = steamos
    BY <1>0, <1>1 DEF Backups, bootFiles
  <1>2. CASE Crash
    BY <1>1, <1>2, IdleShape DEF Crash, Raise, fixed
  <1>3. CASE User /\ ~UserCopiesBackups /\ ~UserRestoresChainloader
    <2>1. job = Idle /\ UNCHANGED <<bootFiles, intact, steamos>>
      BY <1>3 DEF User, StartEncrypt, StartHook, StartDecrypt, StartVerify, fixed
    <2>2. job'.pc \in {"record", "hook", "reencrypt_back", "verify"}
      BY <1>3, IdleShape
         DEF User, StartEncrypt, StartHook, StartDecrypt, StartVerify, Job
    <2> QED BY <1>1, <2>1, <2>2, IdleShape
  <1>4. CASE UserCopiesBackups
    <2>1. /\ UNCHANGED <<esp, intact, steamos, job>> /\ job.pc = "idle"
      BY <1>4, IdleShape DEF UserCopiesBackups, fixed
    <2>2. \A f \in Chainloader : /\ dataDir'["self"][f] = dataDir["self"][f]
                                 /\ dataDir'["other"][f] = dataDir["self"][f]
      BY <1>0, <1>4 DEF UserCopiesBackups
    <2> QED BY <1>0, <2>1, <2>2 DEF Backups
  <1>5. CASE UserRestoresChainloader
    <2>1. /\ UNCHANGED <<dataDir, intact, steamos, job>> /\ job.pc = "idle"
      BY <1>5, IdleShape DEF UserRestoresChainloader, fixed
    <2>2. \A f \in Chainloader : esp[f] \in Stock => esp'[f] \in Stock
      BY <1>0, <1>5 DEF UserRestoresChainloader
    <2> QED BY <1>0, <2>1, <2>2 DEF Backups
  <1>6. ASSUME NEW v \in Stock, ServiceInstall(v) PROVE Backups'
    <2>1. /\ UNCHANGED <<dataDir, intact, steamos, job>> /\ job.pc = "idle"
      BY <1>6, IdleShape DEF ServiceInstall, fixed
    <2>2. \A f \in Chainloader : esp'[f] \in Stock
      BY <1>0, <1>6 DEF ServiceInstall, Chainloader
    <2> QED BY <1>0, <2>1, <2>2 DEF Backups
  <1>7. CASE RestoreChainloader
    <2>1. /\ UNCHANGED <<dataDir, intact, steamos>> /\ job.pc = "restore"
          /\ job'.pc \in {"restore", "verify"}
      BY <1>0, <1>7 DEF RestoreChainloader, At, Job, fixed
    <2>2. \A f \in Chainloader :
            esp'[f] = esp[f] \/ dataDir["other"][f] # "absent"
      BY <1>0, <1>7 DEF RestoreChainloader
    <2> QED BY <1>0, <2>1, <2>2 DEF Backups
  <1>8. CASE DecryptStep /\ ~RestoreChainloader
    <2>1. UNCHANGED bootFiles /\ steamos' = steamos
      BY <1>8 DEF DecryptStep, Decrypted, RestoreFstab, RemoveHooksAndMask,
                  EndDecrypt, VerifyManifest, fixed
    <2>2. job.pc \in DecryptPc \cup VerdictPc
      BY <1>8 DEF DecryptStep, Decrypted, RestoreFstab, RemoveHooksAndMask,
                  EndDecrypt, VerifyManifest, At, DecryptPc, VerdictPc
    <2>3. intact' = intact \/ intact' = FALSE
      BY <1>8 DEF DecryptStep, Decrypted, RestoreFstab, RemoveHooksAndMask,
                  EndDecrypt, VerifyManifest, Raise
    <2>4. intact' => intact
      BY <2>3, Zenon
    <2>5. job'.pc \in DecryptPc \cup VerdictPc \cup {"idle"}
      BY ZenonT(60), <1>0, <1>8, IdleShape
         DEF DecryptStep, Decrypted, RestoreFstab, RemoveHooksAndMask,
             EndDecrypt, VerifyManifest, Raise, Goto, GotoFile, DecryptPc,
             VerdictPc, Job
    <2> QED BY <1>1, <2>1, <2>2, <2>4, <2>5 DEF DecryptPc, VerdictPc
  <1> QED BY <1>2, <1>3, <1>4, <1>5, <1>6, <1>7, <1>8 DEF Next, User

(* The backups, in every reachable state.                                  *)
LEMMA BackupsInvariant == Spec => []Backups
  <1>1. Init => Backups
    <2> SUFFICES ASSUME Init PROVE Backups
      OBVIOUS
    <2>1. job.pc = "idle"
      BY IdleShape DEF Init
    <2>2. \A f \in Chainloader : /\ dataDir["self"][f] = "absent"
                                 /\ dataDir["other"][f] = "absent"
                                 /\ esp[f] \in Stock
      BY DEF Init, Dir, Chainloader, EspFile
    <2> QED BY <2>1, <2>2, ReversalAssumption DEF Backups
  <1>2. Backups /\ UNCHANGED vars => Backups'
    BY DEF Backups, vars, fixed, bootFiles
  <1>3. Shape /\ Backups /\ [Next]_vars => Backups'
    BY <1>2, BackupsSetup, BackupsRest
  <1> QED BY <1>1, <1>3, ShapeInvariant, PTL DEF Spec

-----------------------------------------------------------------------------
(* A setup that comes to its end has installed the binary, and on SteamOS  *)
(* masked the installer that would replace it.                             *)
LEMMA OwnSetup == Shape /\ OwnBinary /\ SetupStep => OwnBinary'
  <1> SUFFICES ASSUME Shape, OwnBinary, SetupStep PROVE OwnBinary'
    OBVIOUS
  <1>0. /\ job \in Job /\ esp \in [EspFile -> Content]
        /\ job.pc \in SetupPc => job.op \in {"encrypt", "hook"}
        /\ "bootx64" \in EspFile /\ "auto" \in EspFile
    BY DEF Shape, Typed, Course, Job, EspFile, Chainloader
  <1> USE <1>0, IdleShape DEF At, Goto, GotoFile, Job, SetupPc
  <1>1. CASE Raise
    BY <1>1 DEF Raise, OwnBinary
  <1>2. CASE RecordManifest \/ Reencrypt \/ WritePacmanHook \/ Install
    <2>1. CASE ~Raise
      <3>1. /\ job'.pc \in {"reencrypt", "hook", "fstab", "install_copy"}
            /\ job'.op = job.op /\ job.op \in {"encrypt", "hook"}
        BY <1>2, <2>1 DEF RecordManifest, WriteManifest, Reencrypt,
                          WritePacmanHook, Install
      <3> QED BY <3>1 DEF OwnBinary
    <2> QED BY <1>1, <2>1
  <1>3. CASE UpdateFstab
    <2>1. /\ job'.pc \in {"create", "move"} /\ job'.file = "bootx64"
          /\ job'.op = job.op /\ job.op \in {"encrypt", "hook"}
      BY <1>3 DEF UpdateFstab
    <2> QED BY <2>1 DEF OwnBinary
  <1>4. CASE BackupCreate \/ BackupCopy \/ BackupUnlink
    <2>0. job.pc \in {"create", "copy", "unlink"} /\ steamos /\ steamos' = steamos
      BY <1>4 DEF BackupCreate, BackupCopy, BackupUnlink, Shape, Course, fixed
    <2>1. CASE ~Raise
      <3>1. intact' = intact
        BY <1>4, <2>1 DEF BackupCreate, BackupCopy, BackupUnlink
      <3>2. /\ job'.file = job.file /\ job'.op = job.op
            /\ job'.pc \in {"copy", "unlink", "install", "mask"}
            /\ job'.pc = "mask" => job.file = "steamcl"
        <4>1. PICK l \in {"copy", "unlink", "install", "mask"} :
                /\ job' = [job EXCEPT !.pc = l]
                /\ l = "mask" => job.file = "steamcl"
          BY <1>4, <2>1
             DEF BackupCreate, BackupCopy, BackupUnlink, AfterBackup, Chainloader
        <4> QED BY <4>1
      <3>3. job.file = "steamcl" => esp'["bootx64"] = esp["bootx64"]
        BY <1>4, <2>1 DEF BackupCreate, BackupCopy, BackupUnlink
      <3> QED BY <2>0, <3>1, <3>2, <3>3 DEF OwnBinary, Boots, OwnFile
    <2> QED BY <1>1, <2>1
  <1>5. CASE InstallCopy
    <2>1. Boots' /\ steamos' = steamos
      BY <1>5 DEF InstallCopy, Boots, OwnFile, fixed
    <2>2. /\ steamos => job'.pc = "create" /\ job'.op = job.op
          /\ ~steamos => job' = Idle
          /\ job.op \in {"encrypt", "hook"}
      BY <1>5 DEF InstallCopy
    <2> QED BY <2>1, <2>2 DEF OwnBinary
  <1>6. CASE Mask
    <2>1. /\ job.pc = "mask" /\ job' = Idle /\ masked' = TRUE
          /\ UNCHANGED <<esp, steamos, intact>>
      BY <1>6 DEF Mask, bootFiles, fixed
    <2> QED BY <2>1 DEF OwnBinary, Boots, OwnFile
  <1> QED BY <1>2, <1>3, <1>4, <1>5, <1>6 DEF SetupStep

(* Nothing else takes it away while the root is encrypted.                 *)
LEMMA OwnRest == ASSUME Shape, OwnBinary, Next, ~SetupStep PROVE OwnBinary'
  <1>0. /\ job \in Job /\ Course
    BY DEF Shape, Typed
  <1> USE <1>0, IdleShape DEF At, Goto, GotoFile, Job, fixed, bootFiles, rootFiles
  <1>1. CASE Crash
    BY <1>1 DEF Crash, Raise, OwnBinary
  <1>2. CASE User
    <2>1. /\ job = Idle /\ job.pc = "idle" /\ UNCHANGED <<steamos, masked, intact>>
          /\ UNCHANGED encrypted
      BY <1>2 DEF User, StartEncrypt, StartHook, StartDecrypt, StartVerify,
                  UserCopiesBackups, UserRestoresChainloader
    <2>2. /\ job'.pc \in {"idle", "record", "hook", "reencrypt_back", "verify"}
          /\ encrypted => esp' = esp
      BY <1>2, <2>1 DEF User, StartEncrypt, StartHook, StartDecrypt,
                  StartVerify, UserCopiesBackups, UserRestoresChainloader
    <2> QED BY <2>1, <2>2 DEF OwnBinary, Boots, OwnFile
  <1>3. ASSUME NEW v \in Stock, ServiceInstall(v) PROVE OwnBinary'
    <2>1. /\ job.pc = "idle" /\ steamos /\ ~masked
          /\ UNCHANGED <<steamos, masked, intact, encrypted, job>>
      BY <1>3 DEF ServiceInstall
    <2>2. intact => ~encrypted
      BY <2>1 DEF OwnBinary
    <2> QED BY <2>1, <2>2 DEF OwnBinary
  <1>4. CASE Decrypted \/ RestoreFstab \/ RemoveHooksAndMask \/ RestoreChainloader
    <2>1. /\ job.pc \in DecryptPc /\ job.op = "decrypt"
      BY <1>4 DEF Decrypted, RestoreFstab, RemoveHooksAndMask,
                  RestoreChainloader, Course, DecryptPc
    <2>2. /\ job'.pc \in {"restore_fstab", "unmask", "restore", "verify"}
          /\ job'.op = "decrypt"
      BY <1>4, <2>1 DEF Decrypted, RestoreFstab, RemoveHooksAndMask,
                        RestoreChainloader
    <2> QED BY <2>2 DEF OwnBinary
  <1>5. CASE EndDecrypt
    <2>1. /\ job.pc = "decrypted" /\ job' = Idle
          /\ UNCHANGED <<esp, steamos, masked, intact, encrypted>>
      BY <1>5 DEF EndDecrypt
    <2>2. job.op = "verify" \/ ~encrypted
      BY <2>1 DEF Course, VerdictPc
    <2> QED BY <2>1, <2>2 DEF OwnBinary, Boots, OwnFile
  <1>6. ASSUME NEW there \in BOOLEAN, VerifyManifest(there) PROVE OwnBinary'
    <2>1. CASE Raise
      BY <2>1 DEF Raise, OwnBinary
    <2>2. CASE ~Raise
      <3>1. /\ job.pc = "verify" /\ job'.pc = "decrypted" /\ job'.op = job.op
            /\ UNCHANGED <<esp, steamos, masked, intact, encrypted>>
        BY <1>6, <2>2 DEF VerifyManifest
      <3> QED BY <3>1 DEF OwnBinary, Boots, OwnFile
    <2> QED BY <2>1, <2>2
  <1> QED BY <1>1, <1>2, <1>3, <1>4, <1>5, <1>6 DEF Next, DecryptStep

(* As long as every run came to its end, an encrypted OS starts from the   *)
(* binary that was built for it, and SteamOS cannot replace it.            *)
THEOREM EncryptedHasOwnBinary == Spec => []EncryptedBootsOwnBinary
  <1>1. Init => OwnBinary
    BY IdleShape DEF Init, OwnBinary
  <1>2. OwnBinary /\ UNCHANGED vars => OwnBinary'
    BY DEF OwnBinary, Boots, OwnFile, vars, fixed, bootFiles, rootFiles
  <1>3. Shape /\ OwnBinary /\ [Next]_vars => OwnBinary'
    BY <1>2, OwnSetup, OwnRest
  <1>4. OwnBinary => EncryptedBootsOwnBinary
    BY IdleShape DEF OwnBinary, EncryptedBootsOwnBinary
  <1> QED BY <1>1, <1>3, <1>4, ShapeInvariant, PTL DEF Spec

(* Unless an interrupted run left an unfinished backup behind, bootx64     *)
(* always exists in its stock form, on the ESP or in the DATA_DIR.         *)
THEOREM StockKept == Spec => []StockSurvivesUnlessTorn
  <1>1. Backups => StockSurvivesUnlessTorn
    BY DEF Backups, StockSurvivesUnlessTorn, Chainloader
  <1> QED BY <1>1, BackupsInvariant, PTL

(* Whatever a step does, a stock chainloader that was saved in the         *)
(* DATA_DIR of its OS stays there.                                         *)
THEOREM SavedIsKept == Spec => SavedChainloaderKept
  <1>1. ASSUME Shape, Backups, [Next]_vars
        PROVE  [\A f \in Chainloader : dataDir["self"][f] \in Stock
                  => dataDir'["self"][f] = dataDir["self"][f]]_vars
    <2>0. /\ dataDir \in [Dir -> [Chainloader -> Content]]
          /\ job.file \in Chainloader /\ "self" \in Dir /\ "other" \in Dir
          /\ {"absent", "torn", "ours", "old"} \cap Stock = {}
      BY <1>1, ReversalAssumption DEF Shape, Typed, Job, Dir
    <2> SUFFICES ASSUME Next
                 PROVE  \A f \in Chainloader : dataDir["self"][f] \in Stock
                          => dataDir'["self"][f] = dataDir["self"][f]
      BY <1>1
    <2>1. CASE dataDir' = dataDir
      BY <2>1
    <2>2. CASE BackupCreate
      <3>1. \A f \in Chainloader : dataDir'["self"][f] = dataDir["self"][f]
              \/ dataDir["self"][f] = "absent"
        BY <2>0, <2>2 DEF BackupCreate, bootFiles
      <3> QED BY <2>0, <3>1
    <2>3. CASE BackupCopy
      <3>1. dataDir["self"][job.file] = "torn"
        BY <1>1, <2>3 DEF BackupCopy, At, Backups
      <3>2. \A f \in Chainloader : f # job.file
              => dataDir'["self"][f] = dataDir["self"][f]
        BY <2>0, <2>3 DEF BackupCopy
      <3> QED BY <2>0, <3>1, <3>2
    <2>4. CASE UserCopiesBackups
      BY <2>0, <2>4 DEF UserCopiesBackups
    <2>5. CASE ~(BackupCreate \/ BackupCopy \/ UserCopiesBackups)
      <3>1. dataDir' = dataDir
        BY <2>5 DEF Next, SetupStep, DecryptStep, User, Crash, RecordManifest,
           Reencrypt, WritePacmanHook, UpdateFstab, BackupUnlink, Install,
           InstallCopy, Mask, Decrypted, RestoreFstab, RemoveHooksAndMask,
           RestoreChainloader, EndDecrypt, VerifyManifest, StartEncrypt,
           StartHook, StartDecrypt, StartVerify, UserRestoresChainloader,
           ServiceInstall, bootFiles
      <3> QED BY <2>1, <3>1
    <2> QED BY <2>2, <2>3, <2>4, <2>5
  <1> QED BY <1>1, ShapeInvariant, BackupsInvariant, PTL
          DEF Spec, SavedChainloaderKept

-----------------------------------------------------------------------------
(* A decrypt() of SteamOS that reports no missing backup has put the stock *)
(* chainloader back, both files of it, as long as no run was cut short.    *)
THEOREM ReportedOrRestored == Spec => []RestoreReported
  <1>1. Init => Restored
    BY IdleShape DEF Init, Restored
  <1>2. Restored /\ UNCHANGED vars => Restored'
    BY DEF Restored, vars, fixed, bootFiles
  <1>3. ASSUME Shape, Backups, Restored, Next PROVE Restored'
    <2>0. /\ job \in Job /\ esp \in [EspFile -> Content]
          /\ Chainloader \subseteq EspFile /\ job.file \in Chainloader
      BY <1>3 DEF Shape, Typed, Job, EspFile
    <2>1. CASE job'.op # "decrypt" \/ job'.pc \in {"reencrypt_back", "restore_fstab", "unmask"}
      BY <2>1 DEF Restored, VerdictPc
    <2>2. CASE RestoreChainloader
      <3>1. /\ job.pc = "restore" /\ job.op = "decrypt"
            /\ UNCHANGED <<intact, steamos>>
        BY <1>3, <2>2 DEF RestoreChainloader, At, Shape, Course, DecryptPc, fixed
      <3>2. PICK b \in BOOLEAN, l \in {"restore", "verify"} :
              /\ job' = [job EXCEPT !.died = b, !.pc = l, !.file = "steamcl"]
              /\ l = IF job.file = "bootx64" THEN "restore" ELSE "verify"
              /\ ~b => ~job.died /\ dataDir["other"][job.file] # "absent"
        BY <2>0, <2>2 DEF RestoreChainloader, Job
      <3>3. job'.died = b /\ job'.pc = l /\ job'.op = "decrypt"
        BY <2>0, <3>1, <3>2 DEF Job
      <3> SUFFICES ASSUME intact, steamos, ~b
                   PROVE  /\ l = "restore" => esp'["bootx64"] \in Stock
                          /\ l = "verify" => \A f \in Chainloader : esp'[f] \in Stock
        BY <3>1, <3>3 DEF Restored, VerdictPc
      <3>4. dataDir["other"][job.file] \in Stock
        BY <1>3, <2>0, <3>2 DEF Backups
      <3>5. esp' = [esp EXCEPT ![job.file] = dataDir["other"][job.file]]
        BY <2>2, <3>2 DEF RestoreChainloader
      <3>6. esp'[job.file] \in Stock
            /\ \A f \in Chainloader : f # job.file => esp'[f] = esp[f]
        BY <2>0, <3>4, <3>5
      <3>7. CASE job.file = "bootx64"
        BY <3>2, <3>6, <3>7
      <3>8. CASE job.file = "steamcl"
        <4>1. esp["bootx64"] \in Stock
          BY <1>3, <3>1, <3>2, <3>8 DEF Restored
        <4> QED BY <3>2, <3>6, <3>8, <4>1 DEF Chainloader
      <3> QED BY <2>0, <3>7, <3>8 DEF Chainloader
    <2>3. CASE RemoveHooksAndMask
      <3>1. CASE steamos
        BY <2>0, <2>3, <3>1 DEF RemoveHooksAndMask, GotoFile, Job, Restored,
                                VerdictPc
      <3>2. CASE ~steamos
        BY <2>3, <3>2 DEF RemoveHooksAndMask, fixed, Restored
      <3> QED BY <3>1, <3>2
    <2>4. ASSUME NEW there \in BOOLEAN, VerifyManifest(there) PROVE Restored'
      <3>1. CASE Raise
        BY <3>1 DEF Raise, Restored
      <3>2. CASE ~Raise
        <4>1. /\ job.pc = "verify" /\ job'.pc = "decrypted" /\ job'.op = job.op
              /\ job'.died = job.died /\ UNCHANGED <<esp, steamos, intact>>
          BY <2>0, <2>4, <3>2
             DEF VerifyManifest, At, Job, fixed, bootFiles
        <4> QED BY <1>3, <4>1 DEF Restored, VerdictPc
      <3> QED BY <3>1, <3>2
    <2>5. CASE SetupStep
      <3>1. CASE job' = Idle
        BY <2>1, <3>1, IdleShape
      <3>2. CASE job' # Idle
        <4>1. job.pc \in SetupPc /\ job'.op = job.op
          BY <2>0, <2>5, <3>2
             DEF SetupStep, RecordManifest, WriteManifest, Reencrypt,
             WritePacmanHook, UpdateFstab, BackupCreate, BackupCopy,
             BackupUnlink, Install, InstallCopy, Mask, At, Goto, GotoFile,
             Raise, Job, SetupPc
        <4> QED BY <1>3, <2>1, <4>1 DEF Shape, Course
      <3> QED BY <3>1, <3>2
    <2>6. CASE Decrypted \/ RestoreFstab
      BY <2>0, <2>1, <2>6 DEF Decrypted, RestoreFstab, Goto, Job
    <2>7. CASE EndDecrypt \/ Crash
      BY <2>1, <2>7, IdleShape DEF EndDecrypt, Crash, Raise
    <2>8. CASE User \/ \E v \in Stock : ServiceInstall(v)
      BY <2>1, <2>8, IdleShape
         DEF User, StartEncrypt, StartHook, StartDecrypt, StartVerify,
             UserCopiesBackups, UserRestoresChainloader, ServiceInstall, Job
    <2> QED BY <1>3, <2>2, <2>3, <2>4, <2>5, <2>6, <2>7, <2>8
            DEF Next, DecryptStep
  <1>4. Restored => RestoreReported
    BY DEF Restored, RestoreReported, VerdictPc
  <1> QED BY <1>1, <1>2, <1>3, <1>4, ShapeInvariant, BackupsInvariant, PTL
          DEF Spec

-----------------------------------------------------------------------------
(* A new record later than all others is the latest.                       *)
LEMMA NewRecordIsLatest ==
  ASSUME NEW at, NEW e, DOMAIN at \subseteq Times, NEW t \in Times,
         \A u \in DOMAIN at : ~(u > t), NEW m,
         m.at = [u \in DOMAIN at \cup {t} |-> IF u = t THEN e ELSE at[u]]
  PROVE  Latest(m) = {e}
  <1>1. DOMAIN m.at = {t} \cup DOMAIN at /\ m.at[t] = e
    OBVIOUS
  <1>2. \A u \in DOMAIN m.at : u \in Nat
    BY <1>1, ReversalAssumption
  <1>3. \A u \in DOMAIN m.at : u <= t
    BY <1>1, <1>2
  <1>4. {u \in DOMAIN m.at : \A v \in DOMAIN m.at : v <= u} = {t}
    <2>1. ASSUME NEW u \in DOMAIN m.at, \A v \in DOMAIN m.at : v <= u
          PROVE  u = t
      BY <1>1, <1>2, <1>3, <2>1
    <2> QED BY <1>1, <1>3, <2>1
  <1>5. Latest(m) = {m.at[u] : u \in {t}}
    BY <1>4 DEF Latest
  <1>6. {m.at[u] : u \in {t}} = {m.at[t]}
    OBVIOUS
  <1> QED BY <1>1, <1>5, <1>6

(* Steps that leave the manifest alone and give no verdict.                *)
LEMMA ManifestUntouched ==
  ASSUME ManifestInv, UNCHANGED manifestVars,
         \/ job'.pc # "decrypted" \/ UNCHANGED <<job, esp>>
  PROVE  ManifestInv'
  BY DEF ManifestInv, VerdictRight, manifestVars, Latest

(* As long as the clock was never set back, decrypt() and the menu call    *)
(* the ESP unchanged only if it is what encrypt() found before it changed  *)
(* anything, wherever recordings were cut short, and always then if they   *)
(* are run in the state directory; elsewhere they call it modified.        *)
THEOREM VerdictIsRight == Spec => []VerdictRight
  <1>1. Init => ManifestInv
    <2> SUFFICES ASSUME Init PROVE ManifestInv
      OBVIOUS
    <2>1. manifest.at = << >> /\ ~manifest.torn /\ recorded = {}
          /\ manifest = [torn |-> manifest.torn, at |-> manifest.at]
      BY DEF Init, NoManifest
    <2>2. DOMAIN manifest.at = {}
      BY <2>1
    <2>3. Latest(manifest) = {}
      BY <2>2 DEF Latest
    <2>4. VerdictRight
      BY IdleShape DEF Init, VerdictRight
    <2> QED BY <2>1, <2>2, <2>3, <2>4 DEF ManifestInv
  <1>2. ManifestInv /\ UNCHANGED vars => ManifestInv'
    BY ManifestUntouched DEF vars, bootFiles
  <1>3. ASSUME Shape, ManifestInv, Next PROVE ManifestInv'
    <2>0. job \in Job /\ setBack \in BOOLEAN
      BY <1>3 DEF Shape, Typed
    <2>1. CASE RecordManifest
      <3>1. job'.pc # "decrypted"
        BY <2>0, <2>1, IdleShape
           DEF RecordManifest, WriteManifest, Goto, Raise, Job
      <3>2. VerdictRight'
        BY <3>1 DEF VerdictRight
      <3>3. CASE UNCHANGED manifestVars
        BY <1>3, <3>1, <3>3, ManifestUntouched
      <3>4. CASE /\ EspMatchesManifest(manifest) /\ recorded' = {esp}
                 /\ UNCHANGED <<manifest, setBack>>
        BY <1>3, <3>2, <3>4 DEF ManifestInv, EspMatchesManifest, Latest
      <3>5. ASSUME NEW t \in Times, WriteManifest(t) PROVE ManifestInv'
        <4>1. CASE manifest' = TornManifest
          <5>1. manifest'.torn /\ DOMAIN manifest'.at = {}
                /\ manifest' = [torn |-> manifest'.torn, at |-> manifest'.at]
            BY <4>1 DEF TornManifest
          <5> QED BY <3>2, <5>1 DEF ManifestInv
        <4>2. CASE manifest' # TornManifest
          <5>1. /\ manifest' = [manifest EXCEPT !.at =
                      [u \in DOMAIN manifest.at \cup {t} |->
                          IF u = t THEN esp ELSE manifest.at[u]]]
                /\ recorded' = {esp}
            BY <3>5, <4>2 DEF WriteManifest
          <5>2. manifest = [torn |-> manifest.torn, at |-> manifest.at]
            BY <1>3 DEF ManifestInv
          <5>3. manifest' = [torn |-> manifest.torn,
                             at |-> [u \in DOMAIN manifest.at \cup {t} |->
                                       IF u = t THEN esp ELSE manifest.at[u]]]
            BY <5>1, <5>2
          <5>4. /\ manifest'.at = [u \in DOMAIN manifest.at \cup {t} |->
                                    IF u = t THEN esp ELSE manifest.at[u]]
                /\ manifest' = [torn |-> manifest'.torn, at |-> manifest'.at]
            BY <5>3
          <5>5. DOMAIN manifest'.at \subseteq Times
            BY <1>3, <3>5, <5>4 DEF ManifestInv
          <5>6. ASSUME ~setBack' PROVE Latest(manifest)' = {esp}
            <6>1. \A u \in DOMAIN manifest.at : ~(u > t)
              BY <3>5, <5>6 DEF WriteManifest
            <6>2. PICK m, at, e : m = manifest' /\ at = manifest.at /\ e = esp
              OBVIOUS
            <6>3. m.at = [u \in DOMAIN at \cup {t} |->
                            IF u = t THEN e ELSE at[u]]
              BY <5>4, <6>2
            <6>4. DOMAIN at \subseteq Times /\ \A u \in DOMAIN at : ~(u > t)
              BY <1>3, <6>1, <6>2 DEF ManifestInv
            <6>5. Latest(m) = {e}
              BY <3>5, <6>3, <6>4, NewRecordIsLatest
            <6> QED BY <6>2, <6>5 DEF Latest
          <5> QED BY <3>2, <5>1, <5>4, <5>5, <5>6 DEF ManifestInv
        <4> QED BY <4>1, <4>2
      <3> QED BY <2>1, <3>3, <3>4, <3>5 DEF RecordManifest, manifestVars
    <2>2. ASSUME NEW there \in BOOLEAN, VerifyManifest(there) PROVE ManifestInv'
      <3>1. UNCHANGED manifestVars /\ esp' = esp
        BY <2>2 DEF VerifyManifest, bootFiles
      <3>2. CASE Raise
        BY <1>3, <3>1, <3>2, ManifestUntouched, IdleShape DEF Raise
      <3>3. CASE ~Raise
        <4>1. PICK m : /\ m = IF there THEN manifest ELSE NoManifest
                       /\ ~m.torn
                       /\ job' = [job EXCEPT !.pc = "decrypted", !.there = there,
                                             !.matches = EspMatchesManifest(m)]
          BY <2>2, <3>3 DEF VerifyManifest
        <4>2. job'.there = there /\ job'.matches = EspMatchesManifest(m)
          BY <2>0, <4>1 DEF Job
        <4>3. CASE there
          <5>1. ~setBack => (EspMatchesManifest(m) <=> recorded = {esp})
            BY <1>3, <4>1, <4>3 DEF EspMatchesManifest, ManifestInv
          <5> QED BY <1>3, <3>1, <4>2, <4>3, <5>1
                  DEF ManifestInv, VerdictRight, manifestVars, Latest
        <4>4. CASE ~there
          <5>1. m.at = << >>
            BY <4>1, <4>4 DEF NoManifest
          <5>2. DOMAIN m.at = {}
            BY <5>1
          <5>3. ~EspMatchesManifest(m)
            BY <5>2 DEF EspMatchesManifest, Latest
          <5> QED BY <1>3, <3>1, <4>2, <4>4, <5>3
                  DEF ManifestInv, VerdictRight, manifestVars, Latest
        <4> QED BY <4>3, <4>4
      <3> QED BY <3>2, <3>3
    <2>3. CASE SetupStep /\ ~RecordManifest
      <3>1. UNCHANGED manifestVars
        BY <2>3 DEF SetupStep, Reencrypt, WritePacmanHook, UpdateFstab,
           BackupCreate, BackupCopy, BackupUnlink, Install, InstallCopy, Mask
      <3>2. job'.pc # "decrypted"
        BY <2>0, <2>3, IdleShape DEF SetupStep, Reencrypt, WritePacmanHook,
           UpdateFstab, BackupCreate, BackupCopy, BackupUnlink, Install,
           InstallCopy, Mask, AfterBackup, Goto, GotoFile, Raise, Job
      <3> QED BY <1>3, <3>1, <3>2, ManifestUntouched
    <2>4. CASE \/ Decrypted \/ RestoreFstab \/ RemoveHooksAndMask
               \/ RestoreChainloader \/ EndDecrypt
      <3>1. UNCHANGED manifestVars
        BY <2>4 DEF Decrypted, RestoreFstab, RemoveHooksAndMask,
           RestoreChainloader, EndDecrypt
      <3>2. job'.pc # "decrypted"
        BY <2>0, <2>4, IdleShape DEF Decrypted, RestoreFstab,
           RemoveHooksAndMask, RestoreChainloader, EndDecrypt, Goto, GotoFile,
           Job
      <3> QED BY <1>3, <3>1, <3>2, ManifestUntouched
    <2>5. CASE User \/ Crash \/ \E v \in Stock : ServiceInstall(v)
      <3>1. UNCHANGED manifestVars
        BY <2>5 DEF User, Crash, StartEncrypt, StartHook, StartDecrypt,
           StartVerify, UserCopiesBackups, UserRestoresChainloader,
           ServiceInstall
      <3>2. job'.pc # "decrypted"
        BY <2>0, <2>5, IdleShape DEF User, Crash, StartEncrypt, StartHook,
           StartDecrypt, StartVerify, UserCopiesBackups,
           UserRestoresChainloader, ServiceInstall, Raise, Job
      <3> QED BY <1>3, <3>1, <3>2, ManifestUntouched
    <2> QED BY <1>3, <2>1, <2>2, <2>3, <2>4, <2>5 DEF Next, DecryptStep
  <1>4. ManifestInv => VerdictRight
    BY DEF ManifestInv
  <1> QED BY <1>1, <1>2, <1>3, <1>4, ShapeInvariant, PTL DEF Spec

-----------------------------------------------------------------------------
(* A nonempty set of natural numbers has a least element: what is wrong   *)
(* for some number is wrong for a first one, which is how facts about a    *)
(* filtered file are proved.                                               *)
LEMMA Least ==
  ASSUME NEW T \in SUBSET Nat, T # {}
  PROVE  \E x \in T : \A y \in T : x <= y
  <1>1. PICK R : R = OpToRel(<, Nat)
    OBVIOUS
  <1>2. IsWellFoundedOn(R, Nat)
    BY <1>1, NatLessThanWellFounded
  <1>3. R = {ss \in Nat \X Nat : ss[1] < ss[2]}
    BY <1>1 DEF OpToRel
  <1>4. PICK x \in T : \A y \in T : <<y, x>> \notin R
    BY <1>2, WFMin
  <1>5. \A y \in T : ~(y < x)
    BY <1>3, <1>4
  <1> QED BY <1>5

(* The function WithoutAdded() evaluates: the lines kept so far.           *)
Filters(f, s) ==
    f = [n \in 0 .. Len(s) |->
            IF n = 0 THEN << >>
            ELSE IF s[n].mark = "added" THEN f[n - 1]
                 ELSE Append(f[n - 1], s[n])]

(* One step of it.                                                         *)
LEMMA FilterStep ==
  ASSUME NEW f, NEW s, Filters(f, s), NEW k \in 0 .. Len(s)
  PROVE  f[k] = IF k = 0 THEN << >>
                ELSE IF s[k].mark = "added" THEN f[k - 1]
                     ELSE Append(f[k - 1], s[k])
  <1>1. PICK g : g = f
    OBVIOUS
  <1>2. g = [n \in 0 .. Len(s) |->
                IF n = 0 THEN << >>
                ELSE IF s[n].mark = "added" THEN f[n - 1]
                     ELSE Append(f[n - 1], s[n])]
    BY <1>1, Zenon DEF Filters
  <1>3. g[k] = IF k = 0 THEN << >>
               ELSE IF s[k].mark = "added" THEN f[k - 1]
                    ELSE Append(f[k - 1], s[k])
    BY <1>2, Zenon
  <1> QED BY <1>1, <1>3, Zenon

(* From a file whose added lines are all at the end, exactly those go.     *)
LEMMA FilteredPrefix ==
  ASSUME NEW s \in Seq(Line), NEW n \in 0 .. Len(s),
         \A i \in 1 .. n : s[i].mark # "added",
         \A i \in n + 1 .. Len(s) : s[i].mark = "added"
  PROVE  /\ WithoutAdded(s) \in Seq(Line)
         /\ Len(WithoutAdded(s)) = n
         /\ \A i \in 1 .. n : WithoutAdded(s)[i] = s[i]
  <1> DEFINE Upto(k) == IF k <= n THEN k ELSE n
             Pre(k) == [i \in 1 .. Upto(k) |-> s[i]]
             W == [k \in 0 .. Len(s) |-> Pre(k)]
  <1>0. Len(s) \in Nat /\ n \in Nat /\ n <= Len(s)
    OBVIOUS
  <1>1. \A k \in 0 .. Len(s) : Upto(k) \in 0 .. Len(s) /\ Upto(k) <= n
    BY <1>0
  <1>2. ASSUME NEW k \in 0 .. Len(s)
        PROVE  Pre(k) \in Seq(Line) /\ Len(Pre(k)) = Upto(k)
    BY <1>0, <1>1
  <1>3. ASSUME NEW k \in 1 .. Len(s)
        PROVE  Pre(k) = IF s[k].mark = "added" THEN Pre(k - 1)
                        ELSE Append(Pre(k - 1), s[k])
    <2>1. CASE k <= n
      <3>1. s[k].mark # "added" /\ Upto(k) = k /\ Upto(k - 1) = k - 1
        BY <2>1, <1>0
      <3>2. Pre(k - 1) \in Seq(Line) /\ Len(Pre(k - 1)) = k - 1
        BY <1>2, <3>1
      <3> HIDE DEF Upto
      <3>3. Append(Pre(k - 1), s[k]) = Pre(k)
        BY <3>1, <1>0
      <3> QED BY <3>1, <3>3
    <2>2. CASE k > n
      BY SMTT(30), <2>2, <1>0
    <2> QED BY <2>1, <2>2, <1>0
  <1>4. Pre(0) = << >>
    BY <1>0
  <1> HIDE DEF Pre
  <1>5. Filters(W, s)
    <2>1. ASSUME NEW k \in 0 .. Len(s)
          PROVE  W[k] = IF k = 0 THEN << >>
                        ELSE IF s[k].mark = "added" THEN W[k - 1]
                             ELSE Append(W[k - 1], s[k])
      <3>1. CASE k = 0 BY <3>1, <1>4
      <3>2. CASE k # 0
        <4>1. k \in 1 .. Len(s) /\ k - 1 \in 0 .. Len(s) BY <3>2
        <4> QED BY <4>1, <3>2, <1>3
      <3> QED BY <3>1, <3>2
    <2>2. W = [k \in 0 .. Len(s) |-> W[k]]
      OBVIOUS
    <2> HIDE DEF W
    <2> QED BY <2>1, <2>2 DEF Filters
  <1>6. PICK f : f = (CHOOSE g : Filters(g, s))
    OBVIOUS
  <1>7. Filters(f, s)
    BY <1>5, <1>6
  <1>8. WithoutAdded(s) = f[Len(s)]
    BY <1>6 DEF WithoutAdded, Filters
  <1>9. \A k \in 0 .. Len(s) : f[k] = Pre(k)
    <2> DEFINE T == {k \in 0 .. Len(s) : f[k] # Pre(k)}
    <2> SUFFICES ASSUME T # {} PROVE FALSE
      OBVIOUS
    <2>1. T \in SUBSET Nat
      BY <1>0
    <2>2. PICK k \in T : \A y \in T : k <= y
      <3> HIDE DEF T
      <3> QED BY <2>1, Least
    <2>3. k \in 0 .. Len(s) /\ f[k] # Pre(k)
      BY <2>2
    <2>4. 0 \in 0 .. Len(s)
      BY <1>0
    <2>5. f[0] = << >>
      BY <1>7, <2>4, FilterStep, Zenon
    <2>6. k # 0
      BY <1>4, <2>3, <2>5
    <2>7. k \in 1 .. Len(s) /\ k - 1 \in 0 .. Len(s) /\ k - 1 \notin T
      BY <2>2, <2>6
    <2>8. f[k - 1] = Pre(k - 1)
      BY <2>7
    <2>9. f[k] = IF s[k].mark = "added" THEN f[k - 1] ELSE Append(f[k - 1], s[k])
      <3>1. f[k] = IF k = 0 THEN << >>
                   ELSE IF s[k].mark = "added" THEN f[k - 1]
                        ELSE Append(f[k - 1], s[k])
        <4> HIDE DEF T
        <4>1. k \in 0 .. Len(s)
          BY <2>3
        <4> QED BY <1>7, <4>1, FilterStep
      <3> QED BY <3>1, <2>6
    <2> QED BY <1>3, <2>3, <2>7, <2>8, <2>9
  <1>10. WithoutAdded(s) = Pre(Len(s)) /\ Upto(Len(s)) = n
    BY <1>0, <1>8, <1>9
  <1> QED BY <1>0, <1>2, <1>10 DEF Pre

(* s is the first n lines of the file the OS came with, some commented     *)
(* out, and the script's own lines; those left out are blank.              *)
BuiltOn(s, n) ==
    /\ s \in Seq(Line) /\ n \in Nat /\ n <= Len(s) /\ n <= Len(fstab0)
    /\ \A i \in n + 1 .. Len(fstab0) : fstab0[i].dev = "blank"
    /\ \A i \in 1 .. n : s[i].dev = fstab0[i].dev /\ s[i].mark # "added"
    /\ \A i \in n + 1 .. Len(s) : s[i].mark = "added" /\ s[i].dev # "blank"
    /\ \A i, j \in n + 1 .. Len(s) : s[i] = s[j] => i = j

(* The user's file has no comment of the script's.                         *)
OwnLines == fstab0 \in Seq(Line) /\ \A i \in 1 .. Len(fstab0) : fstab0[i].mark = "none"

(* Dropping a blank last line leaves such a file.                          *)
LEMMA DropBuilt ==
  ASSUME NEW s, NEW n, BuiltOn(s, n), OwnLines
  PROVE  \E m \in Nat : BuiltOn(DropTrailingBlank(s), m)
  <1> USE DEF BuiltOn, OwnLines
  <1>1. CASE ~(Len(s) > 1 /\ s[Len(s)].dev = "blank")
    <2>1. DropTrailingBlank(s) = s
      BY <1>1 DEF DropTrailingBlank, Last
    <2> QED BY SMTT(30), <2>1
  <1>2. CASE Len(s) > 1 /\ s[Len(s)].dev = "blank"
    <2>1. Len(s) \in Nat /\ n = Len(s)
      BY <1>2
    <2> DEFINE t == SubSeq(s, 1, n - 1)
    <2>2. DropTrailingBlank(s) = t
      BY <1>2, <2>1 DEF DropTrailingBlank, Last, Front
    <2>3. t \in Seq(Line) /\ Len(t) = n - 1 /\ \A i \in 1 .. n - 1 : t[i] = s[i]
      BY <1>2, <2>1
    <2>4. fstab0[n].dev = "blank"
      BY <1>2, <2>1
    <2> HIDE DEF t
    <2>5. BuiltOn(t, n - 1)
      BY <1>2, <2>1, <2>3, <2>4
    <2>6. n - 1 \in Nat
      BY <1>2, <2>1
    <2> QED BY <2>2, <2>5, <2>6, ZenonT(60)
  <1> QED BY <1>1, <1>2

(* The script's lines: one for each selected partition, none of them blank.*)
LEMMA AddedLinesShape ==
  ASSUME NEW sel \in SUBSET {"home", "var"}, NEW a, a = AddedLines(sel)
  PROVE  /\ a \in Seq(Line)
         /\ \A i \in 1 .. Len(a) : a[i].mark = "added" /\ a[i].dev # "blank"
         /\ \A i, j \in 1 .. Len(a) : a[i] = a[j] => i = j
  <1>1. PICK h : h = [dev |-> "home", mark |-> "added"]
    OBVIOUS
  <1>2. PICK v : v = [dev |-> "var", mark |-> "added"]
    OBVIOUS
  <1>3. /\ h \in Line /\ v \in Line /\ h # v
        /\ h.mark = "added" /\ h.dev # "blank"
        /\ v.mark = "added" /\ v.dev # "blank"
    BY <1>1, <1>2 DEF Line
  <1>4. a = (IF "home" \in sel THEN <<h>> ELSE << >>)
            \o (IF "var" \in sel THEN <<v>> ELSE << >>)
    BY <1>1, <1>2, Zenon DEF AddedLines
  <1>5. CASE "home" \in sel /\ "var" \in sel
    <2>1. a = <<h>> \o <<v>>
      BY <1>4, <1>5
    <2>2. Len(a) = 2 /\ a[1] = h /\ a[2] = v /\ a \in Seq(Line)
      BY <1>3, <2>1
    <2> QED BY <1>3, <2>2
  <1>6. CASE "home" \in sel /\ "var" \notin sel
    <2>1. a = <<h>>
      BY <1>4, <1>6
    <2>2. Len(a) = 1 /\ a[1] = h /\ a \in Seq(Line)
      BY <1>3, <2>1
    <2> QED BY <1>3, <2>2
  <1>7. CASE "home" \notin sel /\ "var" \in sel
    <2>1. a = <<v>>
      BY <1>4, <1>7
    <2>2. Len(a) = 1 /\ a[1] = v /\ a \in Seq(Line)
      BY <1>3, <2>1
    <2> QED BY <1>3, <2>2
  <1>8. CASE "home" \notin sel /\ "var" \notin sel
    <2>1. a = << >>
      BY <1>4, <1>8
    <2> QED BY <2>1
  <1> QED BY <1>5, <1>6, <1>7, <1>8

(* Commenting out keeps what a line mounts.                                *)
LEMMA CommentOutLine ==
  ASSUME NEW l \in Line, l.mark # "added"
  PROVE  /\ CommentOut(l) \in Line /\ CommentOut(l).dev = l.dev
         /\ CommentOut(l).mark # "added"
  BY DEF CommentOut, Line

(* The two parts of a file that was appended to.                           *)
LEMMA Concatenated ==
  ASSUME NEW S, NEW c \in Seq(S), NEW a \in Seq(S), NEW u, u = c \o a
  PROVE  /\ u \in Seq(S) /\ Len(u) = Len(c) + Len(a)
         /\ \A i \in 1 .. Len(c) : u[i] = c[i]
         /\ \A i \in Len(c) + 1 .. Len(u) :
               u[i] = a[i - Len(c)] /\ i - Len(c) \in 1 .. Len(a)
  OBVIOUS

(* setup_auto_tpm_decrypt() makes such a file of such a file.              *)
LEMMA UpdateBuilt ==
  ASSUME NEW s, NEW n, BuiltOn(s, n), OwnLines, NEW sel \in SUBSET {"home", "var"}
  PROVE  \E m \in Nat : BuiltOn(UpdatedFstab(s, sel), m)
  <1>1. CASE sel = {}
    BY <1>1 DEF UpdatedFstab, BuiltOn
  <1>2. CASE sel # {}
    <2>1. PICK d : d = DropTrailingBlank(s)
      OBVIOUS
    <2>2. PICK m \in Nat : BuiltOn(d, m)
      BY <2>1, DropBuilt
    <2>3. PICK k : k = WithoutAdded(d)
      OBVIOUS
    <2>4. k \in Seq(Line) /\ Len(k) = m /\ \A i \in 1 .. m : k[i] = d[i]
      <3>1. /\ d \in Seq(Line) /\ m \in 0 .. Len(d)
            /\ \A i \in 1 .. m : d[i].mark # "added"
            /\ \A i \in m + 1 .. Len(d) : d[i].mark = "added"
        BY <2>2 DEF BuiltOn
      <3> QED BY <2>3, <3>1, FilteredPrefix
    <2>5. PICK c : c = [i \in 1 .. m |-> CommentOut(k[i])]
      OBVIOUS
    <2>6. ASSUME NEW i \in 1 .. m
          PROVE  /\ CommentOut(k[i]) \in Line
                 /\ CommentOut(k[i]).dev = fstab0[i].dev
                 /\ CommentOut(k[i]).mark # "added"
      <3>1. k[i] \in Line /\ k[i].dev = fstab0[i].dev /\ k[i].mark # "added"
        BY <2>2, <2>4 DEF BuiltOn
      <3> QED BY <3>1, CommentOutLine
    <2>7. c \in Seq(Line) /\ Len(c) = m
          /\ \A i \in 1 .. m : c[i].dev = fstab0[i].dev /\ c[i].mark # "added"
      BY <2>5, <2>6
    <2>8. PICK a : a = AddedLines(sel)
      OBVIOUS
    <2>9. DOMAIN k = 1 .. m
      BY <2>4
    <2>10. UpdatedFstab(s, sel) = c \o a
      BY <1>2, <2>1, <2>3, <2>5, <2>8, <2>9 DEF UpdatedFstab
    <2>11. /\ a \in Seq(Line)
           /\ \A i \in 1 .. Len(a) : a[i].mark = "added" /\ a[i].dev # "blank"
           /\ \A i, j \in 1 .. Len(a) : a[i] = a[j] => i = j
      BY <2>8, AddedLinesShape
    <2>12. PICK u : u = c \o a
      OBVIOUS
    <2>13. /\ u \in Seq(Line) /\ Len(u) = m + Len(a)
           /\ \A i \in 1 .. m : u[i] = c[i]
           /\ \A i \in m + 1 .. Len(u) : u[i] = a[i - m] /\ i - m \in 1 .. Len(a)
      <3>1. c \in Seq(Line) /\ a \in Seq(Line) /\ Len(c) = m
        BY <2>7, <2>11
      <3>2. PICK S : S = Line
        OBVIOUS
      <3>3. c \in Seq(S)
        BY <3>1, <3>2
      <3>4. a \in Seq(S)
        BY <3>1, <3>2
      <3>5. /\ u \in Seq(S) /\ Len(u) = Len(c) + Len(a)
            /\ \A i \in 1 .. Len(c) : u[i] = c[i]
            /\ \A i \in Len(c) + 1 .. Len(u) :
                  u[i] = a[i - Len(c)] /\ i - Len(c) \in 1 .. Len(a)
        BY <2>12, <3>3, <3>4, Concatenated
      <3> QED BY <3>1, <3>5, <3>2, Zenon
    <2>14. BuiltOn(u, m)
      <3>1. /\ m <= Len(u) /\ m <= Len(fstab0)
            /\ \A i \in m + 1 .. Len(fstab0) : fstab0[i].dev = "blank"
        BY <2>2, <2>11, <2>13 DEF BuiltOn
      <3>2. \A i \in 1 .. m : u[i].dev = fstab0[i].dev /\ u[i].mark # "added"
        BY <2>7, <2>13
      <3>3. \A i \in m + 1 .. Len(u) : u[i].mark = "added" /\ u[i].dev # "blank"
        BY <2>11, <2>13
      <3>4. ASSUME NEW i \in m + 1 .. Len(u), NEW j \in m + 1 .. Len(u), u[i] = u[j]
            PROVE  i = j
        <4>1. a[i - m] = a[j - m] /\ i - m \in 1 .. Len(a) /\ j - m \in 1 .. Len(a)
          BY <2>13, <3>4
        <4>2. i - m = j - m
          BY <2>11, <4>1
        <4> QED BY <4>2
      <3> QED BY <2>13, <3>1, <3>2, <3>3, <3>4 DEF BuiltOn
    <2> QED BY <2>10, <2>12, <2>14
  <1> QED BY <1>1, <1>2

(* decrypt() makes one without any mark of the script's.                   *)
LEMMA RestoreBuilt ==
  ASSUME NEW s, NEW n, BuiltOn(s, n), OwnLines, NEW u, u = RestoredFstab(s)
  PROVE  /\ BuiltOn(u, n)
         /\ \A i \in 1 .. Len(u) : u[i].mark = "none"
  <1>1. PICK k : k = WithoutAdded(s)
    OBVIOUS
  <1>2. k \in Seq(Line) /\ Len(k) = n /\ n \in Nat /\ \A i \in 1 .. n : k[i] = s[i]
    <2>1. /\ s \in Seq(Line) /\ n \in 0 .. Len(s)
          /\ \A i \in 1 .. n : s[i].mark # "added"
          /\ \A i \in n + 1 .. Len(s) : s[i].mark = "added"
      BY DEF BuiltOn
    <2> QED BY <1>1, <2>1, FilteredPrefix
  <1>3. DOMAIN k = 1 .. n
    BY <1>2
  <1> DEFINE Line1(l) == [l EXCEPT !.mark = IF @ = "removed" THEN "none" ELSE @]
  <1>4. u = [i \in 1 .. n |-> Line1(k[i])]
    BY <1>1, <1>3 DEF RestoredFstab
  <1>5. ASSUME NEW i \in 1 .. n
        PROVE  /\ Line1(k[i]) \in Line
               /\ Line1(k[i]).dev = fstab0[i].dev
               /\ Line1(k[i]).mark = "none"
    <2>1. k[i] \in Line /\ k[i].dev = fstab0[i].dev /\ k[i].mark # "added"
      BY <1>2 DEF BuiltOn
    <2> QED BY <2>1 DEF Line
  <1> HIDE DEF Line1
  <1>6. u \in Seq(Line) /\ Len(u) = n
        /\ \A i \in 1 .. n : u[i].dev = fstab0[i].dev /\ u[i].mark = "none"
    BY <1>2, <1>4, <1>5
  <1> QED BY <1>6 DEF BuiltOn
(* Where decrypt() has restored fstab.                                     *)
FstabBack == job.op = "decrypt" /\ job.pc \in {"unmask", "restore", "verify", "decrypted"}

(* fstab is at all times such a file, and once it is restored it has no    *)
(* mark of the script's, so that nothing but the user's lines is left.     *)
FstabInv ==
    /\ OwnLines
    /\ \E n \in Nat : BuiltOn(fstab, n)
    /\ FstabBack => \A i \in 1 .. Len(fstab) : fstab[i].mark = "none"

(* A step that leaves fstab alone and does not reach the restored part.    *)
LEMMA FstabUntouched ==
  ASSUME FstabInv, UNCHANGED <<fstab, fstab0>>, FstabBack' => FstabBack
  PROVE  FstabInv'
  <1>1. PICK n \in Nat : BuiltOn(fstab, n)
    BY DEF FstabInv
  <1>2. BuiltOn(fstab, n)'
    BY <1>1 DEF BuiltOn
  <1>3. OwnLines'
    BY DEF FstabInv, OwnLines
  <1> QED BY <1>2, <1>3 DEF FstabInv

(* And it is what the property says.                                       *)
LEMMA FstabMeans == FstabInv => FstabReversible /\ \A i \in DOMAIN fstab : fstab[i] \in Line
  <1> SUFFICES ASSUME FstabInv
               PROVE  FstabReversible /\ \A i \in DOMAIN fstab : fstab[i] \in Line
    OBVIOUS
  <1>1. PICK n \in Nat : BuiltOn(fstab, n)
    BY DEF FstabInv
  <1>2. /\ fstab \in Seq(Line) /\ DOMAIN fstab = 1 .. Len(fstab)
        /\ fstab0 \in Seq(Line) /\ DOMAIN fstab0 = 1 .. Len(fstab0)
    BY <1>1 DEF BuiltOn, FstabInv, OwnLines
  <1>3. ASSUME FstabBack
        PROVE  /\ IsPrefix(fstab, fstab0)
               /\ \A i \in DOMAIN fstab0 \ DOMAIN fstab : fstab0[i].dev = "blank"
    <2>1. n = Len(fstab)
      <3>1. CASE n < Len(fstab)
        <4>1. Len(fstab) \in n + 1 .. Len(fstab) /\ Len(fstab) \in 1 .. Len(fstab)
          BY <1>2, <3>1
        <4>2. fstab[Len(fstab)].mark = "added" /\ fstab[Len(fstab)].mark = "none"
          BY <1>1, <1>3, <4>1 DEF BuiltOn, FstabInv
        <4> QED BY <4>2
      <3>2. n <= Len(fstab) /\ n \in Nat /\ Len(fstab) \in Nat
        BY <1>1 DEF BuiltOn
      <3> QED BY <3>1, <3>2
    <2>2. ASSUME NEW i \in 1 .. n
          PROVE  fstab[i] = fstab0[i]
      <3>1. /\ fstab[i] \in Line /\ fstab0[i] \in Line
            /\ fstab[i].dev = fstab0[i].dev
            /\ fstab[i].mark = "none" /\ fstab0[i].mark = "none"
        BY <1>1, <1>2, <1>3, <2>1 DEF BuiltOn, FstabInv, OwnLines
      <3> QED BY <3>1 DEF Line
    <2>3. n <= Len(fstab0) /\ \A i \in n + 1 .. Len(fstab0) : fstab0[i].dev = "blank"
      BY <1>1 DEF BuiltOn
    <2>4. IsPrefix(fstab, fstab0)
      BY <1>2, <2>1, <2>2, <2>3 DEF IsPrefix
    <2>5. \A i \in DOMAIN fstab0 \ DOMAIN fstab : fstab0[i].dev = "blank"
      BY <1>2, <2>1, <2>3
    <2> QED BY <2>4, <2>5
  <1>4. ASSUME NEW i \in DOMAIN fstab, NEW j \in DOMAIN fstab,
               fstab[i].mark = "added", fstab[j] = fstab[i]
        PROVE  i = j
    BY <1>1, <1>2, <1>4 DEF BuiltOn
  <1> QED BY <1>2, <1>3, <1>4 DEF FstabReversible, FstabBack

(* Every step keeps it.                                                    *)
LEMMA FstabStep == ASSUME Shape, FstabInv, Next PROVE FstabInv'
  <1>0. job \in Job /\ steamos \in BOOLEAN
    BY DEF Shape, Typed
  <1>1. PICK n \in Nat : BuiltOn(fstab, n)
    BY DEF FstabInv
  <1>2. CASE UpdateFstab
    <2>1. \E m \in Nat : BuiltOn(fstab', m)
      <3>1. PICK sel : sel = job.sel
        OBVIOUS
      <3>2. sel \in SUBSET {"home", "var"} /\ fstab' = UpdatedFstab(fstab, sel)
        BY <1>0, <1>2, <3>1 DEF UpdateFstab, Job
      <3> QED BY <1>1, <3>2, UpdateBuilt DEF FstabInv
    <2>2. fstab0' = fstab0 /\ ~FstabBack'
      <3>1. job'.op = job.op /\ job.op # "decrypt"
        BY <1>0, <1>2 DEF UpdateFstab, GotoFile, At, Job, Shape, Course, SetupPc
      <3> QED BY <1>2, <3>1 DEF UpdateFstab, fixed, FstabBack
    <2> QED BY <2>1, <2>2 DEF FstabInv, OwnLines, BuiltOn
  <1>3. CASE RestoreFstab
    <2>1. PICK u : u = RestoredFstab(fstab)
      OBVIOUS
    <2>2. fstab' = u /\ fstab0' = fstab0
      BY <1>3, <2>1 DEF RestoreFstab, fixed
    <2>3. BuiltOn(u, n) /\ \A i \in 1 .. Len(u) : u[i].mark = "none"
      BY <1>1, <2>1, RestoreBuilt DEF FstabInv
    <2> QED BY <1>1, <2>2, <2>3 DEF FstabInv, OwnLines, BuiltOn
  <1>4. CASE ~UpdateFstab /\ ~RestoreFstab
    <2>1. UNCHANGED <<fstab, fstab0>>
      BY <1>4 DEF Next, SetupStep, DecryptStep, User, RecordManifest, Reencrypt,
         WritePacmanHook, BackupCreate, BackupCopy, BackupUnlink, Install,
         InstallCopy, Mask, Decrypted, RemoveHooksAndMask, RestoreChainloader,
         EndDecrypt, VerifyManifest, StartEncrypt, StartHook, StartDecrypt,
         StartVerify, UserCopiesBackups, UserRestoresChainloader, Crash,
         ServiceInstall, fixed, rootFiles
    <2>2. FstabBack' => FstabBack
      <3> SUFFICES ASSUME FstabBack' PROVE FstabBack
        OBVIOUS
      <3> USE <1>0, IdleShape DEF FstabBack, Job, At, Goto, GotoFile, Raise
      <3>1. CASE SetupStep
        BY <1>4, <3>1 DEF Shape, Course, SetupPc, SetupStep, RecordManifest,
           WriteManifest, Reencrypt, WritePacmanHook, BackupCreate, BackupCopy,
           BackupUnlink, Install, InstallCopy, Mask, AfterBackup
      <3>2. CASE DecryptStep
        BY <1>4, <3>2 DEF DecryptStep, Decrypted, RemoveHooksAndMask,
           RestoreChainloader, EndDecrypt, VerifyManifest
      <3>3. CASE User \/ Crash \/ \E v \in Stock : ServiceInstall(v)
        BY <3>3 DEF User, Crash, ServiceInstall, StartEncrypt, StartHook,
           StartDecrypt, StartVerify, UserCopiesBackups, UserRestoresChainloader
      <3> QED BY <3>1, <3>2, <3>3 DEF Next
    <2> QED BY <2>1, <2>2, FstabUntouched
  <1> QED BY <1>2, <1>3, <1>4

(* fstab, in every reachable state.                                        *)
LEMMA FstabInvariant == Spec => []FstabInv
  <1>1. ASSUME Init PROVE FstabInv
    <2>1. /\ fstab \in Seq(Line) /\ fstab0 = fstab
          /\ \A i \in 1 .. Len(fstab) : fstab[i].mark = "none"
      BY <1>1, ReversalAssumption DEF Init
    <2>2. Len(fstab) \in Nat /\ BuiltOn(fstab, Len(fstab))
      BY <2>1 DEF BuiltOn
    <2>3. ~FstabBack
      BY <1>1, IdleShape DEF Init, FstabBack
    <2> QED BY <2>1, <2>2, <2>3 DEF FstabInv, OwnLines
  <1>2. FstabInv /\ UNCHANGED vars => FstabInv'
    BY FstabUntouched DEF vars, fixed, rootFiles, FstabBack
  <1> QED BY <1>1, <1>2, FstabStep, ShapeInvariant, PTL DEF Spec

(* However often the setup was rerun or cut short, and however many lines  *)
(* fstab has, it ends up as the user wrote it once decrypt() has restored  *)
(* it, save for blank lines at its end, and each partition has at most one *)
(* line of the script's.                                                   *)
THEOREM FstabIsReversible == Spec => []FstabReversible
  BY FstabInvariant, FstabMeans, PTL

(* Files only ever hold what some step wrote into them.                    *)
THEOREM ReversalTyped == Spec => []ReversalTypeOK
  <1>1. Shape /\ FstabInv => ReversalTypeOK
    BY FstabMeans DEF Shape, Typed, ReversalTypeOK
  <1> QED BY <1>1, ShapeInvariant, FstabInvariant, PTL

=============================================================================
