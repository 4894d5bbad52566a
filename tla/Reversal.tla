------------------------------- MODULE Reversal -------------------------------
(***************************************************************************)
(* What encrypting one OS changes outside its LUKS volumes, and what       *)
(* decrypt() puts back: the chainloader on the ESP and its backups, the    *)
(* steamos-install-steamcl mask, the pacman hook and /etc/fstab; and the   *)
(* manifest of the ESP that encrypt() records and decrypt() and the menu   *)
(* compare with.                                                           *)
(*                                                                         *)
(* setup_auto_tpm_decrypt() runs on the root of the encrypted OS (in       *)
(* encrypt()'s chroot or as its pacman hook), decrypt() on another OS;     *)
(* each has the DATA_DIR of the root it runs on. Every file operation is a *)
(* step, and a run may be cut short between any two. The default           *)
(* USE_SYSTEMD_INIT is assumed.                                            *)
(***************************************************************************)
EXTENDS Naturals, Sequences, SequencesExt

CONSTANTS
    Stock,        \* chainloaders steamos-install-steamcl may install
    Fstabs,       \* the fstab files the OS may start with
    Selections,   \* which of home and var are encrypted with the root
    Times         \* timestamps of records (bounds the recordings)

(* A line of fstab: what it mounts, and which comment of the script's it   *)
(* has, in front (removed) or at the end (added).                          *)
Line == [dev : {"partset", "fs_uuid", "luks_uuid", "swap", "home", "var",
                "blank"},
         mark : {"none", "removed", "added"}]

ASSUME ReversalAssumption ==
    /\ Stock # {} /\ Stock \cap {"absent", "torn", "ours", "old"} = {}
    /\ Selections \subseteq SUBSET {"home", "var"}
    /\ Times \subseteq Nat
    /\ \A s \in Fstabs : s \in Seq(Line) /\ \A i \in DOMAIN s : s[i].mark = "none"

VARIABLES
    steamos,    \* is_chroot_steamos()
    esp,        \* files on the ESP
    dataDir,    \* the chainloader backups in each OS's DATA_DIR
    masked,     \* STEAMCL_SERVICE_MASK_PATH exists
    encrypted,  \* the root is a LUKS volume
    fstab,      \* /etc/fstab of the OS
    fstab0,     \* what it was before the first run
    pacHook,    \* --home and --var in the pacman hook, or NoHook
    manifest,   \* the ESP manifest in the state directory
    recorded,   \* the ESP as encrypt() last found it, in a set
    setBack,    \* the clock was behind the last record at some recording
    job,        \* the running script
    intact      \* no run has been cut short so far

fixed == <<steamos, fstab0>>
bootFiles == <<esp, dataDir>>
rootFiles == <<masked, fstab, pacHook>>
manifestVars == <<manifest, recorded, setBack>>
vars == <<fixed, bootFiles, rootFiles, manifestVars, encrypted, job, intact>>

\* torn: not or only partly written; ours: a binary of this encryption;
\* old: one of an earlier encryption.
Content == {"absent", "torn", "ours", "old"} \cup Stock
NoHook == {"no hook"}
Chainloader == {"bootx64", "steamcl"}
EspFile == Chainloader \cup {"auto"}   \* auto: Auto_TPM_Encrypted_Boot.efi
Dir == {"self", "other"}               \* the encrypted OS, the one decrypting

Idle == [op |-> "none", pc |-> "idle", file |-> "bootx64", sel |-> {},
         died |-> FALSE, there |-> FALSE, matches |-> FALSE]

At(l) == job.pc = l
Goto(l) == job' = [job EXCEPT !.pc = l]
GotoFile(l, f) == job' = [job EXCEPT !.pc = l, !.file = f]

(* An uncaught exception ends the run where it is.                         *)
Raise == job' = Idle /\ intact' = FALSE

-----------------------------------------------------------------------------
(* /etc/fstab *)

(* encrypted_uuids: blkid reports the LUKS UUIDs of the partitions, not    *)
(* those of the file systems in them, which fstab usually has.             *)
IsUuidOfLuks(l) == l.dev = "luks_uuid"

DropTrailingBlank(s) ==
    IF Len(s) > 1 /\ Last(s).dev = "blank" THEN Front(s) ELSE s

WithoutAdded(s) ==
    LET kept[n \in 0 .. Len(s)] ==
            IF n = 0 THEN << >>
            ELSE IF s[n].mark = "added" THEN kept[n - 1]
                 ELSE Append(kept[n - 1], s[n])
    IN kept[Len(s)]

(* A line commented out before starts with '# REMOVED' and matches neither. *)
CommentOut(l) ==
    IF l.mark = "none" /\ ((steamos /\ l.dev = "partset") \/ IsUuidOfLuks(l))
    THEN [l EXCEPT !.mark = "removed"] ELSE l

AddedLines(sel) ==
    LET line(d) == IF d \in sel THEN <<[dev |-> d, mark |-> "added"]>> ELSE << >>
    IN line("home") \o line("var")

(* Mutant: lines added by an earlier run are kept. *)
UpdatedFstabKeeping(s, sel) ==
    IF sel = {} THEN s
    ELSE LET kept == DropTrailingBlank(s)
         IN [i \in DOMAIN kept |-> CommentOut(kept[i])] \o AddedLines(sel)

UpdatedFstab(s, sel) ==
    IF sel = {} THEN s
    ELSE LET kept == WithoutAdded(DropTrailingBlank(s))
         IN [i \in DOMAIN kept |-> CommentOut(kept[i])] \o AddedLines(sel)

RestoredFstab(s) ==
    LET kept == WithoutAdded(s)
    IN [i \in DOMAIN kept |->
            [kept[i] EXCEPT !.mark = IF @ = "removed" THEN "none" ELSE @]]

-----------------------------------------------------------------------------
(* The ESP manifest: timestamps and what capture_current_esp_manifest()    *)
(* found, all the files of the ESP and their hashes.                       *)

NoManifest == [torn |-> FALSE, at |-> << >>]  \* no file reads as no record
TornManifest == [torn |-> TRUE, at |-> << >>]

(* get_last_esp_manifest(), in a set. *)
Latest(m) == {m.at[t] : t \in {t \in DOMAIN m.at : \A u \in DOMAIN m.at : u <= t}}

EspMatchesManifest(m) == Latest(m) = {esp}

(* The file is opened for writing, which empties it, and the JSON may not  *)
(* get there.                                                              *)
WriteManifest(t) ==
    /\ setBack' = (setBack \/ \E u \in DOMAIN manifest.at : u > t)
    /\ \/ /\ manifest' = [manifest EXCEPT !.at =
                [u \in DOMAIN @ \cup {t} |-> IF u = t THEN esp ELSE @[u]]]
          /\ recorded' = {esp}
          /\ Goto("reencrypt")
          /\ UNCHANGED intact
       \/ manifest' = TornManifest /\ Raise /\ UNCHANGED recorded

-----------------------------------------------------------------------------
(* encrypt() and setup_auto_tpm_decrypt() *)

OwnFile == IF steamos THEN "bootx64" ELSE "auto"
Boots == esp[OwnFile] = "ours"

StartEncrypt(sel) ==
    /\ job = Idle /\ ~encrypted
    /\ job' = [Idle EXCEPT !.op = "encrypt", !.pc = "record", !.sel = sel]
    /\ UNCHANGED <<fixed, manifestVars, bootFiles, rootFiles, encrypted, intact>>

(* update_esp_manifest_if_changed() *)
RecordManifest ==
    /\ At("record")
    /\ \/ manifest.torn /\ Raise /\ UNCHANGED manifestVars
       \/ /\ ~manifest.torn /\ EspMatchesManifest(manifest)
          /\ recorded' = {esp}
          /\ Goto("reencrypt")
          /\ UNCHANGED <<manifest, setBack, intact>>
       \/ /\ ~manifest.torn /\ ~EspMatchesManifest(manifest)
          /\ \E t \in Times \ DOMAIN manifest.at : WriteManifest(t)
    /\ UNCHANGED <<fixed, bootFiles, rootFiles, encrypted>>

(* The new LUKS UUID makes a binary of an earlier encryption useless.      *)
Reencrypt ==
    /\ At("reencrypt")
    /\ encrypted' = TRUE
    /\ esp' = [esp EXCEPT ![OwnFile] = IF @ = "ours" THEN "old" ELSE @]
    /\ Goto("hook")
    /\ UNCHANGED <<fixed, manifestVars, rootFiles, dataDir, intact>>

(* The pacman hook of the booted OS, with the partitions it names.         *)
StartHook ==
    /\ job = Idle /\ encrypted /\ Boots
    /\ pacHook # NoHook
    /\ job' = [Idle EXCEPT !.op = "hook", !.pc = "hook", !.sel = pacHook]
    /\ UNCHANGED <<fixed, manifestVars, bootFiles, rootFiles, encrypted, intact>>

(* Mutant: the hook names the root among the partitions. *)
WritePacmanHookWithRoot ==
    /\ At("hook")
    /\ pacHook' = job.sel \cup {"root"}
    /\ Goto("fstab")
    /\ UNCHANGED <<fixed, manifestVars, bootFiles, masked, encrypted, fstab, intact>>

WritePacmanHook ==
    /\ At("hook")
    /\ pacHook' = job.sel
    /\ Goto("fstab")
    /\ UNCHANGED <<fixed, manifestVars, bootFiles, masked, encrypted, fstab, intact>>

UpdateFstab ==
    /\ At("fstab")
    /\ fstab' = UpdatedFstab(fstab, job.sel)
    /\ GotoFile(IF steamos THEN "create" ELSE "move", "bootx64")
    /\ UNCHANGED <<fixed, manifestVars, bootFiles, masked, encrypted, pacHook, intact>>

AfterBackup == IF job.file = "bootx64" THEN "install" ELSE "mask"

(* Mutant: the backup is taken whether or not there is one. *)
BackupCreateOverwriting ==
    /\ At("create")
    /\ dataDir' = [dataDir EXCEPT !["self"][job.file] = "torn"]
    /\ Goto("copy")
    /\ UNCHANGED <<fixed, manifestVars, rootFiles, esp, encrypted, intact>>

(* atomic_rename_without_overwriting(): open(dst, 'x') leaves an empty     *)
(* file; when the backup exists the file on the ESP is removed instead,    *)
(* and only for steamcl may that one be missing.                           *)
BackupCreate ==
    /\ At("create")
    /\ \/ /\ dataDir["self"][job.file] = "absent"
          /\ dataDir' = [dataDir EXCEPT !["self"][job.file] = "torn"]
          /\ Goto("copy")
          /\ UNCHANGED <<esp, intact>>
       \/ /\ dataDir["self"][job.file] # "absent"
          /\ esp[job.file] # "absent" \/ job.file = "steamcl"
          /\ esp' = [esp EXCEPT ![job.file] = "absent"]
          /\ Goto(AfterBackup)
          /\ UNCHANGED <<dataDir, intact>>
       \/ /\ dataDir["self"][job.file] # "absent"
          /\ esp[job.file] = "absent" /\ job.file = "bootx64"
          /\ Raise
          /\ UNCHANGED bootFiles
    /\ UNCHANGED <<fixed, manifestVars, rootFiles, encrypted>>

(* shutil.move() across file systems copies, then unlinks. A missing       *)
(* steamcl is passed over and leaves its empty backup behind.              *)
BackupCopy ==
    /\ At("copy")
    /\ \/ /\ esp[job.file] # "absent"
          /\ dataDir' = [dataDir EXCEPT !["self"][job.file] = esp[job.file]]
          /\ Goto("unlink")
          /\ UNCHANGED intact
       \/ /\ esp[job.file] = "absent" /\ job.file = "steamcl"
          /\ Goto("mask")
          /\ UNCHANGED <<dataDir, intact>>
       \/ /\ esp[job.file] = "absent" /\ job.file = "bootx64"
          /\ Raise
          /\ UNCHANGED dataDir
    /\ UNCHANGED <<fixed, manifestVars, rootFiles, esp, encrypted>>

BackupUnlink ==
    /\ At("unlink")
    /\ esp' = [esp EXCEPT ![job.file] = "absent"]
    /\ Goto(AfterBackup)
    /\ UNCHANGED <<fixed, manifestVars, rootFiles, dataDir, encrypted, intact>>

(* The same for the new binary, onto the ESP.                              *)
Install ==
    /\ At("install") \/ At("move")
    /\ esp' = [esp EXCEPT ![OwnFile] = "torn"]
    /\ Goto("install_copy")
    /\ UNCHANGED <<fixed, manifestVars, rootFiles, dataDir, encrypted, intact>>

InstallCopy ==
    /\ At("install_copy")
    /\ esp' = [esp EXCEPT ![OwnFile] = "ours"]
    /\ IF steamos THEN GotoFile("create", "steamcl") ELSE job' = Idle
    /\ UNCHANGED <<fixed, manifestVars, rootFiles, dataDir, encrypted, intact>>

(* Mutant: the chainloader's installer is left alone. *)
MaskSkipped == At("mask") /\ job' = Idle
    /\ UNCHANGED <<fixed, manifestVars, bootFiles, rootFiles, encrypted, intact>>

Mask ==
    /\ At("mask")
    /\ masked' = TRUE
    /\ job' = Idle
    /\ UNCHANGED <<fixed, manifestVars, bootFiles, encrypted, fstab, pacHook, intact>>

-----------------------------------------------------------------------------
(* decrypt() *)

StartDecrypt ==
    /\ job = Idle /\ encrypted
    /\ job' = [Idle EXCEPT !.op = "decrypt", !.pc = "reencrypt_back"]
    /\ UNCHANGED <<fixed, manifestVars, bootFiles, rootFiles, encrypted, intact>>

Decrypted ==
    /\ At("reencrypt_back")
    /\ encrypted' = FALSE
    /\ Goto("restore_fstab")
    /\ UNCHANGED <<fixed, manifestVars, bootFiles, rootFiles, intact>>

RestoreFstab ==
    /\ At("restore_fstab")
    /\ fstab' = RestoredFstab(fstab)
    /\ Goto("unmask")
    /\ UNCHANGED <<fixed, manifestVars, bootFiles, masked, encrypted, pacHook, intact>>

RemoveHooksAndMask ==
    /\ At("unmask")
    /\ pacHook' = NoHook
    /\ masked' = FALSE
    /\ IF steamos THEN GotoFile("restore", "bootx64") ELSE Goto("verify")
    /\ UNCHANGED <<fixed, manifestVars, bootFiles, encrypted, fstab, intact>>

(* Mutant: a missing backup goes unnoticed. *)
RestoreChainloaderSilently ==
    /\ At("restore")
    /\ LET saved == dataDir["other"][job.file] IN
       /\ esp' = [esp EXCEPT ![job.file] =
                                IF saved = "absent" THEN @ ELSE saved]
       /\ job' = [job EXCEPT !.pc = IF job.file = "bootx64" THEN "restore"
                                                           ELSE "verify",
                             !.file = "steamcl"]
    /\ UNCHANGED <<fixed, manifestVars, rootFiles, dataDir, encrypted, intact>>

(* The backups are looked for in the DATA_DIR of the OS decrypt() runs on; *)
(* a missing one is remembered and reported at the end.                    *)
RestoreChainloader ==
    /\ At("restore")
    /\ LET saved == dataDir["other"][job.file] IN
       /\ esp' = [esp EXCEPT ![job.file] =
                                IF saved = "absent" THEN @ ELSE saved]
       /\ job' = [job EXCEPT !.died = @ \/ saved = "absent",
                             !.pc = IF job.file = "bootx64" THEN "restore"
                                                           ELSE "verify",
                             !.file = "steamcl"]
    /\ UNCHANGED <<fixed, manifestVars, rootFiles, dataDir, encrypted, intact>>

(* Mutant: without a record everything matches. *)
VerifyManifestLenient(there) ==
    /\ At("verify")
    /\ LET m == IF there THEN manifest ELSE NoManifest IN
       \/ m.torn /\ Raise
       \/ /\ ~m.torn
          /\ job' = [job EXCEPT !.pc = "decrypted", !.there = there,
                                !.matches = (Latest(m) \in {{}, {esp}})]
          /\ UNCHANGED intact
    /\ UNCHANGED <<fixed, manifestVars, bootFiles, rootFiles, encrypted>>

(* decrypt() and the menu compare the ESP with the latest record of a file *)
(* in the current directory, which is or is not the state directory.       *)
VerifyManifest(there) ==
    /\ At("verify")
    /\ LET m == IF there THEN manifest ELSE NoManifest IN
       \/ m.torn /\ Raise
       \/ /\ ~m.torn
          /\ job' = [job EXCEPT !.pc = "decrypted", !.there = there,
                                !.matches = EspMatchesManifest(m)]
          /\ UNCHANGED intact
    /\ UNCHANGED <<fixed, manifestVars, bootFiles, rootFiles, encrypted>>

(* verify_esp_against_manifest() *)
StartVerify ==
    /\ job = Idle
    /\ job' = [Idle EXCEPT !.op = "verify", !.pc = "verify"]
    /\ UNCHANGED <<fixed, manifestVars, bootFiles, rootFiles, encrypted, intact>>

EndDecrypt ==
    /\ At("decrypted")
    /\ job' = Idle
    /\ UNCHANGED <<fixed, manifestVars, bootFiles, rootFiles, encrypted, intact>>

-----------------------------------------------------------------------------
(* A failed command, Ctrl-C or a power loss.                               *)
Crash ==
    /\ job # Idle
    /\ Raise
    /\ UNCHANGED <<fixed, manifestVars, bootFiles, rootFiles, encrypted>>

(* steamos-install-steamcl.service of a booted SteamOS.                    *)
ServiceInstall(v) ==
    /\ job = Idle /\ steamos /\ ~masked
    /\ IF encrypted THEN Boots ELSE esp["bootx64"] \in Stock
    /\ esp' = [esp EXCEPT !["bootx64"] = v, !["steamcl"] = v]
    /\ UNCHANGED <<fixed, manifestVars, rootFiles, dataDir, encrypted, job, intact>>

(* The user carries the saved files to the OS that will decrypt, or puts   *)
(* them back by hand after decrypt() has reported them missing.            *)
UserCopiesBackups ==
    /\ job = Idle /\ steamos /\ encrypted /\ Boots
    /\ dataDir' = [dataDir EXCEPT !["other"] = dataDir["self"]]
    /\ UNCHANGED <<fixed, manifestVars, rootFiles, esp, encrypted, job, intact>>

UserRestoresChainloader ==
    /\ job = Idle /\ steamos /\ ~encrypted
    /\ \E f \in Chainloader :
          /\ esp[f] \notin Stock /\ dataDir["self"][f] \in Stock
          /\ esp' = [esp EXCEPT ![f] = dataDir["self"][f]]
    /\ UNCHANGED <<fixed, manifestVars, rootFiles, dataDir, encrypted, job, intact>>

-----------------------------------------------------------------------------

Init ==
    /\ steamos \in BOOLEAN
    /\ \E v \in Stock :
          esp = [f \in EspFile |-> IF f = "auto" THEN "absent" ELSE v]
    /\ dataDir = [d \in Dir |-> [f \in Chainloader |-> "absent"]]
    /\ masked = FALSE /\ encrypted = FALSE
    /\ fstab \in Fstabs /\ fstab0 = fstab
    /\ pacHook = NoHook
    /\ manifest = NoManifest /\ recorded = {} /\ setBack = FALSE
    /\ job = Idle /\ intact = TRUE

SetupStep ==
    \/ RecordManifest \/ Reencrypt \/ WritePacmanHook \/ UpdateFstab
    \/ BackupCreate \/ BackupCopy \/ BackupUnlink \/ Install \/ InstallCopy \/ Mask

DecryptStep ==
    \/ Decrypted \/ RestoreFstab \/ RemoveHooksAndMask \/ RestoreChainloader
    \/ EndDecrypt \/ \E there \in BOOLEAN : VerifyManifest(there)

User ==
    \/ \E sel \in Selections : StartEncrypt(sel)
    \/ StartHook \/ StartDecrypt \/ StartVerify
    \/ UserCopiesBackups \/ UserRestoresChainloader

Next == SetupStep \/ DecryptStep \/ User \/ Crash
        \/ \E v \in Stock : ServiceInstall(v)

Spec == Init /\ [][Next]_vars

-----------------------------------------------------------------------------
(* Properties *)

(* Files only ever hold what some step wrote into them.                    *)
ReversalTypeOK ==
    /\ esp \in [EspFile -> Content]
    /\ dataDir \in [Dir -> [Chainloader -> Content]]
    /\ masked \in BOOLEAN /\ encrypted \in BOOLEAN
    /\ \A i \in DOMAIN fstab : fstab[i] \in Line
    /\ pacHook \in (SUBSET {"home", "var"}) \cup {NoHook}

(* A stock chainloader that was saved is never replaced in the DATA_DIR of *)
(* its OS, by reruns of the hook or after an abort.                        *)
SavedChainloaderKept ==
    [][\A f \in Chainloader :
          dataDir["self"][f] \in Stock
          => dataDir'["self"][f] = dataDir["self"][f]]_vars

(* Unless an interrupted run left an unfinished backup behind, bootx64     *)
(* always exists in its stock form, on the ESP or in the DATA_DIR.         *)
StockSurvivesUnlessTorn ==
    steamos /\ dataDir["self"]["bootx64"] # "torn"
    => esp["bootx64"] \in Stock \/ dataDir["self"]["bootx64"] \in Stock

(* As long as every run came to its end, an encrypted OS starts from the   *)
(* binary that was built for it, and SteamOS cannot replace it.            *)
EncryptedBootsOwnBinary ==
    intact /\ encrypted /\ job = Idle => Boots /\ (steamos => masked)

(* However often the setup was rerun or cut short, fstab ends up as the    *)
(* user wrote it once decrypt() has restored it, save for blank lines at   *)
(* its end, and each partition has at most one line of the script's.       *)
FstabReversible ==
    /\ job.op = "decrypt" /\ job.pc \in {"unmask", "restore", "verify", "decrypted"}
       => /\ IsPrefix(fstab, fstab0)
          /\ \A i \in DOMAIN fstab0 \ DOMAIN fstab : fstab0[i].dev = "blank"
    /\ \A i, j \in DOMAIN fstab :
          fstab[i].mark = "added" /\ fstab[j] = fstab[i] => i = j

(* A decrypt() of SteamOS that reports no missing backup has put the stock *)
(* chainloader back.                                                       *)
RestoreReported ==
    intact /\ steamos /\ job.op = "decrypt" /\ job.pc = "decrypted" /\ ~job.died
    => \A f \in Chainloader : esp[f] \in Stock

(* As long as the clock was never set back, decrypt() and the menu call    *)
(* the ESP unchanged only if it is what encrypt() found before it changed  *)
(* anything, however many encryptions there were and wherever a recording  *)
(* was cut short; and they do so where they are run in the state           *)
(* directory. Run anywhere else they call an unchanged ESP modified, since *)
(* the manifest is looked for in the current directory and not at its      *)
(* fixed path (guide.md:430): nothing is said of that verdict.             *)
VerdictRight ==
    job.pc = "decrypted" /\ ~setBack
    => /\ job.matches => recorded = {esp}
       /\ job.there /\ recorded = {esp} => job.matches

(* atomic_rename_without_overwriting: the stock chainloader is never lost. *)
StockSurvives ==
    steamos => esp["bootx64"] \in Stock \/ dataDir["self"]["bootx64"] \in Stock

(* "With everything decrypted, SteamOS should be identical to how it was   *)
(* stock" (guide.md:415).                                                  *)
DecryptedIsStock ==
    intact /\ steamos /\ job.op = "decrypt" /\ job.pc = "decrypted"
    => \A f \in Chainloader : esp[f] \in Stock

=============================================================================
