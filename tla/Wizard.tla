-------------------------------- MODULE Wizard --------------------------------
(***************************************************************************)
(* steamos_update_wizard() and ensure_booted_os_is_sealed() beside the     *)
(* rest of auto_tpm_encrypt.py. SteamOS and the recovery OS encrypt each   *)
(* other; the wizard guesses from what is encrypted, and from a blank      *)
(* password on the recovery partition, which step of an update it is on,   *)
(* and takes the newest key file in the DATA_DIR of the OS it runs on.     *)
(***************************************************************************)
EXTENDS AutoTpmEncrypt

CONSTANTS SteamOS, Recovery

VARIABLE newest   \* the newest secret-backup.*.bin in each DATA_DIR

wizardVars == <<vars, newest>>

Linux == OS \cup Media
RecoveryRoot == <<Recovery, "root">>

(* The recovery OS is one partition of the SD card, SteamOS has them all.  *)
RolesOf(o) == IF o = Recovery THEN {"root"} ELSE Roles

(* The two OSes have a TPM address each, and nobody leaves partitions out, *)
(* as in the wizard's own choice.                                          *)
ASSUME WizardAssumption ==
    /\ OS = {SteamOS, Recovery} /\ SteamOS # Recovery
    /\ MaxAddr # 0
    /\ Selections = [o \in OS |-> {RolesOf(o)}]

(* encrypted_nvme_partitions: a volume whose decryption was cut short is   *)
(* not among them.                                                         *)
EncryptedNvme == {r \in Roles : IsLuks(<<SteamOS, r>>)}
RecoveryHasBlank == blanks[RecoveryRoot] > 0

(* try_to_find_keyfile() dies where there is none.                         *)
TryToFindKeyfile(k) == k = newest[booted.os] /\ k # None

(* Mutant: the key is filed with the OS it belongs to. *)
FileKeyWithItsOs == [newest EXCEPT ![job.os] = job.key]

(* encrypt() stores a new key in the DATA_DIR of the OS it runs on.        *)
FileKey == [newest EXCEPT ![booted.os] = job.key]

(* Everything the wizard dies of before it decides on a step.              *)
WizardMayStart ==
    /\ MenuMayStart
    /\ {r \in Roles : IsLuks(<<Recovery, r>>)} = {"root"}
    /\ EncryptedNvme \in {Roles, {}}

(* Step 1, and the way back on track: nothing asks which OS this is, and   *)
(* luksAddKey fails when the key is another partition's.                   *)
WizardAddBlank(k) ==
    /\ WizardMayStart /\ ~RecoveryHasBlank
    /\ TryToFindKeyfile(k)
    /\ KillWindowsBootManager
    /\ blanks' = IF /\ Openable(RecoveryRoot) /\ k \in keys[RecoveryRoot]
                    /\ HasFreeKeySlot(RecoveryRoot)
                 THEN [blanks EXCEPT ![RecoveryRoot] = @ + 1] ELSE blanks
    /\ UNCHANGED <<fs, keys, uuid, backups, fileVars, tpm, booted, mapped, job>>

(* Step 2. *)
WizardDecrypt(k) ==
    /\ WizardMayStart /\ RecoveryHasBlank /\ EncryptedNvme = Roles
    /\ booted.os # SteamOS
    /\ TryToFindKeyfile(k)
    /\ StartDecrypt(SteamOS, Roles, k)

(* Step 5: encrypt() without the questions of encrypt_or_decrypt(); it     *)
(* mounts the root at once and comes to the other partitions later.        *)
WizardEncrypt(k) ==
    /\ WizardMayStart /\ RecoveryHasBlank /\ EncryptedNvme = {}
    /\ booted.os # SteamOS
    /\ fs[<<SteamOS, "root">>] = "plain"
    /\ HasUsableSlot(SteamOS)
    /\ job' = [op |-> "encrypt", pc |-> "backup", os |-> SteamOS,
               sel |-> Roles, todo |-> Roles, role |-> "root", key |-> k,
               addr |-> None]
    /\ UNCHANGED <<diskVars, backups, fileVars, machineVars>>

(* Step 6 on SteamOS, step 7 (if the user says so) on the recovery OS.     *)
WizardSeal ==
    /\ WizardMayStart /\ RecoveryHasBlank /\ EncryptedNvme = Roles
    /\ \E o \in OS : StartSetup(o, "menu")

(* Ctrl-C between the open and the close of has_blank_password(): a volume *)
(* of the running OS is in use and is never opened.                        *)
CheckInterrupted ==
    /\ WizardMayStart /\ RecoveryHasBlank /\ booted.os # Recovery
    /\ mapped' = TRUE
    /\ UNCHANGED <<diskVars, backups, fileVars, tpm, wbm, booted, job>>

-----------------------------------------------------------------------------
(* ensure_booted_os_is_sealed() looks at the hooks and the keyslots, never *)
(* into the TPM; on a partition that is not LUKS it dies.                  *)

CanJudge(o) ==
    /\ booted.os = o /\ pacHook[o] # {} /\ hookAddr[o] # None
    /\ \A r \in pacHook[o] : IsLuks(<<o, r>>)

SaysSealed(o) == CanJudge(o) /\ \A r \in pacHook[o] : blanks[<<o, r>>] = 0

EnsureBootedOsIsSealed(o) ==
    /\ MenuMayStart
    /\ CanJudge(o) /\ ~SaysSealed(o)
    /\ KillWindowsBootManager
    /\ UNCHANGED <<diskVars, backups, fileVars, tpm, booted, mapped, job>>

-----------------------------------------------------------------------------

(* As the guide leaves the machine: each OS was encrypted from the other   *)
(* and then sealed, SteamOS first.                                         *)
SetUp ==
    \E ks, kr \in Key :
        LET key == [o \in OS |-> IF o = Recovery THEN kr ELSE ks]
            addr == [o \in OS |-> IF o = Recovery THEN 1 ELSE 0]
            luks == {p \in Partition : p[2] \in RolesOf(p[1])}
            binary(o) == [addr |-> addr[o], ver |-> 1,
                          uuids |-> [r \in Roles |->
                              IF r \in RolesOf(o) THEN key[o] ELSE None]]
            owner(a) == CHOOSE o \in {SteamOS, Recovery} : addr[o] = a
        IN
        /\ ks # kr
        /\ fs = [p \in Partition |-> IF p \in luks THEN "luks2" ELSE "plain"]
        /\ blanks = [p \in Partition |-> 0]
        /\ keys = [p \in Partition |-> IF p \in luks THEN {key[p[1]]} ELSE {}]
        /\ uuid = [p \in Partition |-> IF p \in luks THEN key[p[1]] ELSE None]
        /\ backups = {ks, kr}
        /\ secret = key
        /\ hookAddr = addr
        /\ pacHook = [o \in OS |-> RolesOf(o)]
        /\ efi = [o \in OS |-> binary(o)]
        /\ tpm = [a \in Addr |->
                    IF a \in {0, 1}
                    THEN [key |-> key[owner(a)],
                          pcr |-> [os |-> owner(a), ver |-> 1]]
                    ELSE None]
        /\ wbm \in BOOLEAN
        /\ booted = [os |-> "off", ver |-> 0]
        /\ mapped = FALSE
        /\ job = NoJob
        /\ newest = [o \in Linux |-> IF o = Recovery THEN ks
                                     ELSE IF o = SteamOS THEN kr ELSE None]

WizardUser ==
    \/ \E k \in Key : WizardAddBlank(k) \/ WizardDecrypt(k)
    \/ \E k \in Key \ backups : WizardEncrypt(k)
    \/ WizardSeal \/ CheckInterrupted
    \/ \E o \in OS : EnsureBootedOsIsSealed(o)

WizardNext ==
    /\ Next \/ WizardUser
    /\ newest' = IF backups' # backups THEN FileKey ELSE newest

WizardSpec == SetUp /\ [][WizardNext]_wizardVars

-----------------------------------------------------------------------------
(* Properties *)

(* The key file the wizard takes is never another encryption's: as long as *)
(* the two OSes only encrypt each other, the newest file in one's DATA_DIR *)
(* is the key of the other's volume, wherever runs were cut short in       *)
(* between. A volume with no key yet is opened by the blank password.      *)
NewestKeyFits ==
    \A o, other \in {SteamOS, Recovery}, r \in Roles :
        o # other /\ IsLuks(<<o, r>>) /\ keys[<<o, r>>] # {}
        => newest[other] \in keys[<<o, r>>]

(* When the check of the booted OS says it is sealed and its TPM object    *)
(* holds its own key, that object is sealed to the running binary, so that *)
(* the next boot needs no password. (It does not notice an object that is  *)
(* gone or replaced.)                                                      *)
SealedVerdictTrue ==
    \A o \in OS :
        /\ job = NoJob /\ SaysSealed(o) /\ BootedFromCurrentBinary(o)
        /\ tpm[hookAddr[o]] # None /\ tpm[hookAddr[o]].key = secret[o]
        => \A r \in pacHook[o] : TpmOpens(o, r)

=============================================================================
