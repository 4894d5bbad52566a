---------------------------- MODULE AutoTpmEncrypt ----------------------------
(***************************************************************************)
(* The life cycle of an encrypted OS as AutoTpmEncrypt/auto_tpm_encrypt.py *)
(* drives it: encrypt() and decrypt() of an unbooted OS's partitions,      *)
(* setup_auto_tpm_decrypt() run by encrypt() in a chroot, by the pacman    *)
(* hook and from the menu, add_blank_password(), and the machine around    *)
(* them: reboots, aborts after any command, the TPM and Windows.           *)
(*                                                                         *)
(* One run of the script is a job with a program counter; every command    *)
(* that changes persistent state is a step of its own, and the job may     *)
(* end between any two (die(), a failed subprocess, a power loss).         *)
(***************************************************************************)
EXTENDS Naturals, FiniteSets

CONSTANTS
    OS,            \* the Linux installations that may be encrypted
    Media,         \* unencrypted Linux media ({"live"} or {})
    Roles,         \* the partitions an OS has: root and maybe home, var
    Selections,    \* the sets of partitions a user may enter for each OS
    Key,           \* keys generate_key() may return (bounds the encryptions)
    MaxAddr,       \* highest TPM address, 0x810000ff in the code
    Slots,         \* persistent objects the TPM can hold
    KeySlots,      \* keyslots of a LUKS2 header
    MaxVer,        \* bound on the EFI binaries built per OS
    EfiDeleteReliable, \* efibootmgr --delete-bootnum never fails silently
    None

Addr == 0 .. MaxAddr
AllRoles == {"root", "home", "var"}

ASSUME ConstantsAssumption ==
    /\ OS \cap {"live", "windows", "off"} = {}
    /\ Media \subseteq {"live"}
    /\ "root" \in Roles /\ Roles \subseteq AllRoles
    /\ Selections \in [OS -> SUBSET {s \in SUBSET Roles : "root" \in s}]
    /\ MaxAddr \in Nat /\ Slots \in Nat /\ KeySlots \in Nat
    /\ MaxVer \in Nat \ {0}
    /\ EfiDeleteReliable \in BOOLEAN
    /\ None \notin Key /\ None \notin Addr

VARIABLES
    \* partitions
    fs,         \* what blkid and luksDump see on the partition
    blanks,     \* keyslots that open with BLANK_PASSWORD
    keys,       \* generated keys that open the partition
    uuid,       \* the LUKS UUID, named after the key of the run that made it
    \* files
    backups,    \* keys kept as secret-backup.*.bin
    secret,     \* KEY_PATH on the OS's root
    hookAddr,   \* TPM address in the OS's unseal script
    pacHook,    \* partitions named by the OS's pacman hook ({}: no hook)
    efi,        \* the OS's EFI binary on the ESP
    \* machine
    tpm,        \* persistent TPM objects
    wbm,        \* is there a "Windows Boot Manager" boot entry?
    booted,     \* the running OS and the version of the binary that booted it
    mapped,     \* /dev/mapper/current_tpm_encrypted_vol exists
    job         \* the running script

diskVars == <<fs, blanks, keys, uuid>>
fileVars == <<secret, hookAddr, pacHook, efi>>
machineVars == <<tpm, wbm, booted, mapped>>
vars == <<diskVars, backups, fileVars, machineVars, job>>

Partition == OS \X Roles
FsState == {"plain", "encrypting", "luks2", "luks1", "decrypting"}
Host == OS \cup Media \cup {"windows", "off"}
Pcr == [os : Host, ver : 0 .. MaxVer]

(* What tpm2_evictcontrol persists: the key and the PCR values it is bound *)
(* to. PCRs 0, 2 and 4 measure the firmware and the EFI binary that was    *)
(* booted, so they are the booted OS and the version of its binary.        *)
(* key = None is an object of another OS.                                  *)
Sealed == [key : Key \cup {None}, pcr : Pcr]
Foreign == [key |-> None, pcr |-> [os |-> "windows", ver |-> 0]]

(* The unseal script and the rd.luks.name arguments built into the binary. *)
EfiBinary == [addr : Addr, ver : 1 .. MaxVer,
              uuids : [Roles -> Key \cup {None}]]

\* None stands for a missing object or binary.
ASSUME NoneAssumption == None \notin Sealed \cup EfiBinary

Op == {"none", "encrypt", "decrypt", "hook", "menu"}
Pc == {"idle", "done",
       "backup", "enc_next", "prepare", "reencrypt", "reencrypting", "add_key",
       "open", "copy_key", "close",
       "address", "evict", "persist", "kill_wbm", "add_blank", "remove_blank",
       "script", "pac_hook", "install",
       "dec_open", "dec_close", "dec_next", "dec_remove_blank", "convert_keys",
       "convert_luks1", "dec_start", "decrypting", "dec_evict", "dec_hooks"}

Job == [op : Op, pc : Pc, os : OS \cup {None}, sel : SUBSET Roles,
        todo : SUBSET Roles, role : Roles, key : Key \cup {None},
        addr : Addr \cup {None}]

NoJob == [op |-> "none", pc |-> "idle", os |-> None, sel |-> {}, todo |-> {},
          role |-> "root", key |-> None, addr |-> None]

-----------------------------------------------------------------------------
(* encrypt() visits var, home, root; every other loop root, home, var.     *)

Rank == [var |-> 1, home |-> 2, root |-> 3]
EncryptsNext(r, todo) == r \in todo /\ \A q \in todo : Rank[r] <= Rank[q]
VisitsNext(r, todo) == r \in todo /\ \A q \in todo : Rank[r] >= Rank[q]

At(l) == job.pc = l
Goto(l) == job' = [job EXCEPT !.pc = l]
GotoWith(l, r) == job' = [job EXCEPT !.pc = l, !.role = r, !.todo = @ \ {r}]
Part == <<job.os, job.role>>

Openable(p) == fs[p] \in {"luks2", "luks1"}
IsLuks(p) == fs[p] \in {"encrypting", "luks2", "luks1"}  \* 'crypto_LUKS'
UsedAddrs == {a \in Addr : tpm[a] # None}

(* die_if_no_usable_tpm_slots() *)
HasUsableSlot(o) == hookAddr[o] # None \/ Cardinality(UsedAddrs) < Slots

(* luksAddKey needs a free keyslot. *)
HasFreeKeySlot(p) == blanks[p] + Cardinality(keys[p]) < KeySlots

(* The script runs on a Linux. All but the autorun setup begin with the    *)
(* sanity checks, which refuse a mapping that an aborted run left behind.  *)
ScriptMayStart == job = NoJob /\ booted.os \in OS \cup Media
MenuMayStart == ScriptMayStart /\ ~mapped

(* maybe_kill_windows_boot_manager(): the return code is only printed.     *)
KillWindowsBootManager ==
    wbm' \in IF EfiDeleteReliable THEN {FALSE} ELSE {FALSE, wbm}

-----------------------------------------------------------------------------
(* encrypt() *)

(* encrypt_or_decrypt() with an unencrypted root, then encrypt() up to the *)
(* generated key. A key whose backup exists is never generated again.      *)
StartEncrypt(o, s, k) ==
    /\ MenuMayStart
    /\ booted.os # o
    /\ \A r \in s : fs[<<o, r>>] = "plain"
    /\ HasUsableSlot(o)
    /\ job' = [op |-> "encrypt", pc |-> "backup", os |-> o, sel |-> s,
               todo |-> s, role |-> "root", key |-> k, addr |-> None]
    /\ UNCHANGED <<diskVars, backups, fileVars, machineVars>>

(* Mutant: the key is used without a backup of it. *)
WriteBackupSkipped == At("backup") /\ Goto("enc_next")
    /\ UNCHANGED <<diskVars, backups, fileVars, machineVars>>

WriteBackup ==
    /\ At("backup")
    /\ backups' = backups \cup {job.key}
    /\ Goto("enc_next")
    /\ UNCHANGED <<diskVars, fileVars, machineVars>>

(* Next partition of the loop; the file system is checked and shrunk and   *)
(* the Windows boot entry deleted before the partition is touched.         *)
EncNext ==
    /\ At("enc_next")
    /\ \/ \E r \in Roles : EncryptsNext(r, job.todo) /\ GotoWith("prepare", r)
       \/ job.todo = {} /\ Goto("done")
    /\ UNCHANGED <<diskVars, backups, fileVars, machineVars>>

EncPrepare ==
    /\ At("prepare")
    /\ KillWindowsBootManager
    /\ Goto("reencrypt")
    /\ UNCHANGED <<diskVars, backups, fileVars, tpm, booted, mapped>>

(* cryptsetup reencrypt --encrypt writes a LUKS2 header that only          *)
(* BLANK_PASSWORD opens, then spends hours moving the data.                *)
ReencryptStart ==
    /\ At("reencrypt")
    /\ fs[Part] = "plain"
    /\ fs' = [fs EXCEPT ![Part] = "encrypting"]
    /\ blanks' = [blanks EXCEPT ![Part] = 1]
    /\ keys' = [keys EXCEPT ![Part] = {}]
    /\ uuid' = [uuid EXCEPT ![Part] = job.key]
    /\ Goto("reencrypting")
    /\ UNCHANGED <<backups, fileVars, machineVars>>

ReencryptFinish ==
    /\ At("reencrypting")
    /\ fs' = [fs EXCEPT ![Part] = "luks2"]
    /\ Goto("add_key")
    /\ UNCHANGED <<blanks, keys, uuid, backups, fileVars, machineVars>>

(* luksAddKey from the key backup file, then the header backup.            *)
AddKey ==
    /\ At("add_key")
    /\ blanks[Part] > 0 /\ HasFreeKeySlot(Part)
    /\ keys' = [keys EXCEPT ![Part] = @ \cup {job.key}]
    /\ Goto("open")
    /\ UNCHANGED <<fs, blanks, uuid, backups, fileVars, machineVars>>

(* cryptsetup open fails while an aborted run's mapping still exists.      *)
OpenAndGrow ==
    /\ At("open")
    /\ ~mapped /\ blanks[Part] > 0
    /\ mapped' = TRUE
    /\ Goto(IF job.role = "root" THEN "copy_key" ELSE "close")
    /\ UNCHANGED <<diskVars, backups, fileVars, tpm, wbm, booted>>

(* An older KEY_PATH is moved aside; the chroot then runs the autorun      *)
(* setup with the partitions entered by the user.                          *)
CopyKeyToRoot ==
    /\ At("copy_key")
    /\ secret' = [secret EXCEPT ![job.os] = job.key]
    /\ Goto("address")
    /\ UNCHANGED <<diskVars, backups, hookAddr, pacHook, efi, machineVars>>

CloseMapping ==
    /\ At("close")
    /\ mapped' = FALSE
    /\ Goto("enc_next")
    /\ UNCHANGED <<diskVars, backups, fileVars, tpm, wbm, booted>>

-----------------------------------------------------------------------------
(* setup_auto_tpm_decrypt(). was_autorun holds in encrypt()'s chroot and   *)
(* in the pacman hook, and not from the menu.                              *)

WasAutorun == job.op \in {"encrypt", "hook"}

(* The pacman hook passes its own partitions on, the menu reads them from  *)
(* the pacman hook (get_non_root_partitions_from_hook) and dies without it. *)
StartSetup(o, op) ==
    /\ ScriptMayStart
    /\ booted.os = o
    /\ pacHook[o] # {}
    /\ op = "menu" => MenuMayStart
    /\ op = "hook" => (efi[o] # None => efi[o].ver < MaxVer)
    /\ job' = [op |-> op, pc |-> "address", os |-> o, sel |-> pacHook[o],
               todo |-> {}, role |-> "root", key |-> None, addr |-> None]
    /\ UNCHANGED <<diskVars, backups, fileVars, machineVars>>

(* Mutant: the address in an existing unseal script is ignored. *)
SetupAddressAlwaysFresh ==
    /\ At("address")
    /\ \E a \in Addr \ UsedAddrs :
          job' = [job EXCEPT !.addr = a, !.pc = "persist"]
    /\ UNCHANGED <<diskVars, backups, fileVars, machineVars>>

(* Mutant: the menu takes the object it finds for this key's. *)
SetupAddressKeepsObject ==
    /\ At("address")
    /\ hookAddr[job.os] # None
    /\ job' = [job EXCEPT !.addr = hookAddr[job.os], !.todo = job.sel,
                          !.pc = IF WasAutorun THEN "evict" ELSE "remove_blank"]
    /\ UNCHANGED <<diskVars, backups, fileVars, machineVars>>

(* The address in an existing unseal script is reused after evicting what  *)
(* it holds; otherwise the lowest free address is taken.                   *)
SetupAddress ==
    /\ At("address")
    /\ HasUsableSlot(job.os)
    /\ \/ /\ hookAddr[job.os] # None
          /\ job' = [job EXCEPT !.addr = hookAddr[job.os], !.pc = "evict"]
       \/ /\ hookAddr[job.os] = None
          /\ \E a \in Addr \ UsedAddrs :
                /\ \A b \in Addr \ UsedAddrs : a <= b
                /\ job' = [job EXCEPT !.addr = a, !.pc = "persist"]
    /\ UNCHANGED <<diskVars, backups, fileVars, machineVars>>

(* A missing handle is accepted here.                                      *)
SetupEvict ==
    /\ At("evict")
    /\ tpm' = [tpm EXCEPT ![job.addr] = None]
    /\ Goto("persist")
    /\ UNCHANGED <<diskVars, backups, fileVars, wbm, booted, mapped>>

(* KEY_PATH sealed to the PCRs of the running system: in the chroot those  *)
(* of the encrypting OS.                                                   *)
SetupPersist ==
    /\ At("persist")
    /\ secret[job.os] # None
    /\ tpm[job.addr] = None /\ Cardinality(UsedAddrs) < Slots
    /\ tpm' = [tpm EXCEPT ![job.addr] = [key |-> secret[job.os],
                                         pcr |-> booted]]
    /\ job' = [job EXCEPT !.pc = IF WasAutorun THEN "kill_wbm"
                                               ELSE "remove_blank",
                          !.todo = job.sel]
    /\ UNCHANGED <<diskVars, backups, fileVars, wbm, booted, mapped>>

(* Mutant: the Windows boot entry is left alone. *)
SetupKeepsWindowsBootManager == At("kill_wbm") /\ Goto("add_blank")
    /\ UNCHANGED <<diskVars, backups, fileVars, machineVars>>

SetupKillWindowsBootManager ==
    /\ At("kill_wbm")
    /\ KillWindowsBootManager
    /\ Goto("add_blank")
    /\ UNCHANGED <<diskVars, backups, fileVars, tpm, booted, mapped>>

(* Mutant: no blank password although the new binary changes the PCRs. *)
SetupAddBlankSkipped == At("add_blank") /\ Goto("script")
    /\ UNCHANGED <<diskVars, backups, fileVars, machineVars>>

(* luksAddKey of BLANK_PASSWORD, authorised with KEY_PATH.                 *)
SetupAddBlank ==
    /\ At("add_blank")
    /\ \/ \E r \in Roles :
            LET p == <<job.os, r>> IN
            /\ VisitsNext(r, job.todo)
            /\ Openable(p) /\ secret[job.os] \in keys[p]
            /\ HasFreeKeySlot(p)
            /\ blanks' = [blanks EXCEPT ![p] = @ + 1]
            /\ GotoWith("add_blank", r)
       \/ job.todo = {} /\ Goto("script") /\ UNCHANGED blanks
    /\ UNCHANGED <<fs, keys, uuid, backups, fileVars, machineVars>>

(* Mutant: the loop does not stop when no blank password is left. *)
RemoveOneBlankUnguarded(p) ==
    Openable(p) /\ blanks' = [blanks EXCEPT ![p] = @ - 1]

(* remove_blank_password(): one luksRemoveKey per step until no slot opens *)
(* with BLANK_PASSWORD. With the password on stdin cryptsetup removes even *)
(* the last keyslot. A volume being re-encrypted refuses.                  *)
RemoveOneBlank(p) ==
    /\ Openable(p)
    /\ blanks[p] > 0
    /\ blanks' = [blanks EXCEPT ![p] = @ - 1]

SetupRemoveBlank ==
    /\ At("remove_blank")
    /\ \/ \E r \in Roles :
            /\ VisitsNext(r, job.todo)
            /\ \/ RemoveOneBlank(<<job.os, r>>) /\ UNCHANGED job
               \/ /\ Openable(<<job.os, r>>) /\ blanks[<<job.os, r>>] = 0
                  /\ GotoWith("remove_blank", r) /\ UNCHANGED blanks
       \/ job.todo = {} /\ Goto("done") /\ UNCHANGED blanks
    /\ UNCHANGED <<fs, keys, uuid, backups, fileVars, machineVars>>

WriteUnsealScript ==
    /\ At("script")
    /\ hookAddr' = [hookAddr EXCEPT ![job.os] = job.addr]
    /\ Goto("pac_hook")
    /\ UNCHANGED <<diskVars, backups, secret, pacHook, efi, machineVars>>

WritePacmanHook ==
    /\ At("pac_hook")
    /\ pacHook' = [pacHook EXCEPT ![job.os] = job.sel]
    /\ Goto("install")
    /\ UNCHANGED <<diskVars, backups, secret, hookAddr, efi, machineVars>>

(* Kernel, command line and initramfs (with the unseal script) go into one *)
(* binary, which replaces the OS's binary on the ESP.                      *)
NewBinary(o) ==
    [addr |-> job.addr,
     ver |-> IF efi[o] = None THEN 1 ELSE efi[o].ver + 1,
     uuids |-> [r \in Roles |-> IF r \in job.sel THEN uuid[<<o, r>>] ELSE None]]

InstallEfiBinary ==
    /\ At("install")
    /\ efi[job.os] # None => efi[job.os].ver < MaxVer
    /\ efi' = [efi EXCEPT ![job.os] = NewBinary(job.os)]
    /\ Goto(IF job.op = "encrypt" THEN "close" ELSE "done")
    /\ UNCHANGED <<diskVars, backups, secret, hookAddr, pacHook, machineVars>>

-----------------------------------------------------------------------------
(* decrypt() *)

(* encrypt_or_decrypt() with an encrypted root and one of the user's key   *)
(* files.                                                                  *)
StartDecrypt(o, s, k) ==
    /\ MenuMayStart
    /\ booted.os # o
    /\ \A r \in s : IsLuks(<<o, r>>)
    /\ job' = [op |-> "decrypt", pc |-> "dec_open", os |-> o, sel |-> s,
               todo |-> s, role |-> "root", key |-> k, addr |-> None]
    /\ UNCHANGED <<diskVars, backups, fileVars, machineVars>>

(* Mutant: the key file is not tried on the root before the loop. *)
DecOpenRootUntried == At("dec_open") /\ Goto("dec_next")
    /\ UNCHANGED <<diskVars, backups, fileVars, machineVars>>

(* The root is opened, looked at and closed again: a key file that does    *)
(* not open the root ends the run.                                         *)
DecOpenRoot ==
    /\ At("dec_open")
    /\ ~mapped
    /\ Openable(Part) /\ job.key \in keys[Part]
    /\ mapped' = TRUE
    /\ Goto("dec_close")
    /\ UNCHANGED <<diskVars, backups, fileVars, tpm, wbm, booted>>

DecCloseRoot ==
    /\ At("dec_close")
    /\ mapped' = FALSE
    /\ Goto("dec_next")
    /\ UNCHANGED <<diskVars, backups, fileVars, tpm, wbm, booted>>

DecNext ==
    /\ At("dec_next")
    /\ \/ \E r \in Roles :
            VisitsNext(r, job.todo) /\ GotoWith("dec_remove_blank", r)
       \/ job.todo = {} /\ Goto("done")
    /\ UNCHANGED <<diskVars, backups, fileVars, machineVars>>

(* Mutant: the blank passwords are left for the conversion to drop. *)
DecRemoveBlankSkipped == At("dec_remove_blank") /\ Goto("convert_keys")
    /\ UNCHANGED <<diskVars, backups, fileVars, machineVars>>

DecRemoveBlank ==
    /\ At("dec_remove_blank")
    /\ \/ RemoveOneBlank(Part) /\ UNCHANGED job
       \/ /\ Openable(Part) /\ blanks[Part] = 0
          /\ Goto("convert_keys") /\ UNCHANGED blanks
    /\ UNCHANGED <<fs, keys, uuid, backups, fileVars, machineVars>>

(* The luksDump pattern only matches a LUKS2 header, and every keyslot     *)
(* must open with the key file.                                            *)
DecConvertKeys ==
    /\ At("convert_keys")
    /\ fs[Part] = "luks2" /\ keys[Part] = {job.key}
    /\ Goto("convert_luks1")
    /\ UNCHANGED <<diskVars, backups, fileVars, machineVars>>

DecConvertLuks1 ==
    /\ At("convert_luks1")
    /\ fs' = [fs EXCEPT ![Part] = "luks1"]
    /\ Goto("dec_start")
    /\ UNCHANGED <<blanks, keys, uuid, backups, fileVars, machineVars>>

DecStart ==
    /\ At("dec_start")
    /\ fs' = [fs EXCEPT ![Part] = "decrypting"]
    /\ Goto("decrypting")
    /\ UNCHANGED <<blanks, keys, uuid, backups, fileVars, machineVars>>

(* The LUKS header is gone; the file system is grown back.                 *)
DecFinish ==
    /\ At("decrypting")
    /\ fs' = [fs EXCEPT ![Part] = "plain"]
    /\ blanks' = [blanks EXCEPT ![Part] = 0]
    /\ keys' = [keys EXCEPT ![Part] = {}]
    /\ uuid' = [uuid EXCEPT ![Part] = None]
    /\ Goto(IF job.role = "root" THEN "dec_evict" ELSE "dec_next")
    /\ UNCHANGED <<backups, fileVars, machineVars>>

(* Only SUCCESS is accepted here: a handle that is already gone is fatal.  *)
DecEvict ==
    /\ At("dec_evict")
    /\ \/ hookAddr[job.os] = None /\ UNCHANGED tpm
       \/ /\ hookAddr[job.os] # None
          /\ tpm[hookAddr[job.os]] # None
          /\ tpm' = [tpm EXCEPT ![hookAddr[job.os]] = None]
    /\ Goto("dec_hooks")
    /\ UNCHANGED <<diskVars, backups, fileVars, wbm, booted, mapped>>

DecRemoveHooks ==
    /\ At("dec_hooks")
    /\ hookAddr' = [hookAddr EXCEPT ![job.os] = None]
    /\ pacHook' = [pacHook EXCEPT ![job.os] = {}]
    /\ Goto("dec_next")
    /\ UNCHANGED <<diskVars, backups, secret, efi, machineVars>>

-----------------------------------------------------------------------------
(* add_blank_password() *)

AddBlankPassword(p, k) ==
    /\ MenuMayStart
    /\ Openable(p) /\ HasFreeKeySlot(p)
    /\ k \in keys[p]
    /\ KillWindowsBootManager
    /\ blanks' = [blanks EXCEPT ![p] = @ + 1]
    /\ UNCHANGED <<fs, keys, uuid, backups, fileVars, tpm, booted, mapped, job>>

-----------------------------------------------------------------------------
(* The end of a run, and the machine. *)

Finish ==
    /\ At("done")
    /\ job' = NoJob
    /\ UNCHANGED <<diskVars, backups, fileVars, machineVars>>

(* die() or an exception: a failed command, no AC power, Ctrl-C. The       *)
(* mapping of an opened partition stays behind.                            *)
Abort ==
    /\ job.op # "none" /\ job.pc # "done"
    /\ job' = NoJob
    /\ UNCHANGED <<diskVars, backups, fileVars, machineVars>>

(* Shutdown, reboot or power loss, also in the middle of a run.            *)
PowerOff ==
    /\ booted.os # "off"
    /\ booted' = [os |-> "off", ver |-> 0]
    /\ mapped' = FALSE
    /\ job' = NoJob
    /\ UNCHANGED <<diskVars, backups, fileVars, tpm, wbm>>

(* The EFI binary's unseal script gets the key if the object at its        *)
(* address was sealed to this very binary.                                 *)
TpmOpens(o, r) ==
    /\ tpm[efi[o].addr] # None
    /\ tpm[efi[o].addr].pcr = [os |-> o, ver |-> efi[o].ver]
    /\ tpm[efi[o].addr].key \in keys[<<o, r>>]

(* A volume is unlocked by the TPM or, at the prompt, by BLANK_PASSWORD.   *)
CanBootEncrypted(o) ==
    /\ efi[o] # None
    /\ \A r \in Roles : efi[o].uuids[r] # None =>
          /\ fs[<<o, r>>] = "luks2" /\ uuid[<<o, r>>] = efi[o].uuids[r]
          /\ TpmOpens(o, r) \/ blanks[<<o, r>>] > 0

BootLinux(o) ==
    /\ booted.os = "off"
    /\ \/ fs[<<o, "root">>] = "plain" /\ booted' = [os |-> o, ver |-> 0]
       \/ /\ fs[<<o, "root">>] = "luks2" /\ CanBootEncrypted(o)
          /\ booted' = [os |-> o, ver |-> efi[o].ver]
    /\ UNCHANGED <<diskVars, backups, fileVars, tpm, wbm, mapped, job>>

BootMedium(m) ==
    /\ booted.os = "off"
    /\ booted' = [os |-> m, ver |-> 0]
    /\ UNCHANGED <<diskVars, backups, fileVars, tpm, wbm, mapped, job>>

(* The firmware starts Windows by itself while its boot entry exists; the  *)
(* user, who follows the guide, only when every OS is sealed. Windows may  *)
(* put the entry back.                                                     *)
NoBlankPassword == \A p \in Partition : blanks[p] = 0

BootWindows ==
    /\ booted.os = "off"
    /\ wbm \/ NoBlankPassword
    /\ booted' = [os |-> "windows", ver |-> 0]
    /\ wbm' \in {wbm, TRUE}
    /\ UNCHANGED <<diskVars, backups, fileVars, tpm, mapped, job>>

(* Windows evicts handles and claims free ones (guide.md:304, 445).        *)
WindowsUsesTpm(a) ==
    /\ booted.os = "windows"
    /\ \/ tpm' = [tpm EXCEPT ![a] = None]
       \/ /\ tpm[a] = None /\ Cardinality(UsedAddrs) < Slots
          /\ tpm' = [tpm EXCEPT ![a] = Foreign]
    /\ UNCHANGED <<diskVars, backups, fileVars, wbm, booted, mapped, job>>

-----------------------------------------------------------------------------

Init ==
    /\ fs = [p \in Partition |-> "plain"]
    /\ blanks = [p \in Partition |-> 0]
    /\ keys = [p \in Partition |-> {}]
    /\ uuid = [p \in Partition |-> None]
    /\ backups = {}
    /\ secret = [o \in OS |-> None]
    /\ hookAddr = [o \in OS |-> None]
    /\ pacHook = [o \in OS |-> {}]
    /\ efi = [o \in OS |-> None]
    /\ tpm = [a \in Addr |-> None]
    /\ wbm \in BOOLEAN
    /\ booted = [os |-> "off", ver |-> 0]
    /\ mapped = FALSE
    /\ job = NoJob

EncryptStep ==
    \/ WriteBackup \/ EncNext \/ EncPrepare \/ ReencryptStart \/ ReencryptFinish
    \/ AddKey \/ OpenAndGrow \/ CopyKeyToRoot \/ CloseMapping

SetupStep ==
    \/ SetupAddress \/ SetupEvict \/ SetupPersist
    \/ SetupKillWindowsBootManager \/ SetupAddBlank \/ SetupRemoveBlank
    \/ WriteUnsealScript \/ WritePacmanHook \/ InstallEfiBinary

DecryptStep ==
    \/ DecOpenRoot \/ DecCloseRoot \/ DecNext \/ DecRemoveBlank
    \/ DecConvertKeys \/ DecConvertLuks1 \/ DecStart \/ DecFinish
    \/ DecEvict \/ DecRemoveHooks

Script == EncryptStep \/ SetupStep \/ DecryptStep \/ Finish \/ Abort

User ==
    \/ \E o \in OS : \E s \in Selections[o] :
          \/ \E k \in Key \ backups : StartEncrypt(o, s, k)
          \/ \E k \in backups : StartDecrypt(o, s, k)
    \/ \E o \in OS, op \in {"hook", "menu"} : StartSetup(o, op)
    \/ \E p \in Partition, k \in backups : AddBlankPassword(p, k)

Machine ==
    \/ PowerOff
    \/ \E o \in OS : BootLinux(o)
    \/ \E m \in Media : BootMedium(m)
    \/ BootWindows
    \/ \E a \in Addr : WindowsUsesTpm(a)

Next == Script \/ User \/ Machine

Spec == Init /\ [][Next]_vars

-----------------------------------------------------------------------------
(* Properties *)

(* Every variable stays in its type: a blank keyslot is never removed from *)
(* a volume that has none, an address always lies in the TPM's range.      *)
TypeOK ==
    /\ fs \in [Partition -> FsState]
    /\ blanks \in [Partition -> Nat]
    /\ keys \in [Partition -> SUBSET Key]
    /\ uuid \in [Partition -> Key \cup {None}]
    /\ backups \in SUBSET Key
    /\ secret \in [OS -> Key \cup {None}]
    /\ hookAddr \in [OS -> Addr \cup {None}]
    /\ pacHook \in [OS -> SUBSET Roles]
    /\ efi \in [OS -> EfiBinary \cup {None}]
    /\ tpm \in [Addr -> Sealed \cup {None}]
    /\ wbm \in BOOLEAN
    /\ booted \in Pcr
    /\ mapped \in BOOLEAN
    /\ job \in Job

(* A key that opens a volume, lies on a root or is sealed in the TPM has a *)
(* backup file: encrypt() stores the backup before it uses the key.        *)
KeysBackedUp ==
    /\ \A p \in Partition : keys[p] \subseteq backups
    /\ \A o \in OS : secret[o] \in backups \cup {None}
    /\ \A a \in Addr : tpm[a] # None => tpm[a].key \in backups \cup {None}

(* Wherever a run was cut short, each volume that is not plain can still   *)
(* be opened, by the blank password or by a key of which a backup exists.  *)
Recoverable ==
    \A p \in Partition :
        fs[p] # "plain" => blanks[p] > 0 \/ keys[p] \cap backups # {}

(* Windows never runs while some volume opens with the blank password:     *)
(* whatever adds one deletes the Windows boot entry first.                 *)
WindowsOnlyWhenSealed == booted.os = "windows" => NoBlankPassword

BootedFromCurrentBinary(o) ==
    efi[o] # None /\ booted = [os |-> o, ver |-> efi[o].ver]

(* "Setup TPM auto-decrypt for the booted OS" takes blank passwords away   *)
(* only once the TPM opens every volume the OS's binary needs, so that an  *)
(* abort among the removals locks nobody out, and ends with none left.     *)
MenuSealsBootedOs ==
    job.op = "menu" /\ job.pc \in {"remove_blank", "done"}
    /\ BootedFromCurrentBinary(job.os)
    => /\ \A r \in Roles : efi[job.os].uuids[r] # None => TpmOpens(job.os, r)
       /\ job.pc = "done" => \A r \in job.sel : blanks[<<job.os, r>>] = 0

(* When encrypt() or the pacman hook has run to its end the OS can be      *)
(* booted, with the blank password: its key is still sealed to the PCRs of *)
(* another binary.                                                         *)
AutorunLeavesBootable ==
    job.op \in {"encrypt", "hook"} /\ job.pc = "done"
    => CanBootEncrypted(job.os)

(* Each encrypted OS uses a TPM slot of its own (guide.md:445).            *)
DistinctSlots ==
    \A o1, o2 \in OS :
        o1 # o2 /\ hookAddr[o1] # None => hookAddr[o1] # hookAddr[o2]

=============================================================================
