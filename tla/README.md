# OS-Lockdown in TLA+

OS-Lockdown encrypts the Linux installations of a Steam Deck (or a similar
machine), seals the keys in the TPM, and keeps Windows away from volumes that
are not sealed. Most of it is a set of Python scripts that change persistent
state one command at a time: LUKS headers, TPM objects, EFI binaries, boot
entries, hook files, `fstab`. Nothing is transactional, `die()` or a failed
command may end a run after any command, and the machine may be rebooted or lose
power at any moment. The hard part is therefore not one run but what a *cut
short* run leaves for the next one, of the same or of another OS. That is what
these modules model, check and prove. Around it stand smaller programs, each with
a difficulty of its own: a root file system in RAM, a terminal emulator with three
threads, a switch of the GPU between two systems, a flash editor, an audit of a
controller.

Line numbers below refer to `src/AutoTpmEncrypt/auto_tpm_encrypt.py` unless
another file is named; `guide.md` is `src/AutoTpmEncrypt/guide.md`.

## Inventory

| component | state it keeps | operations | what makes it correct | status |
|---|---|---|---|---|
| encrypt / decrypt an unbooted OS | LUKS headers and keyslots, key backups, `KEY_PATH` on the root, one device mapping | `encrypt` 737-935, `decrypt` 938-1147, `encrypt_or_decrypt` 1244-1326, `remove_blank_password` 697 | no volume without a password or a backed-up key; keys backed up before use | modelled |
| TPM auto-decrypt setup | TPM persistent objects, unseal script, pacman hook, EFI binary, Windows boot entry | `setup_auto_tpm_decrypt` 1354-1766 (from `encrypt`'s chroot, the pacman hook, the menu), `add_blank_password` 1768 | a finished run leaves an OS that boots; blank passwords go only when the TPM opens everything; Windows never meets a blank password | modelled |
| chainloader, mask, `fstab` and their reversal | files on the ESP and in `DATA_DIR`, `steamos-install-steamcl` mask, `/etc/fstab` | 1693-1766 and 1050-1120 | the stock chainloader is never lost; `fstab` returns to what it was | partly (not `make_initfs`, EFI section layout, `crypttab`) |
| seal checks | one device mapping | `ensure_no_os_are_unsealed` 1834, `has_blank_password` 1794, `ensure_booted_os_is_sealed` 1807 | in-use counts as unsealed; the answer is still true when used | modelled |
| `boot_windows.py` | BootNext | sync check, seal check, BootNext, reboot | Windows only when synced and sealed | modelled |
| ESP manifest | manifest files | 446-502, 764-784, 1122-1142, 1861-1894 | a changed ESP is never called unchanged | partly (first ESP only) |
| SteamOS update wizard | none of its own | 1896-2077 | its guess and its key file agree with the partitions' state | modelled |
| PivotZone (`pivotzoneutils.py`, `mypivotzone.py`) | mount table, zone directories, RAM disk, list of armed files, service statuses | `build` 320, `destroy` 387, `enter` 449, `exit` 624; `_arm_common` 267, `disarm` 313, `boot_flow` 327 | `exit` undoes `enter`; an entered zone has unmounted the disk; `boot_flow` puts the machine back, but for `/efi` and the terminals | modelled |
| `pacman_helper.py` | none | `get_dependent_packages` | the closure is the least one | partly |
| LizardShell | screen buffer, cursor and its cache, keyboard, lock | screen thread, keyboard thread, `main`, resize | no index past the screen; the cache is true; it ends when the shell does | modelled |
| session helper (`wayland_session_helper.py`) | state file, child processes | `save`, `restore` | nothing runs twice; `restore` ends | modelled |
| Alt_OS_Util (`alt_os_util`) | two state files, driver of the GPU, autologin bind mount | `service`, `switch_gpu` | a switch happens once; nobody uses a GPU that moves | partly (dialogues left out) |
| `nvdata_tool` | flash area, `original.bin` and `updated.bin` of the work directories | flags, checksum, write, clean-up | the firmware accepts what was written; a failed write leaves a copy | modelled |
| `firmware_audit.py` | device info file | download, debug reads, record | what passes is one of the vendor's firmwares on the same device, and no debug read has succeeded | modelled |
| PivotZone daemon, Windows scripts, development helpers | none of their own, or straight-line settings | | | not modelled |

Interactions. `encrypt()` of one OS runs on another OS (or a live medium) and
runs the setup of the first in a chroot, so the key is sealed to the PCRs of the
wrong system and the new OS boots with the blank password until its own menu
setup reseals. A pacman hook does the same after every kernel update. All OSes
share the TPM, the ESP and the Windows boot entry. `boot_windows.py` calls the
seal check and then acts on an answer nothing keeps true.

Hard behaviours: aborts and power loss between two commands; runs of different
OSes interleaved with reboots; reruns with other inputs; Windows evicting and
claiming TPM handles; full TPMs and full LUKS headers; check-then-act; threads
that share a lock only sometimes; exceptions between two mounts. They are
listed line by line in `PROJECT.json` under `hazards`.

## Modules

### `AutoTpmEncrypt` — the core

State: per partition `fs` (what `blkid` and `luksDump` see), `blanks` (keyslots
that open with `BLANK_PASSWORD`), `keys` (generated keys that open it), `uuid`;
the `backups` of keys; per OS `secret` (`KEY_PATH`), `hookAddr` (the address in
the unseal script), `pacHook` (partitions in the pacman hook), `efi` (its
binary); and `tpm`, `wbm` (the Windows Boot Manager entry), `booted`, `mapped`
(`/dev/mapper/current_tpm_encrypted_vol`). The running script is `job`, a record
with a program counter. Every command that changes persistent state is one
action, in the order of the code; `Abort` may end the run between any two and
`PowerOff` may end it together with the session.

| actions | code |
|---|---|
| `StartEncrypt` … `CloseMapping` | `encrypt_or_decrypt` 1244-1326, `encrypt` 737-935 |
| `StartSetup`, `Setup*`, `WriteUnsealScript`, `WritePacmanHook`, `InstallEfiBinary` | `setup_auto_tpm_decrypt` 1354-1668 |
| `StartDecrypt`, `Dec*` | `decrypt` 938-1093 |
| `AddBlankPassword` | `add_blank_password` 1768-1792 |
| `KillWindowsBootManager` | `maybe_kill_windows_boot_manager` 533-544 |
| `BootLinux`, `BootMedium`, `BootWindows`, `WindowsUsesTpm`, `PowerOff` | external: firmware, initramfs (with the unseal script of 135-152), Windows, the user |

The PCR policy is modelled by what it tells apart: the booted OS and the version
of the binary that booted it. `Selections` gives, for each OS, the sets of its
partitions a user may enter in a run. `TpmOpens` holds when the object at the binary's
address is bound to exactly that. A LUKS UUID is named after the key of the run
that made it, since both are fresh in every encryption.

### `BootWindows` — the gate in front of Windows

EXTENDS the core with `boot_windows.py`: the sync check of each user, the scan
of one partition after the other, BootNext and the reboot. Here Windows is
started by the firmware only (BootNext, or the boot manager entry). It runs
concurrently with the core's scripts; `Exclusive` says that nothing else is
started from the check to the reboot.

### `Reversal` — what `decrypt()` puts back

The chainloader and its backups in the `DATA_DIR` of each OS, the mask, the
pacman hook and `fstab`. `atomic_rename_without_overwriting` is three steps
(create, copy, unlink), as `shutil.move` between file systems is. `fstab` is a
sequence of lines; `UpdatedFstab` and `RestoredFstab` are what the setup and
`decrypt()` do to it. SteamOS's own installer (`ServiceInstall`) and a user who
carries backups over or puts them back by hand act between runs. The manifest of
the ESP is recorded by `encrypt()` under the time of the clock, which may be set
back, and `decrypt()` compares with the latest one if it finds it.

### `PivotZone` — a root in RAM

The mount table (`root`, `place` of each pseudo file system of the real root,
`zonePfs`, `backing` as the number of mounts of the disk on `_BACKINGROOT`,
`shared` propagation), the RAM disk and its record, the holder directories, the
disk's mapping, the armed files and their list, the services. `enter()` and
`exit()` are one action per mount command; `Raise` ends an operation at any of
them and nothing rolls back, as in the code. A caller sees the zone from the real
root or from a chroot that `exec()` made (`view`), because `is_in_zone()` cannot
tell a chroot from an entered zone. `active` holds the services `systemctl` was
last asked to run, since its failures are only logged. A reboot clears
everything.

### `SealLifeCycle`, `SealRefinement` — what the core promises

`SealLifeCycle` is the abstract specification: a volume is plain, open (the blank
password opens it) or sealed, and moves `plain -> open <-> sealed -> plain` under
Linux only; opening comes with the Windows entry gone, and Windows starts only
when nothing is open. `SealRefinement` maps the core's headers, keyslots, boot
entry and booted system to it.

### `Wizard` — the update of SteamOS

EXTENDS the core, with SteamOS and the recovery OS already encrypted from each
other as the guide leaves them; `WizardAssumption` says that these are the two
OSes, each always entered with all its partitions, and that the TPM has an address
for each. `steamos_update_wizard()` guesses its step from
what is encrypted and from a blank password on the recovery partition, and takes
the newest key file of the OS it runs on (`newest`); each guess starts one of the
core's operations. `EnsureBootedOsIsSealed` is the menu's check; it looks at hooks
and keyslots, never into the TPM. The menu, the hook and the plain operations go
on beside the wizard.

### `BootFlow` — the zone as it is used

EXTENDS `PivotZone` with `boot_flow()`: arm, unmount `/efi`, go on inside the zone,
stop the display manager and start the terminals, enter, wait for the user, open
the disk, exit, log in again, disarm. `flow` is its next step. The coordinator's
operations are those of `PivotZone`; if one raises, the flow ends where it is,
because the code only logs. `umount /efi` is not checked (`mypivotzone.py` 333), so
`efi` may stay; the umount of the old root then fails until `enter()` gives up.
Nothing mounts the ESP again and nothing stops the terminals (`gettys`). The
autologin mounts count, because a flow that raised leaves one and the next puts
another on top. While no flow runs, either the commands of `mypivotzone.py` are
there to be called (`flow = "off"`: build, destroy, arm, disarm and the next
`boot`), or, chosen at the start, another program that imports the coordinator
calls any of its operations (`flow = "library"`).

### `LizardShell` — three threads and a lock

`screen_worker`, `keyboard_worker` and `main`, each a program counter. A screen is
the lengths of its rows; each escape sequence is what it does to the position and
to these lengths. A section under the lock is one step, except where it reads from
the shell or where unlocked code of the other thread can come between. `cursor` is
the terminal's real cursor and `real` the cache of it.

### `NvData`, `SessionHelper`, `Packages`, `FirmwareAudit`, `GpuSwitch`, `Tools`

Small programs that share no state; `Tools` composes them by choosing one at the
start.

- `NvData`: the last record of the flash area with its real checksum (`Crc8` is
  the code's loop on sixteen bits, `FirmwareCrc` vboot's on eight), a write that
  may fail half way, and firmware that appends records. A run works in a directory
  of its own or in the one given with `--work-dir`, where `flashrom -r` overwrites the
  `original.bin` of an earlier run and an `updated.bin` is in the way. `torn` says
  which run's write has damaged the flash, and `holds` which directories have the
  flash as it was; the tool goes on being run on the damaged flash. The exclusive or of two
  bytes is the constant `XorByte`, of which `XorAssumption` says the four facts the
  checksum rests on; `MCTools` gives it the `^^` of `Bitwise`, and TLC evaluates
  the assumption with it.
- `SessionHelper`: `save()` and `restore()` with programs that stay, end or fail,
  torn state files and logouts.
- `Packages`: the passes of `get_dependent_packages()` over pacman's output line
  by line (`block` is the package, `lineNo` its line), for every dependency graph;
  a wrapped field takes as many lines as its names need.
- `FirmwareAudit`: each chip read and compared, the identity recorded by the first
  audit, chips exchanged, flashed or unlocked between audits or during one. Each
  debug read may fail for a reason of its own, which the code takes for the lock
  (`glitched`); on a kernel that is not SteamOS's the script exits with 0 at once.
- `GpuSwitch`: the two state files that carry a request over the reboot, the
  claim of the GPU by the service, the way back without a reboot, and the bind
  mount for the autologin; power may go between any two commands.

### `*Proofs`, `MC*`

| module | extends | theorems about |
|---|---|---|
| `AutoTpmEncryptProofs` | `SealRefinement` | types, key backups, Windows, the refinement of `SealLifeCycle` |
| `RecoveryProofs` | `AutoTpmEncryptProofs` | `Recoverable` |
| `SetupProofs` | `RecoveryProofs` | `AutorunLeavesBootable`, `MenuSealsBootedOs` |
| `WizardProofs` | `Wizard`, `SetupProofs` | the update wizard and the check of the booted OS |
| `BootWindowsProofs` | `BootWindows`, `AutoTpmEncryptProofs` | the gate |
| `ReversalProofs` | `Reversal` | chainloader, `fstab` and manifest |
| `PivotZoneProofs` | `BootFlow` | the zone and `boot_flow()` |
| `ToolsProofs` | `GpuSwitch`, `SessionHelper`, `FirmwareAudit`, `Packages`, `NvData`, `LizardShell` | each of these |

The `MC*` modules are the small instances for TLC.

## Runs

| run | instance | shows |
|---|---|---|
| `disk` | one OS, three partitions, two keys, four keyslots, three binaries, a live medium | `TypeOK`, `KeysBackedUp`, `Recoverable`, `WindowsOnlyWhenSealed`, `MenuSealsBootedOs`, `AutorunLeavesBootable`, `ImplementsLifeCycle` |
| `wizard` | SteamOS with two partitions and the recovery OS, encrypted from each other; three keys, two binaries | `Recoverable`, `WindowsOnlyWhenSealed`, `NewestKeyFits`, `SealedVerdictTrue` |
| `gate` | `boot_windows.py`, two users, one with auto-sync, `Exclusive` | `WindowsOnlyWhenSealed`, `SyncedBeforeWindows` |
| `reversal` | two stock chainloaders, two `fstab` files, two times, SteamOS or not | `ReversalTypeOK`, `StockSurvivesUnlessTorn`, `SavedChainloaderKept`, `EncryptedBootsOwnBinary`, `FstabReversible`, `RestoreReported`, `VerdictRight` |
| `zone` | `BootFlow` over two pseudo file systems, an excluded and a restartable service, two attempts per loop, an encrypted disk | `ZoneTypeOK`, `EnteredUnmountsDisk`, `ExitUndoesEnter`, `InitReachable`, `RamReleased`, `FlowPutsBack`, `EnterEnds`, `FlowEnds` |
| `lizard` | a screen of one row and two cells, numbers up to 1, one resize | `LizardTypeOK`, `IndexSafe`, `CursorTrue`, `EndsUnlessMidSequence` |
| `tools` | each small program in turn | `FlagsTakeEffect`, `OriginalKept`, `OneOfEach`, `RestoreEnds`, `DependenciesFound`, `PassedIsGenuine`, `SwitchIsOneShot`, `NobodyUsesMovingGpu` |
| `selection` | the user may leave `var` out of a run | **violates** `Recoverable` |
| `slots` | two OSes, no medium | **violates** `DistinctSlots` |
| `gate_race` | the gate without `Exclusive` | **violates** `WindowsOnlyWhenSealed` |
| `rename` | `reversal` with one stock chainloader | **violates** `StockSurvives` |
| `restore` | the same | **violates** `DecryptedIsStock` |

The properties, in words:

- `Recoverable`: wherever runs were cut short, a volume that is not plain opens
  with the blank password or with a key of which a backup exists.
- `KeysBackedUp`: a key in a header, on a root or in the TPM has a backup file.
- `WindowsOnlyWhenSealed`: Windows never runs while a volume has a blank
  password.
- `MenuSealsBootedOs`: the menu's setup removes blank passwords only once the
  TPM opens every volume the binary needs, and ends with none left.
- `AutorunLeavesBootable`: a finished `encrypt()` or hook leaves an OS that
  boots.
- `SyncedBeforeWindows`: past the sync check no user has a sync due.
- `StockSurvivesUnlessTorn`, `SavedChainloaderKept`: the stock chainloader is on
  the ESP or saved, and what is saved is never replaced; the exception is a
  backup torn by an abort.
- `EncryptedBootsOwnBinary`: if no run was cut short, an encrypted OS boots the
  binary built for it and SteamOS's installer is masked.
- `FstabReversible`: after any number of reruns and aborts `decrypt()` leaves the
  `fstab` the OS came with, but for blank lines at its end. (Each
  setup of a file that ends with a blank line drops that line, 1695-1697, so several
  of them go one by one over repeated encryptions.)
- `RestoreReported`: a `decrypt()` that reports nothing missing has restored the
  stock chainloader.
- `VerdictRight`: with a clock that only goes forward, the ESP is called unchanged
  only if it is as `encrypt()` found it, and always then if the script is run in
  the state directory. Run anywhere else it calls an unchanged ESP modified,
  because 1124 and 1871 look for the manifest in the current directory, while 767
  puts it into the state directory and `guide.md` 430 gives it that fixed path. This
  disagreement is stated here and claimed by no property.
- `ImplementsLifeCycle`: every step of the core is a step of `SealLifeCycle`.
- `NewestKeyFits`: the newest key file of one OS opens the other's volumes,
  wherever encryptions were cut short.
- `SealedVerdictTrue`: an OS that the menu calls sealed, with its key in its TPM
  slot, boots without a password.
- `EnteredUnmountsDisk`, `ExitUndoesEnter`: if no operation has raised, a finished
  `enter()` leaves the disk mounted nowhere, however often `umount` failed, with its
  pseudo file systems held, and a finished `exit()` puts mounts, propagation and
  services back and leaves a zone that can be entered again. Whether `enter()` has
  closed the mapping of the disk is not said: a `cryptsetup close` that fails with
  another message than the two for a busy device goes unnoticed
  (`pivotzoneutils.py` 614-618).
- `InitReachable`: when `enter()` and `exit()` speak to the init system the real
  `/run` is at `/run`.
- `RamReleased`: a RAM disk outlives its zone only after an operation raised.
- `EnterEnds`: `enter()` always ends (liveness).
- `FlowPutsBack`: a `boot_flow()` that reaches its end, with nothing raised since
  the boot, has put back the pseudo file systems, the mapping of the disk, the
  display manager and its configuration, and removed what was armed. It leaves a
  zone that can be entered again, `/efi` unmounted and the terminals running.
- `FlowEnds`: it ends, or waits for the user in tmux (liveness).
- `LizardTypeOK`, `IndexSafe`, `CursorTrue`: the highlighted key exists; in a
  terminal that keeps its size no escape sequence takes the screen thread past
  the screen; between characters the cached cursor is the real one, with the
  exceptions the definition's comment names.
- `EndsUnlessMidSequence`: LizardShell ends when the shell does, unless the shell
  ended inside an escape sequence (liveness).
- `FlagsTakeEffect`, `OriginalKept`: the firmware accepts the changed record, with
  the flags asked for and nothing else changed; after a write that failed half way
  the work directory of that run still holds the flash as it was, however often the
  tool is run again, unless a later run is given the same `--work-dir`: that one,
  even with `--status`, reads the damage over it (`nvdata_tool.py` 85-86).
- `OneOfEach`, `RestoreEnds`: `restore()` starts nothing twice, and ends (liveness).
- `DependenciesFound`: exactly the packages that are needed, when pacman does not
  wrap its lines; never one that is not needed.
- `PassedIsGenuine`: an audit that passes says that firmware and identity are
  right, however many earlier audits were cut short, and that each chip is locked
  or its debug read failed for another reason.
- `SwitchIsOneShot`: a request for the GPU is acted on by one boot at most, and
  every autologin mount has exactly one script that will remove it.
- `NobodyUsesMovingGpu`: no display manager or session runs while the GPU changes
  its driver.

### What the violations show

- `selection`. `decrypt()` removes the blank password of every entered partition
  before it has tried the key file on it (985). An encryption aborted between
  `reencrypt` and `luksAddKey` of `/var`, then one of the root alone, then a
  decryption of both with the root's key removes `/var`'s only keyslot. With the
  same partitions entered every time (`disk`) this cannot happen.
- `slots`. The setup evicts the OS's address (1499-1503) before it persists the
  new object (1527-1531). An abort between them leaves the address in the unseal
  script and free in the TPM; the next OS's setup takes it, and from then on the
  setups of the two OSes evict each other's key.
- `gate_race`. A hook or menu run between the seal check and the reboot adds a
  blank password and deletes the boot manager entry, but not BootNext.
- `rename`. An abort inside `atomic_rename_without_overwriting` leaves an empty
  backup; the next setup takes it for a good one and removes the only stock
  chainloader (1741-1743).
- `restore`. The setup saves to the `DATA_DIR` of the encrypted root, `decrypt()`
  looks in that of the OS it runs on, so SteamOS keeps the script's binary after
  a decryption without any abort.

### Bounds

Two keys allow an encryption, a decryption and a second encryption with stale
files around, which all multi-run scenarios above need. Two TPM addresses and two
slots let a TPM fill up with an OS's object and a foreign one. Four keyslots let
several hook runs pile up blank passwords and then exhaust the header.
`MaxVer` bounds the binaries built per OS: two versions tell the running binary
from the one just built, three add a hook run in a resealed OS. In `zone` two
pseudo file systems tell `run`, which has a path of its own, from the others;
`RetryCount` 2 has a failed attempt and a last one; `MaxBacking` 1 bounds the
mounts that `exit()` calls from a chroot stack up before they raise. `Key` is a
symmetry set (keys are only compared).

`wizard` has three keys: the two of the set-up and one for an encryption after an
update, so a stale newest file can exist. It has no live medium: an encryption
from one files its key there, and `NewestKeyFits` does not hold (the guide never
does this). Two binaries tell the running one from the one just built; the theorems
are about any number. `reversal` has an `fstab` with the UUID of a LUKS volume and
two blank lines at its end, and SteamOS's with a UUID beside the partition sets.
`lizard` has one row of two cells and numbers 0 and 1, enough to leave the screen
on each side, fill a row and scroll; one resize to a terminal too small or back,
because the code has no defence after one (`IndexSafe` is about terminals that
keep their size). In
`tools` two records fill the flash area, with one value of the byte with the USB flag
and two of the other (the tool itself makes the flag's other value), three programs include one that is not
checked, two rounds are a first and a last one, three packages allow chains and
cycles, and a firmware one byte shorter than the flash has padding behind it.
`MaxCopies` bounds the processes that repeated calls of `restore()` leave.

`CHECK_DEADLOCK FALSE` stands in `Slots` and `Wizard` (a machine without media
none of whose OSes boots any more really stops), `Lizard` (the program ends) and
`Tools` (the package search ends). Every other run checks deadlock.

### Fairness

`BootFlow` has weak fairness of `FlowOperation` (the steps of the running
operation of `PivotZone` and the exception that ends it) and of a started flow's
own steps: one Python process that is scheduled and either goes on or raises. The
user need not ever leave tmux, hence the second disjunct of `FlowEnds`. `EnterEnds`
needs no more, because both loops of `enter()` are bounded. `LizardShell` has weak
fairness of each of its three threads: Python's threads are all scheduled, and a
thread that waits for the lock gets it when it stays free. What the shell writes
and the user types is not fair. `Tools` has weak fairness of the steps of
`restore()`, which sleeps and polls but waits for nobody. The other modules have
no fairness: their properties are safety properties, and whether a run is repeated
after an abort is up to the user.

## Proofs

Every theorem holds for all sets of OSes, partitions, keys, users, programs,
services and so on, and for every bound. All named `ASSUME`s are evaluated by TLC
in the runs. Three hypotheses stand in the theorems that need them, each one a
condition on a constant that the passing runs meet as well:

- `OneSelection`: every run of `auto_tpm_encrypt.py` on an OS names the same
  partitions.
  The run `selection` shows that `Recoverable` is false without it.
- `Exclusive`: from its seal check to the reboot nothing else is started beside
  `boot_windows.py`. The run `gate_race` shows that it is needed.
- `EfiDeleteReliable`: `efibootmgr` deletes what it is asked to delete. Line 544
  only prints its return code.

`WizardTakesRightKey` moreover supposes that there are no live media (see Bounds).

No invariant below is inductive as the runs check it. The strengthenings, and why
they are needed:

**The core** (`AutoTpmEncryptProofs`)

- `TypeCorrect`: `Spec => [](TypeOK /\ JobShape)`. `JobShape` says what a run
  in progress carries: an OS and a running Linux, a key while encrypting, an
  address from `SetupAddress` on. Without it the addresses and keys that are
  written to variables, which come out of the job record, have no type.
- `KeysAlwaysBackedUp`: `Spec => []KeysBackedUp`. `KeysInv` adds that past
  `backup` an encrypting job's key has its backup. Keys are only ever copied from
  the job (after the backup) or from `secret`, and no action deletes a backup.
- `WindowsRunsOnlyWhenSealed`: with `EfiDeleteReliable`,
  `Spec => []WindowsOnlyWhenSealed`. `WindowsInv` says that the boot entry is gone
  whenever some volume has a blank password, and where the next command adds one
  (`reencrypt`, `add_blank`).

**The refinement** (`AutoTpmEncryptProofs`)

- `VolumesKeepLifeCycle`: with `EfiDeleteReliable`, `Spec => ImplementsLifeCycle`.
  The initial states map to initial states and every step to a step of
  `SealLifeCycle` or a stutter. Beside `WindowsInv` it needs that a volume that is
  plain, or in the middle of a decryption, has no blank keyslot, and that a job
  works on the partitions of its own OS while Linux runs.

**Recovery and setup** (`RecoveryProofs`, `SetupProofs`)

- `AlwaysRecoverable`: with `OneSelection`, `Spec => []Recoverable`. `RunInv` says
  which partitions a run has left and that the root comes last in `encrypt()` and
  first in `decrypt()`; `NameInv` that a volume with a key is named after a key
  with a backup. `KeyedInv` is the heart: a root that has a key stands for all
  partitions of its OS. That is what makes the removal of blank passwords before
  the key was tried (985) harmless, and what fails when a run may leave a
  partition out. `BinaryInv` and `BootedRootKeyed` carry it over reboots.
- `AutorunBoots`, `MenuSeals`: with `OneSelection`, `AutorunLeavesBootable` and
  `MenuSealsBootedOs`. `CourseInv` says that a run keeps to the address in the
  unseal script, `LuksInv` which volumes have a complete LUKS2 header, `LoopInv`
  what the loops over partitions have done and what a finished setup has left.
  `FreshInv` says that as long as the root is the one the binary names, the run
  that installed the binary has left its key in every volume and its address in
  the script; a root encrypted again has a name no binary knows.

**The wizard** (`WizardProofs`, about `WizardSpec`)

- `WizardRecoverable`, `WizardKeepsWindowsOut`: `Recoverable` and, with
  `EfiDeleteReliable`, `WindowsOnlyWhenSealed`. The guesses of the wizard only
  start operations of the core with particular inputs, so each of its steps is one
  that the core's proofs cover (`Asks`: the user's starts of a run, whatever the
  inputs); what is left is that the initial states, in the middle of the life of two
  encrypted OSes, satisfy all invariants of the core (`Whole`).
- `WizardTakesRightKey`: `NewestKeyFits`. `FilesInv` says that no encrypted volume
  has another key than the newest file of the other OS, that an encryption past its
  backup uses that file, and that before its backup its OS has no LUKS volume at
  all. `NewestKeyFits` alone does not exclude a new file over the key of a volume
  that is still encrypted.
- `SealedVerdictIsTrue`: `SealedVerdictTrue`. `VerdictInv` says that a TPM object
  with the OS's own key that is bound to another binary than the running one comes
  with a blank password on the root, so that the check does not say "sealed".

**The gate** (`BootWindowsProofs`, about `GateSpec`)

- `GateOpensOnlyWhenSealed`: with `Exclusive` and `EfiDeleteReliable`,
  `WindowsOnlyWhenSealed`. The partitions that the scan has passed have no blank
  password and nothing runs that could add one until BootNext is used or lost.
- `GateSyncsFirst`: with `Exclusive`, `SyncedBeforeWindows`.

**What `decrypt()` puts back** (`ReversalProofs`)

- `StockKept`, `SavedIsKept` (an action property), `EncryptedHasOwnBinary`,
  `ReportedOrRestored`, `VerdictIsRight` state `StockSurvivesUnlessTorn`,
  `SavedChainloaderKept`, `EncryptedBootsOwnBinary`, `RestoreReported` and
  `VerdictRight`. `Backups` tells where the stock file is at each of the three
  steps of the rename; `OwnBinary` and `Restored` what a run that was not cut short
  has done so far; `ManifestInv` that the manifest of the latest time is the one of
  the last encryption while the clock has not been set back.
- `FstabIsReversible`, `ReversalTyped`: `FstabReversible` and `ReversalTypeOK`.
  `FstabInv` says that `fstab` is at all times `BuiltOn` a prefix of the file the OS
  came with: that prefix with some lines commented out, then the script's own
  lines, each once, and only blank lines of the original are missing. The lemmas say
  what dropping, filtering, commenting and appending do to such a file, for a file
  of any length.

**The zone** (`PivotZoneProofs`, about `Spec` of `PivotZone` and `FlowSpec` of
`BootFlow`)

- `ZoneTyped`, `DiskIsUnmounted`, `ExitUndoes`, `InitIsReachable`, `RamIsReleased`,
  `FlowIsUndone` state `ZoneTypeOK`, `EnteredUnmountsDisk`, `ExitUndoesEnter`,
  `InitReachable`, `RamReleased` and `FlowPutsBack`. Both specifications are shown
  to take only steps of a wider `ZoneNext`, so every invariant is proved once.
  `MountInv` is about the mount table and holds after operations that raised, too;
  `IntactInv` says how far `build()`, `enter()`, `exit()` and the arming have come
  as long as none has raised; `FlowInv` ties the step of `boot_flow()` to it
  (`CallInv`), follows `/efi` and the terminals (`LeftInv`) and says what the commands
  of `mypivotzone.py` leave between two flows (`CommandInv`).

**The small programs** (`ToolsProofs`)

- `SwitchHappensOnce`, `GpuMovesAlone` (`SwitchIsOneShot`, `NobodyUsesMovingGpu`):
  `GpuInv` follows the request and the autologin mount from the switch over the
  reboot to the service, wherever the power goes.
- `RestoreStartsOne` (`OneOfEach`): `CopiesInv` counts the processes that earlier
  calls left, and what this one has started.
- `AuditIsRight` (`PassedIsGenuine`): `ReadInv` says what the chips read so far
  are known to be (locked, or among those whose debug read failed all the same), `EnrolledInv` that the record is torn or whole. The lemma
  `MatchesIsFlashed` says what the comparison of the code accepts.
- `LizardTyped`, `ScreenThreadSurvives` (`LizardTypeOK`, `IndexSafe`): in a
  terminal that keeps its size `Seen` holds from the first look at it: all rows of
  both screens are there at full width, and the position is on the screen whenever
  a cell is used. In between, at the end of the loop, it may be anywhere, which
  is why the invariant is about program counters. Lemmas say what slices, new rows
  and `redraw_screen()` return (`UptoShape`, `FromShape`, `RowsShape`,
  `FittedShape`, `ScrolledShape`).
- `CacheIsRight` (`CursorTrue`): `HolderInv` says which thread has the lock,
  `CursorInv` where the terminal's cursor is at each step of the screen thread as
  long as it can be followed: at the cache, or ahead of it by the character just
  printed (`AheadInv`, with the wrap at the end of a row), while the keyboard thread
  has the cache cleared or on the keyboard whenever it holds the lock.
- `SearchIsRight` (`DependenciesFound`): `PassInv` says that of the set a pass
  started with, everything named by the lines read so far has been found. A pass
  that finds nothing therefore ends with a closed set, and what is found is in every
  closed set with the first package; the result is the least one.
- `SameChecksum`, `FlagsAreSet`, `CopyIsKept` (`FlagsTakeEffect`, `OriginalKept`): the
  sixteen bits of `crc8()` are the eight of vboot shifted by eight after every bit
  and every byte, from `XorAssumption` alone; `NvInv` says that the area stands still
  under a running tool, what it has read, and that the directory of the failed write
  keeps its copy until it is read into again.

The programs of `ToolsProofs` share nothing, so each theorem is about a program's
own `Init` and `Next`, of which `Tools` runs one (`LizardShell` has its own `Spec`).

Facts about sequences of any length, the search of a filter's result and the
checksum of a record are proved without an induction rule: if one failed, there
would be a least number where it does (`Least` and `LeastNat`, from the library's
theorem on minimal elements of well-founded relations), and the step before it
leads to a contradiction. Recursive functions are `CHOOSE`n functions in TLA+; that
one exists is proved in the same way (`Iterates`).

Only model-checked: the liveness properties (`EnterEnds`, `FlowEnds`,
`EndsUnlessMidSequence`, `RestoreEnds`), because the proof system has no fairness
reasoning. Every invariant, the action property and the refinement of the passing
runs are stated by a theorem.

## Abstractions and what is left out

- One run of `auto_tpm_encrypt.py` at a time in the core; `boot_windows.py` runs
  beside it in `BootWindows`.
- Mounts, wakelocks, package installation, the key's bytes, printed text and the
  LUKS header backup files (written, never read by the code) are not state.
- `--write_key` and the option parsing of `main` are not modelled.
- In the core the user starts Windows by hand only when everything is sealed, as
  the guide asks; `BootWindows` drops this and has only the firmware.
- A booted OS cannot be decrypted, since its volumes are in use.
- After an abort past the conversion to LUKS1 the `luksDump` pattern (987-1006)
  finds no keyslot and the next `decrypt()` stops; a volume in the middle of a
  decryption has a file system type `encrypt_or_decrypt` does not accept. Both
  are reachable by the key and by hand only.
- With `USE_SYSTEMD_INIT = False` the setup always ends in a `NameError` at 1462
  (`blkid_root_stats`), so that branch and `crypttab` (1670-1691) are left out.
- In `Reversal` a binary of an earlier encryption counts as `old` as soon as the
  root is encrypted again (it names another LUKS UUID). `fstab` lines with a
  UUID hold the UUID of a file system, and the code compares with LUKS UUIDs, so
  they are not commented out.
- In `PivotZone` one operation runs at a time: `destroy()` beside `enter()` is not
  modelled. In `BootFlow` the virtual machine is a wait for the user, and `gettys`
  is what `systemctl` was last asked, since its failures go unnoticed (347-348 of
  `mypivotzone.py`). The line appended to root's `.bash_profile` in the zone goes with
  the zone. `disarm()` from inside the zone finds the list, none of the files it names
  by their paths on the real root, and removes the list; `boot_flow()` calls it
  from the real root, as `FlowPutsBack` needs. `destroy()` inside an entered zone raises before it changes
  anything, so it is an action of the real root only. The wait for the service
  manager (532-537) goes on whatever it finds.
- In `BootWindows` the check of one user (due, auto-sync, due again) is one step.

- `SealedVerdictTrue` excepts a setup cut short between evict and persist: the
  menu's check does not look into the TPM, so it calls an OS sealed whose slot is
  empty or was taken by another.
- The newest key file is the one written last; the code goes by modification
  times, so a clock that is set back is not modelled there (in `Reversal` it is).
- The manifests of second stage ESPs are left out. The loop that verifies them
  (1885-1886) mounts and compares the first ESP again.
- In `LizardShell` characters, colours and the drawing of the keyboard are left
  out. After the terminal shrinks the position may lie past the screen and the next
  character ends the screen thread; `IndexSafe` says so by its condition.
- In `NvData` the bytes of a record besides the two with flags, the reserved byte
  and the checksum are fixed. What a damaged flash holds is left open: the tool may
  find a record in it or not, and whatever it writes leaves the flash damaged until
  the user has it restored from outside. A copy of an older area is not counted.
- Three actions stand for several commands, so an abort between those is not told
  apart: `DecRemoveHooks` removes the unseal script and the pacman hook of a root that
  is decrypted, `AddBlankPassword` deletes the boot entry before it adds the key (in
  between only the entry is gone, as after a setup that was cut short there), and
  `EnterHold` makes a holder directory and moves one mount to it.
- In `CursorTrue` a keyboard drawn between the lock of the screen thread and its note
  of the position (404-405 of `LizardShell.py`) is an exception: from then on the
  cursor counts as one that cannot be followed.
- In `SessionHelper` the user opens programs, and `save()` runs, only outside of
  `restore()`; the code would allow both beside it.
- In `GpuSwitch` the removal of a file (`alt_os_util` 44) is durable at once; the
  script does not sync. One `switch_gpu_inner` runs at a time. `check_gpu` does not load
  the configuration, so it reads no device and always answers "VM has dGPU"; it
  changes nothing and is left out.

Not modelled: `pivotzoned.c` (a FUSE passthrough; every call goes to the same call
below, whose state it is), the Windows scripts (straight-line settings),
`gpu_switcher`, `boot_windows_gui.sh` and `wsu` (a dialogue or a wrapper in front of
what is modelled), `check_why_busy.py`, `clock.py`,
`shutdown_and_capture_stacks.py` and `dev/vfio_switch_gpu` (diagnosis and
experiments), `make_initfs` and the layout of EFI sections (file formats).

## What is left to do

- `make_initfs()`, the manifests of second stage ESPs and the lists of files that
  `pacman_helper.py` copies are the parts of the program with logic of their own
  that no module has.
- One run of `auto_tpm_encrypt.py` at a time is assumed in the core; a pacman hook
  that starts while the menu's setup runs would be two jobs.
- The failure of `efibootmgr` (544) is a hypothesis of the theorems about Windows,
  not an outcome they cover: the code goes on after it, and `WindowsOnlyWhenSealed`
  is false then.
