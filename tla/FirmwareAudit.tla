----------------------------- MODULE FirmwareAudit -----------------------------
(***************************************************************************)
(* firmware_audit.py: does the controller hold one of the vendor's         *)
(* firmwares, refuse the debug reads, and have the identity the first      *)
(* audit recorded? Anything wrong ends the script with an exception; on a  *)
(* kernel that is not SteamOS's it looks at nothing and exits with 0.      *)
(***************************************************************************)
EXTENDS Naturals, Sequences, SequencesExt

CONSTANTS
    Ids,            \* serials, hardware and unique ids and user row of a chip
    Code,           \* a byte of firmware other than 0xFF
    Length,         \* APP_FW_LENGTH
    Firmwares       \* the *.bin files of fw_path

Byte == {Code, 255}
Image == [1 .. Length -> Byte]

ASSUME AuditAssumption ==
    Code \in 0 .. 254 /\ Length \in Nat /\ Firmwares \subseteq Seq(Byte)

VARIABLES
    deviceType, \* "D20", "D2x_D21" or "D21_D21"
    chip,       \* the chips: identity, firmware and whether it is locked
    info,       \* device_info_path: "none", "torn" or "whole", and the ids in it
    enrolled,   \* the ids at the end of the first audit that passed, in a set
    audit       \* the running or last audit; glitched are the chips that
                \* are not locked and whose debug read failed all the same

auditVars == <<deviceType, chip, info, enrolled, audit>>

Chips == IF deviceType = "D20" THEN {"primary"} ELSE {"primary", "secondary"}
(* The pair of D21 chips is read through one bootloader, with one download. *)
Downloaded == IF deviceType = "D2x_D21" THEN Chips ELSE {"primary"}

NoAudit == [pc |-> "idle", todo |-> {}, deviceInfo |-> << >>,
            glitched |-> {}, disturbed |-> FALSE]
AuditEnded == audit.pc \in {"idle", "passed", "failed", "skipped"}

(* Mutant: what follows the vendor's firmware is not looked at. *)
FwBlobMatchesPrefix(blob, fw) == IsPrefix(blob, fw)

FwBlobMatches(blob, fw) ==
    /\ IsPrefix(blob, fw)
    /\ \A i \in Len(blob) + 1 .. Len(fw) : fw[i] = 255

-----------------------------------------------------------------------------

(* On another kernel.                                                      *)
SkipAudit ==
    /\ AuditEnded
    /\ audit' = [NoAudit EXCEPT !.pc = "skipped"]
    /\ UNCHANGED <<deviceType, chip, info, enrolled>>

(* A device info file that is not JSON is an error.                        *)
StartAudit ==
    /\ AuditEnded
    /\ audit' = [NoAudit EXCEPT !.pc = IF info.is = "torn" THEN "failed" ELSE "read",
                                !.todo = Chips]
    /\ UNCHANGED <<deviceType, chip, info, enrolled>>

(* The primary chip first. The firmware is wrong or the debug read of an   *)
(* unlocked chip succeeds: the script ends, as it may with any error of    *)
(* the device. A debug read that fails is all that it asks for, though,    *)
(* and that of a chip that is not locked can fail, too.                    *)
VerifyChip(c) ==
    /\ audit.pc = "read" /\ c \in audit.todo
    /\ c = "primary" \/ "primary" \notin audit.todo
    /\ \/ audit' = [audit EXCEPT !.pc = "failed"]
       \/ /\ c \in Downloaded =>
                \E blob \in Firmwares : FwBlobMatches(blob, chip[c].fw)
          /\ audit' = [audit EXCEPT
                          !.todo = @ \ {c},
                          !.deviceInfo = [d \in DOMAIN @ \cup {c} |->
                              IF d = c THEN chip[c].id ELSE @[d]],
                          !.glitched = IF chip[c].locked THEN @ ELSE @ \cup {c}]
    /\ UNCHANGED <<deviceType, chip, info, enrolled>>

(* The ids read on the way are recorded, which may stop half way, or       *)
(* compared with those of the first audit.                                 *)
FinishAudit ==
    /\ audit.pc = "read" /\ audit.todo = {}
    /\ \/ /\ info.is = "none"
          /\ \/ /\ info' = [is |-> "whole", ids |-> audit.deviceInfo]
                /\ enrolled' = {audit.deviceInfo}
                /\ audit' = [audit EXCEPT !.pc = "passed"]
             \/ /\ info' = [info EXCEPT !.is = "torn"]
                /\ audit' = [audit EXCEPT !.pc = "failed"]
                /\ UNCHANGED enrolled
       \/ /\ info.is = "whole"
          /\ audit' = [audit EXCEPT !.pc = IF audit.deviceInfo = info.ids
                                         THEN "passed" ELSE "failed"]
          /\ UNCHANGED <<info, enrolled>>
    /\ UNCHANGED <<deviceType, chip>>

(* A chip is exchanged, flashed or unlocked, between audits or during one. *)
ChipChanges(c) ==
    /\ c \in Chips
    /\ chip' \in {[chip EXCEPT ![c] = n] : n \in [id : Ids, fw : Image, locked : BOOLEAN]}
    /\ audit' = [audit EXCEPT !.disturbed = TRUE]
    /\ UNCHANGED <<deviceType, info, enrolled>>

-----------------------------------------------------------------------------

AuditInit ==
    /\ deviceType \in {"D20", "D2x_D21", "D21_D21"}
    /\ chip \in [Chips -> [id : Ids, fw : Image, locked : BOOLEAN]]
    /\ info = [is |-> "none", ids |-> << >>] /\ enrolled = {}
    /\ audit = NoAudit

AuditNext ==
    \/ SkipAudit \/ StartAudit \/ FinishAudit
    \/ \E c \in {"primary", "secondary"} : VerifyChip(c) \/ ChipChanges(c)

-----------------------------------------------------------------------------
(* Properties *)

(* What flashing a vendor's file leaves in erased memory.                  *)
Flashed(blob) == [i \in 1 .. Length |-> IF i <= Len(blob) THEN blob[i] ELSE 255]

(* When nothing was changed since it began, an audit that says "Audit      *)
(* Passed!" says that every firmware it can download is exactly one of the *)
(* vendor's, that these are the chips of the first audit that passed,      *)
(* however many audits failed or were cut short in between, and that every *)
(* chip is locked, unless its debug read failed for another reason, which  *)
(* the script takes for the same (firmware_audit.py:71-72, 93-94). A       *)
(* skipped audit exits with 0, too, and says nothing.                      *)
PassedIsGenuine ==
    audit.pc = "passed" /\ ~audit.disturbed
    => /\ \A c \in Downloaded : \E blob \in Firmwares : chip[c].fw = Flashed(blob)
       /\ \A c \in Chips : chip[c].locked \/ c \in audit.glitched
       /\ [c \in Chips |-> chip[c].id] \in enrolled

=============================================================================
