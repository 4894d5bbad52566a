-------------------------------- MODULE NvData --------------------------------
(***************************************************************************)
(* nvdata_tool.py: the flags in the last record of a ChromeOS device's     *)
(* RW_NVRAM area. The firmware appends a record to the area whenever its   *)
(* settings change; the tool reads the flash into original.bin of a work   *)
(* directory, changes the last record and writes the flash back, which may *)
(* fail half way. The directory is the tool's own, a new one for each run, *)
(* or one the user has given with --work-dir, where a later run finds the  *)
(* files of an earlier one.                                                *)
(***************************************************************************)
EXTENDS Naturals, Sequences, SequencesExt

CONSTANTS
    Capacity,    \* records the area holds
    DevBytes,    \* values of the byte VB2_NV_OFFS_DEV
    MiscBytes,   \* values of the byte VB2_NV_OFFS_MISC
    XorByte      \* exclusive or of two bytes

ASSUME NvAssumption ==
    Capacity \in Nat \ {0} /\ DevBytes \subseteq 0 .. 255 /\ MiscBytes \subseteq 0 .. 255

(* All that the checksum needs of an exclusive or; the last fact is about  *)
(* the constants of the polynomial, 7 and the upper byte of 0x8380.        *)
ASSUME XorAssumption ==
    /\ XorByte \in [0 .. 255 -> [0 .. 255 -> 0 .. 255]]
    /\ XorByte[0][0] = 0 /\ XorByte[0][128] = 128
    /\ \A a \in 128 .. 255 : 2 * XorByte[a][131] + 1 = XorByte[(2 * a) % 256][7]

VARIABLES
    version,    \* 1 or 2, from the header of the first record
    area,       \* the records when the flash was last whole; what follows
                \* them is all 0xFF
    torn,       \* the directory of the write that failed half way, or "no"
    reread,     \* --work-dir has been read into since that write
    holds,      \* the directories whose original.bin is the flash with area
    updated,    \* updated.bin is in the directory the user has given
    nv          \* the running tool

nvVars == <<version, area, torn, reread, holds, updated, nv>>

EXTERNAL == 1                \* VB2_NV_DEV_FLAG_EXTERNAL
BOOT_ON_AC_DETECT == 2       \* VB2_NV_MISC_BOOT_ON_AC_DETECT
CrcOffset(v) == IF v = 1 THEN 15 ELSE 63

(* The bytes before the checksum; a version 2 record has a reserved one.   *)
Bytes(v, r) ==
    [i \in 0 .. CrcOffset(v) - 1 |->
        CASE i = 0 -> IF v = 1 THEN 64 ELSE 3
          [] i = 4 -> r.dev
          [] i = 8 -> r.misc
          [] i = 15 -> r.reserved
          [] OTHER -> 0]

(* Of two numbers of 16 bits.                                              *)
Xor16(a, b) == 256 * XorByte[a \div 256][b \div 256] + XorByte[a % 256][b % 256]

(* The inner loop of crc8(), eight bits of a byte in the upper half; the   *)
(* lower half is always zero when it starts.                               *)
CrcShift(c) == 2 * (IF c >= 32768 THEN Xor16(c, 33664) ELSE c)
CrcByte ==
    [b \in 0 .. 255 |->
        LET bits[n \in 0 .. 8] == IF n = 0 THEN 256 * b ELSE CrcShift(bits[n - 1])
        IN bits[8]]

Crc8(v, buf) ==
    LET crc[n \in 0 .. CrcOffset(v)] ==
            IF n = 0 THEN 0
            ELSE CrcByte[Xor16(crc[n - 1], 256 * buf[n - 1]) \div 256]
    IN crc[CrcOffset(v)] \div 256

HasBit(x, b) == (x \div b) % 2 = 1
WithBit(x, b, how) ==
    CASE how = "enable" -> IF HasBit(x, b) THEN x ELSE x + b
      [] how = "disable" -> IF HasBit(x, b) THEN x - b ELSE x
      [] how = "keep" -> x

(* Mutant: the reserved byte is set after the checksum was taken. *)
UpdatedCrcFirst(r, ask) ==
    LET e == [r EXCEPT !.dev = WithBit(@, EXTERNAL, ask.usb),
                       !.misc = WithBit(@, BOOT_ON_AC_DETECT, ask.ac)]
    IN [e EXCEPT !.crc = Crc8(version, Bytes(version, e)),
                 !.reserved = IF version = 2 THEN 255 ELSE @]

Updated(r, ask) ==
    LET e == [r EXCEPT !.dev = WithBit(@, EXTERNAL, ask.usb),
                       !.misc = WithBit(@, BOOT_ON_AC_DETECT, ask.ac),
                       !.reserved = IF version = 2 THEN 255 ELSE @]
    IN [e EXCEPT !.crc = Crc8(version, Bytes(version, e))]

-----------------------------------------------------------------------------

Flag == {"enable", "disable", "keep"}
Ask == [do : {"change"}, dir : {"own", "given"}, usb : Flag, ac : Flag, rm : BOOLEAN]
       \cup [do : {"status"}, dir : {"own", "given"}, usb : {"keep"}, ac : {"keep"},
             rm : BOOLEAN]

(* original is empty when there is nothing to be found in original.bin.    *)
NvIdle == [pc |-> "idle", ask |-> [do |-> "status", dir |-> "own", usb |-> "keep",
                                   ac |-> "keep", rm |-> FALSE],
           original |-> << >>]

Whole == torn = "no"

(* flashrom -r overwrites what is in a given directory, with the damage if *)
(* the flash is damaged; an older directory of the tool's own stays.       *)
NvRead(ask) ==
    /\ nv = NvIdle
    /\ holds' = IF Whole THEN holds \cup {ask.dir}
                ELSE IF ask.dir = "given" THEN holds \ {"given"} ELSE holds
    /\ reread' = (reread \/ (~Whole /\ ask.dir = "given"))
    /\ nv' = [pc |-> "read", ask |-> ask,
              original |-> IF Whole THEN area ELSE << >>]
    /\ UNCHANGED <<version, area, torn, updated>>

(* --dump ends here. So does a run that finds no valid header, no record   *)
(* or nothing to do; the files stay.                                       *)
NvEnd ==
    /\ nv.pc = "read"
    /\ nv' = NvIdle
    /\ UNCHANGED <<version, area, torn, reread, holds, updated>>

(* What a damaged flash holds may look like a record.                      *)
NvFinds == nv.pc = "read" /\ (Whole => nv.original # << >>)

NvStatus ==
    /\ NvFinds /\ nv.ask.do = "status"
    /\ nv' = [nv EXCEPT !.pc = "done"]
    /\ UNCHANGED <<version, area, torn, reread, holds, updated>>

NewArea == [nv.original EXCEPT ![Len(nv.original)] = Updated(@, nv.ask)]

(* updated.bin must not be there yet.                                      *)
NvSaves ==
    /\ NvFinds /\ nv.ask.do = "change"
    /\ Whole => NewArea # nv.original
    /\ nv.ask.dir = "given" => ~updated
    /\ updated' = (updated \/ nv.ask.dir = "given")
    /\ nv' = [nv EXCEPT !.pc = "write"]
    /\ UNCHANGED <<version, area, torn, reread, holds>>

(* Mutant: --rm removes the work directory whatever flashrom says. *)
NvWriteCleansUp ==
    /\ nv.pc = "write"
    /\ \/ Whole /\ area' = NewArea /\ holds' = {} /\ UNCHANGED torn
          /\ nv' = [nv EXCEPT !.pc = "written"]
       \/ Whole /\ torn' = nv.ask.dir /\ UNCHANGED area /\ nv' = NvIdle
          /\ holds' = IF nv.ask.rm THEN holds \ {nv.ask.dir} ELSE holds
    /\ UNCHANGED <<version, reread, updated>>

(* flashrom -w may fail with the flash partly written. A damaged flash     *)
(* remains so, whatever is written.                                        *)
NvWrite ==
    /\ nv.pc = "write"
    /\ \/ /\ Whole
          /\ area' = NewArea /\ holds' = {}
          /\ nv' = [nv EXCEPT !.pc = "written"]
          /\ UNCHANGED torn
       \/ /\ Whole
          /\ torn' = nv.ask.dir
          /\ nv' = NvIdle
          /\ UNCHANGED <<area, holds>>
       \/ /\ ~Whole
          /\ nv' \in {NvIdle, [nv EXCEPT !.pc = "done"]}
          /\ UNCHANGED <<area, torn, holds>>
    /\ UNCHANGED <<version, reread, updated>>

(* --rm removes what this run has created.                                 *)
NvCleanUp ==
    /\ nv.pc \in {"written", "done"}
    /\ nv' = NvIdle
    /\ IF nv.ask.rm /\ nv.ask.dir = "given" /\ nv.ask.do = "change"
       THEN updated' = FALSE ELSE UNCHANGED updated
    /\ holds' = IF nv.ask.rm /\ Whole THEN holds \ {nv.ask.dir} ELSE holds
    /\ UNCHANGED <<version, area, torn, reread>>

-----------------------------------------------------------------------------
(* The firmware and the user. *)

(* vboot's checksum, with the polynomial x^8 + x^2 + x + 1.                *)
FirmwareByte ==
    [b \in 0 .. 255 |->
        LET bits[n \in 0 .. 8] ==
                IF n = 0 THEN b
                ELSE IF bits[n - 1] >= 128 THEN XorByte[(2 * bits[n - 1]) % 256][7]
                ELSE 2 * bits[n - 1]
        IN bits[8]]

FirmwareCrc(v, buf) ==
    LET crc[n \in 0 .. CrcOffset(v)] ==
            IF n = 0 THEN 0 ELSE FirmwareByte[XorByte[crc[n - 1]][buf[n - 1]]]
    IN crc[CrcOffset(v)]

FirmwareRecords ==
    [v \in {1, 2} |->
        {[e EXCEPT !.crc = FirmwareCrc(v, Bytes(v, e))] :
            e \in [dev : DevBytes, misc : MiscBytes, reserved : {0}, crc : {0}]}]

(* A full area is erased first. A copy made before is not counted again.   *)
FirmwareSaves ==
    /\ nv = NvIdle /\ Whole
    /\ \E r \in FirmwareRecords[version] :
          area' = IF Len(area) < Capacity THEN Append(area, r) ELSE <<r>>
    /\ holds' = {}
    /\ UNCHANGED <<version, torn, reread, updated, nv>>

(* The user has the flash written with a copy, or with a new firmware.     *)
UserRestores ==
    /\ ~Whole /\ nv = NvIdle
    /\ torn' = "no" /\ reread' = FALSE
    /\ \/ holds # {} /\ UNCHANGED <<area, holds>>
       \/ area' = << >> /\ holds' = {}
    /\ UNCHANGED <<version, updated, nv>>

NvInit ==
    /\ version \in {1, 2}
    /\ area = << >> /\ torn = "no" /\ reread = FALSE
    /\ holds = {} /\ updated = FALSE
    /\ nv = NvIdle

NvNext ==
    \/ \E ask \in Ask : NvRead(ask)
    \/ NvEnd \/ NvStatus \/ NvSaves \/ NvWrite \/ NvCleanUp
    \/ FirmwareSaves \/ UserRestores

-----------------------------------------------------------------------------
(* Properties *)

(* What the tool has written to a flash that was whole is what the         *)
(* firmware will act on: it accepts the checksum of the last record, the   *)
(* flags are as asked, and every other setting and record is as it was.    *)
FlagsTakeEffect ==
    nv.pc = "written"
    => LET new == Last(area)  old == Last(nv.original) IN
       /\ new.crc = FirmwareCrc(version, Bytes(version, new))
       /\ new.dev = WithBit(old.dev, EXTERNAL, nv.ask.usb)
       /\ new.misc = WithBit(old.misc, BOOT_ON_AC_DETECT, nv.ask.ac)
       /\ Front(area) = Front(nv.original)

(* After a write that failed half way the work directory of that run still *)
(* holds the flash as it was, whatever --rm says and however often the     *)
(* tool is run on the damaged flash. Only a directory given with           *)
(* --work-dir loses it, and only to another run with it, be it --status:   *)
(* that reads the damage into the same original.bin.                       *)
OriginalKept == torn = "own" \/ (torn = "given" /\ ~reread) => torn \in holds

=============================================================================
