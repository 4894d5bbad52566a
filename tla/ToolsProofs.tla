------------------------------ MODULE ToolsProofs ------------------------------
(***************************************************************************)
(* Proofs about the small programs: the GPU switch of alt_os_util, the     *)
(* session helper, firmware_audit, the package search, nvdata_tool and     *)
(* LizardShell. Each one runs by itself; the theorems are about its own    *)
(* behaviours, for any number of programs, rounds, firmwares, ids,         *)
(* packages and records, and any size of a terminal.                       *)
(***************************************************************************)
EXTENDS GpuSwitch, SessionHelper, FirmwareAudit, Packages, NvData, LizardShell,
        SequenceTheorems, FiniteSetTheorems, WellFoundedInduction, TLAPS

-----------------------------------------------------------------------------
(* alt_os_util *)

(* Until the service of a boot is done there is no display manager and no  *)
(* switch, and a session begins under a display manager only.              *)
GpuCourse ==
    /\ service # "off" => ~dm /\ ~session /\ switcher = "off"
    /\ switcher = "release" => ~dm /\ ~session
    /\ cleaner => service \in {"windows", "done", "off"}

(* A request that is noted has not been acted on, and is noted only while  *)
(* the host has the GPU; a boot that claims the GPU has taken the request. *)
ClaimsInv ==
    /\ claims \in {0, 1}
    /\ gpuFile => claims = 0
    /\ service = "claim" => claims = 1
    /\ switcher \in {"note_user", "note_gpu", "reboot"} => gpu = "host"
    /\ gpu = "vm" => claims = 1

(* Every autologin has its remover.                                        *)
BindsInv ==
    /\ cleaner \in BOOLEAN
    /\ binds = (IF cleaner THEN 1 ELSE 0) + (IF service = "spawn" THEN 1 ELSE 0)
               + (IF switcher \in {"start", "clean"} THEN 1 ELSE 0)

GpuInv == GpuCourse /\ ClaimsInv /\ BindsInv

(* Every command of the service and of the switch keeps the invariant, and *)
(* so does a loss of power.                                                *)
LEMMA GpuInvariant == GpuInit /\ [][GpuNext]_gpuVars => []GpuInv
  <1> USE DEF GpuInv, GpuCourse, ClaimsInv, BindsInv, stateFiles, desktop
  <1>1. GpuInit => GpuInv
    <2>1. GpuInit => /\ cleaner \in BOOLEAN /\ ~cleaner
                     /\ binds = 0 /\ service = "gpu" /\ switcher = "off"
      BY DEF GpuInit
    <2>2. GpuInit => GpuCourse /\ ClaimsInv
      BY DEF GpuInit
    <2>3. GpuInit => BindsInv
      BY <2>1
    <2> QED BY <2>2, <2>3
  <1>2. GpuInv /\ UNCHANGED gpuVars => GpuInv'
    BY DEF gpuVars
  <1>3. ASSUME GpuInv, GpuNext PROVE GpuInv'
    <2>1. CASE ServiceGpu
      BY <1>3, <2>1 DEF ServiceGpu
    <2>2. CASE ServiceClaim
      BY <1>3, <2>2 DEF ServiceClaim
    <2>3. CASE ServiceUser
      BY <1>3, <2>3 DEF ServiceUser
    <2>4. CASE ServiceLogin
      BY <1>3, <2>4 DEF ServiceLogin
    <2>5. CASE ServiceSpawn
      BY <1>3, <2>5 DEF ServiceSpawn
    <2>6. CASE ServiceWindows
      BY <1>3, <2>6 DEF ServiceWindows
    <2>7. CASE CleanUp
      <3>1. /\ cleaner /\ ~cleaner' /\ cleaner' \in BOOLEAN
            /\ binds' = binds - 1 /\ UNCHANGED <<service, switcher>>
        BY <2>7 DEF CleanUp
      <3>2. BindsInv'
        BY <1>3, <3>1
      <3>3. GpuCourse' /\ ClaimsInv'
        BY <1>3, <2>7 DEF CleanUp
      <3> QED BY <3>2, <3>3
    <2>8. CASE StartSwitch
      BY <1>3, <2>8 DEF StartSwitch
    <2>9. CASE NoteUser
      BY <1>3, <2>9 DEF NoteUser
    <2>10. CASE NoteGpu
      BY <1>3, <2>10 DEF NoteGpu
    <2>11. CASE PowerOff \/ SwitchReboots
      <3>1. /\ ~cleaner' /\ cleaner' \in BOOLEAN /\ binds' = 0
            /\ service' = "gpu" /\ switcher' = "off"
        BY <2>11 DEF PowerOff, SwitchReboots
      <3>2. BindsInv'
        BY <3>1
      <3>3. GpuCourse' /\ ClaimsInv'
        BY <1>3, <2>11 DEF PowerOff, SwitchReboots
      <3> QED BY <3>2, <3>3
    <2>12. CASE StopDisplay
      BY <1>3, <2>12 DEF StopDisplay
    <2>13. CASE WaitForNobody
      BY <1>3, <2>13 DEF WaitForNobody
    <2>14. CASE ReleaseGpu
      BY <1>3, <2>14 DEF ReleaseGpu
    <2>15. CASE SwitchLogin
      BY <1>3, <2>15 DEF SwitchLogin
    <2>16. CASE StartDisplay
      BY <1>3, <2>16 DEF StartDisplay
    <2>17. CASE SwitchCleansUp
      BY <1>3, <2>17 DEF SwitchCleansUp
    <2>18. CASE BootStartsDisplay
      BY <1>3, <2>18 DEF BootStartsDisplay
    <2>19. CASE SessionChanges
      BY <1>3, <2>19 DEF SessionChanges
    <2>20. CASE WindowsAddsEntry
      BY <1>3, <2>20 DEF WindowsAddsEntry
    <2> QED BY <1>3, <2>1, <2>2, <2>3, <2>4, <2>5, <2>6, <2>7, <2>8, <2>9,
               <2>10, <2>11, <2>12, <2>13, <2>14, <2>15, <2>16, <2>17, <2>18,
               <2>19, <2>20 DEF GpuNext
  <1> QED BY <1>1, <1>2, <1>3, PTL

(* A request for the GPU is acted on by one boot at most and every         *)
(* autologin mount has one script under way that removes it, wherever the  *)
(* power goes.                                                             *)
THEOREM SwitchHappensOnce == GpuInit /\ [][GpuNext]_gpuVars => []SwitchIsOneShot
  <1>1. GpuInv => SwitchIsOneShot
    <2>1. GpuInv => claims <= 1 /\ (gpu = "vm" => claims = 1)
      BY DEF GpuInv, ClaimsInv
    <2> QED BY <2>1, Zenon DEF GpuInv, BindsInv, SwitchIsOneShot
  <1> QED BY <1>1, GpuInvariant, PTL

(* The GPU changes hands only while no display manager and no session can  *)
(* use it.                                                                 *)
THEOREM GpuMovesAlone == GpuInit /\ [][GpuNext]_gpuVars => []NobodyUsesMovingGpu
  <1>1. GpuInv => NobodyUsesMovingGpu
    BY DEF GpuInv, GpuCourse, NobodyUsesMovingGpu
  <1> QED BY <1>1, GpuInvariant, PTL

-----------------------------------------------------------------------------
(* wayland_session_helper.py *)

Helper == [pc : {"off", "launch", "sleep", "check", "remove"},
           todo : SUBSET Programs, all : SUBSET Programs,
           ok : SUBSET Programs, round : Nat]

SessionTyped ==
    /\ saved \subseteq Programs
    /\ proc \in [Programs -> {"none", "running", "ok", "failed"}]
    /\ copies \in [Programs -> Int]
    /\ helper \in Helper

(* As long as restore() found nothing running, the last process it started *)
(* for a program is the only one, and it starts only what does not run.    *)
CopiesInv ==
    ~again
    => /\ \A p \in Programs :
            copies[p] = IF proc[p] = "running" THEN 1 ELSE 0
       /\ helper.pc = "launch" => \A p \in helper.todo : proc[p] # "running"

SessionInv == SessionTyped /\ CopiesInv

(* The helper that does not run.                                           *)
LEMMA NoHelperIsHelper == NoHelper \in Helper /\ NoHelper.pc = "off"
  BY DEF NoHelper, Helper

(* A process that was not running is started.                              *)
LEMMA RelaunchKeepsCount ==
  ASSUME SessionInv, NEW p \in Programs, Relaunch(p),
         ~again => proc[p] # "running"
  PROVE  /\ proc' \in [Programs -> {"none", "running", "ok", "failed"}]
         /\ copies' \in [Programs -> Int]
         /\ \A q \in Programs \ {p} : proc'[q] = proc[q]
         /\ ~again => \A q \in Programs :
                        copies'[q] = IF proc'[q] = "running" THEN 1 ELSE 0
  BY DEF SessionInv, SessionTyped, CopiesInv, Relaunch

(* Every step of save(), restore(), the programs and the user keeps the    *)
(* invariant.                                                              *)
LEMMA SessionInvariant == SessionInit /\ [][SessionNext]_sessionVars => []SessionInv
  <1>1. SessionInit => SessionInv
    <2>1. SessionInit => SessionTyped
      BY NoHelperIsHelper DEF SessionInit, SessionTyped
    <2>2. SessionInit => /\ \A p \in Programs : copies[p] = 0 /\ proc[p] = "none"
                         /\ helper.pc = "off"
      BY NoHelperIsHelper DEF SessionInit
    <2> QED BY <2>1, <2>2 DEF SessionInv, CopiesInv
  <1>2. SessionInv /\ UNCHANGED sessionVars => SessionInv'
    BY DEF sessionVars, SessionInv, SessionTyped, CopiesInv
  <1>3. ASSUME SessionInv, SessionNext PROVE SessionInv'
    <2> USE <1>3 DEF SessionInv, SessionTyped, CopiesInv
    <2>1. CASE Launch
      <3>1. ASSUME NEW p \in helper.todo, Relaunch(p),
                   helper' = [helper EXCEPT !.todo = @ \ {p}],
                   helper.pc = "launch", UNCHANGED <<saved, again>>
            PROVE  SessionInv'
        <4>1. p \in Programs /\ (~again => proc[p] # "running")
          BY <3>1 DEF Helper
        <4>2. helper' \in Helper /\ helper'.todo = helper.todo \ {p}
          BY <3>1 DEF Helper
        <4>3. helper.todo \subseteq Programs
          BY DEF Helper
        <4> QED BY <3>1, <4>1, <4>2, <4>3, RelaunchKeepsCount
      <3>2. CASE /\ helper' = [helper EXCEPT !.pc = "sleep"]
                 /\ UNCHANGED <<proc, copies, saved, again>>
        <4>1. helper' \in Helper /\ helper'.pc = "sleep"
          BY <3>2 DEF Helper
        <4> QED BY <3>2, <4>1
      <3> QED BY <2>1, <3>1, <3>2 DEF Launch
    <2>2. CASE NextRound
      <3>1. helper' \in Helper /\ helper'.pc \in {"check", "remove"}
        <4>1. CASE helper.round < CheckCount
          <5>1. helper' = [helper EXCEPT !.pc = "check", !.round = @ + 1,
                                         !.ok = {}, !.todo = helper.all]
            BY <2>2, <4>1 DEF NextRound
          <5>2. helper.round + 1 \in Nat /\ helper.all \in SUBSET Programs
            BY DEF Helper
          <5> QED BY <5>1, <5>2 DEF Helper
        <4>2. CASE ~(helper.round < CheckCount)
          <5>1. helper' = [helper EXCEPT !.pc = "remove"]
            BY <2>2, <4>2 DEF NextRound
          <5> QED BY <5>1 DEF Helper
        <4> QED BY <4>1, <4>2
      <3> QED BY <2>2, <3>1 DEF NextRound
    <2>3. ASSUME NEW p \in Programs, Check(p) PROVE SessionInv'
      <3>1. helper' \in Helper /\ helper'.pc = "check"
        <4>1. CASE helper' = [helper EXCEPT !.todo = @ \ {p}, !.ok = @ \cup {p}]
          BY <2>3, <4>1 DEF Check, Helper
        <4>2. CASE helper' = [helper EXCEPT !.todo = @ \ {p}]
          BY <2>3, <4>2 DEF Check, Helper
        <4> QED BY <2>3, <4>1, <4>2 DEF Check
      <3>2. CASE UNCHANGED <<proc, copies>>
        BY <2>3, <3>1, <3>2 DEF Check
      <3>3. CASE proc[p] = "failed" /\ Relaunch(p)
        BY <2>3, <3>1, <3>3, RelaunchKeepsCount DEF Check
      <3> QED BY <2>3, <3>2, <3>3 DEF Check
    <2>4. CASE EndRound
      <3>1. helper' \in Helper /\ helper'.pc \in {"remove", "sleep"}
        BY <2>4 DEF EndRound, Helper
      <3> QED BY <2>4, <3>1 DEF EndRound
    <2>5. CASE RemoveState \/ RestoreAborts
      BY <2>5, NoHelperIsHelper DEF RemoveState, RestoreAborts
    <2>6. CASE Save
      BY <2>6 DEF Save
    <2>7. CASE StartRestore
      <3>1. /\ helper' \in Helper /\ helper'.pc = "launch"
            /\ helper'.todo = saved
        BY <2>7 DEF StartRestore, NoHelper, Helper
      <3>2. ~again' => ~again /\ \A p \in Programs : ~(copies[p] > 0)
        BY <2>7 DEF StartRestore
      <3>3. UNCHANGED <<saved, proc, copies>>
        BY <2>7 DEF StartRestore
      <3> QED BY <3>1, <3>2, <3>3
    <2>8. CASE Logout
      <3>1. SessionTyped'
        BY <2>8, NoHelperIsHelper DEF Logout
      <3>2. /\ \A p \in Programs : copies'[p] = 0 /\ proc'[p] = "none"
            /\ helper'.pc = "off"
        BY <2>8, NoHelperIsHelper DEF Logout
      <3> QED BY <3>1, <3>2
    <2>9. ASSUME NEW p \in Programs, Exits(p) PROVE SessionInv'
      <3>1. proc[p] = "running" /\ copies' = [copies EXCEPT ![p] = @ - 1]
            /\ UNCHANGED <<saved, helper, again>>
        BY <2>9 DEF Exits
      <3>2. PICK r \in {"ok", "failed"} : proc' = [proc EXCEPT ![p] = r]
        BY <2>9 DEF Exits
      <3>3. helper.todo \subseteq Programs
        BY DEF Helper
      <3> QED BY <3>1, <3>2, <3>3
    <2>10. ASSUME NEW p \in Programs, UserOpens(p) PROVE SessionInv'
      <3>1. helper.pc = "off" /\ UNCHANGED <<saved, helper, again>>
        BY <2>10 DEF UserOpens
      <3> QED BY <2>10, <3>1 DEF UserOpens
    <2> QED BY <1>3, <2>1, <2>2, <2>3, <2>4, <2>5, <2>6, <2>7, <2>8, <2>9,
               <2>10 DEF SessionNext, HelperStep
  <1> QED BY <1>1, <1>2, <1>3, PTL

(* restore() never has two of the same program running, however they fail, *)
(* stay or finish while it polls them, unless some ran before it began.    *)
THEOREM RestoreStartsOne ==
  SessionInit /\ [][SessionNext]_sessionVars => []OneOfEach
  <1>1. SessionInv => OneOfEach
    BY DEF SessionInv, CopiesInv, OneOfEach
  <1> QED BY <1>1, SessionInvariant, PTL

-----------------------------------------------------------------------------
(* firmware_audit.py *)

Chip == [id : Ids, fw : Image, locked : BOOLEAN]

(* What has been read of an undisturbed audit is so.                       *)
Verified(c) ==
    /\ c \in Downloaded => \E blob \in Firmwares : FwBlobMatches(blob, chip[c].fw)
    /\ chip[c].locked \/ c \in audit.glitched

AuditTyped ==
    /\ chip \in [Chips -> Chip]
    /\ audit = [pc |-> audit.pc, todo |-> audit.todo,
                deviceInfo |-> audit.deviceInfo, glitched |-> audit.glitched,
                disturbed |-> audit.disturbed]
    /\ audit.todo \subseteq Chips

ReadInv ==
    audit.pc \in {"read", "passed"} /\ ~audit.disturbed
    => /\ audit.deviceInfo = [c \in Chips \ audit.todo |-> chip[c].id]
       /\ \A c \in Chips \ audit.todo : Verified(c)
       /\ audit.pc = "passed" => audit.todo = {} /\ audit.deviceInfo \in enrolled

(* The device info is the first audit's.                                   *)
EnrolledInv ==
    /\ info = [is |-> info.is, ids |-> info.ids]
    /\ info.is = "whole" => enrolled = {info.ids}

AuditInv == AuditTyped /\ ReadInv /\ EnrolledInv

(* A firmware that starts with a vendor's file and goes on with nothing is *)
(* what flashing that file leaves.                                         *)
LEMMA MatchesIsFlashed ==
  ASSUME NEW fw \in Image, NEW blob \in Firmwares, FwBlobMatches(blob, fw)
  PROVE  fw = Flashed(blob)
  <1>1. blob \in Seq(Byte) /\ fw \in Seq(Byte) /\ Len(fw) = Length
        /\ Length \in Nat /\ DOMAIN fw = 1 .. Length
    BY AuditAssumption DEF Image
  <1>2. Len(blob) \in Nat /\ Len(blob) <= Length
    BY <1>1 DEF FwBlobMatches, IsPrefix
  <1>3. ASSUME NEW i \in 1 .. Len(blob) PROVE fw[i] = blob[i]
    <2>1. SubSeq(blob, 1, Len(blob)) = SubSeq(fw, 1, Len(blob))
      BY DEF FwBlobMatches, IsPrefix
    <2>2. /\ SubSeq(blob, 1, Len(blob))[i] = blob[i]
          /\ SubSeq(fw, 1, Len(blob))[i] = fw[i]
      BY <1>1, <1>2, <1>3
    <2> QED BY <2>1, <2>2
  <1>4. \A i \in Len(blob) + 1 .. Length : fw[i] = 255
    BY <1>1 DEF FwBlobMatches
  <1>5. ASSUME NEW i \in 1 .. Length
        PROVE  fw[i] = IF i <= Len(blob) THEN blob[i] ELSE 255
    BY <1>1, <1>2, <1>3, <1>4
  <1>6. fw = [i \in 1 .. Length |-> fw[i]]
    BY DEF Image
  <1> QED BY <1>5, <1>6 DEF Flashed

(* Every step of an audit keeps the invariant, whatever happens to the     *)
(* chips meanwhile.                                                        *)
LEMMA AuditInvariant == AuditInit /\ [][AuditNext]_auditVars => []AuditInv
  <1>1. AuditInit => AuditInv
    <2>1. AuditInit => audit.pc = "idle" /\ audit.todo = {} /\ info.is = "none"
      BY DEF AuditInit, NoAudit
    <2>2. AuditInit => AuditTyped
      BY <2>1 DEF AuditInit, AuditTyped, NoAudit, Chip
    <2> QED BY <2>1, <2>2 DEF AuditInit, AuditInv, ReadInv, EnrolledInv
  <1>2. AuditInv /\ UNCHANGED auditVars => AuditInv'
    BY DEF auditVars, AuditInv, AuditTyped, ReadInv, EnrolledInv, Verified,
       Chips, Downloaded
  <1>3. ASSUME AuditInv, AuditNext PROVE AuditInv'
    <2>0. AuditTyped /\ ReadInv /\ EnrolledInv
      BY <1>3 DEF AuditInv
    <2>1. CASE StartAudit
      <3>1. /\ audit' = [pc |-> IF info.is = "torn" THEN "failed" ELSE "read",
                         todo |-> Chips, deviceInfo |-> << >>,
                         glitched |-> {}, disturbed |-> FALSE]
            /\ UNCHANGED <<deviceType, chip, info, enrolled>>
            /\ Chips' = Chips
        BY <2>1 DEF StartAudit, NoAudit, Chips
      <3>2. AuditTyped' /\ EnrolledInv'
        BY <2>0, <3>1 DEF AuditTyped, EnrolledInv
      <3>3. audit'.deviceInfo = << >> /\ audit'.todo = Chips
            /\ audit'.pc # "passed"
        BY <3>1
      <3>4. ReadInv'
        <4>1. Chips' \ audit'.todo = {}
          BY <3>1, <3>3
        <4>2. [c \in Chips' \ audit'.todo |-> chip'[c].id] = << >>
          BY <4>1
        <4> QED BY <3>3, <4>1, <4>2 DEF ReadInv
      <3> QED BY <3>2, <3>4 DEF AuditInv
    <2>2. ASSUME NEW c \in {"primary", "secondary"}, VerifyChip(c)
          PROVE  AuditInv'
      <3>1. /\ UNCHANGED <<deviceType, chip, info, enrolled>>
            /\ Chips' = Chips /\ Downloaded' = Downloaded
            /\ audit.pc = "read" /\ c \in audit.todo /\ c \in Chips
        BY <2>0, <2>2 DEF VerifyChip, Chips, Downloaded, AuditTyped
      <3>2. EnrolledInv'
        BY <2>0, <3>1 DEF EnrolledInv
      <3>3. CASE audit' = [audit EXCEPT !.pc = "failed"]
        BY <2>0, <3>1, <3>2, <3>3 DEF AuditInv, AuditTyped, ReadInv
      <3>4. CASE /\ c \in Downloaded =>
                       \E blob \in Firmwares : FwBlobMatches(blob, chip[c].fw)
                 /\ audit' = [audit EXCEPT !.todo = @ \ {c},
                        !.deviceInfo = [d \in DOMAIN @ \cup {c} |->
                                          IF d = c THEN chip[c].id ELSE @[d]],
                        !.glitched = IF chip[c].locked THEN @ ELSE @ \cup {c}]
        <4>1. audit' = [pc |-> audit.pc, todo |-> audit.todo \ {c},
                        deviceInfo |->
                          [d \in DOMAIN audit.deviceInfo \cup {c} |->
                             IF d = c THEN chip[c].id ELSE audit.deviceInfo[d]],
                        glitched |-> IF chip[c].locked THEN audit.glitched
                                     ELSE audit.glitched \cup {c},
                        disturbed |-> audit.disturbed]
          BY <2>0, <3>4 DEF AuditTyped
        <4>2. AuditTyped'
          BY <2>0, <3>1, <4>1 DEF AuditTyped
        <4>3. ASSUME ~audit.disturbed
              PROVE  audit'.deviceInfo =
                       [d \in Chips \ (audit.todo \ {c}) |-> chip[d].id]
          <5>1. audit.deviceInfo = [d \in Chips \ audit.todo |-> chip[d].id]
            BY <2>0, <3>1, <4>3 DEF ReadInv
          <5>2. DOMAIN audit.deviceInfo \cup {c} = Chips \ (audit.todo \ {c})
            BY <2>0, <3>1, <5>1 DEF AuditTyped
          <5> QED BY <4>1, <5>1, <5>2
        <4>4. ASSUME ~audit.disturbed, NEW d \in Chips \ (audit.todo \ {c})
              PROVE  Verified(d)'
          <5>1. d # c => Verified(d)
            BY <2>0, <3>1, <4>4 DEF ReadInv
          <5> QED BY <3>1, <3>4, <4>1, <5>1 DEF Verified
        <4>5. ReadInv'
          BY <3>1, <4>1, <4>3, <4>4 DEF ReadInv
        <4> QED BY <3>2, <4>2, <4>5 DEF AuditInv
      <3> QED BY <2>2, <3>3, <3>4 DEF VerifyChip
    <2>3. CASE FinishAudit
      <3>1. /\ UNCHANGED <<deviceType, chip>> /\ Chips' = Chips
            /\ Downloaded' = Downloaded
            /\ audit.pc = "read" /\ audit.todo = {}
        BY <2>3 DEF FinishAudit, Chips, Downloaded
      <3>2. PICK pc : audit' = [audit EXCEPT !.pc = pc]
        BY <2>3 DEF FinishAudit
      <3>3. /\ audit'.pc = pc /\ audit'.todo = audit.todo
            /\ audit'.deviceInfo = audit.deviceInfo
            /\ audit'.glitched = audit.glitched
            /\ audit'.disturbed = audit.disturbed
        BY <2>0, <3>2 DEF AuditTyped
      <3>4. AuditTyped'
        BY <2>0, <3>1, <3>2, <3>3 DEF AuditTyped
      <3>5. EnrolledInv'
        BY <2>0, <2>3 DEF FinishAudit, EnrolledInv
      <3>6. audit'.pc = "passed" => audit'.deviceInfo \in enrolled'
        BY <2>0, <2>3, <3>2, <3>3 DEF FinishAudit, EnrolledInv, AuditTyped
      <3>7. ReadInv'
        BY <2>0, <3>1, <3>3, <3>6 DEF ReadInv, Verified
      <3> QED BY <3>4, <3>5, <3>7 DEF AuditInv
    <2>4. ASSUME NEW c \in {"primary", "secondary"}, ChipChanges(c)
          PROVE  AuditInv'
      <3>1. PICK n \in Chip : chip' = [chip EXCEPT ![c] = n]
        BY <2>4 DEF ChipChanges, Chip
      <3>2. /\ UNCHANGED <<deviceType, info, enrolled>> /\ Chips' = Chips
            /\ audit' = [audit EXCEPT !.disturbed = TRUE]
        BY <2>4 DEF ChipChanges, Chips
      <3>3. AuditTyped' /\ audit'.disturbed
        BY <2>0, <3>1, <3>2 DEF AuditTyped
      <3> QED BY <2>0, <3>2, <3>3 DEF AuditInv, ReadInv, EnrolledInv
    <2>5. CASE SkipAudit
      <3>1. /\ audit' = [pc |-> "skipped", todo |-> {}, deviceInfo |-> << >>,
                         glitched |-> {}, disturbed |-> FALSE]
            /\ UNCHANGED <<deviceType, chip, info, enrolled>>
            /\ Chips' = Chips
        BY <2>5 DEF SkipAudit, NoAudit, Chips
      <3> QED BY <2>0, <3>1 DEF AuditInv, AuditTyped, ReadInv, EnrolledInv
    <2> QED BY <1>3, <2>1, <2>2, <2>3, <2>4, <2>5 DEF AuditNext
  <1> QED BY <1>1, <1>2, <1>3, PTL

(* An audit that passes undisturbed found the vendor's firmware and        *)
(* nothing else, the chips of the first audit that passed, however many    *)
(* audits failed or were cut short before, and only chips that are locked  *)
(* or whose debug read failed for another reason.                          *)
THEOREM AuditIsRight == AuditInit /\ [][AuditNext]_auditVars => []PassedIsGenuine
  <1>1. ASSUME AuditInv, audit.pc = "passed", ~audit.disturbed
        PROVE  /\ \A c \in Downloaded :
                     \E blob \in Firmwares : chip[c].fw = Flashed(blob)
               /\ \A c \in Chips : chip[c].locked \/ c \in audit.glitched
               /\ [c \in Chips |-> chip[c].id] \in enrolled
    <2>1. audit.todo = {} /\ audit.deviceInfo \in enrolled
      BY <1>1 DEF AuditInv, ReadInv
    <2>2. audit.deviceInfo = [c \in Chips |-> chip[c].id]
      BY <1>1, <2>1 DEF AuditInv, ReadInv
    <2>3. \A c \in Chips : Verified(c)
      BY <1>1, <2>1 DEF AuditInv, ReadInv
    <2>4. Downloaded \subseteq Chips
      BY DEF Downloaded, Chips
    <2>5. ASSUME NEW c \in Downloaded
          PROVE  \E blob \in Firmwares : chip[c].fw = Flashed(blob)
      <3>1. chip[c].fw \in Image
        BY <1>1, <2>4 DEF AuditInv, AuditTyped, Chip
      <3> QED BY <2>3, <2>4, <3>1, MatchesIsFlashed DEF Verified
    <2> QED BY <2>1, <2>2, <2>3, <2>5 DEF Verified
  <1>2. AuditInv => PassedIsGenuine
    BY <1>1 DEF PassedIsGenuine
  <1> QED BY <1>2, AuditInvariant, PTL

-----------------------------------------------------------------------------
(* pacman_helper *)

(* The Required By line of p was read in this pass.                        *)
WasRead(p) == p < block \/ (p = block /\ lineNo > 1)

(* All packages with a line that was read and that names a package of the  *)
(* set the pass started with have been found.                              *)
PassInv ==
    \E before \in SUBSET packages :
        /\ Cardinality(before) = startLen
        /\ \A p \in Packages :
              WasRead(p) /\ requiredBy[p] \cap before # {} => p \in packages

(* Only what is needed is found, the lines read are those of the current   *)
(* package, and the loop ends only with a pass that found nothing.         *)
SearchInv ==
    /\ requiredBy \in [Packages -> SUBSET Packages] /\ packagesName \in Packages
    /\ wrapped \in BOOLEAN /\ searching \in BOOLEAN
    /\ block \in 1 .. Pkg + 1 /\ lineNo \in Nat
    /\ packages \in SUBSET Packages /\ packagesName \in packages
    /\ lineNo # 0 => currentPackage = block
    /\ packages \subseteq Needs
    /\ ~wrapped => PassInv
    /\ ~wrapped /\ ~searching => Closed(packages)

(* What a line of pacman's output says.                                    *)
LEMMA LineSays ==
  ASSUME NEW p \in Packages, NEW n \in Nat,
         requiredBy \in [Packages -> SUBSET Packages]
  PROVE  /\ Line(p, n).field = "Name" <=> n = 0
         /\ Line(p, n).field = "RequiredBy" <=> n = 1
         /\ n # 0 => Line(p, n).names \subseteq requiredBy[p]
         /\ ~wrapped => Line(p, n).field # "more"
         /\ ~wrapped /\ n = 1 => Line(p, n).names = requiredBy[p]
  <1>1. CASE n = 0
    BY <1>1 DEF Line
  <1>2. CASE n = 1
    <2>1. FieldRow(requiredBy[p], n - 1) \subseteq requiredBy[p]
      BY DEF FieldRow
    <2>2. ~wrapped => FieldRows(requiredBy[p]) = 1
      BY DEF FieldRows
    <2> HIDE DEF FieldRow, FieldRows
    <2> QED BY <1>2, <2>1, <2>2 DEF Line
  <1>3. CASE n > 1
    <2>1. FieldRow(requiredBy[p], n - 1) \subseteq requiredBy[p]
      BY DEF FieldRow
    <2>2. ~wrapped => FieldRows(requiredBy[p]) = 1
      BY DEF FieldRows
    <2> QED BY <1>3, <2>1, <2>2 DEF Line
  <1> QED BY <1>1, <1>2, <1>3

(* What a needed package requires is needed.                               *)
LEMMA NeedsClosed ==
  ASSUME requiredBy \in [Packages -> SUBSET Packages],
         NEW p \in Packages, requiredBy[p] \cap Needs # {}
  PROVE  p \in Needs
  BY DEF Needs, Closed

(* The packages are finitely many.                                         *)
LEMMA PackagesFinite ==
  ASSUME NEW S \in SUBSET Packages
  PROVE  IsFiniteSet(S) /\ Cardinality(S) \in Nat
  <1>1. IsFiniteSet(Packages)
    BY FS_Interval, PackagesAssumption DEF Packages
  <1> QED BY <1>1, FS_Subset, FS_CardinalityType

(* A pass begins with what was found so far.                               *)
LEMMA PassBegins ==
  ASSUME packages \in SUBSET Packages, startLen = Cardinality(packages),
         block = 1, lineNo = 0
  PROVE  PassInv
  <1>1. \A p \in Packages : ~WasRead(p)
    BY DEF WasRead, Packages
  <1> QED BY <1>1 DEF PassInv

(* Each step of the search keeps it: a line.                               *)
LEMMA SearchReads == SearchInv /\ ReadLine => SearchInv'
  <1> SUFFICES ASSUME SearchInv, ReadLine PROVE SearchInv'
    OBVIOUS
  <1>0. /\ UNCHANGED <<requiredBy, packagesName, wrapped, startLen, searching>>
        /\ block \in Packages /\ lineNo \in Nat /\ searching
    BY PackagesAssumption DEF SearchInv, ReadLine, Packages
  <1>1. PICK line : line = Line(block, lineNo)
    OBVIOUS
  <1>2. /\ line.field = "Name" <=> lineNo = 0
        /\ line.field = "RequiredBy" <=> lineNo = 1
        /\ lineNo # 0 => line.names \subseteq requiredBy[block]
        /\ ~wrapped => line.field # "more"
        /\ ~wrapped /\ lineNo = 1 => line.names = requiredBy[block]
    BY <1>0, <1>1, LineSays DEF SearchInv
  <1> DEFINE found == /\ \/ line.field = "RequiredBy"
                         \/ lastWasRequiredBy /\ line.field = "more"
                      /\ line.names \cap packages # {}
  <1>3. /\ packages' = IF found THEN packages \cup {currentPackage} ELSE packages
        /\ currentPackage' = IF line.field = "Name" THEN block ELSE currentPackage
        /\ NextLine
    BY <1>1 DEF ReadLine
  <1>4. ASSUME found
        PROVE  /\ lineNo # 0 /\ currentPackage = block
               /\ requiredBy[block] \cap packages # {}
    BY <1>2, <1>4 DEF SearchInv
  <1>5. packages' = packages \/ (found /\ packages' = packages \cup {block})
    BY <1>3, <1>4
  <1>6. block' \in 1 .. Pkg + 1 /\ lineNo' \in Nat
    BY <1>0, <1>3, PackagesAssumption DEF NextLine, Packages
  <1>7. lineNo' # 0 => currentPackage' = block'
    <2>1. CASE lineNo' = 0 BY <2>1
    <2>2. CASE lineNo' # 0
      <3>1. block' = block
        BY <1>3, <2>2 DEF NextLine
      <3> QED BY <1>2, <1>3, <3>1 DEF SearchInv
    <2> QED BY <2>1, <2>2
  <1>8. packages' \subseteq Needs
    <2>1. packages \subseteq Needs
      BY DEF SearchInv
    <2>2. ASSUME found PROVE block \in Needs
      BY <1>0, <1>4, <2>1, <2>2, NeedsClosed DEF SearchInv
    <2> QED BY <1>5, <2>1, <2>2
  <1>9. Needs' = Needs
    BY <1>0 DEF Needs, Closed
  <1>10. ASSUME ~wrapped PROVE PassInv'
    <2>1. PICK before \in SUBSET packages :
            /\ Cardinality(before) = startLen
            /\ \A p \in Packages :
                  WasRead(p) /\ requiredBy[p] \cap before # {} => p \in packages
      BY <1>10 DEF SearchInv, PassInv
    <2>2. packages \subseteq packages'
      BY <1>5
    <2>3. FieldRows(requiredBy[block]) = 1
      BY <1>10 DEF FieldRows
    <2>4. ASSUME NEW p \in Packages, WasRead(p)'
          PROVE  WasRead(p) \/ (p = block /\ lineNo = 1)
      BY <1>0, <1>3, <2>3, <2>4 DEF WasRead, NextLine, Packages
    <2>5. ASSUME NEW p \in Packages, p = block, lineNo = 1,
                 requiredBy[p] \cap before # {}
          PROVE  p \in packages'
      <3>1. found
        BY <1>2, <1>10, <2>5
      <3>2. packages' = packages \cup {currentPackage} /\ currentPackage = block
        BY <1>3, <1>4, <3>1
      <3> QED BY <2>5, <3>2
    <2>6. ASSUME NEW p \in Packages, WasRead(p)', requiredBy[p] \cap before # {}
          PROVE  p \in packages'
      BY <2>1, <2>2, <2>4, <2>5, <2>6
    <2>7. before \in SUBSET packages' /\ Cardinality(before) = startLen'
      BY <1>0, <2>1, <2>2
    <2> QED BY <1>0, <2>6, <2>7 DEF PassInv
  <1>11. packages' \in SUBSET Packages /\ packagesName' \in packages'
    BY <1>0, <1>5 DEF SearchInv
  <1> QED BY <1>0, <1>6, <1>7, <1>8, <1>9, <1>10, <1>11 DEF SearchInv

(* The end of a pass.                                                      *)
LEMMA SearchPasses == SearchInv /\ EndPass => SearchInv'
  <1> SUFFICES ASSUME SearchInv, EndPass PROVE SearchInv'
    OBVIOUS
  <1>0. /\ UNCHANGED <<requiredBy, packagesName, wrapped, packages, currentPackage>>
        /\ searching /\ block > Pkg
    BY DEF EndPass
  <1>1. Needs' = Needs
    BY <1>0 DEF Needs, Closed
  <1>2. CASE /\ startLen' = Cardinality(packages) /\ block' = 1 /\ lineNo' = 0
             /\ UNCHANGED searching
    <2>1. /\ startLen' = Cardinality(packages)' /\ block' = 1 /\ lineNo' = 0
          /\ searching' = searching
      BY <1>0, <1>2
    <2>2. PassInv'
      <3>1. (packages \in SUBSET Packages)'
        BY <1>0 DEF SearchInv
      <3>2. \A p \in Packages : ~WasRead(p)'
        BY <2>1 DEF WasRead, Packages
      <3> QED BY <2>1, <3>1, <3>2 DEF PassInv
    <2> QED BY <1>0, <1>1, <2>1, <2>2, PackagesAssumption DEF SearchInv
  <1>3. CASE /\ Cardinality(packages) <= startLen
             /\ searching' = FALSE /\ UNCHANGED <<startLen, block, lineNo>>
    <2>1. searching' = FALSE /\ UNCHANGED <<startLen, block, lineNo>>
      BY <1>3
    <2>2. ASSUME ~wrapped PROVE Closed(packages)
      <3>1. PICK before \in SUBSET packages :
              /\ Cardinality(before) = startLen
              /\ \A p \in Packages :
                    WasRead(p) /\ requiredBy[p] \cap before # {} => p \in packages
        BY <2>2 DEF SearchInv, PassInv
      <3>2. IsFiniteSet(packages) /\ Cardinality(packages) \in Nat
            /\ Cardinality(before) \in Nat
        BY PackagesFinite DEF SearchInv
      <3>3. before = packages
        BY <1>3, <3>1, <3>2, FS_Subset
      <3>4. \A p \in Packages : WasRead(p)
        BY <1>0, PackagesAssumption DEF WasRead, Packages, SearchInv
      <3> QED BY <3>1, <3>3, <3>4 DEF Closed
    <2>3. ~wrapped => PassInv'
      BY <1>0, <2>1 DEF SearchInv, PassInv, WasRead
    <2>4. Closed(packages)' <=> Closed(packages)
      BY <1>0 DEF Closed
    <2> QED BY <1>0, <1>1, <2>1, <2>2, <2>3, <2>4 DEF SearchInv
  <1> QED BY <1>2, <1>3 DEF EndPass

(* Whatever the dependencies, their cycles and their number, the loop ends *)
(* with all packages the first one needs and no other; when pacman wraps   *)
(* its lines, still with no other.                                         *)
THEOREM SearchIsRight ==
  PackagesInit /\ [][PackagesNext]_pkgVars => []DependenciesFound
  <1>1. ASSUME PackagesInit PROVE SearchInv
    <2>1. /\ requiredBy \in [Packages -> SUBSET Packages] /\ packagesName \in Packages
          /\ wrapped \in BOOLEAN /\ searching = TRUE
          /\ block = 1 /\ lineNo = 0 /\ startLen = 1
          /\ packages = {packagesName}
      BY <1>1 DEF PackagesInit
    <2>2. startLen = Cardinality(packages)
      BY <2>1, FS_Singleton
    <2>3. packages \subseteq Needs
      BY <2>1 DEF Needs
    <2>4. PassInv
      BY <2>1, <2>2, PassBegins
    <2> QED BY <2>1, <2>3, <2>4, PackagesAssumption DEF SearchInv
  <1>2. SearchInv /\ UNCHANGED pkgVars => SearchInv'
    BY DEF SearchInv, PassInv, WasRead, Needs, Closed, pkgVars
  <1>3. SearchInv => DependenciesFound
    BY DEF SearchInv, DependenciesFound, Needs
  <1> QED BY <1>1, <1>2, <1>3, SearchReads, SearchPasses, PTL DEF PackagesNext

-----------------------------------------------------------------------------
(* nvdata_tool *)

(* A nonempty set of natural numbers has a least element.                  *)
LEMMA LeastNat ==
  ASSUME NEW T \in SUBSET Nat, T # {}
  PROVE  \E least \in T : \A z \in T : least <= z
  <1>1. PICK R : R = OpToRel(<, Nat)
    OBVIOUS
  <1>2. IsWellFoundedOn(R, Nat)
    BY <1>1, NatLessThanWellFounded
  <1>3. R = {ss \in Nat \X Nat : ss[1] < ss[2]}
    BY <1>1 DEF OpToRel
  <1>4. PICK least \in T : \A z \in T : <<z, least>> \notin R
    BY <1>2, WFMin
  <1>5. ASSUME NEW z \in T PROVE least <= z
    <2>1. ~(z < least)
      BY <1>3, <1>4
    <2>2. least \in Nat /\ z \in Nat
      OBVIOUS
    <2> QED BY <2>1, <2>2
  <1> QED BY <1>5

(* Two functions that start alike and go on alike are alike.               *)
Alike(f, g, n) == f[n] = g[n]

(* By the first number where they are not.                                 *)
LEMMA StepwiseEqual ==
  ASSUME NEW len \in Nat, NEW f, NEW g, Alike(f, g, 0),
         \A n \in 1 .. len : Alike(f, g, n - 1) => Alike(f, g, n)
  PROVE  \A n \in 0 .. len : Alike(f, g, n)
  <1> DEFINE T == {n \in 0 .. len : ~Alike(f, g, n)}
  <1> SUFFICES ASSUME T # {} PROVE FALSE
    OBVIOUS
  <1>1. T \in SUBSET Nat
    OBVIOUS
  <1>2. PICK n \in T : \A z \in T : n <= z
    <2> HIDE DEF T
    <2> QED BY <1>1, LeastNat
  <1>3. n \in 1 .. len /\ n - 1 \in 0 .. len
    BY <1>2
  <1>4. n - 1 \notin T
    BY <1>2, <1>3
  <1> QED BY <1>2, <1>3, <1>4

Octet == 0 .. 255

(* A checksum is taken byte by byte: a function of the prefixes exists.    *)
LEMMA Iterates ==
  ASSUME NEW len \in Nat, NEW c \in Octet, NEW h \in [Octet -> [1 .. len -> Octet]]
  PROVE  \E g \in [0 .. len -> Octet] :
            g[0] = c /\ \A n \in 1 .. len : g[n] = h[g[n - 1]][n]
  <1> DEFINE Reached(m) == \E g \in [0 .. m -> Octet] :
                           g[0] = c /\ \A n \in 1 .. m : g[n] = h[g[n - 1]][n]
             T == {m \in 0 .. len : ~Reached(m)}
  <1> SUFFICES ASSUME ~Reached(len) PROVE FALSE
    OBVIOUS
  <1>0. T # {}
    <2>1. len \in 0 .. len
      OBVIOUS
    <2> HIDE DEF Reached
    <2> QED BY <2>1
  <1>1. T \in SUBSET Nat
    OBVIOUS
  <1>2. PICK m \in T : \A z \in T : m <= z
    <2> HIDE DEF T
    <2> QED BY <1>0, <1>1, LeastNat
  <1>3. m \in 0 .. len /\ ~Reached(m)
    BY <1>2
  <1>4. CASE m = 0
    <2> DEFINE w == [n \in 0 .. 0 |-> c]
    <2>1. w \in [0 .. 0 -> Octet] /\ w[0] = c
      OBVIOUS
    <2>2. \A n \in 1 .. 0 : w[n] = h[w[n - 1]][n]
      OBVIOUS
    <2> HIDE DEF w
    <2> QED BY <1>3, <1>4, <2>1, <2>2
  <1>5. CASE m # 0
    <2>1. m - 1 \in 0 .. len /\ m - 1 \notin T
      <3> HIDE DEF Reached, T
      <3> QED BY <1>2, <1>3, <1>5
    <2>2. PICK g \in [0 .. m - 1 -> Octet] :
            g[0] = c /\ \A n \in 1 .. m - 1 : g[n] = h[g[n - 1]][n]
      BY <2>1
    <2>3. m \in 1 .. len /\ m - 1 \in 0 .. m - 1 /\ m - 1 \in Nat
      BY <1>3, <1>5
    <2>4. h[g[m - 1]][m] \in Octet
      BY <2>2, <2>3
    <2> DEFINE w == [n \in 0 .. m |-> IF n = m THEN h[g[m - 1]][m] ELSE g[n]]
    <2>5. w \in [0 .. m -> Octet] /\ w[m] = h[g[m - 1]][m]
          /\ \A n \in 0 .. m - 1 : w[n] = g[n]
      BY SMTT(30), <2>2, <2>3, <2>4
    <2> HIDE DEF w
    <2>6. w[0] = c
      <3>1. 0 \in 0 .. m - 1
        BY <2>3
      <3> QED BY <2>2, <2>5, <3>1
    <2>7. ASSUME NEW n \in 1 .. m PROVE w[n] = h[w[n - 1]][n]
      <3>1. n - 1 \in 0 .. m - 1
        BY <2>3
      <3>2. CASE n = m
        BY <2>5, <3>1, <3>2
      <3>3. CASE n # m
        <4>1. n \in 1 .. m - 1 /\ n \in 0 .. m - 1
          BY <3>3, <2>3
        <4> QED BY <2>2, <2>5, <3>1, <4>1
      <3> QED BY <3>2, <3>3
    <2> QED BY <1>3, <2>5, <2>6, <2>7
  <1> QED BY <1>4, <1>5

(* Bytes stay bytes.                                                       *)
LEMMA XorTyped ==
  ASSUME NEW a \in 0 .. 255, NEW b \in 0 .. 255
  PROVE  XorByte[a][b] \in 0 .. 255
  <1>1. XorByte \in [0 .. 255 -> [0 .. 255 -> 0 .. 255]]
    BY XorAssumption, Zenon
  <1> QED BY ZenonT(60), <1>1

(* One bit of vboot's checksum.                                            *)
FirmwareShift(byte) == IF byte >= 128 THEN XorByte[(2 * byte) % 256][7] ELSE 2 * byte

(* Where the tool has sixteen bits, the lower ones are zero.               *)
LEMMA SameShift ==
  ASSUME NEW byte \in 0 .. 255
  PROVE  FirmwareShift(byte) \in 0 .. 255 /\ CrcShift(256 * byte) = 256 * FirmwareShift(byte)
  <1>1. CASE byte >= 128
    <2>1. (2 * byte) % 256 \in 0 .. 255 /\ byte \in 128 .. 255 /\ 256 * byte >= 32768
      BY <1>1
    <2>2. (256 * byte) \div 256 = byte /\ (256 * byte) % 256 = 0
      OBVIOUS
    <2>3. 33664 \div 256 = 131
      OBVIOUS
    <2>4. 33664 % 256 = 128
      OBVIOUS
    <2>5. PICK twice \in 0 .. 255 : twice = (2 * byte) % 256
      BY <2>1
    <2>6. PICK z \in 0 .. 255 : z = 131
      OBVIOUS
    <2>7. PICK q \in 0 .. 255 : q = 7
      OBVIOUS
    <2>8. XorByte[twice][q] \in 0 .. 255 /\ XorByte[byte][z] \in 0 .. 255
      BY XorTyped
    <2>9. 2 * XorByte[byte][z] + 1 = XorByte[twice][q]
      <3>1. \A a \in 128 .. 255 : 2 * XorByte[a][131] + 1 = XorByte[(2 * a) % 256][7]
        BY XorAssumption, Zenon
      <3>2. 2 * XorByte[byte][131] + 1 = XorByte[(2 * byte) % 256][7]
        <4>1. byte \in 128 .. 255
          BY <2>1
        <4> QED BY <3>1, <4>1, Zenon
      <3> QED BY <2>5, <2>6, <2>7, <3>2
    <2>10. Xor16(256 * byte, 33664) = 256 * XorByte[byte][z] + 128
      <3>1. XorByte[0][128] = 128
        BY XorAssumption, Zenon
      <3>2. Xor16(256 * byte, 33664) = 256 * XorByte[(256 * byte) \div 256][33664 \div 256]
                                  + XorByte[(256 * byte) % 256][33664 % 256]
        BY DEF Xor16
      <3> QED BY <2>2, <2>3, <2>4, <2>6, <3>1, <3>2
    <2>11. FirmwareShift(byte) = XorByte[twice][q]
      BY <1>1, <2>5, <2>7 DEF FirmwareShift
    <2>12. CrcShift(256 * byte) = 2 * (256 * XorByte[byte][z] + 128)
      BY <2>1, <2>10 DEF CrcShift
    <2> QED BY SMTT(30), <2>8, <2>9, <2>11, <2>12
  <1>2. CASE byte < 128
    BY <1>2 DEF FirmwareShift, CrcShift
  <1> QED BY <1>1, <1>2

(* What the two definitions of a byte's checksum evaluate.                 *)
FirmwareBits(f, b) ==
    f = [n \in 0 .. 8 |->
            IF n = 0 THEN b
            ELSE IF f[n - 1] >= 128 THEN XorByte[(2 * f[n - 1]) % 256][7]
            ELSE 2 * f[n - 1]]

ToolBits(f, b) ==
    f = [n \in 0 .. 8 |-> IF n = 0 THEN 256 * b ELSE CrcShift(f[n - 1])]

(* One bit of the one.                                                     *)
LEMMA FirmwareBitsStep ==
  ASSUME NEW f, NEW b, FirmwareBits(f, b), NEW n \in 0 .. 8
  PROVE  f[n] = IF n = 0 THEN b ELSE FirmwareShift(f[n - 1])
  <1>1. PICK g : g = f
    OBVIOUS
  <1>2. g = [k \in 0 .. 8 |->
                IF k = 0 THEN b
                ELSE IF f[k - 1] >= 128 THEN XorByte[(2 * f[k - 1]) % 256][7]
                ELSE 2 * f[k - 1]]
    BY <1>1, Zenon DEF FirmwareBits
  <1>3. g[n] = IF n = 0 THEN b
               ELSE IF f[n - 1] >= 128 THEN XorByte[(2 * f[n - 1]) % 256][7]
               ELSE 2 * f[n - 1]
    BY <1>2, Zenon
  <1> QED BY <1>1, <1>3, Zenon DEF FirmwareShift

(* One bit of the other.                                                   *)
LEMMA ToolBitsStep ==
  ASSUME NEW f, NEW b, ToolBits(f, b), NEW n \in 0 .. 8
  PROVE  f[n] = IF n = 0 THEN 256 * b ELSE CrcShift(f[n - 1])
  <1>1. PICK g : g = f
    OBVIOUS
  <1>2. g = [k \in 0 .. 8 |-> IF k = 0 THEN 256 * b ELSE CrcShift(f[k - 1])]
    BY <1>1, Zenon DEF ToolBits
  <1>3. g[n] = IF n = 0 THEN 256 * b ELSE CrcShift(f[n - 1])
    BY <1>2, Zenon
  <1> QED BY <1>1, <1>3, Zenon

(* The checksums of a byte.                                                *)
LEMMA SameByte ==
  ASSUME NEW b \in 0 .. 255
  PROVE  FirmwareByte[b] \in 0 .. 255 /\ CrcByte[b] = 256 * FirmwareByte[b]
  <1>1. PICK h : h = [byte \in 0 .. 255 |-> [n \in 1 .. 8 |-> FirmwareShift(byte)]]
    OBVIOUS
  <1>2. PICK w \in [0 .. 8 -> Octet] :
          w[0] = b /\ \A n \in 1 .. 8 : w[n] = h[w[n - 1]][n]
    <2>1. h \in [Octet -> [1 .. 8 -> Octet]]
      BY <1>1, SameShift DEF Octet
    <2>2. 8 \in Nat /\ b \in Octet
      BY DEF Octet
    <2> QED BY ZenonT(60), <2>1, <2>2, Iterates
  <1>3. ASSUME NEW n \in 1 .. 8
        PROVE  w[n - 1] \in 0 .. 255 /\ w[n] = FirmwareShift(w[n - 1])
    <2>1. w[n - 1] \in 0 .. 255
      BY <1>2 DEF Octet
    <2>2. w[n] = h[w[n - 1]][n]
      BY <1>2
    <2>3. h[w[n - 1]] = [k \in 1 .. 8 |-> FirmwareShift(w[n - 1])]
      BY <1>1, <2>1, Zenon
    <2> QED BY <2>1, <2>2, <2>3
  <1>4. FirmwareByte[b] = w[8]
    <2>1. FirmwareBits(w, b)
      <3>1. ASSUME NEW n \in 0 .. 8
            PROVE  w[n] = IF n = 0 THEN b
                          ELSE IF w[n - 1] >= 128 THEN XorByte[(2 * w[n - 1]) % 256][7]
                          ELSE 2 * w[n - 1]
        <4>1. CASE n = 0
          BY <1>2, <4>1
        <4>2. CASE n # 0
          <5>1. w[n] = FirmwareShift(w[n - 1])
            BY <1>3, <4>2
          <5> QED BY <4>2, <5>1 DEF FirmwareShift
        <4> QED BY <4>1, <4>2
      <3>2. w = [n \in 0 .. 8 |-> w[n]]
        BY <1>2
      <3> QED BY <3>1, <3>2 DEF FirmwareBits
    <2>2. PICK f : f = (CHOOSE g : FirmwareBits(g, b))
      OBVIOUS
    <2>3. FirmwareBits(f, b)
      BY <2>1, <2>2
    <2>4. FirmwareByte[b] = f[8]
      BY <2>2 DEF FirmwareByte, FirmwareBits
    <2>5. f[0] = b
      BY <2>3, FirmwareBitsStep
    <2>6. ASSUME NEW n \in 1 .. 8, f[n - 1] = w[n - 1] PROVE f[n] = w[n]
      <3>1. f[n] = IF n = 0 THEN b ELSE FirmwareShift(f[n - 1])
        <4>1. n \in 0 .. 8 OBVIOUS
        <4> QED BY <2>3, <4>1, FirmwareBitsStep
      <3> QED BY <1>3, <2>6, <3>1
    <2>7. \A n \in 0 .. 8 : f[n] = w[n]
      <3>1. Alike(f, w, 0) /\ \A n \in 1 .. 8 : Alike(f, w, n - 1) => Alike(f, w, n)
        BY <1>2, <2>5, <2>6 DEF Alike
      <3>2. \A n \in 0 .. 8 : Alike(f, w, n)
        BY <3>1, StepwiseEqual
      <3> QED BY <3>2 DEF Alike
    <2> QED BY <2>4, <2>7
  <1>5. CrcByte[b] = 256 * w[8]
    <2> DEFINE u == [n \in 0 .. 8 |-> 256 * w[n]]
    <2>1. ToolBits(u, b)
      <3>1. ASSUME NEW n \in 0 .. 8
            PROVE  u[n] = IF n = 0 THEN 256 * b ELSE CrcShift(u[n - 1])
        <4>1. CASE n = 0
          BY <1>2, <4>1
        <4>2. CASE n # 0
          <5>1. n \in 1 .. 8 /\ n - 1 \in 0 .. 8
            BY <4>2
          <5>2. u[n] = 256 * FirmwareShift(w[n - 1]) /\ u[n - 1] = 256 * w[n - 1]
            BY <1>3, <5>1
          <5>3. CrcShift(256 * w[n - 1]) = 256 * FirmwareShift(w[n - 1])
            BY <1>3, <5>1, SameShift
          <5> QED BY <4>2, <5>2, <5>3
        <4> QED BY <4>1, <4>2
      <3>2. u = [n \in 0 .. 8 |-> u[n]]
        OBVIOUS
      <3> HIDE DEF u
      <3> QED BY <3>1, <3>2 DEF ToolBits
    <2>2. PICK f : f = (CHOOSE g : ToolBits(g, b))
      OBVIOUS
    <2>3. ToolBits(f, b)
      BY <2>1, <2>2
    <2>4. CrcByte[b] = f[8]
      BY <2>2 DEF CrcByte, ToolBits
    <2>5. f[0] = 256 * b
      BY <2>3, ToolBitsStep
    <2>6. u[0] = 256 * b /\ u[8] = 256 * w[8]
      BY <1>2
    <2>7. ASSUME NEW n \in 1 .. 8, f[n - 1] = u[n - 1] PROVE f[n] = u[n]
      <3>1. n \in 0 .. 8 /\ n # 0
        OBVIOUS
      <3> HIDE DEF u
      <3>2. f[n] = IF n = 0 THEN 256 * b ELSE CrcShift(f[n - 1])
        BY <2>3, <3>1, ToolBitsStep
      <3>3. u[n] = IF n = 0 THEN 256 * b ELSE CrcShift(u[n - 1])
        BY <2>1, <3>1, ToolBitsStep
      <3> QED BY <2>7, <3>1, <3>2, <3>3
    <2> HIDE DEF u
    <2>8. \A n \in 0 .. 8 : f[n] = u[n]
      <3>1. Alike(f, u, 0) /\ \A n \in 1 .. 8 : Alike(f, u, n - 1) => Alike(f, u, n)
        BY <2>5, <2>6, <2>7 DEF Alike
      <3>2. \A n \in 0 .. 8 : Alike(f, u, n)
        BY <3>1, StepwiseEqual
      <3> QED BY <3>2 DEF Alike
    <2> QED BY <2>4, <2>6, <2>8
  <1> QED BY <1>2, <1>4, <1>5 DEF Octet

(* What the two checksums of a record evaluate.                            *)
FirmwareSums(f, v, buf) ==
    f = [n \in 0 .. CrcOffset(v) |->
            IF n = 0 THEN 0 ELSE FirmwareByte[XorByte[f[n - 1]][buf[n - 1]]]]

ToolSums(f, v, buf) ==
    f = [n \in 0 .. CrcOffset(v) |->
            IF n = 0 THEN 0
            ELSE CrcByte[Xor16(f[n - 1], 256 * buf[n - 1]) \div 256]]

(* One byte of the one.                                                    *)
LEMMA FirmwareSumsStep ==
  ASSUME NEW f, NEW v, NEW buf, FirmwareSums(f, v, buf), NEW n \in 0 .. CrcOffset(v)
  PROVE  f[n] = IF n = 0 THEN 0 ELSE FirmwareByte[XorByte[f[n - 1]][buf[n - 1]]]
  <1>1. PICK g : g = f
    OBVIOUS
  <1>2. g = [k \in 0 .. CrcOffset(v) |->
                IF k = 0 THEN 0 ELSE FirmwareByte[XorByte[f[k - 1]][buf[k - 1]]]]
    BY <1>1, Zenon DEF FirmwareSums
  <1>3. g[n] = IF n = 0 THEN 0 ELSE FirmwareByte[XorByte[f[n - 1]][buf[n - 1]]]
    BY <1>2, Zenon
  <1> QED BY <1>1, <1>3, Zenon

(* One byte of the other.                                                  *)
LEMMA ToolSumsStep ==
  ASSUME NEW f, NEW v, NEW buf, ToolSums(f, v, buf), NEW n \in 0 .. CrcOffset(v)
  PROVE  f[n] = IF n = 0 THEN 0
                ELSE CrcByte[Xor16(f[n - 1], 256 * buf[n - 1]) \div 256]
  <1>1. PICK g : g = f
    OBVIOUS
  <1>2. g = [k \in 0 .. CrcOffset(v) |->
                IF k = 0 THEN 0
                ELSE CrcByte[Xor16(f[k - 1], 256 * buf[k - 1]) \div 256]]
    BY <1>1, Zenon DEF ToolSums
  <1>3. g[n] = IF n = 0 THEN 0
               ELSE CrcByte[Xor16(f[n - 1], 256 * buf[n - 1]) \div 256]
    BY <1>2, Zenon
  <1> QED BY <1>1, <1>3, Zenon

(* The tool's exclusive or of 16 bits with an empty lower half is one of   *)
(* bytes.                                                                  *)
LEMMA XorUpper ==
  ASSUME NEW a \in 0 .. 255, NEW b \in 0 .. 255
  PROVE  Xor16(256 * a, 256 * b) \div 256 = XorByte[a][b]
  <1>1. /\ (256 * a) \div 256 = a /\ (256 * a) % 256 = 0
        /\ (256 * b) \div 256 = b /\ (256 * b) % 256 = 0
    OBVIOUS
  <1>2. XorByte[0][0] = 0
    BY XorAssumption, Zenon
  <1>3. Xor16(256 * a, 256 * b) = 256 * XorByte[(256 * a) \div 256][(256 * b) \div 256]
                                + XorByte[(256 * a) % 256][(256 * b) % 256]
    BY DEF Xor16
  <1>4. PICK byte \in 0 .. 255 : byte = XorByte[a][b]
    BY XorTyped
  <1>5. Xor16(256 * a, 256 * b) = 256 * byte + 0
    BY <1>1, <1>2, <1>3, <1>4
  <1> QED BY <1>4, <1>5

(* A byte moved to the high half of the register and back is that byte.    *)
LEMMA HighByte ==
  ASSUME NEW r \in 0 .. 255
  PROVE  (256 * r) \div 256 = r
  OBVIOUS

(* The checksum crc8() computes is the one vboot computes, for every       *)
(* record.                                                                 *)
THEOREM SameChecksum ==
  ASSUME NEW v \in {1, 2}, NEW buf,
         \A i \in 0 .. CrcOffset(v) - 1 : buf[i] \in 0 .. 255
  PROVE  FirmwareCrc(v, buf) \in 0 .. 255 /\ Crc8(v, buf) = FirmwareCrc(v, buf)
  <1>0. PICK len \in Nat : len = CrcOffset(v)
    BY DEF CrcOffset
  <1>1. PICK h : h = [byte \in Octet |->
                        [n \in 1 .. len |-> FirmwareByte[XorByte[byte][buf[n - 1]]]]]
    OBVIOUS
  <1>2. ASSUME NEW byte \in 0 .. 255, NEW n \in 1 .. len
        PROVE  /\ XorByte[byte][buf[n - 1]] \in 0 .. 255 /\ buf[n - 1] \in 0 .. 255
               /\ FirmwareByte[XorByte[byte][buf[n - 1]]] \in 0 .. 255
    <2>1. buf[n - 1] \in 0 .. 255
      BY <1>0
    <2>2. XorByte[byte][buf[n - 1]] \in 0 .. 255
      BY <2>1, XorTyped
    <2> QED BY <2>1, <2>2, SameByte
  <1>3. PICK w \in [0 .. len -> Octet] :
          w[0] = 0 /\ \A n \in 1 .. len : w[n] = h[w[n - 1]][n]
    <2>1. h \in [Octet -> [1 .. len -> Octet]]
      <3>1. \A byte \in Octet, n \in 1 .. len :
              FirmwareByte[XorByte[byte][buf[n - 1]]] \in Octet
        BY <1>2 DEF Octet
      <3> QED BY <1>1, <3>1
    <2>2. 0 \in Octet
      BY DEF Octet
    <2> QED BY ZenonT(60), <2>1, <2>2, Iterates
  <1>4. ASSUME NEW n \in 1 .. len
        PROVE  /\ w[n - 1] \in 0 .. 255
               /\ w[n] = FirmwareByte[XorByte[w[n - 1]][buf[n - 1]]]
    <2>1. w[n - 1] \in Octet
      BY <1>3
    <2>2. w[n] = h[w[n - 1]][n]
      BY <1>3
    <2>3. h[w[n - 1]] = [k \in 1 .. len |-> FirmwareByte[XorByte[w[n - 1]][buf[k - 1]]]]
      BY <1>1, <2>1, Zenon
    <2>4. h[w[n - 1]][n] = FirmwareByte[XorByte[w[n - 1]][buf[n - 1]]]
      BY <2>3, Zenon
    <2> QED BY <2>1, <2>2, <2>4 DEF Octet
  <1>5. FirmwareCrc(v, buf) = w[len]
    <2>1. FirmwareSums(w, v, buf)
      <3>1. ASSUME NEW n \in 0 .. len
            PROVE  w[n] = IF n = 0 THEN 0
                          ELSE FirmwareByte[XorByte[w[n - 1]][buf[n - 1]]]
        <4>1. CASE n = 0
          BY <1>3, <4>1
        <4>2. CASE n # 0
          BY <1>4, <4>2
        <4> QED BY <4>1, <4>2
      <3>2. w = [n \in 0 .. len |-> w[n]]
        BY <1>3
      <3> QED BY <1>0, <3>1, <3>2 DEF FirmwareSums
    <2>2. PICK f : f = (CHOOSE g : FirmwareSums(g, v, buf))
      OBVIOUS
    <2>3. FirmwareSums(f, v, buf)
      BY <2>1, <2>2
    <2>4. FirmwareCrc(v, buf) = f[len]
      BY <1>0, <2>2 DEF FirmwareCrc, FirmwareSums
    <2>5. \A n \in 0 .. len :
            /\ f[n] = IF n = 0 THEN 0 ELSE FirmwareByte[XorByte[f[n - 1]][buf[n - 1]]]
            /\ w[n] = IF n = 0 THEN 0 ELSE FirmwareByte[XorByte[w[n - 1]][buf[n - 1]]]
      BY <1>0, <2>1, <2>3, FirmwareSumsStep
    <2>6. f[0] = w[0]
      <3>1. 0 \in 0 .. len
        BY <1>0
      <3> QED BY <2>5, <3>1
    <2>7. ASSUME NEW n \in 1 .. len, f[n - 1] = w[n - 1] PROVE f[n] = w[n]
      <3>1. n \in 0 .. len /\ n # 0
        OBVIOUS
      <3> QED BY <2>5, <2>7, <3>1
    <2>8. \A n \in 0 .. len : f[n] = w[n]
      <3>1. Alike(f, w, 0)
        BY <2>6 DEF Alike
      <3>2. \A n \in 1 .. len : Alike(f, w, n - 1) => Alike(f, w, n)
        BY <2>7 DEF Alike
      <3>3. \A n \in 0 .. len : Alike(f, w, n)
        BY <3>1, <3>2, StepwiseEqual
      <3> QED BY <3>3 DEF Alike
    <2> QED BY <2>4, <2>8
  <1>6. Crc8(v, buf) = (256 * w[len]) \div 256
    <2>0. PICK u : u = [n \in 0 .. len |-> 256 * w[n]]
      OBVIOUS
    <2>1. ToolSums(u, v, buf)
      <3>1. ASSUME NEW n \in 0 .. len
            PROVE  u[n] = IF n = 0 THEN 0
                          ELSE CrcByte[Xor16(u[n - 1], 256 * buf[n - 1]) \div 256]
        <4>1. CASE n = 0
          BY <1>3, <2>0, <4>1
        <4>2. CASE n # 0
          <5>1. n \in 1 .. len /\ n - 1 \in 0 .. len
            BY <4>2
          <5>2. u[n] = 256 * w[n] /\ u[n - 1] = 256 * w[n - 1]
            BY <2>0, <5>1
          <5>3. PICK a \in 0 .. 255, b \in 0 .. 255 : a = w[n - 1] /\ b = buf[n - 1]
            BY ZenonT(60), <1>2, <1>4, <5>1
          <5>4. Xor16(256 * a, 256 * b) \div 256 = XorByte[a][b] /\ XorByte[a][b] \in 0 .. 255
            BY ZenonT(120), XorUpper, XorTyped
          <5>5. CrcByte[XorByte[a][b]] = 256 * FirmwareByte[XorByte[a][b]]
            BY <5>4, SameByte
          <5>6. w[n] = FirmwareByte[XorByte[a][b]]
            BY <1>4, <5>1, <5>3
          <5>7. Xor16(u[n - 1], 256 * buf[n - 1]) = Xor16(256 * a, 256 * b)
            BY <5>2, <5>3, Zenon
          <5>8. u[n] = CrcByte[Xor16(u[n - 1], 256 * buf[n - 1]) \div 256]
            <6>1. Xor16(u[n - 1], 256 * buf[n - 1]) \div 256 = XorByte[a][b]
              BY <5>4, <5>7, Zenon
            <6>2. u[n] = 256 * FirmwareByte[XorByte[a][b]]
              BY <5>2, <5>6, Zenon
            <6>3. u[n] = CrcByte[XorByte[a][b]]
              BY <5>5, <6>2, Zenon
            <6> QED BY <6>1, <6>3, Zenon
          <5> QED BY <4>2, <5>8, Zenon
        <4> QED BY <4>1, <4>2
      <3>2. u = [n \in 0 .. len |-> u[n]]
        BY <2>0
      <3>3. u = [n \in 0 .. len |->
                    IF n = 0 THEN 0
                    ELSE CrcByte[Xor16(u[n - 1], 256 * buf[n - 1]) \div 256]]
        BY <3>1, <3>2, ZenonT(60)
      <3> QED BY <1>0, <3>3, Zenon DEF ToolSums
    <2>2. PICK f : f = (CHOOSE g : ToolSums(g, v, buf))
      OBVIOUS
    <2>3. ToolSums(f, v, buf)
      BY <2>1, <2>2
    <2>4. Crc8(v, buf) = f[len] \div 256
      BY <1>0, <2>2 DEF Crc8, ToolSums
    <2>5. \A n \in 0 .. len :
            /\ f[n] = IF n = 0 THEN 0
                       ELSE CrcByte[Xor16(f[n - 1], 256 * buf[n - 1]) \div 256]
            /\ u[n] = IF n = 0 THEN 0
                       ELSE CrcByte[Xor16(u[n - 1], 256 * buf[n - 1]) \div 256]
      BY <1>0, <2>1, <2>3, ToolSumsStep
    <2>6. f[0] = u[0]
      <3>1. 0 \in 0 .. len
        BY <1>0
      <3> QED BY <2>5, <3>1
    <2>7. ASSUME NEW n \in 1 .. len, f[n - 1] = u[n - 1] PROVE f[n] = u[n]
      <3>1. n \in 0 .. len /\ n # 0
        OBVIOUS
      <3> QED BY <2>5, <2>7, <3>1
    <2>8. \A n \in 0 .. len : f[n] = u[n]
      <3>1. Alike(f, u, 0)
        BY <2>6 DEF Alike
      <3>2. \A n \in 1 .. len : Alike(f, u, n - 1) => Alike(f, u, n)
        BY <2>7 DEF Alike
      <3>3. \A n \in 0 .. len : Alike(f, u, n)
        BY <3>1, <3>2, StepwiseEqual
      <3> QED BY <3>3 DEF Alike
    <2>9. f[len] = 256 * w[len]
      BY <2>0, <2>8
    <2> QED BY <2>4, <2>9
  <1>7. PICK r \in 0 .. 255 : r = w[len]
    <2>1. len \in 0 .. len
      BY <1>0
    <2>2. w[len] \in Octet
      BY <1>3, <2>1
    <2> QED BY <2>2 DEF Octet
  <1>8. (256 * r) \div 256 = r
    BY <1>7, HighByte
  <1> QED BY <1>5, <1>6, <1>7, <1>8

(* What a record holds, as far as the tool is concerned.                   *)
Record == [dev : Octet, misc : Octet, reserved : Octet, crc : Octet]

(* A flag is set or cleared within its byte.                               *)
LEMMA BitInByte ==
  ASSUME NEW byte \in 0 .. 255, NEW b \in {EXTERNAL, BOOT_ON_AC_DETECT},
         NEW how \in {"enable", "disable", "keep"}
  PROVE  WithBit(byte, b, how) \in 0 .. 255
  <1>1. CASE b = 1
    BY <1>1 DEF WithBit, HasBit
  <1>2. CASE b = 2
    BY <1>2 DEF WithBit, HasBit
  <1> QED BY <1>1, <1>2 DEF EXTERNAL, BOOT_ON_AC_DETECT

(* The bytes that are summed, and that the checksum is none of them.       *)
LEMMA BytesTyped ==
  ASSUME NEW v \in {1, 2}, NEW r \in Record
  PROVE  \A i \in 0 .. CrcOffset(v) - 1 : Bytes(v, r)[i] \in 0 .. 255
  <1>1. r.dev \in 0 .. 255 /\ r.misc \in 0 .. 255 /\ r.reserved \in 0 .. 255
    BY DEF Record, Octet
  <1> SUFFICES ASSUME NEW i \in 0 .. CrcOffset(v) - 1
               PROVE  Bytes(v, r)[i] \in 0 .. 255
    OBVIOUS
  <1>2. Bytes(v, r)[i] = CASE i = 0 -> IF v = 1 THEN 64 ELSE 3
                           [] i = 4 -> r.dev
                           [] i = 8 -> r.misc
                           [] i = 15 -> r.reserved
                           [] OTHER -> 0
    BY Zenon DEF Bytes
  <1> QED BY <1>1, <1>2 DEF CrcOffset

(* Which is why it can be taken before it is written.                      *)
LEMMA BytesWithoutCrc ==
  ASSUME NEW v \in {1, 2}, NEW r, NEW q,
         r.dev = q.dev, r.misc = q.misc, r.reserved = q.reserved
  PROVE  Bytes(v, r) = Bytes(v, q)
  BY DEF Bytes

(* A record the tool has changed.                                          *)
LEMMA UpdatedRecord ==
  ASSUME version \in {1, 2}, NEW r \in Record, NEW ask \in Ask,
         NEW u, u = Updated(r, ask)
  PROVE  /\ u \in Record
         /\ u.crc = FirmwareCrc(version, Bytes(version, u))
         /\ u.dev = WithBit(r.dev, EXTERNAL, ask.usb)
         /\ u.misc = WithBit(r.misc, BOOT_ON_AC_DETECT, ask.ac)
  <1>1. PICK e : e = [r EXCEPT !.dev = WithBit(@, EXTERNAL, ask.usb),
                               !.misc = WithBit(@, BOOT_ON_AC_DETECT, ask.ac),
                               !.reserved = IF version = 2 THEN 255 ELSE @]
    OBVIOUS
  <1>2. PICK s : s = Crc8(version, Bytes(version, e))
    OBVIOUS
  <1>3. u = [e EXCEPT !.crc = s]
    BY <1>1, <1>2, Zenon DEF Updated
  <1>4. /\ WithBit(r.dev, EXTERNAL, ask.usb) \in 0 .. 255
        /\ WithBit(r.misc, BOOT_ON_AC_DETECT, ask.ac) \in 0 .. 255
    <2>1. r.dev \in 0 .. 255 /\ r.misc \in 0 .. 255
          /\ ask.usb \in {"enable", "disable", "keep"}
          /\ ask.ac \in {"enable", "disable", "keep"}
      BY DEF Record, Octet, Ask, Flag
    <2> QED BY ZenonT(60), <2>1, BitInByte
  <1>5. /\ e \in Record
        /\ e.dev = WithBit(r.dev, EXTERNAL, ask.usb)
        /\ e.misc = WithBit(r.misc, BOOT_ON_AC_DETECT, ask.ac)
    <2>1. PICK d \in Octet : d = WithBit(r.dev, EXTERNAL, ask.usb)
      BY <1>4 DEF Octet
    <2>2. PICK m \in Octet : m = WithBit(r.misc, BOOT_ON_AC_DETECT, ask.ac)
      BY <1>4 DEF Octet
    <2>3. PICK byte \in Octet : byte = IF version = 2 THEN 255 ELSE r.reserved
      <3>1. r.reserved \in Octet /\ 255 \in Octet
        BY DEF Record, Octet
      <3> QED BY <3>1
    <2>4. e = [r EXCEPT !.dev = d, !.misc = m, !.reserved = byte]
      BY <1>1, <2>1, <2>2, <2>3
    <2>5. e \in Record /\ e.dev = d /\ e.misc = m
      BY <2>4 DEF Record
    <2> QED BY <2>1, <2>2, <2>5
  <1>6. s = FirmwareCrc(version, Bytes(version, e)) /\ s \in 0 .. 255
    BY SMTT(30), <1>2, <1>5, BytesTyped, SameChecksum
  <1>7. /\ u \in Record /\ u.crc = s /\ u.dev = e.dev /\ u.misc = e.misc
        /\ u.reserved = e.reserved
    BY <1>3, <1>5, <1>6 DEF Record, Octet
  <1>8. Bytes(version, u) = Bytes(version, e)
    BY <1>7, BytesWithoutCrc
  <1> QED BY <1>5, <1>6, <1>7, <1>8

(* The area stands still under a running tool, which is why its copy is    *)
(* good and what it wrote is what it computed.                             *)
NvPc == {"idle", "read", "write", "written", "done"}

NvInv ==
    /\ version \in {1, 2} /\ torn \in {"no", "own", "given"}
    /\ area \in Seq(Record)
    /\ nv \in [pc : NvPc, ask : Ask, original : Seq(Record)]
    /\ nv.pc \in {"read", "write"} /\ torn = "no"
       => nv.original = area /\ nv.ask.dir \in holds
    /\ nv.pc = "write" /\ torn = "no" => nv.original # << >>
    /\ nv.pc = "written" => area = NewArea /\ nv.original # << >>
    /\ OriginalKept

(* The new area has the same records but the last.                         *)
LEMMA NewAreaShape ==
  ASSUME NvInv, nv.original # << >>, NEW n, n = Len(nv.original)
  PROVE  /\ n \in Nat \ {0} /\ nv.original[n] \in Record
         /\ NewArea \in Seq(Record) /\ Len(NewArea) = n
         /\ NewArea[n] = Updated(nv.original[n], nv.ask)
         /\ \A i \in 1 .. n - 1 : NewArea[i] = nv.original[i]
  <1>1. PICK s \in Seq(Record) : s = nv.original
    BY DEF NvInv
  <1>2. n \in Nat \ {0} /\ s[n] \in Record /\ n = Len(s)
    BY <1>1
  <1>3. PICK u \in Record : u = Updated(s[n], nv.ask)
    BY <1>2, UpdatedRecord DEF NvInv
  <1>4. NewArea = [s EXCEPT ![n] = u]
    BY <1>1, <1>2, <1>3 DEF NewArea
  <1> QED BY <1>1, <1>2, <1>3, <1>4

(* Every step of the tool, the firmware and the user keeps it.             *)
LEMMA NvStep == ASSUME NvInv, NvNext PROVE NvInv'
  <1> USE DEF NvPc, Whole
  <1>0. /\ NvIdle \in [pc : NvPc, ask : Ask, original : Seq(Record)]
        /\ NvIdle.pc = "idle"
    BY DEF NvIdle, Ask, Flag
  <1>1. ASSUME NEW ask \in Ask, NvRead(ask) PROVE NvInv'
    <2>1. /\ nv' \in [pc : NvPc, ask : Ask, original : Seq(Record)]
          /\ nv'.pc = "read" /\ nv'.ask = ask
          /\ nv'.original = IF torn = "no" THEN area ELSE << >>
      BY <1>1 DEF NvRead, NvInv
    <2>2. /\ UNCHANGED <<version, area, torn>>
          /\ holds' = IF torn = "no" THEN holds \cup {ask.dir}
                      ELSE IF ask.dir = "given" THEN holds \ {"given"}
                      ELSE holds
          /\ reread' = (reread \/ (torn # "no" /\ ask.dir = "given"))
      BY <1>1 DEF NvRead
    <2>3. OriginalKept'
      BY <2>2 DEF NvInv, OriginalKept
    <2> QED BY <2>1, <2>2, <2>3 DEF NvInv
  <1>2. CASE NvEnd
    BY <1>0, <1>2 DEF NvEnd, NvInv, OriginalKept
  <1>3. CASE NvStatus
    <2>1. /\ nv' \in [pc : NvPc, ask : Ask, original : Seq(Record)]
          /\ nv'.pc = "done"
      BY <1>3 DEF NvStatus, NvInv
    <2> QED BY <1>3, <2>1 DEF NvStatus, NvInv, OriginalKept
  <1>4. CASE NvSaves
    <2>1. /\ nv' \in [pc : NvPc, ask : Ask, original : Seq(Record)]
          /\ nv'.pc = "write" /\ nv'.original = nv.original
          /\ nv'.ask = nv.ask
      BY <1>4 DEF NvSaves, NvInv
    <2> QED BY <1>4, <2>1 DEF NvSaves, NvFinds, NvInv, OriginalKept
  <1>5. CASE NvWrite
    <2>0. nv.pc = "write" /\ UNCHANGED <<version, reread>>
      BY <1>5 DEF NvWrite
    <2>1. CASE /\ torn = "no" /\ area' = NewArea /\ torn' = torn
               /\ nv' = [nv EXCEPT !.pc = "written"]
      <3>1. NewArea \in Seq(Record)
        BY <2>0, <2>1, NewAreaShape DEF NvInv
      <3>2. /\ nv' \in [pc : NvPc, ask : Ask, original : Seq(Record)]
            /\ nv'.original = nv.original /\ nv'.ask = nv.ask
            /\ nv'.pc = "written"
        BY <2>1 DEF NvInv
      <3>3. NewArea' = NewArea
        BY <2>0, <3>2 DEF NewArea, Updated
      <3> QED BY <2>0, <2>1, <3>1, <3>2, <3>3 DEF NvInv, OriginalKept
    <2>2. CASE /\ torn = "no" /\ torn' = nv.ask.dir /\ nv' = NvIdle
               /\ UNCHANGED <<area, holds>>
      <3>1. nv.ask.dir \in {"own", "given"}
        BY DEF NvInv, Ask
      <3> QED BY <1>0, <2>0, <2>2, <3>1 DEF NvInv, OriginalKept
    <2>3. CASE /\ torn # "no" /\ nv' \in {NvIdle, [nv EXCEPT !.pc = "done"]}
               /\ UNCHANGED <<area, torn, holds>>
      <3>1. /\ nv' \in [pc : NvPc, ask : Ask, original : Seq(Record)]
            /\ nv'.pc \in {"idle", "done"}
        BY <1>0, <2>3 DEF NvInv
      <3> QED BY <2>0, <2>3, <3>1 DEF NvInv, OriginalKept
    <2> QED BY <1>5, <2>1, <2>2, <2>3 DEF NvWrite
  <1>6. CASE NvCleanUp
    <2>1. /\ UNCHANGED <<version, area, torn, reread>> /\ nv' = NvIdle
          /\ torn # "no" => holds' = holds
      BY <1>6 DEF NvCleanUp
    <2> QED BY <1>0, <2>1 DEF NvInv, OriginalKept
  <1>7. CASE FirmwareSaves
    <2>1. PICK r \in FirmwareRecords[version] :
            area' = IF Len(area) < Capacity THEN Append(area, r) ELSE <<r>>
      BY <1>7 DEF FirmwareSaves
    <2>2. r \in Record
      <3>1. PICK e \in [dev : DevBytes, misc : MiscBytes, reserved : {0}, crc : {0}] :
              r = [e EXCEPT !.crc = FirmwareCrc(version, Bytes(version, e))]
        BY <2>1 DEF FirmwareRecords, NvInv
      <3>2. e \in Record
        <4>1. e.dev \in 0 .. 255 /\ e.misc \in 0 .. 255
          BY NvAssumption
        <4> QED BY <4>1 DEF Record, Octet
      <3>3. PICK s \in 0 .. 255 : s = FirmwareCrc(version, Bytes(version, e))
        BY <3>2, BytesTyped, SameChecksum DEF NvInv
      <3> QED BY <3>1, <3>2, <3>3 DEF Record, Octet
    <2>3. area' \in Seq(Record)
      BY <2>1, <2>2 DEF NvInv
    <2>4. nv = NvIdle /\ torn = "no" /\ UNCHANGED <<version, torn, nv>>
      BY <1>7 DEF FirmwareSaves
    <2> QED BY <1>0, <2>3, <2>4 DEF NvInv, OriginalKept
  <1>8. CASE UserRestores
    <2>0. << >> \in Seq(Record)
      OBVIOUS
    <2>1. area' \in Seq(Record)
      <3>1. area' = area \/ area' = << >>
        BY <1>8 DEF UserRestores
      <3> QED BY <2>0, <3>1 DEF NvInv
    <2>2. /\ nv = NvIdle /\ nv' = nv
          /\ torn' = "no" /\ version' = version
      BY <1>8 DEF UserRestores
    <2> QED BY <1>0, <2>1, <2>2 DEF NvInv, OriginalKept
  <1> QED BY <1>1, <1>2, <1>3, <1>4, <1>5, <1>6, <1>7, <1>8 DEF NvNext

(* In every reachable state.                                               *)
LEMMA NvInvariant == NvInit /\ [][NvNext]_nvVars => []NvInv
  <1>1. ASSUME NvInit PROVE NvInv
    <2>1. /\ NvIdle.pc = "idle"
          /\ NvIdle \in [pc : NvPc, ask : Ask, original : Seq(Record)]
      BY DEF NvIdle, Ask, Flag, NvPc
    <2>2. << >> \in Seq(Record)
      OBVIOUS
    <2>3. version \in {1, 2} /\ area = << >> /\ torn = "no" /\ nv = NvIdle
      BY <1>1 DEF NvInit
    <2> QED BY <2>1, <2>2, <2>3 DEF NvInv, OriginalKept
  <1>2. NvInv /\ UNCHANGED nvVars => NvInv'
    BY DEF NvInv, NewArea, Updated, OriginalKept, nvVars
  <1> QED BY <1>1, <1>2, NvStep, PTL

(* After a write that failed half way the work directory of that run holds *)
(* the flash as it was, whatever --rm says, until another run with the     *)
(* same --work-dir overwrites it; a directory of the tool's own is never   *)
(* overwritten.                                                            *)
THEOREM CopyIsKept == NvInit /\ [][NvNext]_nvVars => []OriginalKept
  <1>1. NvInv => OriginalKept
    BY DEF NvInv
  <1> QED BY <1>1, NvInvariant, PTL

(* What the tool has written is what the firmware will act on, for every   *)
(* value of the bytes of the record: the firmware accepts its checksum,    *)
(* the flags are as asked, and every other setting and record is as it     *)
(* was.                                                                    *)
THEOREM FlagsAreSet == NvInit /\ [][NvNext]_nvVars => []FlagsTakeEffect
  <1>1. ASSUME NvInv, nv.pc = "written"
        PROVE  LET new == Last(area)  old == Last(nv.original) IN
               /\ new.crc = FirmwareCrc(version, Bytes(version, new))
               /\ new.dev = WithBit(old.dev, EXTERNAL, nv.ask.usb)
               /\ new.misc = WithBit(old.misc, BOOT_ON_AC_DETECT, nv.ask.ac)
               /\ Front(area) = Front(nv.original)
    <2>1. PICK n : n = Len(nv.original)
      OBVIOUS
    <2>2. /\ n \in Nat \ {0} /\ nv.original[n] \in Record
          /\ area \in Seq(Record) /\ Len(area) = n
          /\ area[n] = Updated(nv.original[n], nv.ask)
          /\ \A i \in 1 .. n - 1 : area[i] = nv.original[i]
      BY <1>1, <2>1, NewAreaShape DEF NvInv
    <2>3. Last(area) = area[n] /\ Last(nv.original) = nv.original[n]
      BY <2>1, <2>2 DEF Last
    <2>4. Front(area) = Front(nv.original)
      <3>1. PICK s \in Seq(Record) : s = nv.original
        BY <1>1 DEF NvInv
      <3>2. Front(area) = SubSeq(area, 1, n - 1) /\ Front(s) = SubSeq(s, 1, n - 1)
        BY <2>1, <2>2, <3>1 DEF Front
      <3>3. SubSeq(area, 1, n - 1) = SubSeq(s, 1, n - 1)
        BY <2>1, <2>2, <3>1
      <3> QED BY <3>1, <3>2, <3>3
    <2>5. version \in {1, 2} /\ nv.ask \in Ask
      BY <1>1 DEF NvInv
    <2> QED BY <2>2, <2>3, <2>4, <2>5, UpdatedRecord
  <1>2. NvInv => FlagsTakeEffect
    BY <1>1 DEF FlagsTakeEffect
  <1> QED BY <1>2, NvInvariant, PTL

-----------------------------------------------------------------------------
(* LizardShell *)

(* A screen is a list of rows with their lengths; the position is left of  *)
(* the screen only until the end of the loop brings it back.               *)
BufferInv ==
    /\ width \in Int /\ height \in Int
    /\ screen \in Seq(Nat)
    /\ alt = None \/ alt \in Seq(Nat)
    /\ usingAlt \in BOOLEAN
    /\ usingAlt => alt # None
    /\ x \in Int /\ y \in Int
    /\ scr = [pc |-> scr.pc, c |-> scr.c]
    /\ scr.pc \in {"read", "handle", "sequence", "print", "advance", "scroll"}
       => x >= 0

(* The highlighted key, and what LizardTypeOK says of caps and shift.      *)
KeysInv ==
    /\ keyY \in 1 .. Len(Layout) /\ keyX \in 1 .. Len(Layout[keyY])
    /\ caps \in BOOLEAN /\ shift \in BOOLEAN
    /\ caps => shift

(* The terminal has one of the sizes, or does not fit the keyboard.        *)
TermInv ==
    /\ term \in Sizes \cup {TooSmall}
    /\ resizes \in Nat

(* All rows are there and as wide as the screen.                           *)
Full(s, w, h) == Len(s) = h /\ \A i \in 1 .. h : s[i] = w

(* Before the first look at the terminal.                                  *)
Unseen ==
    /\ width = -1 /\ height = -1 /\ screen = << >> /\ alt = None /\ ~usingAlt
    /\ x = 0 /\ y = 0 /\ scr.pc \in {"read", "over"}

(* After it: both screens have the terminal's size, and when the position  *)
(* is used it is on the screen or, after "go to row 0", a row above it.    *)
Seen ==
    /\ term = <<width, height>>
    /\ Full(screen, width, height)
    /\ alt # None => Full(alt, width, height)
    /\ y >= -1
    /\ scr.pc \in {"read", "handle", "sequence", "scroll"}
       => x < width /\ y < height
    /\ scr.pc # "index"

SteadyInv == Steady => Unseen \/ Seen
LizardInv == TermInv /\ BufferInv /\ SteadyInv

(* new_screen() and the rows that redraw_screen() adds.                    *)
LEMMA RowsShape ==
  ASSUME NEW n \in Int, NEW w \in Int
  PROVE  /\ Rows(n, w) \in Seq(Nat)
         /\ (n >= 0 => Len(Rows(n, w)) = n) /\ (n < 0 => Len(Rows(n, w)) = 0)
         /\ w >= 0 => \A i \in 1 .. Len(Rows(n, w)) : Rows(n, w)[i] = w
  BY DEF Rows

(* A slice from the start.                                                 *)
LEMMA UptoShape ==
  ASSUME NEW s \in Seq(Nat), NEW n \in Int
  PROVE  /\ Upto(s, n) \in Seq(Nat) /\ Len(Upto(s, n)) \in Nat
         /\ n >= 0 => Len(Upto(s, n)) <= n
  <1>1. PICK m \in Int : /\ m = IF n < 0 THEN Len(s) + n
                                ELSE IF n < Len(s) THEN n ELSE Len(s)
                         /\ m <= Len(s) /\ (n >= 0 => m <= n)
    OBVIOUS
  <1>2. Upto(s, n) = SubSeq(s, 1, m)
    BY <1>1 DEF Upto
  <1>3. /\ SubSeq(s, 1, m) \in Seq(Nat)
        /\ Len(SubSeq(s, 1, m)) = IF 1 <= m THEN m ELSE 0
    BY <1>1
  <1> QED BY <1>1, <1>2, <1>3

(* A slice to the end.                                                     *)
LEMMA FromShape ==
  ASSUME NEW s \in Seq(Nat), NEW n \in Nat
  PROVE  /\ From(s, n) \in Seq(Nat)
         /\ Len(From(s, n)) = IF n < Len(s) THEN Len(s) - n ELSE 0
         /\ \A i \in 1 .. Len(From(s, n)) : From(s, n)[i] = s[n + i]
  BY DEF From

(* redraw_screen() cuts and fills up to the size of the screen.            *)
LEMMA FittedShape ==
  ASSUME NEW s \in Seq(Nat), NEW w \in Int, NEW h \in Int
  PROVE  /\ Fitted(s, w, h) \in Seq(Nat)
         /\ w >= 0 /\ h >= 0 => Full(Fitted(s, w, h), w, h)
  <1>1. PICK n \in Nat : n = Len(Upto(s, h)) /\ (h >= 0 => n <= h)
    BY UptoShape
  <1>2. PICK a \in Seq(Nat) :
           /\ a = Rows(n, w) /\ Len(a) = n
           /\ w >= 0 => \A i \in 1 .. Len(a) : a[i] = w
    <2>1. n \in Int /\ n >= 0
      OBVIOUS
    <2> QED BY <2>1, RowsShape
  <1>3. PICK b \in Seq(Nat) :
           /\ b = Rows(h - n, w) /\ (h - n >= 0 => Len(b) = h - n)
           /\ w >= 0 => \A i \in 1 .. Len(b) : b[i] = w
    <2>1. PICK k \in Int : k = h - n
      OBVIOUS
    <2>2. /\ Rows(k, w) \in Seq(Nat)
          /\ k >= 0 => Len(Rows(k, w)) = k
          /\ w >= 0 => \A i \in 1 .. Len(Rows(k, w)) : Rows(k, w)[i] = w
      BY RowsShape
    <2> QED BY <2>1, <2>2
  <1>4. Fitted(s, w, h) = a \o b
    BY <1>1, <1>2, <1>3 DEF Fitted
  <1>5. a \o b \in Seq(Nat)
    BY <1>2, <1>3
  <1>6. ASSUME w >= 0, h >= 0 PROVE Full(a \o b, w, h)
    <2>0. Len(a) = n /\ Len(b) = h - n /\ n <= h
      BY <1>1, <1>2, <1>3, <1>6
    <2>1. Len(a \o b) = h
      <3>1. Len(a \o b) = Len(a) + Len(b)
        BY <1>2, <1>3, ConcatProperties
      <3> QED BY <2>0, <3>1
    <2>2. ASSUME NEW i \in 1 .. h PROVE (a \o b)[i] = w
      <3>1. CASE i <= Len(a)
        BY <1>2, <1>3, <1>6, <3>1
      <3>2. CASE i > Len(a)
        <4>1. i - Len(a) \in 1 .. Len(b)
          BY <1>1, <1>2, <1>3, <1>6, <3>2
        <4>2. (a \o b)[i] = b[i - Len(a)]
          BY <2>0, <2>1, <3>2
        <4> QED BY <1>3, <1>6, <4>1, <4>2
      <3> QED BY <2>0, <3>1, <3>2
    <2> QED BY <2>1, <2>2 DEF Full
  <1> QED BY <1>4, <1>5, <1>6

(* Scrolling by a row keeps the size.                                      *)
LEMMA ScrolledShape ==
  ASSUME NEW s \in Seq(Nat), NEW w \in Int
  PROVE  /\ From(s, 1) \o Rows(1, w) \in Seq(Nat)
         /\ \A h \in Nat \ {0} : w >= 0 /\ Full(s, w, h)
              => Full(From(s, 1) \o Rows(1, w), w, h)
  <1>1. PICK a \in Seq(Nat) :
           /\ a = From(s, 1)
           /\ 1 < Len(s) => Len(a) = Len(s) - 1
           /\ Len(s) <= 1 => Len(a) = 0
           /\ \A i \in 1 .. Len(a) : a[i] = s[1 + i]
    BY FromShape
  <1>2. PICK b \in Seq(Nat) : b = Rows(1, w) /\ Len(b) = 1 /\ (w >= 0 => b[1] = w)
    <2>1. PICK k \in Int : k = 1
      OBVIOUS
    <2>2. /\ Rows(k, w) \in Seq(Nat)
          /\ k >= 0 => Len(Rows(k, w)) = k
          /\ w >= 0 => \A i \in 1 .. Len(Rows(k, w)) : Rows(k, w)[i] = w
      BY RowsShape
    <2> QED BY <2>1, <2>2
  <1>3. a \o b \in Seq(Nat)
    BY <1>1, <1>2
  <1>4. ASSUME NEW h \in Nat \ {0}, w >= 0, Full(s, w, h) PROVE Full(a \o b, w, h)
    <2>1. Len(s) = h /\ \A i \in 1 .. h : s[i] = w
      BY <1>4 DEF Full
    <2>0. Len(a) = h - 1 /\ Len(b) = 1
      BY <1>1, <1>2, <1>4, <2>1
    <2>2. Len(a) = h - 1 /\ Len(a \o b) = h
      <3>1. Len(a \o b) = Len(a) + Len(b)
        BY <1>1, <1>2, ConcatProperties
      <3> QED BY <2>0, <3>1
    <2>3. ASSUME NEW i \in 1 .. h PROVE (a \o b)[i] = w
      <3>1. CASE i <= Len(a)
        <4>1. (a \o b)[i] = a[i] /\ a[i] = s[1 + i] /\ 1 + i \in 1 .. h
          BY <1>1, <1>2, <2>2, <3>1
        <4> QED BY <2>1, <4>1
      <3>2. CASE i > Len(a)
        BY <1>1, <1>2, <1>4, <2>2, <3>2
      <3> QED BY <1>1, <2>2, <3>1, <3>2
    <2> QED BY <2>2, <2>3 DEF Full
  <1> QED BY <1>1, <1>2, <1>3, <1>4

(* A position on the screen, or in the row above the first, has its cell.  *)
LEMMA CellThere ==
  ASSUME NEW s \in Seq(Nat), NEW w \in Nat, NEW h \in Nat \ {0}, Full(s, w, h),
         NEW i \in Int, i < w, NEW j \in Int, -1 <= j, j < h
  PROVE  /\ HasCell(s, i, j) /\ RowOf(s, j) \in 1 .. h /\ s[RowOf(s, j)] = w
         /\ DOMAIN s = 1 .. h
  <1>1. Len(s) = h /\ DOMAIN s = 1 .. h /\ \A k \in 1 .. h : s[k] = w
    BY LenProperties DEF Full
  <1>2. RowOf(s, j) \in 1 .. h
    BY <1>1 DEF RowOf
  <1> QED BY <1>1, <1>2 DEF HasCell

(* The size of a terminal that the keyboard fits in.                       *)
LEMMA TermSize ==
  ASSUME TermInv, term # TooSmall
  PROVE  /\ term = <<term[1], term[2]>>
         /\ term[1] \in Nat \ {0} /\ term[2] \in Nat \ {0}
  BY LizardAssumption DEF TermInv

(* Once it was looked at, the screen has the terminal's size.              *)
LEMMA SeenSize ==
  ASSUME TermInv, Steady, Seen
  PROVE  width \in Nat \ {0} /\ height \in Nat \ {0}
  BY TermSize DEF Steady, Seen

(* What an edit of scr.pc does.                                            *)
LEMMA GotoPc ==
  ASSUME BufferInv, NEW l, ScrGoto(l)
  PROVE  scr' = [pc |-> l, c |-> scr.c]
  BY DEF ScrGoto, BufferInv

(* redraw_if_terminal_resized() with a screen to show.                     *)
LEMMA LookShape ==
  ASSUME TermInv, BufferInv, NEW s \in Seq(Nat), RedrawIfResized(s)
  PROVE  /\ width' \in Int /\ height' \in Int /\ screen' \in Seq(Nat)
         /\ Resized => /\ term = <<width', height'>>
                       /\ width' \in Nat \ {0} /\ height' \in Nat \ {0}
                       /\ Full(screen', width', height')
         /\ ~Resized => width' = width /\ height' = height /\ screen' = s
  <1>1. CASE Resized
    <2>1. /\ width' = term[1] /\ height' = term[2]
          /\ screen' = Fitted(s, term[1], term[2])
      BY <1>1 DEF RedrawIfResized
    <2>2. PICK w \in Nat \ {0}, h \in Nat \ {0} : term = <<w, h>>
      BY <1>1, TermSize DEF Resized
    <2>3. Fitted(s, w, h) \in Seq(Nat) /\ Full(Fitted(s, w, h), w, h)
      <3>1. w \in Int /\ h \in Int /\ w >= 0 /\ h >= 0
        OBVIOUS
      <3> QED BY <3>1, FittedShape
    <2> QED BY <1>1, <2>1, <2>2, <2>3
  <1>2. CASE ~Resized
    BY <1>2 DEF RedrawIfResized, BufferInv
  <1> QED BY <1>1, <1>2

(* The variables the invariant is about.                                   *)
viewed == <<tty, buffer, pos, scr>>

(* Steps that leave terminal, screens, position and screen thread alone.   *)
LEMMA LizardStill ==
  ASSUME LizardInv, UNCHANGED viewed
  PROVE  LizardInv'
  BY DEF LizardInv, TermInv, BufferInv, SteadyInv, Steady, Unseen, Seen, Full,
         viewed, tty, buffer, pos

(* A resize ends the steady terminal.                                      *)
LEMMA LizardResizes ==
  ASSUME LizardInv, NEW s \in Sizes \cup {TooSmall}, ResizeTerminal(s)
  PROVE  LizardInv'
  BY DEF LizardInv, TermInv, BufferInv, SteadyInv, Steady, ResizeTerminal,
         buffer, pos

(* The first look at the terminal, and every later one, by either thread.  *)
LEMMA LizardLooks ==
  ASSUME LizardInv, RedrawIfResized(screen), UNCHANGED <<tty, alt, usingAlt, pos>>,
         \/ UNCHANGED scr
         \/ scr.pc = "read" /\ ScrGoto("handle")
  PROVE  LizardInv'
  <1> USE DEF LizardInv
  <1>0. /\ width' \in Int /\ height' \in Int /\ screen' \in Seq(Nat)
        /\ Resized => /\ term = <<width', height'>>
                      /\ width' \in Nat \ {0} /\ height' \in Nat \ {0}
                      /\ Full(screen', width', height')
        /\ ~Resized => width' = width /\ height' = height /\ screen' = screen
    BY LookShape DEF BufferInv
  <1>1. TermInv'
    BY DEF TermInv, tty
  <1>2. /\ scr' = [pc |-> scr'.pc, c |-> scr'.c]
        /\ scr'.pc = scr.pc \/ (scr.pc = "read" /\ scr'.pc = "handle")
    BY GotoPc DEF BufferInv
  <1>3. BufferInv'
    BY <1>0, <1>2 DEF BufferInv, pos
  <1>4. ASSUME Steady' PROVE Unseen' \/ Seen'
    <2>1. Steady
      BY <1>4 DEF Steady, tty
    <2>2. CASE Unseen
      <3>1. Resized
        BY <2>1, <2>2, TermSize DEF Unseen, Resized, Steady
      <3>2. x' = 0 /\ y' = 0 /\ alt' = None /\ term' = term
        BY <2>2 DEF Unseen, pos, tty
      <3>3. Full(screen, width, height)' /\ (term = <<width, height>>)'
        BY <1>0, <3>1, <3>2 DEF Full
      <3>4. scr'.pc # "index"
        BY <1>2, <2>2 DEF Unseen
      <3> QED BY <1>0, <3>1, <3>2, <3>3, <3>4 DEF Seen
    <2>3. CASE Seen
      <3>1. ~Resized
        BY <2>1, <2>3 DEF Seen, Resized
      <3> QED BY <1>0, <1>2, <2>3, <3>1 DEF Seen, Full, pos, tty
    <2> QED BY <2>1, <2>2, <2>3 DEF SteadyInv
  <1> QED BY <1>1, <1>3, <1>4 DEF SteadyInv

(* A move of the position within the loop, before it is brought back.      *)
LEMMA LizardMoves ==
  ASSUME LizardInv, UNCHANGED <<tty, buffer>>, x' \in Int, y' \in Int,
         Steady => (y >= -1 => y' >= -1),
         ScrGoto("norm"), scr.pc \in {"handle", "sequence", "advance"}
  PROVE  LizardInv'
  <1> USE DEF LizardInv
  <1>1. scr' = [pc |-> "norm", c |-> scr.c]
    BY GotoPc
  <1>2. TermInv' /\ BufferInv'
    BY <1>1 DEF TermInv, BufferInv, tty, buffer
  <1>3. SteadyInv'
    BY <1>1 DEF SteadyInv, Steady, Unseen, Seen, Full, tty, buffer
  <1> QED BY <1>2, <1>3

(* Steps of the screen thread that leave screen and position.              *)
LEMMA LizardSteps ==
  ASSUME LizardInv, UNCHANGED <<tty, buffer, pos>>, NEW l, NEW c,
         scr' = [pc |-> l, c |-> c],
         \/ l = "over"
         \/ scr.pc = "handle" /\ l \in {"print", "sequence"}
         \/ scr.pc = "print" /\ l = "advance"
         \/ scr.pc = "sequence" /\ l \in {"norm", "value"}
         \/ l = "index" /\ ~Steady
  PROVE  LizardInv'
  <1> USE DEF LizardInv
  <1>1. TermInv' /\ BufferInv'
    BY DEF TermInv, BufferInv, tty, buffer, pos
  <1>2. ASSUME Steady' PROVE Unseen' \/ Seen'
    <2>1. Steady /\ l # "index"
      BY <1>2 DEF Steady, tty
    <2>2. CASE Unseen
      BY <2>1, <2>2 DEF Unseen, Seen, tty, buffer, pos
    <2>3. CASE Seen
      BY <2>1, <2>3 DEF Seen, Full, tty, buffer, pos
    <2> QED BY <2>1, <2>2, <2>3 DEF SteadyInv
  <1> QED BY <1>1, <1>2 DEF SteadyInv

(* In a steady terminal the next character and the next escape sequence    *)
(* find their cells.                                                       *)
LEMMA SteadyCell ==
  ASSUME LizardInv, Steady, scr.pc \in {"handle", "sequence"}
  PROVE  /\ width \in Nat \ {0} /\ height \in Nat \ {0}
         /\ Seen /\ x \in Nat /\ x < width
         /\ RowOf(screen, y) \in DOMAIN screen
         /\ screen[RowOf(screen, y)] = width
         /\ \A i \in Int : i < width => HasCell(screen, i, y)
  <1> USE DEF LizardInv
  <1>1. Seen
    BY DEF SteadyInv, Unseen
  <1>2. width \in Nat \ {0} /\ height \in Nat \ {0}
    BY <1>1, SeenSize
  <1>3. x \in Nat /\ x < width /\ y \in Int /\ y < height /\ -1 <= y
    BY <1>1 DEF Seen, BufferInv
  <1>4. Full(screen, width, height) /\ screen \in Seq(Nat)
    BY <1>1 DEF Seen, BufferInv
  <1>5. ASSUME NEW i \in Int, i < width
        PROVE  /\ HasCell(screen, i, y) /\ RowOf(screen, y) \in 1 .. height
               /\ screen[RowOf(screen, y)] = width
               /\ DOMAIN screen = 1 .. height
    BY <1>2, <1>3, <1>4, <1>5, CellThere
  <1>6. x \in Int
    BY <1>3
  <1> QED BY <1>1, <1>2, <1>3, <1>5, <1>6

(* The end of the loop brings the position back.                           *)
LEMMA LizardNormalises ==
  ASSUME LizardInv, ScrNormalise
  PROVE  LizardInv'
  <1> USE DEF LizardInv
  <1>0. /\ width \in Int /\ height \in Int /\ screen \in Seq(Nat)
        /\ x \in Int /\ y \in Int
    BY DEF BufferInv
  <1>1. /\ UNCHANGED <<term, resizes, width, height, alt, usingAlt>>
        /\ scr.pc = "norm"
        /\ x' = NormX
    BY DEF ScrNormalise, ScrAt, others, tty
  <1>2. /\ NormX \in Nat /\ NormY \in Int
        /\ width >= 1 => NormX < width
        /\ y >= -1 => NormY >= -1
    BY <1>0 DEF NormX, NormY
  <1>3. TermInv'
    BY <1>1 DEF TermInv
  <1>4. CASE NormY >= height
    <2>1. /\ y' = height - 1
          /\ screen' = From(screen, 1) \o Rows(1, width)
          /\ scr' = [pc |-> "scroll", c |-> scr.c]
      BY <1>4, GotoPc DEF ScrNormalise
    <2>2. screen' \in Seq(Nat)
      BY <1>0, <2>1, ScrolledShape
    <2>3. BufferInv'
      BY <1>0, <1>1, <1>2, <2>1, <2>2 DEF BufferInv
    <2>4. ASSUME Steady' PROVE Seen'
      <3>1. Steady
        BY <1>1, <2>4 DEF Steady
      <3>2. Seen
        BY <1>1, <3>1 DEF SteadyInv, Unseen
      <3>3. width \in Nat \ {0} /\ height \in Nat \ {0}
        BY <3>1, <3>2, SeenSize
      <3>4. Full(screen, width, height)
        BY <3>2 DEF Seen
      <3>5. Full(From(screen, 1) \o Rows(1, width), width, height)
        BY <1>0, <3>3, <3>4, ScrolledShape
      <3>6. Full(screen, width, height)'
        BY <1>1, <2>1, <3>5 DEF Full
      <3> QED BY <1>1, <1>2, <2>1, <3>2, <3>3, <3>6 DEF Seen, Full
    <2> QED BY <1>3, <2>3, <2>4 DEF SteadyInv
  <1>5. CASE ~(NormY >= height)
    <2>1. /\ y' = NormY /\ screen' = screen
          /\ scr' = [pc |-> "read", c |-> None]
      BY <1>5 DEF ScrNormalise
    <2>3. BufferInv'
      BY <1>0, <1>1, <1>2, <2>1 DEF BufferInv
    <2>4. ASSUME Steady' PROVE Seen'
      <3>1. Steady
        BY <1>1, <2>4 DEF Steady
      <3>2. Seen
        BY <1>1, <3>1 DEF SteadyInv, Unseen
      <3>3. width \in Nat \ {0} /\ height \in Nat \ {0}
        BY <3>1, <3>2, SeenSize
      <3> QED BY <1>0, <1>1, <1>2, <1>5, <2>1, <3>2, <3>3 DEF Seen, Full
    <2> QED BY <1>3, <2>3, <2>4 DEF SteadyInv
  <1> QED BY <1>4, <1>5

(* redraw_screen() with any rows.                                          *)
LEMMA LizardRedraws ==
  ASSUME LizardInv, NEW s \in Seq(Nat), Redraw(s, width, height),
         UNCHANGED <<tty, width, height, alt, usingAlt, pos>>, NEW l, NEW c,
         scr' = [pc |-> l, c |-> c],
         (scr.pc = "scroll" /\ l = "read") \/ (scr.pc = "sequence" /\ l = "norm")
  PROVE  LizardInv'
  <1> USE DEF LizardInv
  <1>1. screen' = Fitted(s, width, height)
    BY DEF Redraw
  <1>2. width \in Int /\ height \in Int
    BY DEF BufferInv
  <1>3. /\ screen' \in Seq(Nat)
        /\ width >= 0 /\ height >= 0 => Full(screen', width, height)
    BY <1>1, <1>2, FittedShape
  <1>4. TermInv' /\ BufferInv'
    BY <1>3 DEF TermInv, BufferInv, tty, pos
  <1>5. ASSUME Steady' PROVE Seen'
    <2>1. Steady
      BY <1>5 DEF Steady, tty
    <2>2. Seen
      BY <2>1 DEF SteadyInv, Unseen
    <2>3. width \in Nat \ {0} /\ height \in Nat \ {0}
      BY <2>1, <2>2, SeenSize
    <2> QED BY <1>3, <2>2, <2>3 DEF Seen, Full, tty, pos
  <1> QED BY <1>4, <1>5 DEF SteadyInv

(* The steps of screen_worker() outside of escape sequences.               *)
LEMMA LizardScreen ==
  ASSUME LizardInv, ScreenThread
  PROVE  LizardInv'
  <1>0. BufferInv /\ x \in Int /\ y \in Int
    BY DEF LizardInv, BufferInv
  <1>1. CASE ScrOver
    BY <1>1, LizardSteps DEF ScrOver, Dies, others
  <1>2. CASE ScrBackspace
    <2>1. CASE HasCell(screen, x, y)
      <3>1. /\ UNCHANGED <<tty, buffer>> /\ x' = x - 1 /\ y' = y
            /\ ScrGoto("norm") /\ scr.pc = "handle"
        BY <1>2, <2>1 DEF ScrBackspace, ScrAt, others
      <3>2. x' \in Int /\ y' \in Int
        BY <1>0, <3>1
      <3> QED BY <3>1, <3>2, LizardMoves
    <2>2. CASE ~HasCell(screen, x, y)
      <3>1. /\ UNCHANGED <<tty, buffer, pos>>
            /\ scr' = [pc |-> "index", c |-> None] /\ scr.pc = "handle"
        BY <1>2, <2>2 DEF ScrBackspace, ScrAt, Dies, others, pos
      <3>2. ~Steady
        BY <2>2, <3>1, SteadyCell
      <3> QED BY <3>1, <3>2, LizardSteps
    <2> QED BY <2>1, <2>2
  <1>3. CASE ScrPrint
    <2>1. /\ UNCHANGED <<tty, buffer, pos>> /\ scr.pc = "print"
          /\ scr' = [pc |-> "advance", c |-> scr.c]
      BY <1>0, <1>3, GotoPc DEF ScrPrint, ScrAt, others
    <2> QED BY <2>1, LizardSteps
  <1>4. CASE ScrAdvance
    <2>1. /\ UNCHANGED <<tty, buffer>> /\ x' = x + 1 /\ y' = y
          /\ ScrGoto("norm") /\ scr.pc = "advance"
      BY <1>4 DEF ScrAdvance, ScrAt, others
    <2>2. x' \in Int /\ y' \in Int
      BY <1>0, <2>1
    <2> QED BY <2>1, <2>2, LizardMoves
  <1>5. CASE ScrNormalise
    BY <1>5, LizardNormalises
  <1>6. CASE ScrScroll
    <2>1. /\ UNCHANGED <<tty, width, height, alt, usingAlt, pos>>
          /\ Redraw(screen, width, height) /\ scr.pc = "scroll"
          /\ scr' = [pc |-> "read", c |-> None]
      BY <1>6 DEF ScrScroll, ScrAt, others
    <2>2. screen \in Seq(Nat)
      BY <1>0 DEF BufferInv
    <2> QED BY <2>1, <2>2, LizardRedraws
  <1>7. CASE ScrEscape
    <2>1. /\ UNCHANGED <<tty, buffer, pos>> /\ scr.pc = "handle"
          /\ scr' = [pc |-> "sequence", c |-> scr.c]
      BY <1>0, <1>7, GotoPc DEF ScrEscape, ScrAt, others
    <2> QED BY <2>1, LizardSteps
  <1>8. ASSUME NEW c \in Char, ScrPlain(c) PROVE LizardInv'
    <2>1. /\ UNCHANGED <<tty, buffer>>
          /\ x' = x \/ x' = 0
          /\ y' = y \/ y' = y + 1
          /\ ScrGoto("norm") /\ scr.pc = "handle"
      BY <1>8 DEF ScrPlain, ScrAt, others
    <2>2. x' \in Int /\ y' \in Int /\ (y >= -1 => y' >= -1)
      BY <1>0, <2>1
    <2> QED BY <2>1, <2>2, LizardMoves
  <1>9. ASSUME NEW c \in Char, ScrCell(c) PROVE LizardInv'
    <2>1. UNCHANGED <<tty, buffer, pos>> /\ scr.pc = "handle"
      BY <1>9 DEF ScrCell, ScrAt, others
    <2>2. CASE HasCell(screen, x, y)
      <3>1. scr' = [pc |-> "print", c |-> c]
        BY <1>9, <2>2 DEF ScrCell
      <3> QED BY <2>1, <3>1, LizardSteps
    <2>3. CASE ~HasCell(screen, x, y)
      <3>1. scr' = [pc |-> "index", c |-> None]
        BY <1>9, <2>3 DEF ScrCell, Dies
      <3>2. ~Steady
        BY <2>1, <2>3, SteadyCell
      <3> QED BY <2>1, <3>1, <3>2, LizardSteps
    <2> QED BY <2>2, <2>3
  <1> QED
    BY <1>1, <1>2, <1>3, <1>4, <1>5, <1>6, <1>7, <1>8, <1>9 DEF ScreenThread

(* "erase to the end of the line" gives the row its full width again.      *)
LEMMA LizardErases ==
  ASSUME LizardInv, scr.pc = "sequence", EraseLine, UNCHANGED tty
  PROVE  LizardInv'
  <1> USE DEF LizardInv
  <1>0. /\ screen \in Seq(Nat) /\ x \in Nat /\ width \in Int
        /\ DOMAIN screen = 1 .. Len(screen) /\ Len(screen) \in Nat
    BY LenProperties DEF BufferInv
  <1>1. CASE RowOf(screen, y) \in DOMAIN screen
    <2>1. PICK r \in 1 .. Len(screen) : r = RowOf(screen, y)
      BY <1>0, <1>1
    <2>2. PICK v \in Nat :
             /\ screen' = [screen EXCEPT ![r] = v]
             /\ x < width /\ x < screen[r] => v = width
      <3>1. screen[r] \in Nat
        BY <1>0, <2>1, ElementOfSeq
      <3>2. PICK u \in Nat : u = (IF x < screen[r] THEN x ELSE screen[r])
        BY <1>0, <3>1
      <3>3. PICK k \in Nat : k = (IF x < width THEN width - x ELSE 0)
        <4>1. CASE x < width
          <5>1. width - x \in Nat
            BY <1>0, <4>1
          <5> QED BY <4>1, <5>1
        <4>2. CASE ~(x < width)
          BY <4>2
        <4> QED BY <4>1, <4>2
      <3>4. screen' = [screen EXCEPT ![r] = u + k]
        BY <1>1, <2>1, <3>2, <3>3 DEF EraseLine
      <3>5. x < width /\ x < screen[r] => u + k = width
        BY <1>0, <3>1, <3>2, <3>3
      <3>6. u + k \in Nat
        BY <3>2, <3>3
      <3> QED BY <3>4, <3>5, <3>6
    <2>3. /\ screen' \in Seq(Nat) /\ Len(screen') = Len(screen)
          /\ screen'[r] = v
          /\ \A j \in 1 .. Len(screen) : j # r => screen'[j] = screen[j]
      BY <1>0, <2>1, <2>2, ExceptSeq
    <2>4. /\ UNCHANGED <<term, resizes, width, height, alt, usingAlt, x, y>>
          /\ scr' = [pc |-> "norm", c |-> scr.c]
      BY <1>1, GotoPc DEF EraseLine, pos, tty
    <2>5. TermInv' /\ BufferInv'
      BY <2>3, <2>4 DEF TermInv, BufferInv
    <2>6. ASSUME Steady' PROVE Seen'
      <3>1. Steady
        BY <2>4, <2>6 DEF Steady
      <3>2. Seen /\ x < width /\ screen[r] = width /\ height \in Nat
        BY <2>1, <3>1, SteadyCell
      <3>3. v = width
        BY <2>2, <3>2
      <3>4. Len(screen) = height /\ \A i \in 1 .. height : screen[i] = width
        BY <3>2 DEF Seen, Full
      <3>5. Len(screen') = height /\ \A i \in 1 .. height : screen'[i] = width
        BY <2>3, <3>3, <3>4
      <3> QED BY <2>4, <3>2, <3>5 DEF Seen, Full
    <2> QED BY <2>5, <2>6 DEF SteadyInv
  <1>2. CASE RowOf(screen, y) \notin DOMAIN screen
    <2>1. /\ UNCHANGED <<tty, buffer, pos>>
          /\ scr' = [pc |-> "index", c |-> None]
      BY <1>2 DEF EraseLine, Dies, buffer
    <2>2. ~Steady
      BY <1>2, SteadyCell
    <2> QED BY <2>1, <2>2, LizardSteps
  <1> QED BY <1>1, <1>2

(* The swap of the two screens.                                            *)
LEMMA LizardSwaps ==
  ASSUME LizardInv, scr.pc = "sequence", NEW on \in BOOLEAN, SwapScreens(on),
         UNCHANGED tty
  PROVE  LizardInv'
  <1> USE DEF LizardInv
  <1>0. /\ width \in Int /\ height \in Int /\ screen \in Seq(Nat)
        /\ alt = None \/ alt \in Seq(Nat)
        /\ None \notin Seq(Nat)
    BY LizardAssumption DEF BufferInv
  <1>1. /\ UNCHANGED <<term, resizes, x, y>> /\ usingAlt' = on
        /\ scr' = [pc |-> "norm", c |-> scr.c]
    BY GotoPc DEF SwapScreens, pos, tty
  <1>2. PICK made :
           /\ made = IF on /\ alt = None THEN Rows(height, width) ELSE alt
           /\ on # usingAlt => RedrawIfResized(made) /\ alt' = screen
           /\ on = usingAlt => /\ \/ on /\ RedrawIfResized(screen)
                                  \/ ~on /\ UNCHANGED <<width, height, screen>>
                               /\ alt' = made
    BY DEF SwapScreens
  <1>3. made = None \/ made \in Seq(Nat)
    <2>1. Rows(height, width) \in Seq(Nat)
      BY <1>0, RowsShape
    <2> QED BY <1>0, <1>2, <2>1
  <1>4. on => made \in Seq(Nat)
    <2>1. Rows(height, width) \in Seq(Nat)
      BY <1>0, RowsShape
    <2> QED BY <1>0, <1>2, <2>1
  <1>5. on # usingAlt => made \in Seq(Nat)
    <2>1. usingAlt \in BOOLEAN /\ (usingAlt => alt # None)
      BY DEF BufferInv
    <2>2. ~on => made = alt
      BY <1>2
    <2> QED BY <1>0, <1>4, <2>1, <2>2
  <1>6. TermInv'
    BY <1>1 DEF TermInv
  <1>7. /\ width' \in Int /\ height' \in Int /\ screen' \in Seq(Nat)
        /\ alt' = None \/ alt' \in Seq(Nat)
        /\ on => alt' # None
    <2>1. CASE on # usingAlt
      <3>1. made \in Seq(Nat) /\ RedrawIfResized(made) /\ alt' = screen
        BY <1>2, <1>5, <2>1
      <3>2. width' \in Int /\ height' \in Int /\ screen' \in Seq(Nat)
        BY <3>1, LookShape
      <3> QED BY <1>0, <3>1, <3>2
    <2>2. CASE on = usingAlt
      <3>1. alt' = made
        BY <1>2, <2>2
      <3>2. CASE on
        <4>1. RedrawIfResized(screen)
          BY <1>2, <2>2, <3>2
        <4>2. width' \in Int /\ height' \in Int /\ screen' \in Seq(Nat)
          BY <1>0, <4>1, LookShape
        <4> QED BY <1>0, <1>4, <3>1, <3>2, <4>2
      <3>3. CASE ~on
        BY <1>0, <1>2, <1>3, <2>2, <3>1, <3>3
      <3> QED BY <3>2, <3>3
    <2> QED BY <2>1, <2>2
  <1>8. BufferInv'
    BY <1>1, <1>7 DEF BufferInv
  <1>9. ASSUME Steady' PROVE Seen'
    <2>1. Steady
      BY <1>1, <1>9 DEF Steady
    <2>2. Seen /\ width \in Nat \ {0} /\ height \in Nat \ {0}
      BY <2>1, SteadyCell
    <2>3. ~Resized
      BY <2>2 DEF Seen, Resized
    <2>4. Full(screen, width, height) /\ (alt # None => Full(alt, width, height))
      BY <2>2 DEF Seen
    <2>5. Full(Rows(height, width), width, height)
      <3>1. /\ Len(Rows(height, width)) = height
            /\ \A i \in 1 .. Len(Rows(height, width)) : Rows(height, width)[i] = width
        <4>1. height \in Int /\ width \in Int /\ height >= 0 /\ width >= 0
          BY <2>2
        <4> QED BY <4>1, RowsShape
      <3> QED BY <3>1 DEF Full
    <2>6. made # None => Full(made, width, height)
      BY <1>2, <2>4, <2>5
    <2>7. /\ width' = width /\ height' = height
          /\ (screen' = screen /\ alt' = made)
             \/ (screen' = made /\ alt' = screen /\ made # None)
      <3>1. CASE on # usingAlt
        <4>1. made \in Seq(Nat) /\ RedrawIfResized(made) /\ alt' = screen
          BY <1>2, <1>5, <3>1
        <4> QED BY <1>0, <2>3, <4>1 DEF RedrawIfResized
      <3>2. CASE on = usingAlt
        <4>1. alt' = made
          BY <1>2, <3>2
        <4>2. RedrawIfResized(screen) \/ UNCHANGED <<width, height, screen>>
          BY <1>2, <3>2
        <4> QED BY <2>3, <4>1, <4>2 DEF RedrawIfResized
      <3> QED BY <3>1, <3>2
    <2>8. Full(screen', width, height) /\ (alt' # None => Full(alt', width, height))
      BY <2>4, <2>6, <2>7
    <2> QED BY <1>1, <2>2, <2>7, <2>8 DEF Seen, Full
  <1> QED BY <1>6, <1>8, <1>9 DEF SteadyInv

(* The position after a sequence that sets it.                             *)
LEMMA TargetInt ==
  ASSUME x \in Int, y \in Int, height \in Int, NEW cmd \in Positioning,
         NEW n \in Nat, NEW m \in Nat
  PROVE  /\ Target(cmd, n, m)[1] \in Int /\ Target(cmd, n, m)[2] \in Int
         /\ height >= 0 /\ y >= -1 => Target(cmd, n, m)[2] >= -1
  <1>1. CASE cmd = "G"
    BY <1>1 DEF Target
  <1>2. CASE cmd = "d"
    BY <1>2 DEF Target
  <1>3. CASE cmd = "H"
    BY <1>3 DEF Target
  <1>4. CASE cmd = "C"
    BY <1>4 DEF Target
  <1>5. CASE cmd = "A"
    BY <1>5 DEF Target
  <1>6. CASE cmd = "B"
    BY <1>6 DEF Target
  <1>7. CASE cmd = "D"
    BY <1>7 DEF Target
  <1>8. CASE cmd = "r"
    BY <1>8 DEF Target
  <1> QED BY <1>1, <1>2, <1>3, <1>4, <1>5, <1>6, <1>7, <1>8 DEF Positioning

(* The numbers in an escape sequence.                                      *)
LEMMA ItemNumbers ==
  ASSUME NEW i \in Sequence
  PROVE  i.n \in Nat /\ i.m \in Nat
  <1>1. \A k \in N : k \in Nat
    BY LizardAssumption DEF N
  <1>2. CASE i \in {Item(cmd, n, 0) : cmd \in Counted, n \in N}
    BY <1>1, <1>2 DEF Item
  <1>3. CASE i \in {Item("H", n, m) : n, m \in N}
    BY <1>1, <1>3 DEF Item
  <1>4. CASE i \in {Item(cmd, 0, 0) : cmd \in Uncounted}
    BY <1>4 DEF Item
  <1> QED BY <1>2, <1>3, <1>4 DEF Sequence

(* Every escape sequence.                                                  *)
LEMMA LizardSequence ==
  ASSUME LizardInv, NEW i \in Sequence, ScrSequence(i)
  PROVE  LizardInv'
  <1>0. /\ scr.pc = "sequence" /\ UNCHANGED tty
        /\ BufferInv /\ x \in Int /\ y \in Int /\ height \in Int /\ width \in Int
        /\ screen \in Seq(Nat)
    BY DEF LizardInv, BufferInv, ScrSequence, ScrAt, others
  <1>1. PICK cmd, n, m : n \in Nat /\ m \in Nat /\ Apply(cmd, n, m)
    <2>1. i.n \in Nat /\ i.m \in Nat
      BY ItemNumbers
    <2>2. Apply(i.cmd, i.n, i.m)
      BY DEF ScrSequence
    <2> QED BY <2>1, <2>2
  <1>2. CASE Position(cmd, n, m)
    <2>1. /\ UNCHANGED <<tty, buffer>> /\ ScrGoto("norm")
          /\ x' = Target(cmd, n, m)[1] /\ y' = Target(cmd, n, m)[2]
          /\ cmd \in Positioning
      BY <1>0, <1>2 DEF Position
    <2>2. /\ x' \in Int /\ y' \in Int
          /\ height >= 0 /\ y >= -1 => y' >= -1
      BY <1>0, <1>1, <2>1, TargetInt
    <2>3. Steady => (y >= -1 => y' >= -1)
      BY <1>0, <2>2, SteadyCell
    <2> QED BY <1>0, <2>1, <2>2, <2>3, LizardMoves
  <1>3. CASE EraseLine
    BY <1>0, <1>3, LizardErases
  <1>4. CASE cmd \in {"1K", "X"} /\ EraseCells(cmd)
    <2>1. PICK cells :
             /\ cells = IF cmd = "1K" THEN 0 .. (x - 1) ELSE x .. (width - 1)
             /\ (\A k \in cells : HasCell(screen, k, y)) => ScrGoto("norm")
             /\ ~(\A k \in cells : HasCell(screen, k, y)) => Dies("index")
             /\ UNCHANGED <<buffer, pos>>
      BY <1>4 DEF EraseCells
    <2>2. CASE \A k \in cells : HasCell(screen, k, y)
      <3>1. scr' = [pc |-> "norm", c |-> scr.c]
        BY <1>0, <2>1, <2>2, GotoPc
      <3> QED BY <1>0, <2>1, <3>1, LizardSteps
    <2>3. CASE ~(\A k \in cells : HasCell(screen, k, y))
      <3>1. scr' = [pc |-> "index", c |-> None]
        BY <2>1, <2>3 DEF Dies
      <3>2. ~Steady
        <4>1. SUFFICES ASSUME Steady PROVE FALSE
          OBVIOUS
        <4>2. x < width /\ \A k \in Int : k < width => HasCell(screen, k, y)
          BY <1>0, <4>1, SteadyCell
        <4>3. \A k \in cells : k \in Int /\ k < width
          BY <1>0, <2>1, <4>2
        <4> QED BY <2>3, <4>2, <4>3
      <3> QED BY <1>0, <2>1, <3>1, <3>2, LizardSteps
    <2> QED BY <2>2, <2>3
  <1>5. CASE cmd \in {"J", "2J", "S"} /\ EraseScreen(cmd, n)
    <2>1. PICK s \in Seq(Nat) : Redraw(s, width, height)
      <3>1. Upto(screen, y) \in Seq(Nat) /\ Rows(height, width) \in Seq(Nat)
        BY <1>0, UptoShape, RowsShape
      <3>2. From(screen, n) \o Rows(n, width) \in Seq(Nat)
        <4>1. From(screen, n) \in Seq(Nat)
          BY <1>0, <1>1, FromShape
        <4>2. Rows(n, width) \in Seq(Nat)
          <5>1. n \in Int
            BY <1>1
          <5> QED BY <1>0, <5>1, RowsShape
        <4> QED BY <4>1, <4>2, ConcatProperties
      <3>3. CASE cmd = "J"
        BY <1>5, <3>1, <3>3 DEF EraseScreen
      <3>4. CASE cmd = "2J"
        BY <1>5, <3>1, <3>4 DEF EraseScreen
      <3>5. CASE cmd = "S"
        BY <1>5, <3>2, <3>5 DEF EraseScreen
      <3> QED BY <1>5, <3>3, <3>4, <3>5
    <2>2. /\ UNCHANGED <<width, height, alt, usingAlt, pos>>
          /\ scr' = [pc |-> "norm", c |-> scr.c]
      BY <1>0, <1>5, GotoPc DEF EraseScreen
    <2> QED BY <1>0, <2>1, <2>2, LizardRedraws
  <1>6. CASE DeleteChars(n)
    <2>1. UNCHANGED <<buffer, pos>> /\ scr' = [pc |-> "norm", c |-> scr.c]
      BY <1>0, <1>6, GotoPc DEF DeleteChars
    <2> QED BY <1>0, <2>1, LizardSteps
  <1>7. CASE SwapScreens(cmd = "alt on")
    <2>1. PICK on \in BOOLEAN : SwapScreens(on)
      BY <1>7
    <2> QED BY <1>0, <2>1, LizardSwaps
  <1>8. CASE ScrGoto("norm") /\ UNCHANGED <<buffer, pos>>
    <2>1. scr' = [pc |-> "norm", c |-> scr.c]
      BY <1>0, <1>8, GotoPc
    <2> QED BY <1>0, <1>8, <2>1, LizardSteps
  <1>9. CASE Dies("value") /\ UNCHANGED <<buffer, pos>>
    BY <1>0, <1>9, LizardSteps DEF Dies
  <1> QED
    BY <1>1, <1>2, <1>3, <1>4, <1>5, <1>6, <1>7, <1>8, <1>9 DEF Apply

(* Every step keeps the invariant of the screen.                           *)
LEMMA LizardStep ==
  ASSUME LizardInv, [Next]_vars
  PROVE  LizardInv'
  <1>1. CASE ScreenThread
    BY <1>1, LizardScreen
  <1>2. CASE KeyboardThread
    <2>1. UNCHANGED viewed
      BY <1>2 DEF KeyboardThread, KbdOver, KbdBack, KbdPass, KbdToggle,
                  KbdShifted, KbdArrow, KbdDraw, untouched, viewed
    <2> QED BY <2>1, LizardStill
  <1>3. CASE MainEnds \/ ShellExits \/ UNCHANGED vars
    <2>1. UNCHANGED viewed
      BY <1>3 DEF MainEnds, ShellExits, vars, viewed
    <2> QED BY <2>1, LizardStill
  <1>4. CASE ScrRead
    BY <1>4, LizardLooks DEF ScrRead, ScrAt, others
  <1>5. ASSUME NEW i \in Sequence, ScrSequence(i) PROVE LizardInv'
    BY <1>5, LizardSequence
  <1>6. CASE KbdRead
    BY <1>6, LizardLooks DEF KbdRead, untouched
  <1>7. ASSUME NEW s \in Sizes \cup {TooSmall}, ResizeTerminal(s)
        PROVE  LizardInv'
    BY <1>7, LizardResizes
  <1> QED
    BY <1>1, <1>2, <1>3, <1>4, <1>5, <1>6, <1>7 DEF Next, Shell, User

(* A step to the next key ends on a key.                                   *)
LEMMA WrappedIn ==
  ASSUME NEW n \in Int, NEW len \in Nat \ {0}
  PROVE  Wrapped(n, len) \in 1 .. len
  BY DEF Wrapped

(* Every step keeps a highlighted key, and caps implies shift.             *)
LEMMA KeyStep ==
  ASSUME KeysInv, [Next]_vars
  PROVE  KeysInv'
  <1>1. CASE UNCHANGED keys
    BY <1>1 DEF KeysInv, keys
  <1>2. ASSUME NEW c, KbdToggle(c) PROVE KeysInv'
    <2>1. keyX' = keyX /\ keyY' = keyY
      BY <1>2 DEF KbdToggle
    <2>2. /\ caps' \in BOOLEAN /\ shift' \in BOOLEAN
          /\ caps' => shift'
      <3>1. caps \in BOOLEAN /\ shift \in BOOLEAN /\ (caps => shift)
        BY DEF KeysInv
      <3>2. \/ shift' = shift /\ caps' = caps
            \/ shift' = ~shift /\ caps' = (caps /\ shift')
            \/ caps' = ~caps /\ shift' = caps'
        BY <1>2 DEF KbdToggle
      <3>3. CASE shift' = shift /\ caps' = caps
        BY <3>1, <3>3
      <3>4. CASE shift' = ~shift /\ caps' = (caps /\ shift')
        BY <3>1, <3>4, Zenon
      <3>5. CASE caps' = ~caps /\ shift' = caps'
        BY <3>1, <3>5, Zenon
      <3> QED BY <3>2, <3>3, <3>4, <3>5
    <2> QED BY <2>1, <2>2 DEF KeysInv
  <1>3. ASSUME NEW c, KbdShifted(c) PROVE KeysInv'
    BY <1>3 DEF KbdShifted, KeysInv
  <1>4. ASSUME NEW c, KbdArrow(c) PROVE KeysInv'
    <2>1. /\ Len(Layout) \in Nat \ {0}
          /\ \A j \in 1 .. Len(Layout) : Len(Layout[j]) \in Nat \ {0}
      <3>1. /\ Layout \in Seq(Seq(KeyKind)) /\ Layout # <<>>
            /\ \A j \in DOMAIN Layout : Layout[j] # <<>>
        BY LizardAssumption
      <3>2. Len(Layout) \in Nat \ {0} /\ DOMAIN Layout = 1 .. Len(Layout)
        BY <3>1, EmptySeq, LenProperties
      <3>3. ASSUME NEW j \in 1 .. Len(Layout)
            PROVE  Len(Layout[j]) \in Nat \ {0}
        <4>1. Layout[j] \in Seq(KeyKind)
          BY <3>1, ElementOfSeq
        <4> QED BY <3>1, <3>2, <4>1, EmptySeq
      <3> QED BY <3>2, <3>3
    <2>2. PICK j \in Int : keyY' = Wrapped(j, Len(Layout))
      BY <1>4 DEF KbdArrow, KeysInv
    <2>3. keyY' \in 1 .. Len(Layout)
      BY <2>1, <2>2, WrappedIn
    <2>4. PICK i \in Int : keyX' = Wrapped(i, Len(Layout[keyY']))
      BY <1>4 DEF KbdArrow, KeysInv
    <2>5. keyX' \in 1 .. Len(Layout[keyY'])
      BY <2>1, <2>3, <2>4, WrappedIn
    <2>6. caps' = caps /\ shift' = shift
      BY <1>4 DEF KbdArrow
    <2> QED BY <2>3, <2>5, <2>6 DEF KeysInv
  <1>5. CASE ScreenThread
    <2>1. UNCHANGED keys
      BY <1>5 DEF ScreenThread, ScrOver, ScrBackspace, ScrPrint, ScrAdvance,
                  ScrNormalise, ScrScroll, ScrEscape, ScrPlain, ScrCell, others
    <2> QED BY <1>1, <2>1
  <1>6. CASE Shell \/ User \/ MainEnds \/ UNCHANGED vars
    <2>1. UNCHANGED keys
      BY <1>6 DEF Shell, User, ShellExits, ScrRead, ScrSequence, KbdRead,
                  ResizeTerminal, MainEnds, others, vars
    <2> QED BY <1>1, <2>1
  <1>7. CASE KbdOver \/ KbdBack \/ \E c : KbdPass(c)
    <2>1. UNCHANGED keys
      BY <1>7 DEF KbdOver, KbdBack, KbdPass
    <2> QED BY <1>1, <2>1
  <1> QED
    BY <1>2, <1>3, <1>4, <1>5, <1>6, <1>7 DEF Next, KeyboardThread

(* The first state.                                                        *)
LEMMA LizardStart ==
  ASSUME Init
  PROVE  LizardInv /\ KeysInv
  <1>1. KeysInv
    <2>1. /\ Layout \in Seq(Seq(KeyKind)) /\ Layout # <<>>
          /\ \A j \in DOMAIN Layout : Layout[j] # <<>>
      BY LizardAssumption
    <2>2. Len(Layout) \in Nat \ {0} /\ DOMAIN Layout = 1 .. Len(Layout)
      BY <2>1, EmptySeq, LenProperties
    <2>3. Layout[1] \in Seq(KeyKind) /\ Layout[1] # <<>>
      BY <2>1, <2>2, ElementOfSeq
    <2>4. Len(Layout[1]) \in Nat \ {0}
      BY <2>3, EmptySeq
    <2>5. keyY = 1 /\ keyX = 1
      BY DEF Init
    <2>6. caps \in BOOLEAN /\ shift \in BOOLEAN /\ ~caps
      BY Zenon DEF Init
    <2>7. keyY \in 1 .. Len(Layout) /\ keyX \in 1 .. Len(Layout[keyY])
      BY <2>2, <2>4, <2>5
    <2> QED BY <2>6, <2>7 DEF KeysInv
  <1>2. TermInv
    BY DEF Init, TermInv
  <1>3. BufferInv
    <2>1. /\ width \in Int /\ height \in Int /\ alt = None
          /\ x \in Int /\ y \in Int /\ x >= 0
          /\ scr = [pc |-> scr.pc, c |-> scr.c]
      BY DEF Init
    <2>2. screen \in Seq(Nat)
      BY EmptySeq DEF Init
    <2>3. usingAlt \in BOOLEAN /\ ~usingAlt
      BY Zenon DEF Init
    <2> QED BY <2>1, <2>2, <2>3 DEF BufferInv
  <1>4. Unseen
    BY DEF Init, Unseen
  <1> QED BY <1>1, <1>2, <1>3, <1>4 DEF LizardInv, SteadyInv

(* The highlighted key exists whatever row the arrow keys come from, caps  *)
(* is never on without shift, every row has a length and the other screen  *)
(* is there when it is needed: for every layout, every size and resize.    *)
THEOREM LizardTyped == Spec => []LizardTypeOK
  <1>1. Init => LizardInv /\ KeysInv
    BY LizardStart
  <1>2. LizardInv /\ KeysInv /\ [Next]_vars => LizardInv' /\ KeysInv'
    BY LizardStep, KeyStep
  <1>3. LizardInv /\ KeysInv => LizardTypeOK
    <2>1. ASSUME BufferInv
          PROVE  (\A i \in DOMAIN screen : screen[i] \in Nat) /\ (usingAlt => alt # None)
      BY <2>1 DEF BufferInv
    <2>2. ASSUME KeysInv
          PROVE  keyY \in DOMAIN Layout /\ keyX \in DOMAIN Layout[keyY] /\ (caps => shift)
      <3>1. Layout \in Seq(Seq(KeyKind))
        BY LizardAssumption
      <3>2. DOMAIN Layout = 1 .. Len(Layout)
        BY <3>1, LenProperties
      <3>3. DOMAIN Layout[keyY] = 1 .. Len(Layout[keyY])
        BY <2>2, <3>1, LenProperties, ElementOfSeq DEF KeysInv
      <3> QED BY <2>2, <3>2, <3>3 DEF KeysInv
    <2> QED BY <2>1, <2>2 DEF LizardInv, LizardTypeOK
  <1> QED BY <1>1, <1>2, <1>3, PTL DEF Spec

(* In a terminal that keeps its size no order of text and escape sequences *)
(* takes screen_worker() past the end of the screen, for every size and    *)
(* every number in a sequence.                                             *)
THEOREM ScreenThreadSurvives == Spec => []IndexSafe
  <1>1. Init => LizardInv
    BY LizardStart
  <1>2. LizardInv /\ [Next]_vars => LizardInv'
    BY LizardStep
  <1>3. LizardInv => IndexSafe
    BY DEF LizardInv, SteadyInv, Unseen, Seen, IndexSafe
  <1> QED BY <1>1, <1>2, <1>3, PTL DEF Spec

(* Where the text goes on in the next row, and where it does not.          *)
LEMMA RowAndColumn ==
  ASSUME NEW w \in Nat \ {0}, NEW i \in 0 .. (w - 1), NEW j \in Nat
  PROVE  (j * w + i) % w = i /\ (j * w + i) \div w = j
  OBVIOUS

(* The cache is right wherever it names a cell of the screen.              *)
Synced == InScreen(real) => cursor = real

(* A character is on the terminal and the position not yet moved past it:  *)
(* the terminal's cursor is ahead of the cache, and only until the loop    *)
(* ends. The keyboard must not be drawn then.                              *)
AheadInv ==
    /\ scr.pc \in {"print", "advance"} => x < width /\ y < height
    /\ ScrBetween /\ scr.pc = "advance" =>
          /\ y >= 0
          /\ x + 1 < width => cursor = <<x + 1, y>>
          /\ x + 1 >= width => cursor = <<0, y + 1>>
    /\ ScrBetween /\ scr.pc = "norm" =>
          /\ y >= 0 /\ x >= 0
          /\ x < width => cursor = <<x, y>>
          /\ x >= width => cursor = <<0, y + 1>>

(* Who holds the lock, and which character the screen thread is at.        *)
HolderInv ==
    /\ kbd = "back" <=> lock = "keyboard"
    /\ scr.pc = "sequence" <=> lock = "screen"
    /\ scr.pc \in {"read", "handle", "sequence"} => scr.c = None
    /\ scr.pc \in {"print", "advance"} => scr.c \in Printable

(* A cursor that is followed is the terminal's in its first size. Before   *)
(* the screen scrolls the cache may lag behind; redraw_screen() drops it.  *)
CursorInv ==
    cursor # Lost =>
        /\ Steady
        /\ lock = "keyboard" => real \in {None, OnKeyboard} /\ ~ScrBetween
        /\ AheadInv
        /\ ~ScrBetween /\ scr.pc # "scroll" => Synced

FollowInv == HolderInv /\ CursorInv

(* A position on the screen is one the terminal has.                       *)
LEMMA ClampedInScreen ==
  ASSUME NEW i \in Int, NEW j \in Int, width \in Nat, height \in Nat,
         InScreen(<<i, j>>)
  PROVE  Clamped(i, j) = <<i, j>>
  <1>1. Len(Layout) \in Nat
    BY LizardAssumption, LenProperties
  <1>2. i \in 0 .. (width - 1) /\ j \in 0 .. (height - 1)
    BY DEF InScreen
  <1> QED BY <1>1, <1>2 DEF Clamped, Between

(* A cell's place is not the None of a cache that was dropped.             *)
LEMMA CellInScreen ==
  ASSUME NEW i \in 0 .. (width - 1), NEW j \in 0 .. (height - 1),
         width \in Nat, height \in Nat
  PROVE  InScreen(<<i, j>>)
  <1>1. <<i, j>> \in Seq(Nat)
    OBVIOUS
  <1>2. None \notin Seq(Nat)
    BY LizardAssumption
  <1>3. <<i, j>> # None
    BY <1>1, <1>2
  <1> QED BY <1>3 DEF InScreen

(* move_real_cursor() to a cell of the screen gets there.                  *)
LEMMA MovedInScreen ==
  ASSUME NEW i \in Int, NEW j \in Int, width \in Nat, height \in Nat,
         InScreen(<<i, j>>), Synced
  PROVE  Moved(i, j) = <<i, j>>
  BY ClampedInScreen DEF Moved, Synced

(* n characters written from a cell of the screen on.                      *)
LEMMA AfterInScreen ==
  ASSUME NEW i \in Int, NEW j \in Int, NEW n \in Nat,
         width \in Nat \ {0}, height \in Nat \ {0}, InScreen(<<i, j>>)
  PROVE  /\ i + n < width => After(<<i, j>>, n) = <<i + n, j>>
         /\ i + n = width => After(<<i, j>>, n) = <<0, j + 1>>
  <1>1. i \in 0 .. (width - 1) /\ j \in 0 .. (height - 1)
    BY DEF InScreen
  <1>2. <<i, j>> \notin {OnKeyboard, Lost} /\ ~(width < 1)
    BY <1>1 DEF OnKeyboard, Lost
  <1>3. After(<<i, j>>, n) = Clamped((j * width + i + n) % width,
                                     (j * width + i + n) \div width)
    BY <1>2 DEF After
  <1>4. ASSUME i + n < width
        PROVE  After(<<i, j>>, n) = <<i + n, j>>
    <2>1. i + n \in 0 .. (width - 1) /\ j \in Nat
      BY <1>1, <1>4
    <2>2. PICK w \in Nat \ {0}, m \in Nat : w = width /\ m = i + n
      BY <2>1
    <2>3. (j * w + m) % w = m /\ (j * w + m) \div w = j
      <3>1. m \in 0 .. (w - 1) /\ j \in Nat
        BY <2>1, <2>2
      <3> QED BY <3>1, RowAndColumn
    <2>4. j * width + i + n = j * w + m
      BY <1>1, <2>2
    <2>5. InScreen(<<m, j>>)
      BY <1>1, <2>1, <2>2, CellInScreen
    <2>6. Clamped(m, j) = <<m, j>>
      BY <1>1, <2>2, <2>5, ClampedInScreen
    <2> QED BY <1>3, <2>2, <2>3, <2>4, <2>6
  <1>5. ASSUME i + n = width
        PROVE  After(<<i, j>>, n) = <<0, j + 1>>
    <2>1. 0 \in 0 .. (width - 1) /\ j + 1 \in Nat
      BY <1>1
    <2>2. PICK w \in Nat \ {0}, m \in Nat : w = width /\ m = j + 1
      BY <2>1
    <2>3. (m * w + 0) % w = 0 /\ (m * w + 0) \div w = m
      BY <2>1, <2>2, RowAndColumn
    <2>6. j * width + i + n = m * w + 0
      BY <1>1, <1>5, <2>2
    <2>4. Len(Layout) \in Nat
      BY LizardAssumption, LenProperties
    <2>5. Clamped(0, j + 1) = <<0, j + 1>>
      BY <1>1, <2>4 DEF Clamped, Between
    <2> QED BY <1>3, <2>2, <2>3, <2>5, <2>6
  <1> QED BY <1>4, <1>5

(* Drawing follows a cursor that was followed.                             *)
LEMMA DrawFollows ==
  ASSUME NEW p, NEW r, NEW sound \in BOOLEAN, Draw(p, r, sound), cursor' # Lost
  PROVE  cursor # Lost /\ sound /\ cursor' = p /\ real' = r
  BY DEF Draw

(* A cache that was dropped, or is on the keyboard, claims nothing.        *)
LEMMA OffScreenSynced ==
  ASSUME width \in Int, real \in {None, OnKeyboard}
  PROVE  Synced
  BY DEF Synced, InScreen, OnKeyboard

(* move_real_cursor() alone leaves a cache that is right.                  *)
LEMMA MoveSyncs ==
  ASSUME width \in Int, height \in Int, UNCHANGED <<width, height>>,
         NEW i \in Int, NEW j \in Int, Synced,
         cursor' = After(Moved(i, j), 0), real' = <<i, j>>
  PROVE  Synced'
  <1> SUFFICES ASSUME InScreen(<<i, j>>)
               PROVE  cursor' = <<i, j>>
    BY DEF Synced, InScreen
  <1>1. width \in Nat \ {0} /\ height \in Nat \ {0}
    BY DEF InScreen
  <1>2. Moved(i, j) = <<i, j>>
    BY <1>1, MovedInScreen
  <1>3. i + 0 < width /\ i + 0 = i
    BY DEF InScreen
  <1>4. After(<<i, j>>, 0) = <<i + 0, j>>
    BY <1>1, <1>3, AfterInScreen
  <1> QED BY <1>2, <1>3, <1>4

(* The escape sequences that send the cursor to a place of their own.      *)
LEMMA ClampedSyncs ==
  ASSUME width \in Int, height \in Int, UNCHANGED <<width, height>>,
         NEW i \in Int, NEW j \in Int,
         cursor' = Clamped(i, j), real' = <<i, j>>
  PROVE  Synced'
  <1> SUFFICES ASSUME InScreen(<<i, j>>)
               PROVE  cursor' = <<i, j>>
    BY DEF Synced, InScreen
  <1>1. width \in Nat /\ height \in Nat
    BY DEF InScreen
  <1> QED BY <1>1, ClampedInScreen

(* Steps that leave the screen thread between characters or in a sequence. *)
LEMMA QuietStep ==
  ASSUME CursorInv, UNCHANGED <<term, resizes>>,
         scr'.pc \notin {"print", "advance"}, ~ScrBetween',
         cursor' # Lost =>
             /\ cursor # Lost
             /\ Synced'
             /\ lock' = "keyboard" => real' \in {None, OnKeyboard}
  PROVE  CursorInv'
  <1> SUFFICES ASSUME cursor' # Lost
               PROVE  /\ Steady'
                      /\ (lock = "keyboard" => real \in {None, OnKeyboard} /\ ~ScrBetween)'
                      /\ AheadInv'
                      /\ Synced'
    BY DEF CursorInv
  <1>1. Steady'
    BY DEF CursorInv, Steady
  <1>2. AheadInv'
    BY DEF AheadInv
  <1> QED BY <1>1, <1>2

(* Steps that leave the screen thread where it is.                         *)
LEMMA AsideStep ==
  ASSUME CursorInv, UNCHANGED <<term, resizes, width, height, x, y, scr>>,
         \/ UNCHANGED <<cursor, real, lock>>
         \/ cursor' # Lost =>
             /\ cursor # Lost
             /\ ~ScrBetween
             /\ Synced'
             /\ lock' = "keyboard" => real' \in {None, OnKeyboard}
  PROVE  CursorInv'
  <1> SUFFICES ASSUME cursor' # Lost
               PROVE  /\ Steady'
                      /\ (lock = "keyboard" => real \in {None, OnKeyboard} /\ ~ScrBetween)'
                      /\ AheadInv'
                      /\ (~ScrBetween /\ scr.pc # "scroll" => Synced)'
    BY DEF CursorInv
  <1>1. ScrBetween' = ScrBetween
    BY DEF ScrBetween
  <1>2. CASE UNCHANGED <<cursor, real, lock>>
    BY <1>1, <1>2 DEF CursorInv, Steady, AheadInv, Synced, InScreen, ScrBetween
  <1>3. CASE /\ cursor # Lost
             /\ ~ScrBetween
             /\ Synced'
             /\ lock' = "keyboard" => real' \in {None, OnKeyboard}
    <2>1. Steady'
      BY <1>3 DEF CursorInv, Steady
    <2>2. AheadInv'
      BY <1>1, <1>3 DEF CursorInv, AheadInv
    <2> QED BY <1>1, <1>3, <2>1, <2>2
  <1> QED BY <1>2, <1>3

(* The Nones of the lock, the cache and the character.                     *)
LEMMA NoneIsApart ==
  None # "screen" /\ None # "keyboard" /\ None \notin Printable
  BY LizardAssumption DEF Printable

(* The steps of screen_worker() outside of escape sequences.               *)
LEMMA HolderScreen ==
  ASSUME HolderInv, BufferInv, ScreenThread
  PROVE  HolderInv'
  <1> USE DEF HolderInv, ScrAt
  <1>0. None # "screen" /\ None # "keyboard"
    BY NoneIsApart
  <1>1. CASE ScrOver
    BY <1>1 DEF ScrOver, Dies, others
  <1>2. CASE ScrBackspace
    <2>1. /\ scr.pc = "handle" /\ kbd' = kbd /\ lock' = lock
          /\ ScrGoto("norm") \/ Dies("index")
      BY <1>2 DEF ScrBackspace, others
    <2>2. scr'.pc \in {"norm", "index"}
      BY <2>1, GotoPc DEF Dies
    <2> QED BY <2>1, <2>2
  <1>3. CASE ScrPrint
    <2>1. /\ scr.pc = "print" /\ kbd' = kbd /\ lock' = lock
          /\ ScrGoto("advance")
      BY <1>3 DEF ScrPrint, others
    <2>2. scr'.pc = "advance" /\ scr'.c = scr.c
      BY <2>1, GotoPc
    <2> QED BY <2>1, <2>2
  <1>4. CASE ScrAdvance
    <2>1. /\ scr.pc = "advance" /\ kbd' = kbd /\ lock' = lock
          /\ ScrGoto("norm")
      BY <1>4 DEF ScrAdvance, others
    <2>2. scr'.pc = "norm"
      BY <2>1, GotoPc
    <2> QED BY <2>1, <2>2
  <1>5. CASE ScrNormalise
    <2>1. /\ scr.pc = "norm" /\ kbd' = kbd /\ lock' = lock
          /\ ScrGoto("scroll") \/ scr' = [pc |-> "read", c |-> None]
      BY <1>5 DEF ScrNormalise, others
    <2>2. scr'.pc = "scroll" \/ (scr'.pc = "read" /\ scr'.c = None)
      BY <2>1, GotoPc
    <2> QED BY <2>1, <2>2
  <1>6. CASE ScrScroll
    <2>1. /\ scr.pc = "scroll" /\ kbd' = kbd /\ lock' = lock
          /\ scr' = [pc |-> "read", c |-> None]
      BY <1>6 DEF ScrScroll, others
    <2> QED BY <2>1
  <1>7. CASE ScrEscape
    <2>1. /\ scr.pc = "handle" /\ kbd' = kbd /\ lock = None /\ lock' = "screen"
          /\ ScrGoto("sequence")
      BY <1>7 DEF ScrEscape, others
    <2>2. scr'.pc = "sequence" /\ scr'.c = scr.c
      BY <2>1, GotoPc
    <2> QED BY <1>0, <2>1, <2>2
  <1>8. ASSUME NEW c \in Char, ScrPlain(c) PROVE HolderInv'
    <2>1. /\ scr.pc = "handle" /\ kbd' = kbd /\ lock' = lock
          /\ ScrGoto("norm")
      BY <1>8 DEF ScrPlain, others
    <2>2. scr'.pc = "norm"
      BY <2>1, GotoPc
    <2> QED BY <2>1, <2>2
  <1>9. ASSUME NEW c \in Char, ScrCell(c) PROVE HolderInv'
    <2>1. /\ scr.pc = "handle" /\ kbd' = kbd /\ lock' = lock /\ c \in Printable
          /\ scr' = [pc |-> "print", c |-> c] \/ Dies("index")
      BY <1>9 DEF ScrCell, others
    <2>2. (scr'.pc = "print" /\ scr'.c = c) \/ scr'.pc = "index"
      BY <2>1 DEF Dies
    <2> QED BY <2>1, <2>2
  <1> QED
    BY <1>1, <1>2, <1>3, <1>4, <1>5, <1>6, <1>7, <1>8, <1>9 DEF ScreenThread

(* An escape sequence ends the loop's body or the thread.                  *)
LEMMA SequenceEnds ==
  ASSUME BufferInv, NEW cmd, NEW n, NEW m, Apply(cmd, n, m)
  PROVE  /\ scr'.pc \in {"norm", "index", "value"}
         /\ scr'.c = scr.c \/ scr'.c = None
  <1>1. ScrGoto("norm") \/ Dies("index") \/ Dies("value")
    BY DEF Apply, Position, EraseLine, EraseCells, EraseScreen, DeleteChars,
           SwapScreens
  <1> QED BY <1>1, GotoPc DEF Dies

(* The lock has the holder that the program counters say.                  *)
LEMMA HolderStep ==
  ASSUME HolderInv, BufferInv, [Next]_vars
  PROVE  HolderInv'
  <1>0. None # "screen" /\ None # "keyboard"
    BY NoneIsApart
  <1>1. CASE ScreenThread
    BY <1>1, HolderScreen
  <1>2. CASE KeyboardThread
    <2>1. scr' = scr
      BY <1>2 DEF KeyboardThread, KbdOver, KbdBack, KbdPass, KbdToggle,
                  KbdShifted, KbdArrow, KbdDraw, untouched
    <2>2. \/ kbd = "back" /\ kbd' = "read" /\ lock' = None
          \/ kbd # "back" /\ lock = None /\ kbd' = "back" /\ lock' = "keyboard"
          \/ kbd # "back" /\ kbd' # "back" /\ lock' = lock
      BY <1>2 DEF KeyboardThread, KbdOver, KbdBack, KbdPass, KbdToggle,
                  KbdShifted, KbdArrow, KbdDraw, KbdAt
    <2> QED BY <1>0, <2>1, <2>2 DEF HolderInv
  <1>3. CASE MainEnds \/ ShellExits \/ UNCHANGED vars
           \/ \E s \in Sizes \cup {TooSmall} : ResizeTerminal(s)
    <2>1. scr' = scr /\ kbd' = kbd /\ lock' = lock
      BY <1>3 DEF MainEnds, ShellExits, ResizeTerminal, vars
    <2> QED BY <2>1 DEF HolderInv
  <1>4. CASE ScrRead
    <2>1. /\ scr.pc = "read" /\ kbd' = kbd /\ lock' = lock /\ ScrGoto("handle")
      BY <1>4 DEF ScrRead, ScrAt, others
    <2>2. scr'.pc = "handle" /\ scr'.c = scr.c
      BY <2>1, GotoPc
    <2> QED BY <2>1, <2>2 DEF HolderInv
  <1>5. ASSUME NEW i \in Sequence, ScrSequence(i) PROVE HolderInv'
    <2>1. /\ scr.pc = "sequence" /\ kbd' = kbd /\ lock' = None
          /\ Apply(i.cmd, i.n, i.m)
      BY <1>5 DEF ScrSequence, ScrAt, others
    <2>2. scr'.pc \in {"norm", "index", "value"}
      BY <2>1, SequenceEnds
    <2> QED BY <1>0, <2>1, <2>2 DEF HolderInv
  <1>6. CASE KbdRead
    <2>1. kbd = "read" /\ kbd' = "act" /\ scr' = scr /\ lock' = lock
      BY <1>6 DEF KbdRead, KbdAt, untouched
    <2> QED BY <2>1 DEF HolderInv
  <1> QED BY <1>1, <1>2, <1>3, <1>4, <1>5, <1>6 DEF Next, Shell, User

(* A look at the terminal by either thread.                                *)
LEMMA CursorLooks ==
  ASSUME LizardInv, FollowInv, RedrawIfResized(screen), lock' = lock,
         UNCHANGED <<term, resizes, x, y>>,
         \/ UNCHANGED scr
         \/ scr.pc = "read" /\ ScrGoto("handle")
  PROVE  CursorInv'
  <1> USE DEF LizardInv, FollowInv
  <1>0. width \in Int /\ height \in Int /\ None \notin Printable
    BY NoneIsApart DEF BufferInv
  <1>1. CASE Resized
    <2>1. Draw(OnKeyboard, None, TRUE) /\ width' = term[1]
      BY <1>1 DEF RedrawIfResized
    <2>2. CASE cursor' = Lost
      BY <2>2 DEF CursorInv
    <2>3. CASE cursor' # Lost
      <3>1. cursor # Lost /\ real' = None
        BY <2>1, <2>3, DrawFollows
      <3>2. Steady
        BY <3>1 DEF CursorInv
      <3>3. scr.pc \in {"read", "over"}
        BY <1>1, <3>2 DEF SteadyInv, Seen, Unseen, Resized
      <3>4. scr'.pc \in {"read", "over", "handle"}
        BY <3>3, GotoPc
      <3>5. width' \in Int
        BY <2>1, <3>2, TermSize DEF Steady
      <3>6. Synced'
        BY <3>1, <3>5 DEF Synced, InScreen
      <3> QED BY <3>1, <3>4, <3>6, QuietStep DEF ScrBetween
    <2> QED BY <2>2, <2>3
  <1>2. CASE ~Resized
    <2>1. UNCHANGED <<width, height, cursor, real>>
      BY <1>2 DEF RedrawIfResized, drawn
    <2>2. CASE UNCHANGED scr
      BY <2>1, <2>2, AsideStep
    <2>3. CASE scr.pc = "read" /\ ScrGoto("handle")
      <3>1. scr'.pc = "handle"
        BY <2>3, GotoPc
      <3>2. cursor # Lost => Synced /\ (lock = "keyboard" => real \in {None, OnKeyboard})
        BY <2>3 DEF CursorInv, ScrBetween
      <3>3. cursor' # Lost => /\ cursor # Lost /\ Synced'
                              /\ lock' = "keyboard" => real' \in {None, OnKeyboard}
        BY <2>1, <3>2 DEF Synced, InScreen
      <3> QED BY <3>1, <3>3, QuietStep DEF ScrBetween
    <2> QED BY <2>2, <2>3
  <1> QED BY <1>1, <1>2

(* The keyboard is drawn, and the cursor sent back to the text.            *)
LEMMA CursorKeyboard ==
  ASSUME LizardInv, FollowInv, KeyboardThread
  PROVE  CursorInv'
  <1> USE DEF LizardInv, FollowInv
  <1>0. /\ width \in Int /\ height \in Int /\ x \in Int /\ y \in Int
        /\ ScrBetween \in BOOLEAN /\ None # "keyboard"
    BY NoneIsApart DEF BufferInv, ScrBetween
  <1>1. UNCHANGED <<term, resizes, width, height, x, y, scr>>
    BY DEF KeyboardThread, KbdOver, KbdBack, KbdPass, KbdToggle,
           KbdShifted, KbdArrow, KbdDraw, untouched, tty, pos, buffer
  <1>2. CASE UNCHANGED <<cursor, real, lock>>
    BY <1>1, <1>2, AsideStep
  <1>3. ASSUME NEW r \in {None, OnKeyboard}, Draw(OnKeyboard, r, ~ScrBetween)
        PROVE  CursorInv'
    <2>1. ASSUME cursor' # Lost
          PROVE  cursor # Lost /\ ~ScrBetween /\ real' \in {None, OnKeyboard}
      BY <1>0, <1>3, <2>1, DrawFollows
    <2>2. ASSUME cursor' # Lost PROVE Synced'
      BY <1>0, <1>1, <2>1, <2>2 DEF Synced, InScreen, OnKeyboard
    <2> QED BY <1>1, <2>1, <2>2, AsideStep
  <1>4. CASE KbdBack
    <2>1. /\ kbd = "back" /\ lock' = None
          /\ Draw(After(Moved(x, y), 0), <<x, y>>, ~ScrBetween)
      BY <1>4 DEF KbdBack, KbdAt, MoveAndWrite
    <2>2. ASSUME cursor' # Lost
          PROVE  cursor # Lost /\ ~ScrBetween /\ Synced'
      <3>1. /\ cursor # Lost /\ ~ScrBetween
            /\ cursor' = After(Moved(x, y), 0) /\ real' = <<x, y>>
        BY <1>0, <2>1, <2>2, DrawFollows
      <3>2. real \in {None, OnKeyboard}
        BY <2>1, <3>1 DEF HolderInv, CursorInv
      <3>3. Synced
        BY <1>0, <3>2, OffScreenSynced
      <3> QED BY <1>0, <1>1, <3>1, <3>3, MoveSyncs
    <2> QED BY <1>0, <1>1, <2>1, <2>2, AsideStep
  <1>5. ASSUME NEW c, KbdToggle(c) \/ KbdArrow(c) PROVE CursorInv'
    <2>1. KbdDraw(OnKeyboard) \/ KbdDraw(None)
      BY <1>5 DEF KbdToggle, KbdArrow
    <2> QED BY <1>3, <2>1 DEF KbdDraw
  <1>6. ASSUME NEW c, KbdShifted(c) PROVE CursorInv'
    <2>1. Draw(OnKeyboard, None, ~ScrBetween) \/ UNCHANGED <<cursor, real, lock>>
      BY <1>6 DEF KbdShifted, drawn
    <2> QED BY <1>2, <1>3, <2>1
  <1>7. CASE KbdOver \/ \E c : KbdPass(c)
    <2>1. UNCHANGED <<cursor, real, lock>>
      BY <1>7 DEF KbdOver, KbdPass, drawn
    <2> QED BY <1>2, <2>1
  <1> QED BY <1>4, <1>5, <1>6, <1>7 DEF KeyboardThread

(* redraw_screen() leaves the cursor below the screen.                     *)
LEMMA RedrawSyncs ==
  ASSUME height \in Int, UNCHANGED height, NEW s, NEW w, Redraw(s, w, height),
         cursor' # Lost
  PROVE  cursor # Lost /\ Synced'
  <1>1. PICK p : Draw(p, <<0, height>>, TRUE)
    BY DEF Redraw
  <1>2. cursor # Lost /\ real' = <<0, height>>
    BY <1>1, DrawFollows
  <1> QED BY <1>2 DEF Synced, InScreen

(* Every escape sequence keeps the cache right, or loses the cursor.       *)
LEMMA CursorSequence ==
  ASSUME LizardInv, FollowInv, NEW i \in Sequence, ScrSequence(i)
  PROVE  CursorInv'
  <1> USE DEF LizardInv, FollowInv
  <1>0. /\ scr.pc = "sequence" /\ UNCHANGED <<term, resizes>> /\ lock' = None
        /\ x \in Int /\ y \in Int /\ height \in Int /\ width \in Int
        /\ scr.c = None /\ None \notin Printable /\ None # "keyboard"
    BY NoneIsApart
       DEF BufferInv, HolderInv, ScrSequence, ScrAt, others, tty
  <1>1. PICK cmd, n, m : n \in Nat /\ m \in Nat /\ Apply(cmd, n, m)
    BY ItemNumbers DEF ScrSequence
  <1>2. cursor # Lost => Steady /\ Synced
    BY <1>0 DEF CursorInv, ScrBetween
  <1>3. scr'.pc \notin {"print", "advance"} /\ ~ScrBetween'
    BY <1>0, <1>1, SequenceEnds DEF ScrBetween
  <1>4. SUFFICES ASSUME cursor' # Lost
                 PROVE  cursor # Lost /\ Synced'
    BY <1>0, <1>3, QuietStep
  <1>5. CASE UNCHANGED <<width, height, cursor, real>>
    BY <1>2, <1>4, <1>5 DEF Synced, InScreen
  <1>6. ASSUME NEW p, NEW q, p \in Int, q \in Int,
               MoveAndWrite(p, q, 0, TRUE), UNCHANGED <<width, height>>
        PROVE  cursor # Lost /\ Synced'
    <2>1. cursor # Lost /\ cursor' = After(Moved(p, q), 0) /\ real' = <<p, q>>
      BY <1>4, <1>6, DrawFollows DEF MoveAndWrite
    <2> QED BY <1>0, <1>2, <1>6, <2>1, MoveSyncs
  <1>7. ASSUME Draw(Clamped(x, y), <<x, y>>, TRUE), UNCHANGED <<width, height>>
        PROVE  cursor # Lost /\ Synced'
    <2>1. cursor # Lost /\ cursor' = Clamped(x, y) /\ real' = <<x, y>>
      BY <1>4, <1>7, DrawFollows
    <2> QED BY <1>0, <1>7, <2>1, ClampedSyncs
  <1>8. CASE Position(cmd, n, m)
    <2>1. /\ UNCHANGED <<width, height>>
          /\ x' = Target(cmd, n, m)[1] /\ y' = Target(cmd, n, m)[2]
          /\ cmd \in Positioning
          /\ UNCHANGED <<cursor, real>> \/ MoveAndWrite(x', y', 0, TRUE)
      BY <1>8 DEF Position, buffer, drawn
    <2>2. PICK p \in Int, q \in Int : p = x' /\ q = y'
      BY <1>0, <1>1, <2>1, TargetInt
    <2>3. UNCHANGED <<cursor, real>> \/ MoveAndWrite(p, q, 0, TRUE)
      BY <2>1, <2>2
    <2> QED BY <1>5, <1>6, <2>1, <2>3
  <1>9. CASE EraseLine
    BY <1>5, <1>7, <1>9 DEF EraseLine, drawn
  <1>10. CASE cmd \in {"1K", "X"} /\ EraseCells(cmd)
    <2>1. /\ UNCHANGED <<width, height>>
          /\ \/ UNCHANGED <<cursor, real>>
             \/ Draw(Clamped(x, y), <<x, y>>, TRUE)
             \/ Draw(After(Moved(0, y), x), <<x, y>>, TRUE)
      BY <1>10 DEF EraseCells, buffer, drawn
    <2>2. CASE Draw(After(Moved(0, y), x), <<x, y>>, TRUE)
      <3>1. cursor # Lost /\ cursor' = After(Moved(0, y), x) /\ real' = <<x, y>>
        BY <1>4, <2>2, DrawFollows
      <3>2. ASSUME InScreen(<<x, y>>) PROVE cursor' = <<x, y>>
        <4>1. width \in Nat \ {0} /\ height \in Nat \ {0}
          BY <1>0, <3>2 DEF InScreen
        <4>2. PICK k \in Nat, j \in Nat : k = x /\ j = y
          BY <3>2 DEF InScreen
        <4>3. 0 \in 0 .. (width - 1) /\ j \in 0 .. (height - 1) /\ k < width
          BY <3>2, <4>1, <4>2 DEF InScreen
        <4>4. InScreen(<<0, j>>)
          BY <4>1, <4>3, CellInScreen
        <4>5. Moved(0, j) = <<0, j>>
          BY <1>2, <3>1, <4>1, <4>2, <4>4, MovedInScreen
        <4>6. 0 + k < width => After(<<0, j>>, k) = <<0 + k, j>>
          BY <4>1, <4>2, <4>4, AfterInScreen
        <4>7. 0 + k = k
          OBVIOUS
        <4> QED BY <3>1, <4>2, <4>3, <4>5, <4>6, <4>7
      <3> QED BY <2>1, <3>1, <3>2 DEF Synced, InScreen
    <2> QED BY <1>5, <1>7, <2>1, <2>2
  <1>11. CASE EraseScreen(cmd, n)
    <2>1. UNCHANGED <<width, height>> /\ \E s : Redraw(s, width, height)
      BY <1>11 DEF EraseScreen
    <2> QED BY <1>0, <1>4, <2>1, RedrawSyncs
  <1>12. CASE DeleteChars(n)
    <2>1. /\ UNCHANGED <<width, height>>
          /\ Draw(After(Moved(x, y), n), <<x, y>>, n = 0)
      BY <1>12 DEF DeleteChars, MoveAndWrite, buffer
    <2>2. n = 0
      BY <1>4, <2>1, DrawFollows
    <2>3. MoveAndWrite(x, y, 0, TRUE)
      BY <2>1, <2>2 DEF MoveAndWrite
    <2> QED BY <1>0, <1>6, <2>1, <2>3
  <1>13. CASE SwapScreens(cmd = "alt on")
    <2>1. \/ UNCHANGED <<width, height, cursor, real>>
          \/ Resized /\ width' = term[1] /\ Draw(OnKeyboard, None, TRUE)
      BY <1>13 DEF SwapScreens, RedrawIfResized, drawn
    <2>2. CASE Resized /\ width' = term[1] /\ Draw(OnKeyboard, None, TRUE)
      <3>1. cursor # Lost /\ real' = None
        BY <1>4, <2>2, DrawFollows
      <3> QED BY <3>1 DEF Synced, InScreen
    <2> QED BY <1>5, <2>1, <2>2
  <1>14. CASE UNCHANGED <<buffer, pos, drawn>>
    BY <1>5, <1>14 DEF buffer, drawn
  <1> QED
    BY <1>1, <1>8, <1>9, <1>10, <1>11, <1>12, <1>13, <1>14 DEF Apply

(* A printed character takes the cursor one cell ahead of the cache, and   *)
(* the end of the loop takes the cache there.                              *)
LEMMA CursorPrints ==
  ASSUME LizardInv, FollowInv, ScrPrint
  PROVE  CursorInv'
  <1> USE DEF LizardInv, FollowInv
  <1>1. /\ UNCHANGED <<term, resizes, width, height, x, y>>
        /\ scr.pc = "print" /\ lock = None /\ lock' = None
        /\ scr'.pc = "advance" /\ scr'.c = scr.c
    BY GotoPc DEF ScrPrint, ScrAt, others, tty, buffer, pos
  <1>2. PICK i \in Int, j \in Int : i = x /\ j = y
    BY DEF BufferInv
  <1>3. /\ i >= 0 /\ width \in Int /\ height \in Int
    BY <1>1, <1>2 DEF BufferInv
  <1>4. SUFFICES ASSUME cursor' # Lost
                 PROVE  /\ Steady'
                        /\ AheadInv'
                        /\ ScrBetween'
    BY <1>1, NoneIsApart DEF CursorInv
  <1>5. PICK n \in Nat, sound \in BOOLEAN :
           /\ sound => scr.c = "print" /\ n = 1 /\ j >= 0
           /\ Draw(After(Moved(i, j), n), <<i, j>>, sound)
    <2>1. CASE scr.c = "print"
      <3>1. MoveAndWrite(i, j, 1, j >= 0)
        BY <1>2, <2>1 DEF ScrPrint
      <3>2. CASE j >= 0
        <4>1. Draw(After(Moved(i, j), 1), <<i, j>>, TRUE)
          BY <3>1, <3>2 DEF MoveAndWrite, Draw
        <4> QED BY <2>1, <3>2, <4>1
      <3>3. CASE ~(j >= 0)
        <4>1. Draw(After(Moved(i, j), 1), <<i, j>>, FALSE)
          BY <3>1, <3>3 DEF MoveAndWrite, Draw
        <4> QED BY <4>1
      <3> QED BY <3>2, <3>3
    <2>2. CASE scr.c # "print"
      <3>1. MoveAndWrite(i, j, 0, FALSE)
        BY <1>2, <2>2 DEF ScrPrint
      <3>2. Draw(After(Moved(i, j), 0), <<i, j>>, FALSE)
        BY <3>1 DEF MoveAndWrite
      <3> QED BY <3>2
    <2> QED BY <2>1, <2>2
  <1>6. /\ cursor # Lost /\ scr.c = "print" /\ j >= 0
        /\ cursor' = After(Moved(i, j), 1)
    BY <1>4, <1>5, DrawFollows
  <1>7. Steady /\ Synced /\ i < width /\ j < height
    BY <1>1, <1>2, <1>6 DEF CursorInv, AheadInv, ScrBetween
  <1>8. width \in Nat \ {0} /\ height \in Nat \ {0} /\ InScreen(<<i, j>>)
    <2>1. width \in Nat \ {0} /\ height \in Nat \ {0}
      BY <1>3, <1>6, <1>7
    <2>2. i \in 0 .. (width - 1) /\ j \in 0 .. (height - 1)
      BY <1>3, <1>6, <1>7
    <2> QED BY <2>1, <2>2, CellInScreen
  <1>9. Moved(i, j) = <<i, j>>
    BY <1>7, <1>8, MovedInScreen
  <1>10. /\ i + 1 < width => After(<<i, j>>, 1) = <<i + 1, j>>
         /\ i + 1 = width => After(<<i, j>>, 1) = <<0, j + 1>>
    BY <1>8, AfterInScreen
  <1>11. /\ i + 1 < width => cursor' = <<i + 1, j>>
         /\ i + 1 >= width => cursor' = <<0, j + 1>>
    BY <1>3, <1>6, <1>7, <1>9, <1>10
  <1>12. Steady'
    BY <1>1, <1>7 DEF Steady
  <1>13. AheadInv'
    BY <1>1, <1>2, <1>6, <1>7, <1>11 DEF AheadInv
  <1>14. ScrBetween'
    BY <1>1, <1>6 DEF ScrBetween, Printable
  <1> QED BY <1>12, <1>13, <1>14

(* The end of the loop.                                                    *)
LEMMA CursorNormalises ==
  ASSUME LizardInv, FollowInv, ScrNormalise
  PROVE  CursorInv'
  <1> USE DEF LizardInv, FollowInv
  <1>1. /\ UNCHANGED <<term, resizes, width, height, lock>> /\ scr.pc = "norm"
        /\ width \in Int /\ height \in Int /\ x \in Int /\ y \in Int
    BY DEF ScrNormalise, ScrAt, others, tty, BufferInv
  <1>2. scr'.pc \in {"scroll", "read"}
    <2>1. ScrGoto("scroll") \/ scr' = [pc |-> "read", c |-> None]
      BY DEF ScrNormalise
    <2> QED BY <2>1, GotoPc
  <1>3. SUFFICES ASSUME cursor' # Lost
                 PROVE  /\ cursor # Lost
                        /\ lock = "keyboard" => real' \in {None, OnKeyboard}
                        /\ scr'.pc = "read" => Synced'
    <2>1. ~ScrBetween' /\ AheadInv'
      BY <1>2 DEF ScrBetween, AheadInv
    <2> QED BY <1>1, <1>2, <1>3, <2>1 DEF CursorInv, Steady
  <1>4. CASE NormY >= height
    <2>1. UNCHANGED <<cursor, real>> /\ ScrGoto("scroll")
      BY <1>4 DEF ScrNormalise, drawn
    <2>2. scr'.pc = "scroll"
      BY <2>1, GotoPc
    <2> QED BY <1>3, <2>1, <2>2 DEF CursorInv
  <1>5. CASE ~(NormY >= height) /\ scr.c \in Printable
    <2>1. Draw(cursor, <<NormX, NormY>>, lock # "keyboard")
      BY <1>5 DEF ScrNormalise
    <2>2. /\ cursor # Lost /\ lock # "keyboard"
          /\ cursor' = cursor /\ real' = <<NormX, NormY>>
      BY <1>3, <2>1, DrawFollows
    <2>3. /\ x >= 0 /\ x < width => cursor = <<x, y>>
          /\ x >= width => cursor = <<0, y + 1>>
      BY <1>1, <1>5, <2>2 DEF CursorInv, AheadInv, ScrBetween
    <2>4. /\ x < width => NormX = x /\ NormY = y
          /\ x >= width => NormX = 0 /\ NormY = y + 1
      BY <1>1, <1>5, <2>2 DEF CursorInv, AheadInv, ScrBetween, NormX, NormY
    <2>5. cursor' = real'
      BY <1>1, <1>5, <2>2, <2>3, <2>4 DEF CursorInv, AheadInv, ScrBetween
    <2> QED BY <2>2, <2>5 DEF Synced
  <1>6. CASE ~(NormY >= height) /\ scr.c \notin Printable
    <2>1. UNCHANGED <<cursor, real>>
      BY <1>6 DEF ScrNormalise, drawn
    <2>2. Synced /\ (lock = "keyboard" => real \in {None, OnKeyboard})
      BY <1>1, <1>3, <1>6, <2>1 DEF CursorInv, ScrBetween
    <2> QED BY <1>1, <1>3, <2>1, <2>2 DEF Synced, InScreen
  <1> QED BY <1>4, <1>5, <1>6

(* The steps of screen_worker() outside of escape sequences.               *)
LEMMA CursorScreen ==
  ASSUME LizardInv, FollowInv, ScreenThread
  PROVE  CursorInv'
  <1> USE DEF LizardInv, FollowInv, ScrAt
  <1>0. /\ None # "screen" /\ None # "keyboard" /\ None \notin Printable
        /\ width \in Int /\ height \in Int /\ x \in Int /\ y \in Int
    BY NoneIsApart DEF BufferInv
  <1>1. UNCHANGED <<term, resizes>>
    BY DEF ScreenThread, ScrOver, ScrBackspace, ScrPrint, ScrAdvance,
           ScrNormalise, ScrScroll, ScrEscape, ScrPlain, ScrCell, others, tty
  <1>2. ASSUME scr.pc \in {"read", "handle"},
               UNCHANGED <<width, height, cursor, real>>,
               lock' \in {lock, "screen"},
               scr'.pc \in {"over", "index", "sequence"}
               \/ (scr'.pc = "norm" /\ scr'.c = scr.c)
        PROVE  CursorInv'
    <2>1. scr'.pc \notin {"print", "advance"} /\ ~ScrBetween'
      BY <1>0, <1>2 DEF ScrBetween, HolderInv
    <2>2. cursor # Lost => Synced
      BY <1>2 DEF CursorInv, ScrBetween
    <2>3. cursor # Lost => Synced'
      BY <1>2, <2>2 DEF Synced, InScreen
    <2>4. cursor # Lost /\ lock' = "keyboard" => real' \in {None, OnKeyboard}
      BY <1>2 DEF CursorInv
    <2> QED BY <1>1, <1>2, <2>1, <2>3, <2>4, QuietStep
  <1>3. CASE ScrOver
    BY <1>2, <1>3 DEF ScrOver, Dies, buffer, drawn
  <1>4. CASE ScrBackspace
    <2>1. CASE HasCell(screen, x, y)
      <3>1. /\ UNCHANGED <<width, height>> /\ scr.pc = "handle"
            /\ lock = None /\ lock' = None /\ ScrGoto("norm")
            /\ Draw(Clamped(x - 1, y), <<x - 1, y>>, TRUE)
        BY <1>4, <2>1 DEF ScrBackspace, buffer
      <3>2. scr'.pc = "norm" /\ scr'.c = None
        BY <3>1, GotoPc DEF HolderInv
      <3>3. ASSUME cursor' # Lost PROVE cursor # Lost /\ Synced'
        <4>1. /\ cursor # Lost
              /\ cursor' = Clamped(x - 1, y) /\ real' = <<x - 1, y>>
          BY <3>1, <3>3, DrawFollows
        <4>2. x - 1 \in Int
          BY <1>0
        <4> QED BY <1>0, <3>1, <4>1, <4>2, ClampedSyncs
      <3> QED BY <1>0, <1>1, <3>1, <3>2, <3>3, QuietStep DEF ScrBetween
    <2>2. CASE ~HasCell(screen, x, y)
      BY <1>2, <1>4, <2>2 DEF ScrBackspace, Dies, buffer, drawn
    <2> QED BY <2>1, <2>2
  <1>5. CASE ScrPrint
    BY <1>5, CursorPrints
  <1>6. CASE ScrAdvance
    <2>1. /\ UNCHANGED <<width, height, y, cursor, real, lock>>
          /\ x' = x + 1 /\ scr.pc = "advance"
          /\ scr'.pc = "norm" /\ scr'.c = scr.c
      BY <1>6, GotoPc DEF ScrAdvance, buffer, drawn
    <2>2. ScrBetween /\ ScrBetween' /\ x >= 0
      BY <2>1 DEF ScrBetween, HolderInv, BufferInv
    <2>3. ASSUME cursor # Lost
          PROVE  Steady' /\ lock' # "keyboard" /\ AheadInv'
      <3>1. AheadInv /\ Steady /\ lock # "keyboard"
        BY <2>2, <2>3 DEF CursorInv
      <3>2. AheadInv'
        BY <1>0, <2>1, <2>2, <3>1 DEF AheadInv
      <3> QED BY <1>1, <2>1, <3>1, <3>2 DEF Steady
    <2> QED BY <2>1, <2>2, <2>3 DEF CursorInv
  <1>7. CASE ScrNormalise
    BY <1>7, CursorNormalises
  <1>8. CASE ScrScroll
    <2>1. /\ UNCHANGED <<width, height>> /\ Redraw(screen, width, height)
          /\ scr'.pc = "read" /\ lock' = None
      BY <1>8 DEF ScrScroll
    <2>2. ASSUME cursor' # Lost PROVE cursor # Lost /\ Synced'
      BY <1>0, <2>1, <2>2, RedrawSyncs
    <2> QED BY <1>0, <1>1, <2>1, <2>2, QuietStep DEF ScrBetween
  <1>9. CASE ScrEscape
    <2>1. /\ UNCHANGED <<width, height, cursor, real>> /\ scr.pc = "handle"
          /\ lock' = "screen" /\ scr'.pc = "sequence"
      BY <1>9, GotoPc DEF ScrEscape, buffer, drawn
    <2> QED BY <1>2, <2>1
  <1>10. ASSUME NEW c \in Char, ScrPlain(c) PROVE CursorInv'
    <2>1. /\ UNCHANGED <<width, height, cursor, real, lock>> /\ scr.pc = "handle"
          /\ scr'.pc = "norm" /\ scr'.c = scr.c
      BY <1>10, GotoPc DEF ScrPlain, buffer, drawn
    <2> QED BY <1>2, <2>1
  <1>11. ASSUME NEW c \in Char, ScrCell(c) PROVE CursorInv'
    <2>1. /\ UNCHANGED <<width, height, x, y, cursor, real, lock>>
          /\ scr.pc = "handle"
          /\ scr' = [pc |-> "print", c |-> c] \/ Dies("index")
      BY <1>11 DEF ScrCell, buffer, drawn, pos
    <2>2. CASE scr' = [pc |-> "print", c |-> c]
      <3>1. ~ScrBetween /\ ~ScrBetween' /\ scr'.pc = "print"
        BY <2>1, <2>2 DEF ScrBetween
      <3>2. ASSUME cursor # Lost
            PROVE  /\ Steady' /\ AheadInv' /\ Synced'
                   /\ lock = "keyboard" => real \in {None, OnKeyboard}
        <4>1. Steady /\ Synced /\ (lock = "keyboard" => real \in {None, OnKeyboard})
          BY <2>1, <3>1, <3>2 DEF CursorInv
        <4>2. x < width /\ y < height
          BY <2>1, <4>1, SteadyCell DEF Seen
        <4>3. AheadInv'
          BY <2>1, <3>1, <4>2 DEF AheadInv
        <4> QED BY <1>1, <2>1, <4>1, <4>3 DEF Steady, Synced, InScreen
      <3> QED BY <2>1, <3>1, <3>2 DEF CursorInv
    <2>3. CASE Dies("index")
      BY <1>2, <2>1, <2>3 DEF Dies
    <2> QED BY <2>1, <2>2, <2>3
  <1> QED
    BY <1>3, <1>4, <1>5, <1>6, <1>7, <1>8, <1>9, <1>10, <1>11 DEF ScreenThread

(* Every step keeps the invariant of the cursor.                           *)
LEMMA FollowStep ==
  ASSUME LizardInv, FollowInv, [Next]_vars
  PROVE  FollowInv'
  <1>0. HolderInv'
    BY HolderStep DEF FollowInv, LizardInv
  <1> SUFFICES CursorInv'
    BY <1>0 DEF FollowInv
  <1>1. CASE ScreenThread
    BY <1>1, CursorScreen
  <1>2. CASE KeyboardThread
    BY <1>2, CursorKeyboard
  <1>3. CASE MainEnds \/ ShellExits \/ UNCHANGED vars
    <2>1. UNCHANGED <<term, resizes, width, height, x, y, scr, cursor, real, lock>>
      BY <1>3 DEF MainEnds, ShellExits, vars, tty, buffer, pos, drawn
    <2> QED BY <2>1, AsideStep DEF FollowInv
  <1>4. CASE ScrRead
    BY <1>4, CursorLooks DEF ScrRead, ScrAt, others, tty, pos
  <1>5. ASSUME NEW i \in Sequence, ScrSequence(i) PROVE CursorInv'
    BY <1>5, CursorSequence
  <1>6. CASE KbdRead
    BY <1>6, CursorLooks DEF KbdRead, untouched, tty, pos
  <1>7. ASSUME NEW s \in Sizes \cup {TooSmall}, ResizeTerminal(s)
        PROVE  CursorInv'
    BY <1>7 DEF ResizeTerminal, CursorInv
  <1> QED
    BY <1>1, <1>2, <1>3, <1>4, <1>5, <1>6, <1>7 DEF Next, Shell, User

(* Between characters the cached position is the terminal's, as long as    *)
(* the cursor is followed: for every size of the screen, every text, every *)
(* order of escape sequences, and whenever the keyboard is drawn.          *)
THEOREM CacheIsRight == Spec => []CursorTrue
  <1>1. Init => LizardInv /\ FollowInv
    <2> SUFFICES ASSUME Init PROVE LizardInv /\ FollowInv
      OBVIOUS
    <2>1. HolderInv
      BY NoneIsApart DEF Init, HolderInv
    <2>2. real = None /\ scr.pc = "read" /\ lock = None /\ resizes = 0
      BY DEF Init
    <2>3. cursor # Lost => term # TooSmall
      BY DEF Init
    <2>4. CursorInv
      BY <2>2, <2>3, NoneIsApart
         DEF CursorInv, Steady, AheadInv, ScrBetween, Synced, InScreen
    <2> QED BY <2>1, <2>4, LizardStart DEF FollowInv
  <1>2. LizardInv /\ FollowInv /\ [Next]_vars => LizardInv' /\ FollowInv'
    BY LizardStep, FollowStep
  <1>3. FollowInv => CursorTrue
    BY DEF FollowInv, CursorInv, ScrBetween, Synced, CursorTrue
  <1> QED BY <1>1, <1>2, <1>3, PTL DEF Spec

=============================================================================
