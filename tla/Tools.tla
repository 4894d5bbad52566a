--------------------------------- MODULE Tools ---------------------------------
(***************************************************************************)
(* The small programs beside the encryption: they share no state, so a     *)
(* behaviour is one of them at work while the others rest in an initial    *)
(* state.                                                                  *)
(***************************************************************************)
EXTENDS NvData, SessionHelper, Packages, FirmwareAudit, GpuSwitch

VARIABLE tool

toolVars == <<tool, nvVars, sessionVars, pkgVars, auditVars, gpuVars>>

(* The one state in which a program that is not at work rests.             *)
NvRests == NvInit /\ version = 1

PackagesRests ==
    /\ requiredBy = [p \in Packages |-> {}] /\ packagesName = 1 /\ wrapped = FALSE
    /\ block = 1 /\ lineNo = 0 /\ startLen = 1 /\ searching = TRUE /\ packages = {1}
    /\ lastWasRequiredBy = FALSE /\ currentPackage = 0

AuditRests ==
    /\ deviceType = "D20" /\ chip = << >> /\ audit = NoAudit
    /\ info = [is |-> "none", ids |-> << >>] /\ enrolled = {}

ToolsInit ==
    /\ tool \in {"nvdata", "session", "packages", "audit", "gpu"}
    /\ IF tool = "nvdata" THEN NvInit ELSE NvRests
    /\ IF tool = "packages" THEN PackagesInit ELSE PackagesRests
    /\ IF tool = "audit" THEN AuditInit ELSE AuditRests
    /\ SessionInit
    /\ GpuInit /\ (tool # "gpu" => ~windowsEntry)

ToolsNext ==
    /\ \/ /\ tool = "nvdata" /\ NvNext
          /\ UNCHANGED <<sessionVars, pkgVars, auditVars, gpuVars>>
       \/ /\ tool = "session" /\ SessionNext
          /\ UNCHANGED <<nvVars, pkgVars, auditVars, gpuVars>>
       \/ /\ tool = "packages" /\ PackagesNext
          /\ UNCHANGED <<nvVars, sessionVars, auditVars, gpuVars>>
       \/ /\ tool = "audit" /\ AuditNext
          /\ UNCHANGED <<nvVars, sessionVars, pkgVars, gpuVars>>
       \/ /\ tool = "gpu" /\ GpuNext
          /\ UNCHANGED <<nvVars, sessionVars, pkgVars, auditVars>>
    /\ UNCHANGED tool

(* restore() sleeps and polls but waits for nobody: it goes on.            *)
ToolsSpec ==
    /\ ToolsInit /\ [][ToolsNext]_toolVars
    /\ WF_toolVars(tool = "session" /\ HelperStep
                   /\ UNCHANGED <<tool, nvVars, pkgVars, auditVars, gpuVars>>)

=============================================================================
