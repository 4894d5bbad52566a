----------------------------- MODULE SealLifeCycle -----------------------------
(***************************************************************************)
(* What auto_tpm_encrypt.py promises of each volume: it is plain, open     *)
(* (the blank password opens it) or sealed (only keys do), and moves       *)
(*                                                                         *)
(*     plain -> open <-> sealed -> plain                                   *)
(*                                                                         *)
(* under Linux only. A volume becomes open only with the Windows boot      *)
(* entry gone, and Windows only starts when no volume is open.             *)
(***************************************************************************)
CONSTANT Volume

VARIABLES
    vol,      \* the state of each volume
    entry,    \* there is a Windows boot entry
    running   \* "linux", "windows" or "off"

vars == <<vol, entry, running>>

Init ==
    /\ vol = [v \in Volume |-> "plain"]
    /\ entry \in BOOLEAN
    /\ running = "off"

(* The blank password is set, on a new volume or on a sealed one. *)
Open(v) ==
    /\ running = "linux"
    /\ vol[v] \in {"plain", "sealed"}
    /\ vol' = [vol EXCEPT ![v] = "open"]
    /\ entry' = FALSE
    /\ UNCHANGED running

Seal(v) ==
    /\ running = "linux"
    /\ vol[v] = "open"
    /\ vol' = [vol EXCEPT ![v] = "sealed"]
    /\ UNCHANGED <<entry, running>>

Decrypt(v) ==
    /\ running = "linux"
    /\ vol[v] = "sealed"
    /\ vol' = [vol EXCEPT ![v] = "plain"]
    /\ UNCHANGED <<entry, running>>

RemoveEntry ==
    /\ running = "linux"
    /\ entry' = FALSE
    /\ UNCHANGED <<vol, running>>

StartLinux ==
    /\ running = "off"
    /\ running' = "linux"
    /\ UNCHANGED <<vol, entry>>

(* Windows may put its boot entry back. *)
StartWindows ==
    /\ running = "off"
    /\ \A v \in Volume : vol[v] # "open"
    /\ running' = "windows"
    /\ entry' \in {entry, TRUE}
    /\ UNCHANGED vol

SwitchOff ==
    /\ running' = "off"
    /\ UNCHANGED <<vol, entry>>

Next ==
    \/ \E v \in Volume : Open(v) \/ Seal(v) \/ Decrypt(v)
    \/ RemoveEntry \/ StartLinux \/ StartWindows \/ SwitchOff

Spec == Init /\ [][Next]_vars

=============================================================================
