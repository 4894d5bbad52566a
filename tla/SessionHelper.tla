----------------------------- MODULE SessionHelper -----------------------------
(***************************************************************************)
(* wayland_session_helper.py: save() notes which of the configured         *)
(* programs run, restore() starts them again in the next session, looks    *)
(* after them for a while and starts those that fail once more.            *)
(***************************************************************************)
EXTENDS Naturals, FiniteSets

CONSTANTS
    Programs,     \* the configured programs
    Unchecked,    \* those with check = false
    CheckCount,   \* check_count, 10 by default
    KeepState,    \* keep_state_after_restore
    MaxCopies     \* bound on the processes of a program repeated restores leave

ASSUME SessionAssumption ==
    /\ Unchecked \subseteq Programs /\ CheckCount \in Nat
    /\ KeepState \in BOOLEAN /\ MaxCopies \in Nat

VARIABLES
    saved,     \* the programs in the state file; {} also for no file
    statePath, \* the state file: "none", "torn" or "whole"
    proc,      \* the last process restore() started for each program
    copies,    \* processes of each program that are running
    helper,    \* the running helper
    again      \* restore() was called with programs already there

sessionVars == <<saved, statePath, proc, copies, helper, again>>

NoHelper == [pc |-> "off", todo |-> {}, all |-> {}, ok |-> {}, round |-> 0]

(* A process exits with 0 or not, or stays.                                *)
Exits(p) ==
    /\ proc[p] = "running"
    /\ proc' \in {[proc EXCEPT ![p] = "ok"], [proc EXCEPT ![p] = "failed"]}
    /\ copies' = [copies EXCEPT ![p] = @ - 1]
    /\ UNCHANGED <<saved, statePath, helper, again>>

Relaunch(p) ==
    /\ proc' = [proc EXCEPT ![p] = "running"]
    /\ copies' = [copies EXCEPT ![p] = @ + 1]

-----------------------------------------------------------------------------

(* open(..., 'w') empties the file before the JSON is written.             *)
Save ==
    /\ helper.pc = "off"
    /\ \/ /\ saved' = {p \in Programs : copies[p] > 0}
          /\ statePath' = "whole"
       \/ saved' = {} /\ statePath' = "torn"
    /\ UNCHANGED <<proc, copies, helper, again>>

(* Without a state file there is nothing to do; a torn one is an error.    *)
StartRestore ==
    /\ helper.pc = "off" /\ statePath = "whole"
    /\ \A p \in Programs : copies[p] < MaxCopies
    /\ helper' = [NoHelper EXCEPT !.pc = "launch", !.todo = saved, !.all = saved]
    /\ again' = (again \/ \E p \in Programs : copies[p] > 0)
    /\ UNCHANGED <<saved, statePath, proc, copies>>

Launch ==
    /\ helper.pc = "launch"
    /\ \/ \E p \in helper.todo :
            Relaunch(p) /\ helper' = [helper EXCEPT !.todo = @ \ {p}]
       \/ /\ helper.todo = {}
          /\ helper' = [helper EXCEPT !.pc = "sleep"]
          /\ UNCHANGED <<proc, copies>>
    /\ UNCHANGED <<saved, statePath, again>>

(* The next round, or the end after check_count of them.                   *)
NextRound ==
    /\ helper.pc = "sleep"
    /\ helper' = IF helper.round < CheckCount
                 THEN [helper EXCEPT !.pc = "check", !.round = @ + 1,
                                     !.ok = {}, !.todo = helper.all]
                 ELSE [helper EXCEPT !.pc = "remove"]
    /\ UNCHANGED <<saved, statePath, proc, copies, again>>

(* Mutant: whatever has not exited with 0 is started again. *)
CheckRelaunchesRunning(p) ==
    /\ helper.pc = "check" /\ p \in helper.todo
    /\ \/ /\ p \in Unchecked \/ proc[p] = "ok"
          /\ helper' = [helper EXCEPT !.todo = @ \ {p}, !.ok = @ \cup {p}]
          /\ UNCHANGED <<proc, copies>>
       \/ /\ p \notin Unchecked /\ proc[p] # "ok"
          /\ Relaunch(p)
          /\ helper' = [helper EXCEPT !.todo = @ \ {p}]
    /\ UNCHANGED <<saved, statePath, again>>

(* poll() of one program: exited with 0, still running, or failed.         *)
Check(p) ==
    /\ helper.pc = "check" /\ p \in helper.todo
    /\ \/ /\ p \in Unchecked \/ proc[p] = "ok"
          /\ helper' = [helper EXCEPT !.todo = @ \ {p}, !.ok = @ \cup {p}]
          /\ UNCHANGED <<proc, copies>>
       \/ /\ p \notin Unchecked /\ proc[p] = "running"
          /\ helper' = [helper EXCEPT !.todo = @ \ {p}]
          /\ UNCHANGED <<proc, copies>>
       \/ /\ p \notin Unchecked /\ proc[p] = "failed"
          /\ Relaunch(p)
          /\ helper' = [helper EXCEPT !.todo = @ \ {p}]
    /\ UNCHANGED <<saved, statePath, again>>

(* Mutant: a round that ends early starts the count again. *)
EndRoundUncounted ==
    /\ helper.pc = "check" /\ helper.todo = {}
    /\ helper' = IF helper.ok = helper.all THEN [helper EXCEPT !.pc = "remove"]
                 ELSE [helper EXCEPT !.pc = "sleep", !.round = 0]
    /\ UNCHANGED <<saved, statePath, proc, copies, again>>

EndRound ==
    /\ helper.pc = "check" /\ helper.todo = {}
    /\ helper' = [helper EXCEPT !.pc = IF helper.ok = helper.all THEN "remove"
                                                                 ELSE "sleep"]
    /\ UNCHANGED <<saved, statePath, proc, copies, again>>

RemoveState ==
    /\ helper.pc = "remove"
    /\ IF KeepState THEN UNCHANGED <<saved, statePath>>
                    ELSE saved' = {} /\ statePath' = "none"
    /\ helper' = NoHelper
    /\ UNCHANGED <<proc, copies, again>>

(* A program that is no longer configured, a command that cannot be        *)
(* started, or the end of the helper for any other reason.                 *)
RestoreAborts ==
    /\ helper.pc # "off"
    /\ helper' = NoHelper
    /\ UNCHANGED <<saved, statePath, proc, copies, again>>

-----------------------------------------------------------------------------

(* The end of the session takes its programs and the helper along.         *)
Logout ==
    /\ copies' = [p \in Programs |-> 0]
    /\ proc' = [p \in Programs |-> "none"]
    /\ again' = FALSE /\ helper' = NoHelper
    /\ UNCHANGED <<saved, statePath>>

(* Outside of restore() the user opens what is not open.                   *)
UserOpens(p) ==
    /\ helper.pc = "off" /\ copies[p] = 0
    /\ copies' = [copies EXCEPT ![p] = 1]
    /\ proc' = [proc EXCEPT ![p] = "running"]
    /\ UNCHANGED <<saved, statePath, helper, again>>

SessionInit ==
    /\ saved = {} /\ statePath = "none"
    /\ proc = [p \in Programs |-> "none"]
    /\ copies = [p \in Programs |-> 0]
    /\ helper = NoHelper /\ again = FALSE

HelperStep ==
    \/ Launch \/ NextRound \/ EndRound \/ RemoveState
    \/ \E p \in Programs : Check(p)

SessionNext ==
    \/ HelperStep \/ RestoreAborts \/ Save \/ StartRestore \/ Logout
    \/ \E p \in Programs : Exits(p) \/ UserOpens(p)

-----------------------------------------------------------------------------
(* Properties *)

(* However programs fail, stay or finish while restore() polls them one    *)
(* after the other, it never has two of the same running, unless some ran  *)
(* before it began (restore() called twice in a session).                  *)
OneOfEach == ~again => \A p \in Programs : copies[p] <= 1

(* restore() ends, also when a program runs on or fails every time.        *)
RestoreEnds == helper.pc # "off" ~> helper.pc = "off"

=============================================================================
