--------------------------- MODULE ManagerScript ---------------------------
(***************************************************************************)
(* Control of the IndexTTS2 sidecar (server/src/index_tts_runtime.rs): an  *)
(* administrator, or the start of the public service, has a script install *)
(* the model, start or stop the service.  Every process has its own busy   *)
(* flag and its own last error, in memory only, while the script is a      *)
(* child that a restart of its parent does not end.                        *)
(*                                                                         *)
(* The script and the service are external: a script ends well or badly,   *)
(* or never, and the service answers its health check or not.              *)
(***************************************************************************)
EXTENDS Naturals

CONSTANTS
    Processes,      \* the services that hold an IndexTtsRuntime
    MaxActions      \* bound: scripts started in all

ASSUME ScriptAssumption == MaxActions \in Nat

VARIABLES
    action,         \* state.action
    failed,         \* state.last_error is set
    script,         \* the child of this process: "none", its action, or its end
    orphans,        \* children of processes that are gone
    started,
    model,          \* the model files are complete
    service         \* the sidecar: "down", "loading", "up"
scriptVars == <<action, failed, script, orphans, started, model, service>>

Actions == {"install", "start", "stop"}
Ends == {"succeeded", "failed"}

ScriptInit ==
    /\ action = [p \in Processes |-> "none"]
    /\ failed = [p \in Processes |-> FALSE]
    /\ script = [p \in Processes |-> "none"]
    /\ orphans = 0
    /\ started = 0
    /\ model \in BOOLEAN
    /\ service \in {"down", "up"}

Launch(p, a) ==
    /\ started < MaxActions
    /\ started' = started + 1
    /\ action' = [action EXCEPT ![p] = a]
    /\ failed' = [failed EXCEPT ![p] = FALSE]
    /\ script' = [script EXCEPT ![p] = a]
    /\ UNCHANGED <<orphans, model, service>>

\* run_action: the flag is tested and set under one lock.
RunAction(p, a) ==
    /\ a = "start" => model
    /\ action[p] = "none"
    /\ Launch(p, a)

\* start_index_if_installed, when the public service starts: status, then the
\* same run_action.
AutoStart(p) ==
    /\ model /\ service = "down"
    /\ RunAction(p, "start")

\* The child ends, or could not be run at all.
ScriptExits(p) ==
    /\ script[p] \in Actions
    /\ \E end \in Ends :
          /\ script' = [script EXCEPT ![p] = end]
          /\ model' = (model \/ (script[p] = "install" /\ end = "succeeded"))
          /\ service' =
               IF end = "failed" THEN service
               ELSE IF script[p] = "stop" THEN "down"
               ELSE IF service = "down" THEN "loading" ELSE service
    /\ UNCHANGED <<action, failed, orphans, started>>

\* Mutant: the error of a script leaves early.
ReleaseOnSuccess(p) ==
    /\ script[p] = "succeeded"
    /\ action' = [action EXCEPT ![p] = "none"]
    /\ failed' = [failed EXCEPT ![p] = FALSE]
    /\ script' = [script EXCEPT ![p] = "none"]
    /\ UNCHANGED <<orphans, started, model, service>>

\* The spawned task writes the result under the lock, whatever it is.
Release(p) ==
    /\ script[p] \in Ends
    /\ action' = [action EXCEPT ![p] = "none"]
    /\ failed' = [failed EXCEPT ![p] = script[p] = "failed"]
    /\ script' = [script EXCEPT ![p] = "none"]
    /\ UNCHANGED <<orphans, started, model, service>>

Restart(p) ==
    /\ orphans' = orphans + (IF script[p] \in Actions THEN 1 ELSE 0)
    /\ action' = [action EXCEPT ![p] = "none"]
    /\ failed' = [failed EXCEPT ![p] = FALSE]
    /\ script' = [script EXCEPT ![p] = "none"]
    /\ UNCHANGED <<started, model, service>>

\* The service loads its model, or crashes.
ServiceChanges ==
    /\ service' = (IF service = "loading" THEN "up" ELSE "down")
    /\ service # "down"
    /\ UNCHANGED <<action, failed, script, orphans, started, model>>

ScriptNext ==
    \/ \E p \in Processes :
          \/ \E a \in Actions : RunAction(p, a)
          \/ AutoStart(p) \/ ScriptExits(p) \/ Release(p) \/ Restart(p)
    \/ ServiceChanges

\* Nothing is assumed of the script: it may download for hours, or hang.
ScriptFairness == \A p \in Processes : WF_scriptVars(Release(p))
ScriptSpec == ScriptInit /\ [][ScriptNext]_scriptVars /\ ScriptFairness

-----------------------------------------------------------------------------
\* status(): what an administrator is shown, in the order of its tests.
Phase(p) ==
    IF action[p] # "none" THEN action[p]
    ELSE IF ~model THEN "not_installed"
    ELSE IF service = "up" THEN "ready"
    ELSE IF service = "loading" THEN "starting"
    ELSE IF failed[p] THEN "error" ELSE "stopped"

ScriptTypeOK ==
    /\ action \in [Processes -> Actions \cup {"none"}]
    /\ failed \in [Processes -> BOOLEAN]
    /\ script \in [Processes -> Actions \cup Ends \cup {"none"}]
    /\ orphans \in 0..MaxActions /\ started \in 0..MaxActions
    /\ model \in BOOLEAN /\ service \in {"down", "loading", "up"}

\* A process runs one script at a time, and the action an administrator is
\* shown as running is the one whose script runs.
ShownActionRuns ==
    \A p \in Processes :
        /\ action[p] # "none" <=> script[p] # "none"
        /\ script[p] \in Actions => Phase(p) = script[p]

\* No script starts while another child of the same process runs.
OneScriptPerProcess ==
    [][\A p \in Processes :
          script[p] \in Actions /\ script'[p] # script[p] =>
              script'[p] \in Ends \cup {"none"}]_scriptVars

\* When its script is over, however it ended, a process accepts actions again.
BusyFlagIsReleased ==
    \A p \in Processes : script[p] \in Ends ~> action[p] = "none"

\* One script at a time, the one that is shown, and always the next one.
ScriptsTakeTurns == []ShownActionRuns /\ OneScriptPerProcess /\ BusyFlagIsReleased
=============================================================================
