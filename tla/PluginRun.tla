----------------------------- MODULE PluginRun ------------------------------
(***************************************************************************)
(* The checks of exec plugins in a run of the engine: check.Run of         *)
(* internal/plugin/plugin.go and invoke of exec.go.  Each execution of     *)
(* such a check is a process, which may start others; it is killed when    *)
(* the context of the check ends, with the processes of its group.         *)
(*                                                                         *)
(* A plugin may do anything: write what it likes, whenever it likes, exit  *)
(* or not, and leave processes behind that hold its output open, in its    *)
(* group or out of it.                                                     *)
(***************************************************************************)
EXTENDS Engine

CONSTANT Plugins   \* the executions whose check is a plugin's

ASSUME PluginAssumption ==
    /\ Plugins \subseteq Executions
    /\ \A e \in Plugins : Returns[e] = {"findings", "malformed", "error", "contextError"}

VARIABLES
    invoke,   \* where invoke is
    process,  \* the plugin's process; "failed" if it was killed or exited with a status
    helper,   \* a process it started that holds its output: in its group or detached
    output,   \* what is on its stdout
    run       \* what cmd.Run returned

pluginVars == <<invoke, process, helper, output, run>>
allVars == <<vars, pluginVars>>

(***************************************************************************)
(* What decodeOne and check.Run make of stdout: nothing yet, or not all of *)
(* a document; a response with findings, which normalize may still reject; *)
(* or what stays an error whatever follows: an error response, anything    *)
(* else, a second document, more than maxStdout.  What follows a response  *)
(* and begins with a closing bracket is overlooked.                        *)
(***************************************************************************)
Outputs == {"unfinished", "answer", "spoilt"}

\* How stdout may grow.
Growth(out) == IF out = "unfinished" THEN Outputs ELSE {"spoilt"}

PluginTypeOK ==
    /\ invoke \in [Plugins -> {"none", "waiting", "draining", "judging", "over"}]
    /\ process \in [Plugins -> {"none", "running", "ok", "failed"}]
    /\ helper \in [Plugins -> {"none", "child", "detached"}]
    /\ output \in [Plugins -> Outputs]
    /\ run \in [Plugins -> {"none", "nil", "error"}]

PluginInit ==
    /\ Init
    /\ invoke = [e \in Plugins |-> "none"]
    /\ process = [e \in Plugins |-> "none"]
    /\ helper = [e \in Plugins |-> "none"]
    /\ output = [e \in Plugins |-> "unfinished"]
    /\ run = [e \in Plugins |-> "none"]

\* cmd.Start: not for a context that is done.
StartProcess(e) ==
    /\ check[e] = "running" /\ invoke[e] = "none"
    /\ cause[e] = "none"
    /\ invoke' = [invoke EXCEPT ![e] = "waiting"]
    /\ process' = [process EXCEPT ![e] = "running"]
    /\ UNCHANGED <<vars, helper, output, run>>

\* The context is done, or the executable is not what discovery found.
StartFails(e) ==
    /\ check[e] = "running" /\ invoke[e] = "none"
    /\ invoke' = [invoke EXCEPT ![e] = "judging"]
    /\ run' = [run EXCEPT ![e] = "error"]
    /\ UNCHANGED <<vars, process, helper, output>>

\* While invoke reads it.
Write(e) ==
    /\ invoke[e] \in {"waiting", "draining"}
    /\ process[e] = "running" \/ helper[e] # "none"
    /\ \E out \in Growth(output[e]) : output' = [output EXCEPT ![e] = out]
    /\ UNCHANGED <<vars, invoke, process, helper, run>>

Fork(e) ==
    /\ process[e] = "running" /\ helper[e] = "none"
    /\ \E group \in {"child", "detached"} : helper' = [helper EXCEPT ![e] = group]
    /\ UNCHANGED <<vars, invoke, process, output, run>>

Exit(e) ==
    /\ process[e] = "running"
    /\ \E status \in {"ok", "failed"} : process' = [process EXCEPT ![e] = status]
    /\ UNCHANGED <<vars, invoke, helper, output, run>>

HelperExits(e) ==
    /\ helper[e] # "none"
    /\ helper' = [helper EXCEPT ![e] = "none"]
    /\ UNCHANGED <<vars, invoke, process, output, run>>

\* cmd.Cancel of killGroup, as long as the process was not waited for.
Kill(e) ==
    /\ cause[e] # "none"
    /\ invoke[e] = "waiting"
    /\ process[e] = "running" \/ helper[e] = "child"
    /\ process' = [process EXCEPT ![e] = IF @ = "running" THEN "failed" ELSE @]
    /\ helper' = [helper EXCEPT ![e] = IF @ = "child" THEN "none" ELSE @]
    /\ UNCHANGED <<vars, invoke, output, run>>

\* cmd.Wait sees the process end, and goes on to the end of its output.
Reap(e) ==
    /\ invoke[e] = "waiting"
    /\ process[e] # "running"
    /\ invoke' = [invoke EXCEPT ![e] = "draining"]
    /\ UNCHANGED <<vars, process, helper, output, run>>

RunReturned(e, err) ==
    /\ invoke' = [invoke EXCEPT ![e] = "judging"]
    /\ run' = [run EXCEPT ![e] = err]
    /\ UNCHANGED <<vars, process, helper, output>>

\* Nobody holds the output any more: cmd.Run returns.
Drained(e) ==
    /\ invoke[e] = "draining"
    /\ helper[e] = "none"
    /\ RunReturned(e, IF process[e] = "ok" THEN "nil" ELSE "error")

\* Wrong: cmd.WaitDelay is not set.
DelayEndsNever(e) == FALSE /\ invoke[e] = "draining" /\ RunReturned(e, "error")

\* waitDelay is over: the output is closed under whoever holds it, which is an error.
DelayEnds(e) ==
    /\ invoke[e] = "draining"
    /\ helper[e] # "none"
    /\ RunReturned(e, "error")

Response == {"findings", "malformed"}

\* Wrong: the exit status is looked at only when there is no response.
AnswersFirst(e) ==
    IF cause[e] # "none" THEN {"contextError"}
    ELSE IF output[e] = "answer" THEN Response ELSE {"error"}

\* What check.Run may return, in the order invoke looks at things.
Answers(e) ==
    IF cause[e] # "none" THEN {"contextError"}
    ELSE IF run[e] = "nil" /\ output[e] = "answer" THEN Response ELSE {"error"}

\* check.Run returns, maybe to nobody.
PluginReturns(e) ==
    /\ invoke[e] = "judging"
    /\ invoke' = [invoke EXCEPT ![e] = "over"]
    /\ \E answer \in Answers(e) : sent' = [sent EXCEPT ![e] = answer]
    /\ check' = [check EXCEPT ![e] = "sending"]
    /\ UNCHANGED <<pc, cause, cancelled, verdict, found, errors, returned, process, helper, output, run>>

\* What seta and the system do for an execution; the rest is up to the plugin.
InvokeStep(e) ==
    \/ StartProcess(e) \/ StartFails(e) \/ Kill(e) \/ Reap(e)
    \/ Drained(e) \/ DelayEnds(e) \/ PluginReturns(e)

ProcessStep(e) == Write(e) \/ Fork(e) \/ Exit(e) \/ HelperExits(e)

\* A step of the engine or of a built-in check.
OtherStep ==
    /\ \/ \E e \in Executions : EngineStep(e) \/ CheckSends(e) \/ DeadlinePasses(e)
       \/ \E e \in Executions \ Plugins : CheckReturns(e)
       \/ Cancel
       \/ Return
       \/ Finished
    /\ UNCHANGED pluginVars

PluginNext ==
    \/ OtherStep
    \/ \E e \in Plugins : InvokeStep(e) \/ ProcessStep(e)

PluginSpec == PluginInit /\ [][PluginNext]_allVars

\* Invoke goes on, and kills whom it should; a plugin need not do anything.
PluginFairness ==
    /\ Fairness
    /\ \A e \in Plugins : WF_allVars(InvokeStep(e))

PluginFairSpec == PluginSpec /\ PluginFairness

-----------------------------------------------------------------------------
(***************************************************************************)
(* Findings are only taken from a plugin that answered in full and exited  *)
(* with 0 of its own accord, with nobody left who could have written more: *)
(* "A plugin that exits non-zero, prints anything but a single JSON        *)
(* Response, or overruns the deadline is reported as a check error, never  *)
(* as a finding" (package sdk).                                            *)
(***************************************************************************)
PluginsKeepTheProtocol ==
    \A e \in found \cap Plugins :
        process[e] = "ok" /\ helper[e] = "none" /\ output[e] = "answer"

(***************************************************************************)
(* A plugin whose check has ended is got rid of, whatever it does: it is   *)
(* killed, and nothing that holds its output holds up seta (invoke).       *)
(***************************************************************************)
PluginsAreReaped ==
    \A e \in Plugins :
        check[e] = "running" /\ cause[e] # "none"
            ~> check[e] = "exited" /\ process[e] # "running"

(***************************************************************************)
(* Why the protocol is kept, as an inductive invariant: how invoke, the    *)
(* check's goroutine and the process go together.                          *)
(***************************************************************************)
InvokeInv(e) ==
    /\ invoke[e] = "none" => check[e] \in {"none", "running"} /\ process[e] = "none"
    /\ invoke[e] \in {"waiting", "draining", "judging"} => check[e] = "running"
    /\ invoke[e] = "over" => check[e] \in {"sending", "exited"}
    /\ process[e] = "running" => invoke[e] = "waiting"
    /\ run[e] = "nil" => invoke[e] \in {"judging", "over"} /\ process[e] = "ok" /\ helper[e] = "none"
    /\ sent[e] \in Response => invoke[e] = "over" /\ run[e] = "nil" /\ output[e] = "answer"

PluginInv == PluginTypeOK /\ \A e \in Plugins : InvokeInv(e)
=============================================================================
