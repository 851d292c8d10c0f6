------------------------------- MODULE Engine -------------------------------
(***************************************************************************)
(* One run of the checks: Engine.Run, runOne and normalize of              *)
(* internal/engine/engine.go.  Every execution (a check on a target) has a *)
(* goroutine of the engine, which takes its two slots, starts the check in *)
(* a goroutine of its own, waits for the result or the end of the check's  *)
(* context, and reports.  A check that overruns is abandoned: it goes on   *)
(* by itself and nobody waits for it.                                      *)
(***************************************************************************)
EXTENDS Naturals, FiniteSets

CONSTANTS
    Executions,  \* the (target, check) pairs of the jobs
    Target,      \* the target of each execution
    Workers,     \* the number of global slots
    PerTarget,   \* the number of slots of each target
    Returns      \* what each check may come back with

(***************************************************************************)
(* What a check comes back with: findings (none, perhaps), findings that   *)
(* normalize rejects, an error of its own, the error of its context, or a  *)
(* panic, which is recovered and sent as an error.                         *)
(***************************************************************************)
Results == {"findings", "malformed", "error", "contextError", "panic"}

ASSUME SlotAssumption ==
    /\ Workers \in Nat \ {0} /\ PerTarget \in Nat \ {0}
    /\ DOMAIN Target = Executions /\ IsFiniteSet(Executions)
    /\ Returns \in [Executions -> SUBSET Results]

VARIABLES
    pc,         \* where each execution's engine goroutine is
    check,      \* where each check's own goroutine is
    sent,       \* what a check put in done, the channel of capacity one
    cause,      \* why the check's context ended: "none", "deadline" or "canceled"
    cancelled,  \* the run's context has ended
    verdict,    \* what runOne returned
    found,      \* executions whose findings are in the result
    errors,     \* executions with a CheckError in the result
    returned    \* Run has returned

vars == <<pc, check, sent, cause, cancelled, verdict, found, errors, returned>>

Verdicts == {"findings", "error", "timeout", "canceled"}

TypeOK ==
    /\ pc \in [Executions -> {"queued", "waiting", "starting", "launching", "selecting",
                              "blaming", "judging", "reporting", "unlocking", "leaving", "done"}]
    /\ check \in [Executions -> {"none", "running", "sending", "exited"}]
    /\ sent \in [Executions -> Results \cup {"none"}]
    /\ cause \in [Executions -> {"none", "deadline", "canceled"}]
    /\ verdict \in [Executions -> Verdicts \cup {"none"}]
    /\ found \subseteq Executions /\ errors \subseteq Executions
    /\ cancelled \in BOOLEAN /\ returned \in BOOLEAN

Init ==
    /\ pc = [e \in Executions |-> "queued"]
    /\ check = [e \in Executions |-> "none"]
    /\ sent = [e \in Executions |-> "none"]
    /\ cause = [e \in Executions |-> "none"]
    /\ cancelled = FALSE
    /\ verdict = [e \in Executions |-> "none"]
    /\ found = {} /\ errors = {}
    /\ returned = FALSE

HoldsTarget == {e \in Executions : pc[e] \notin {"queued", "done"}}
HoldsGlobal == {e \in Executions : pc[e] \notin {"queued", "waiting", "leaving", "done"}}
OfTarget(e) == {d \in Executions : Target[d] = Target[e]}

Goto(e, state) == pc' = [pc EXCEPT ![e] = state]

\* perTarget <- struct{}{}
TakeTarget(e) ==
    /\ pc[e] = "queued"
    /\ Cardinality(HoldsTarget \cap OfTarget(e)) < PerTarget
    /\ Goto(e, "waiting")
    /\ UNCHANGED <<check, sent, cause, cancelled, verdict, found, errors, returned>>

\* global <- struct{}{}
TakeGlobal(e) ==
    /\ pc[e] = "waiting"
    /\ Cardinality(HoldsGlobal) < Workers
    /\ Goto(e, "starting")
    /\ UNCHANGED <<check, sent, cause, cancelled, verdict, found, errors, returned>>

\* "run canceled before check started"
Skip(e) ==
    /\ pc[e] = "starting"
    /\ cancelled
    /\ verdict' = [verdict EXCEPT ![e] = "canceled"]
    /\ Goto(e, "reporting")
    /\ UNCHANGED <<check, sent, cause, cancelled, found, errors, returned>>

Admit(e) ==
    /\ pc[e] = "starting"
    /\ ~cancelled
    /\ Goto(e, "launching")
    /\ UNCHANGED <<check, sent, cause, cancelled, verdict, found, errors, returned>>

\* The context of a run that ended since Admit makes one that has ended too.
Launch(e) ==
    /\ pc[e] = "launching"
    /\ check' = [check EXCEPT ![e] = "running"]
    /\ cause' = [cause EXCEPT ![e] = IF cancelled THEN "canceled" ELSE "none"]
    /\ Goto(e, "selecting")
    /\ UNCHANGED <<sent, cancelled, verdict, found, errors, returned>>

\* c.Run returns or panics, whenever it likes.
CheckReturns(e) ==
    /\ check[e] = "running"
    /\ \E r \in Returns[e] \ (IF cause[e] = "none" THEN {"contextError"} ELSE {}) :
           sent' = [sent EXCEPT ![e] = r]
    /\ check' = [check EXCEPT ![e] = "sending"]
    /\ UNCHANGED <<pc, cause, cancelled, verdict, found, errors, returned>>

\* done <- outcome{...}: buffered, so it never blocks.
CheckSends(e) ==
    /\ check[e] = "sending"
    /\ check' = [check EXCEPT ![e] = "exited"]
    /\ UNCHANGED <<pc, sent, cause, cancelled, verdict, found, errors, returned>>

UnderDeadline(e) == pc[e] \in {"selecting", "blaming", "judging"}

\* cctx reaches its deadline; cancel(), deferred by runOne, stops the timer.
DeadlinePasses(e) ==
    /\ UnderDeadline(e)
    /\ cause[e] = "none"
    /\ cause' = [cause EXCEPT ![e] = "deadline"]
    /\ UNCHANGED <<pc, check, sent, cancelled, verdict, found, errors, returned>>

\* The run's context ends, and with it every check's.
Cancel ==
    /\ ~cancelled
    /\ ~returned
    /\ cancelled' = TRUE
    /\ cause' = [e \in Executions |->
                   IF UnderDeadline(e) /\ cause[e] = "none"
                   THEN "canceled" ELSE cause[e]]
    /\ UNCHANGED <<pc, check, sent, verdict, found, errors, returned>>

\* o = <-done, in either of the two selects.
TakeResult(e) ==
    /\ pc[e] = "selecting"
    /\ check[e] = "exited"
    /\ Goto(e, "judging")
    /\ UNCHANGED <<check, sent, cause, cancelled, verdict, found, errors, returned>>

\* Wrong: runOne waits for the check alone.
AbandonNever(e) == FALSE /\ pc[e] = "selecting" /\ UNCHANGED vars

\* <-cctx.Done(), and nothing in done: "prefer a result that raced with the
\* deadline".
Abandon(e) ==
    /\ pc[e] = "selecting"
    /\ cause[e] # "none"
    /\ check[e] # "exited"
    /\ Goto(e, "blaming")
    /\ UNCHANGED <<check, sent, cause, cancelled, verdict, found, errors, returned>>

\* Wrong: an ended context is always a timeout.
BlameTimeout(e) ==
    /\ pc[e] = "blaming"
    /\ verdict' = [verdict EXCEPT ![e] = "timeout"]
    /\ Goto(e, "reporting")
    /\ UNCHANGED <<check, sent, cause, cancelled, found, errors, returned>>

\* An abandoned check was canceled with the run, or timed out.
Blame(e) ==
    /\ pc[e] = "blaming"
    /\ verdict' = [verdict EXCEPT ![e] = IF cancelled THEN "canceled" ELSE "timeout"]
    /\ Goto(e, "reporting")
    /\ UNCHANGED <<check, sent, cause, cancelled, found, errors, returned>>

\* An error after the check's own deadline is a timeout; findings are
\* normalized, which fails for malformed ones.
Judge(e) ==
    /\ pc[e] = "judging"
    /\ verdict' = [verdict EXCEPT ![e] =
          CASE sent[e] = "findings" -> "findings"
            [] sent[e] = "malformed" -> "error"
            [] OTHER -> IF cause[e] = "deadline" /\ ~cancelled THEN "timeout" ELSE "error"]
    /\ Goto(e, "reporting")
    /\ UNCHANGED <<check, sent, cause, cancelled, found, errors, returned>>

\* Under mu: findings, or one CheckError.
Report(e) ==
    /\ pc[e] = "reporting"
    /\ found' = IF verdict[e] = "findings" THEN found \cup {e} ELSE found
    /\ errors' = IF verdict[e] = "findings" THEN errors ELSE errors \cup {e}
    /\ Goto(e, "unlocking")
    /\ UNCHANGED <<check, sent, cause, cancelled, verdict, returned>>

\* The deferred calls, last first: the global slot, then the target's.
ReleaseGlobal(e) ==
    /\ pc[e] = "unlocking"
    /\ Goto(e, "leaving")
    /\ UNCHANGED <<check, sent, cause, cancelled, verdict, found, errors, returned>>

ReleaseTarget(e) ==
    /\ pc[e] = "leaving"
    /\ Goto(e, "done")
    /\ UNCHANGED <<check, sent, cause, cancelled, verdict, found, errors, returned>>

\* Wrong: Run returns once every check was started.
ReturnEarly ==
    /\ \A e \in Executions : pc[e] \notin {"queued", "waiting", "starting"}
    /\ ~returned
    /\ returned' = TRUE
    /\ UNCHANGED <<pc, check, sent, cause, cancelled, verdict, found, errors>>

\* wg.Wait()
Return ==
    /\ \A e \in Executions : pc[e] = "done"
    /\ ~returned
    /\ returned' = TRUE
    /\ UNCHANGED <<pc, check, sent, cause, cancelled, verdict, found, errors>>

\* What the engine's goroutine of an execution does.
EngineStep(e) ==
    \/ TakeTarget(e) \/ TakeGlobal(e) \/ Skip(e) \/ Admit(e) \/ Launch(e)
    \/ TakeResult(e) \/ Abandon(e) \/ Blame(e) \/ Judge(e)
    \/ Report(e) \/ ReleaseGlobal(e) \/ ReleaseTarget(e)

Finished == returned /\ UNCHANGED vars

Next ==
    \/ \E e \in Executions :
          EngineStep(e) \/ CheckReturns(e) \/ CheckSends(e) \/ DeadlinePasses(e)
    \/ Cancel
    \/ Return
    \/ Finished

Spec == Init /\ [][Next]_vars

\* The engine's goroutines run, clocks run, a check that has a result sends it;
\* a check need never return.
Fairness ==
    /\ \A e \in Executions :
          WF_vars(EngineStep(e)) /\ WF_vars(CheckSends(e)) /\ WF_vars(DeadlinePasses(e))
    /\ WF_vars(Return)

FairSpec == Spec /\ Fairness

-----------------------------------------------------------------------------
(***************************************************************************)
(* Every execution contributes its findings or one CheckError, never both  *)
(* and never neither, however its check ends ("It never returns partial    *)
(* per-check results", Run).  Record counts a missing error as a verdict,  *)
(* so an execution without either would resolve its findings.              *)
(***************************************************************************)
OutcomesComplete ==
    returned => found \cup errors = Executions /\ found \cap errors = {}

(***************************************************************************)
(* Findings are only ever those a check itself returned without an error,  *)
(* well formed: an abandoned, failed or skipped check never passes for one *)
(* that found nothing (runOne, normalize).                                 *)
(***************************************************************************)
FindingsAreFound ==
    \A e \in found : check[e] = "exited" /\ sent[e] = "findings"

(***************************************************************************)
(* A check that overran is called a timeout, one that the end of the run   *)
(* cut short is not, although both see the same ended context (runOne).    *)
(***************************************************************************)
HonestBlame ==
    \A e \in Executions :
        /\ verdict[e] = "timeout" => cause[e] = "deadline"
        /\ verdict[e] = "canceled" => cancelled

(***************************************************************************)
(* Why these hold, as an inductive invariant: what is known of an          *)
(* execution at each stage of its goroutine.                               *)
(***************************************************************************)
NotStarted == {"queued", "waiting", "starting", "launching"}
Reported == {"unlocking", "leaving", "done"}

CheckInv(e) ==
    /\ pc[e] \in NotStarted => check[e] = "none" /\ cause[e] = "none"
    /\ pc[e] = "judging" => check[e] = "exited"
    /\ pc[e] = "blaming" => cause[e] # "none"
    /\ check[e] \in {"sending", "exited"} <=> sent[e] # "none"
    /\ cause[e] = "canceled" => cancelled

VerdictInv(e) ==
    /\ verdict[e] = "none" <=> pc[e] \notin Reported \cup {"reporting"}
    /\ verdict[e] = "findings" => check[e] = "exited" /\ sent[e] = "findings"
    /\ verdict[e] = "timeout" => cause[e] = "deadline"
    /\ verdict[e] = "canceled" => cancelled
    /\ e \in found <=> pc[e] \in Reported /\ verdict[e] = "findings"
    /\ e \in errors <=> pc[e] \in Reported /\ verdict[e] # "findings"

EngineInv ==
    /\ TypeOK
    /\ \A e \in Executions : CheckInv(e) /\ VerdictInv(e)
    /\ returned => \A e \in Executions : pc[e] = "done"

(***************************************************************************)
(* The engine waits for at most Workers checks at once, and for at most    *)
(* PerTarget of one target.                                                *)
(***************************************************************************)
SlotsRespected ==
    /\ Cardinality(HoldsGlobal) <= Workers
    /\ \A e \in Executions : Cardinality(HoldsTarget \cap OfTarget(e)) <= PerTarget

(***************************************************************************)
(* Run returns, although checks may ignore their context and never return  *)
(* ("returns once all checks have finished, timed out, or ctx is done").   *)
(***************************************************************************)
RunReturns == <>returned
=============================================================================
