-------------------------- MODULE PluginRun_proofs --------------------------
(***************************************************************************)
(* Proofs about the check engine, for any executions, targets and numbers  *)
(* of slots, and about plugins run by it, for any plugins: a plugin's      *)
(* check is a check like any other to the engine, and keeps the protocol.  *)
(* The engine comes first; what is proved of it holds with plugins too,    *)
(* because every step of PluginRun is a step of Engine or none             *)
(* (StepIsTheEngines).                                                     *)
(***************************************************************************)
EXTENDS PluginRun, FiniteSetTheorems, TLAPS

\* Nothing has run yet.
LEMMA InitHolds == Init => EngineInv
  BY DEF Init, EngineInv, TypeOK, CheckInv, VerdictInv, NotStarted, Reported

\* The invariant is inductive: one case per action.
LEMMA StepHolds == EngineInv /\ [Next]_vars => EngineInv'
<1> SUFFICES ASSUME EngineInv, [Next]_vars PROVE EngineInv'
  OBVIOUS
<1> USE SlotAssumption DEF EngineInv, TypeOK, CheckInv, VerdictInv, NotStarted, Reported, Results, Verdicts
<1>1. ASSUME NEW e \in Executions, TakeTarget(e) PROVE EngineInv'
  BY <1>1 DEF TakeTarget, Goto
<1>2. ASSUME NEW e \in Executions, TakeGlobal(e) PROVE EngineInv'
  BY <1>2 DEF TakeGlobal, Goto
<1>3. ASSUME NEW e \in Executions, Skip(e) PROVE EngineInv'
  BY <1>3 DEF Skip, Goto
<1>4. ASSUME NEW e \in Executions, Admit(e) PROVE EngineInv'
  BY <1>4 DEF Admit, Goto
<1>5. ASSUME NEW e \in Executions, Launch(e) PROVE EngineInv'
  BY <1>5 DEF Launch, Goto
<1>6. ASSUME NEW e \in Executions, TakeResult(e) PROVE EngineInv'
  BY <1>6 DEF TakeResult, Goto
<1>7. ASSUME NEW e \in Executions, Abandon(e) PROVE EngineInv'
  BY <1>7 DEF Abandon, Goto
<1>8. ASSUME NEW e \in Executions, Blame(e) PROVE EngineInv'
  BY <1>8 DEF Blame, Goto
<1>9. ASSUME NEW e \in Executions, Judge(e) PROVE EngineInv'
  BY <1>9 DEF Judge, Goto
<1>10. ASSUME NEW e \in Executions, Report(e) PROVE EngineInv'
  BY <1>10 DEF Report, Goto
<1>11. ASSUME NEW e \in Executions, ReleaseGlobal(e) PROVE EngineInv'
  BY <1>11 DEF ReleaseGlobal, Goto
<1>12. ASSUME NEW e \in Executions, ReleaseTarget(e) PROVE EngineInv'
  BY <1>12 DEF ReleaseTarget, Goto
<1>13. ASSUME NEW e \in Executions, CheckReturns(e) PROVE EngineInv'
  BY <1>13 DEF CheckReturns
<1>14. ASSUME NEW e \in Executions, CheckSends(e) PROVE EngineInv'
  BY <1>14 DEF CheckSends
<1>15. ASSUME NEW e \in Executions, DeadlinePasses(e) PROVE EngineInv'
  BY <1>15 DEF DeadlinePasses, UnderDeadline
<1>16. CASE Cancel
  BY <1>16 DEF Cancel, UnderDeadline
<1>17. CASE Return
  BY <1>17 DEF Return
<1>18. CASE UNCHANGED vars
  BY <1>18 DEF vars
<1>19. QED
  BY <1>1, <1>2, <1>3, <1>4, <1>5, <1>6, <1>7, <1>8, <1>9, <1>10, <1>11, <1>12, <1>13,
     <1>14, <1>15, <1>16, <1>17, <1>18 DEF Next, EngineStep, Finished

\* What is known of an execution at each stage holds always.
THEOREM EngineInvariant == Spec => []EngineInv
  BY InitHolds, StepHolds, PTL DEF Spec

(***************************************************************************)
(* Every execution of a run that returned has findings or one error (Run). *)
(***************************************************************************)
THEOREM EveryExecutionReported == Spec => []OutcomesComplete
<1>1. EngineInv => OutcomesComplete
  BY DEF EngineInv, TypeOK, VerdictInv, Reported, OutcomesComplete
<1>2. QED
  BY <1>1, EngineInvariant, PTL

(***************************************************************************)
(* Findings are those a check returned by itself, without an error and     *)
(* well formed (runOne, normalize).                                        *)
(***************************************************************************)
THEOREM NothingInvented == Spec => []FindingsAreFound
<1>1. EngineInv => FindingsAreFound
  BY DEF EngineInv, TypeOK, VerdictInv, Reported, FindingsAreFound
<1>2. QED
  BY <1>1, EngineInvariant, PTL

(***************************************************************************)
(* A timeout is the check's own, a cancellation the run's (runOne).        *)
(***************************************************************************)
THEOREM BlameIsHonest == Spec => []HonestBlame
<1>1. EngineInv => HonestBlame
  BY DEF EngineInv, VerdictInv, HonestBlame
<1>2. QED
  BY <1>1, EngineInvariant, PTL

-----------------------------------------------------------------------------
\* A set of executions with at most one more member has at most one more.
LEMMA OneMore ==
    ASSUME NEW A \in SUBSET Executions, NEW B \in SUBSET Executions,
           NEW e \in Executions, B \subseteq A \cup {e}
    PROVE  /\ Cardinality(A) \in Nat /\ Cardinality(B) \in Nat
           /\ Cardinality(B) <= Cardinality(A) + 1
           /\ B \subseteq A => Cardinality(B) <= Cardinality(A)
<1>1. IsFiniteSet(A) /\ IsFiniteSet(B) /\ IsFiniteSet(A \cup {e})
  BY SlotAssumption, FS_Subset, FS_AddElement
<1>2. Cardinality(A \cup {e}) <= Cardinality(A) + 1
  BY <1>1, FS_AddElement, FS_CardinalityType
<1>3. QED
  BY <1>1, <1>2, FS_Subset, FS_CardinalityType

\* Only TakeTarget and TakeGlobal add to the holders of slots.
LEMMA SlotsHold == TypeOK /\ SlotsRespected /\ [Next]_vars => SlotsRespected'
<1> SUFFICES ASSUME TypeOK, SlotsRespected, [Next]_vars PROVE SlotsRespected'
  OBVIOUS
<1> USE SlotAssumption
<1>1. ASSUME HoldsGlobal' \subseteq HoldsGlobal PROVE Cardinality(HoldsGlobal') <= Workers
  <2>1. CASE Executions = {}
    <3>1. HoldsGlobal' = {}
      BY <2>1 DEF HoldsGlobal
    <3>2. QED
      BY <3>1, FS_EmptySet
  <2>2. CASE \E e \in Executions : TRUE
    <3>1. PICK e \in Executions : TRUE
      BY <2>2
    <3>2. HoldsGlobal \in SUBSET Executions /\ HoldsGlobal' \in SUBSET Executions
      BY DEF HoldsGlobal
    <3>3. QED
      BY <1>1, <3>1, <3>2, OneMore DEF SlotsRespected
  <2>3. QED
    BY <2>1, <2>2
<1>2. ASSUME HoldsTarget' \subseteq HoldsTarget, NEW d \in Executions
      PROVE  Cardinality(HoldsTarget' \cap OfTarget(d)) <= PerTarget
  <2>1. /\ HoldsTarget \cap OfTarget(d) \in SUBSET Executions
        /\ HoldsTarget' \cap OfTarget(d) \in SUBSET Executions
    BY DEF OfTarget
  <2>2. HoldsTarget' \cap OfTarget(d) \subseteq HoldsTarget \cap OfTarget(d)
    BY <1>2
  <2>3. Cardinality(HoldsTarget \cap OfTarget(d)) <= PerTarget
    BY DEF SlotsRespected
  <2>4. QED
    BY <2>1, <2>2, <2>3, OneMore
<1>3. ASSUME NEW e \in Executions, TakeTarget(e) PROVE SlotsRespected'
  <2>1. HoldsGlobal' \subseteq HoldsGlobal
    BY <1>3 DEF TakeTarget, Goto, HoldsGlobal, TypeOK
  <2>2. HoldsTarget' \subseteq HoldsTarget \cup {e}
    BY <1>3 DEF TakeTarget, Goto, HoldsTarget, TypeOK
  <2>3. ASSUME NEW d \in Executions
        PROVE  Cardinality(HoldsTarget' \cap OfTarget(d)) <= PerTarget
    <3>1. /\ HoldsTarget \cap OfTarget(d) \in SUBSET Executions
          /\ HoldsTarget' \cap OfTarget(d) \in SUBSET Executions
      BY DEF OfTarget
    <3>2. CASE Target[d] = Target[e]
      <4>1. Cardinality(HoldsTarget \cap OfTarget(d)) < PerTarget
        BY <1>3, <3>2 DEF TakeTarget, OfTarget
      <4>2. HoldsTarget' \cap OfTarget(d) \subseteq (HoldsTarget \cap OfTarget(d)) \cup {e}
        BY <2>2
      <4>3. QED
        BY <3>1, <4>1, <4>2, OneMore
    <3>3. CASE Target[d] # Target[e]
      <4>1. HoldsTarget' \cap OfTarget(d) \subseteq HoldsTarget \cap OfTarget(d)
        BY <2>2, <3>3 DEF OfTarget
      <4>2. Cardinality(HoldsTarget \cap OfTarget(d)) <= PerTarget
        BY DEF SlotsRespected
      <4>3. QED
        BY <3>1, <4>1, <4>2, OneMore
    <3>4. QED
      BY <3>2, <3>3
  <2>4. QED
    BY <1>1, <2>1, <2>3 DEF SlotsRespected, OfTarget
<1>4. ASSUME NEW e \in Executions, TakeGlobal(e) PROVE SlotsRespected'
  <2>1. HoldsTarget' \subseteq HoldsTarget
    BY <1>4 DEF TakeGlobal, Goto, HoldsTarget, TypeOK
  <2>2. HoldsGlobal' \subseteq HoldsGlobal \cup {e}
    BY <1>4 DEF TakeGlobal, Goto, HoldsGlobal, TypeOK
  <2>3. HoldsGlobal \in SUBSET Executions /\ HoldsGlobal' \in SUBSET Executions
    BY DEF HoldsGlobal
  <2>4. Cardinality(HoldsGlobal') <= Workers
    BY <1>4, <2>2, <2>3, OneMore DEF TakeGlobal
  <2>5. QED
    BY <1>2, <2>1, <2>4 DEF SlotsRespected, OfTarget
<1>5. ASSUME HoldsGlobal' \subseteq HoldsGlobal, HoldsTarget' \subseteq HoldsTarget
      PROVE  SlotsRespected'
  BY <1>1, <1>2, <1>5 DEF SlotsRespected, OfTarget
<1>6. ASSUME NEW e \in Executions,
             Skip(e) \/ Admit(e) \/ Launch(e) \/ TakeResult(e) \/ Abandon(e) \/ Blame(e)
                \/ Judge(e) \/ Report(e) \/ ReleaseGlobal(e) \/ ReleaseTarget(e)
      PROVE  SlotsRespected'
  <2>1. HoldsGlobal' \subseteq HoldsGlobal /\ HoldsTarget' \subseteq HoldsTarget
    BY <1>6 DEF Skip, Admit, Launch, TakeResult, Abandon, Blame, Judge, Report, ReleaseGlobal,
       ReleaseTarget, Goto, HoldsGlobal, HoldsTarget, TypeOK
  <2>2. QED
    BY <1>5, <2>1
<1>7. ASSUME NEW e \in Executions, CheckReturns(e) \/ CheckSends(e) \/ DeadlinePasses(e)
      PROVE  SlotsRespected'
  BY <1>5, <1>7 DEF CheckReturns, CheckSends, DeadlinePasses, HoldsGlobal, HoldsTarget
<1>8. CASE Cancel \/ Return \/ UNCHANGED vars
  BY <1>5, <1>8 DEF Cancel, Return, vars, HoldsGlobal, HoldsTarget
<1>9. QED
  BY <1>3, <1>4, <1>6, <1>7, <1>8 DEF Next, EngineStep, Finished

(***************************************************************************)
(* The engine never waits for more checks than it has slots, overall and   *)
(* per target (Run: the two channels used as semaphores).                  *)
(***************************************************************************)
THEOREM SlotsAreRespected == Spec => []SlotsRespected
<1>1. Init => SlotsRespected
  <2> SUFFICES ASSUME Init PROVE SlotsRespected
    OBVIOUS
  <2>1. HoldsGlobal = {} /\ \A e \in Executions : HoldsTarget \cap OfTarget(e) = {}
    BY DEF Init, HoldsGlobal, HoldsTarget
  <2>2. QED
    BY <2>1, FS_EmptySet, SlotAssumption DEF SlotsRespected
<1>2. EngineInv => TypeOK
  BY DEF EngineInv
<1>3. QED
  BY <1>1, <1>2, SlotsHold, EngineInvariant, PTL DEF Spec

-----------------------------------------------------------------------------
\* No plugin has been started yet.
LEMMA PluginInitHolds == PluginInit => PluginInv
  BY PluginAssumption
  DEF PluginInit, Init, PluginInv, PluginTypeOK, InvokeInv, Outputs, Response

\* What check.Run makes of a process is something the engine takes from any check.
LEMMA ReturnIsACheckReturn ==
  ASSUME PluginInv, NEW e \in Plugins, PluginReturns(e)
  PROVE  CheckReturns(e)
<1>1. e \in Executions /\ check[e] = "running"
  BY PluginAssumption DEF PluginReturns, PluginInv, InvokeInv
<1>2. Answers(e) \subseteq Returns[e] \ (IF cause[e] = "none" THEN {"contextError"} ELSE {})
  BY PluginAssumption DEF Answers, Response
<1>3. QED
  BY <1>1, <1>2 DEF PluginReturns, CheckReturns

\* Every step is one of the engine's or does not concern it.
LEMMA StepIsTheEngines == PluginInv /\ [PluginNext]_allVars => [Next]_vars
<1> SUFFICES ASSUME PluginInv, [PluginNext]_allVars PROVE [Next]_vars
  OBVIOUS
<1>1. ASSUME OtherStep PROVE [Next]_vars
  BY <1>1 DEF OtherStep, Next
<1>2. ASSUME NEW e \in Plugins, PluginReturns(e) PROVE [Next]_vars
  BY <1>2, ReturnIsACheckReturn, PluginAssumption DEF Next
<1>3. ASSUME NEW e \in Plugins,
             \/ StartProcess(e) \/ StartFails(e) \/ Kill(e) \/ Reap(e) \/ Drained(e) \/ DelayEnds(e)
             \/ ProcessStep(e)
      PROVE  UNCHANGED vars
  BY <1>3 DEF StartProcess, StartFails, Kill, Reap, Drained, DelayEnds, RunReturned,
              ProcessStep, Write, Fork, Exit, HelperExits
<1>4. CASE UNCHANGED allVars
  BY <1>4 DEF allVars
<1>5. QED
  BY <1>1, <1>2, <1>3, <1>4 DEF PluginNext, InvokeStep

\* The engine's steps change a plugin's check in two ways only.
LEMMA EnginesStepHolds ==
  ASSUME EngineInv, PluginInv, OtherStep PROVE PluginInv'
<1>1. UNCHANGED pluginVars /\ PluginTypeOK'
  BY DEF OtherStep, PluginInv, PluginTypeOK, pluginVars
<1> DEFINE Kept(d) == sent'[d] = sent[d]
           Moved(d) == \/ check'[d] = check[d]
                       \/ check[d] = "none" /\ check'[d] = "running"
                       \/ check[d] = "sending" /\ check'[d] = "exited"
<1>2. /\ Plugins \subseteq Executions
      /\ check \in [Executions -> {"none", "running", "sending", "exited"}]
      /\ sent \in [Executions -> Results \cup {"none"}]
  BY PluginAssumption DEF EngineInv, TypeOK
<1>3. \A d \in Plugins : Kept(d) /\ Moved(d)
  <2>1. ASSUME NEW e \in Executions, Launch(e) PROVE \A d \in Plugins : Kept(d) /\ Moved(d)
    <3>1. check[e] = "none"
      BY <2>1 DEF Launch, EngineInv, CheckInv, NotStarted
    <3>2. QED
      BY <1>2, <2>1, <3>1 DEF Launch
  <2>2. ASSUME NEW e \in Executions, EngineStep(e), ~Launch(e) PROVE UNCHANGED <<check, sent>>
    BY <2>2 DEF EngineStep, TakeTarget, TakeGlobal, Skip, Admit, TakeResult, Abandon, Blame,
                Judge, Report, ReleaseGlobal, ReleaseTarget
  <2>3. ASSUME NEW e \in Executions, CheckSends(e) PROVE \A d \in Plugins : Kept(d) /\ Moved(d)
    BY <1>2, <2>3 DEF CheckSends
  <2>4. ASSUME NEW e \in Executions \ Plugins, CheckReturns(e)
        PROVE  \A d \in Plugins : Kept(d) /\ Moved(d)
    BY <1>2, <2>4 DEF CheckReturns
  <2>5. ASSUME \/ \E e \in Executions : DeadlinePasses(e)
               \/ Cancel \/ Return \/ Finished
        PROVE  UNCHANGED <<check, sent>>
    BY <2>5 DEF DeadlinePasses, Cancel, Return, Finished, vars
  <2>6. QED
    BY <2>1, <2>2, <2>3, <2>4, <2>5 DEF OtherStep
<1>4. ASSUME NEW d \in Plugins PROVE InvokeInv(d)'
  BY <1>1, <1>3 DEF PluginInv, PluginTypeOK, InvokeInv, pluginVars
<1>5. QED
  BY <1>1, <1>4 DEF PluginInv

\* The invariant is inductive: one case per action.
LEMMA PluginStepHolds == EngineInv /\ PluginInv /\ [PluginNext]_allVars => PluginInv'
<1> SUFFICES ASSUME EngineInv, PluginInv, [PluginNext]_allVars PROVE PluginInv'
  OBVIOUS
<1>1. CASE OtherStep
  BY <1>1, EnginesStepHolds
<1> USE PluginAssumption DEF PluginInv, PluginTypeOK, InvokeInv, Outputs, Response
<1>2. ASSUME NEW e \in Plugins, StartProcess(e) PROVE PluginInv'
  BY <1>2 DEF StartProcess, vars, EngineInv, TypeOK, CheckInv
<1>3. ASSUME NEW e \in Plugins, StartFails(e) PROVE PluginInv'
  BY <1>3 DEF StartFails, vars
<1>4. ASSUME NEW e \in Plugins, Kill(e) PROVE PluginInv'
  BY <1>4 DEF Kill, vars
<1>5. ASSUME NEW e \in Plugins, Reap(e) PROVE PluginInv'
  BY <1>5 DEF Reap, vars
<1>6. ASSUME NEW e \in Plugins, Drained(e) PROVE PluginInv'
  BY <1>6 DEF Drained, RunReturned, vars
<1>7. ASSUME NEW e \in Plugins, DelayEnds(e) PROVE PluginInv'
  BY <1>7 DEF DelayEnds, RunReturned, vars
<1>8. ASSUME NEW e \in Plugins, PluginReturns(e) PROVE PluginInv'
  BY <1>8 DEF PluginReturns, Answers, EngineInv, TypeOK
<1>9. ASSUME NEW e \in Plugins, Write(e) PROVE PluginInv'
  BY <1>9 DEF Write, Growth, vars
<1>10. ASSUME NEW e \in Plugins, Fork(e) PROVE PluginInv'
  BY <1>10 DEF Fork, vars
<1>11. ASSUME NEW e \in Plugins, Exit(e) PROVE PluginInv'
  BY <1>11 DEF Exit, vars
<1>12. ASSUME NEW e \in Plugins, HelperExits(e) PROVE PluginInv'
  BY <1>12 DEF HelperExits, vars
<1>13. CASE UNCHANGED allVars
  BY <1>13 DEF allVars, vars, pluginVars
<1>14. QED
  BY <1>1, <1>2, <1>3, <1>4, <1>5, <1>6, <1>7, <1>8, <1>9, <1>10, <1>11, <1>12, <1>13
  DEF PluginNext, InvokeStep, ProcessStep

(***************************************************************************)
(* What is known of a plugin's process at each stage of invoke holds       *)
(* always, beside what is known of its execution.                          *)
(***************************************************************************)
THEOREM PluginInvariant == PluginSpec => [](EngineInv /\ PluginInv)
<1>1. PluginInit => EngineInv /\ PluginInv
  BY PluginInitHolds, InitHolds DEF PluginInit
<1>2. EngineInv /\ PluginInv /\ [PluginNext]_allVars => (EngineInv /\ PluginInv)'
  BY StepIsTheEngines, StepHolds, PluginStepHolds
<1>3. QED
  BY <1>1, <1>2, PTL DEF PluginSpec

(***************************************************************************)
(* A run with plugins is a run of the engine, so all that holds of those   *)
(* holds of it (check.Run implements core.Check).                          *)
(***************************************************************************)
THEOREM PluginsAreChecks == PluginSpec => Spec
<1>1. PluginInit => Init
  BY DEF PluginInit
<1>2. QED
  BY <1>1, StepIsTheEngines, PluginInvariant, PTL DEF PluginSpec, Spec

(***************************************************************************)
(* Findings come from plugins that answered in full and exited with 0,     *)
(* with nobody left to write more (invoke, decodeOne).                     *)
(***************************************************************************)
THEOREM ProtocolIsKept == PluginSpec => []PluginsKeepTheProtocol
<1>1. EngineInv /\ PluginInv => PluginsKeepTheProtocol
  <2> SUFFICES ASSUME EngineInv, PluginInv, NEW e \in found \cap Plugins
               PROVE  process[e] = "ok" /\ helper[e] = "none" /\ output[e] = "answer"
    BY DEF PluginsKeepTheProtocol
  <2>1. e \in Executions /\ e \in Plugins
    BY PluginAssumption
  <2>2. sent[e] = "findings"
    BY <2>1 DEF EngineInv, VerdictInv
  <2>3. QED
    BY <2>1, <2>2 DEF PluginInv, InvokeInv, Response
<1>2. QED
  BY <1>1, PluginInvariant, PTL
=============================================================================
