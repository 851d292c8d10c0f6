------------------------- MODULE DaemonLoop_proofs -------------------------
(***************************************************************************)
(* Proofs about DaemonLoop, for any period, grace and stale time, of a     *)
(* schedule that matches.                                                  *)
(***************************************************************************)
EXTENDS DaemonLoop, TLAPS

\* The daemon starts with a run that is due.
LEMMA InitHolds == Init => LoopInv
<1> SUFFICES ASSUME Init PROVE LoopInv
  OBVIOUS
<1>1. /\ 0 \in -Period..Horizon /\ 0 \in 0..Horizon /\ 0 # ZeroTime
      /\ Unset \in (0..Grace) \cup {Unset}
  BY TimeAssumption DEF Horizon, ZeroTime
<1>2. TypeOK
  BY <1>1 DEF Init, TypeOK
<1>3. Due /\ pc = "waiting" /\ late # ZeroTime /\ fresh
  BY <1>1 DEF Init, Due
<1>4. QED
  BY <1>2, <1>3 DEF LoopInv, WaitsForTheNextTime

\* The invariant is inductive: one case per action.
LEMMA StepHolds == LoopInv /\ [Next]_vars => LoopInv'
<1> SUFFICES ASSUME LoopInv, [Next]_vars PROVE LoopInv'
  OBVIOUS
<1> USE TimeAssumption DEF LoopInv, TypeOK, WaitsForTheNextTime, Due, ZeroTime, Unset, Horizon
<1>1. CASE Wake
  BY <1>1 DEF Wake
<1>2. CASE WakeToStop
  BY <1>2 DEF WakeToStop
<1>3. CASE Stop
  BY <1>3 DEF Stop
<1>4. CASE Admit
  BY <1>4 DEF Admit
<1>5. CASE StartRun
  <2>1. /\ pc' = "running" /\ elapsed' = 0 /\ grace' = Unset /\ canceled' = FALSE
        /\ UNCHANGED <<phase, late, shutdown, since, last, lastErr, fresh>>
    BY <1>5 DEF StartRun
  <2>2. 0 \in 0..Horizon
    OBVIOUS
  <2>3. TypeOK'
    BY <2>1, <2>2
  <2>4. Matches => late' >= elapsed'
    BY <1>5, <2>1 DEF StartRun
  <2>5. QED
    BY <2>1, <2>3, <2>4
<1>6. CASE Reschedule
  BY <1>6 DEF Reschedule
<1>7. CASE BeginGrace
  BY <1>7 DEF BeginGrace
<1>8. CASE GraceOver
  BY <1>8 DEF GraceOver
<1>9. ASSUME NEW ok \in BOOLEAN, EndRun(ok) PROVE LoopInv'
  BY <1>9 DEF EndRun
<1>10. CASE Shutdown
  BY <1>10 DEF Shutdown
<1>11. CASE Tick
  BY <1>11 DEF Tick, Later
<1>12. CASE UNCHANGED vars
  BY <1>12 DEF vars
<1>13. QED
  BY <1>1, <1>2, <1>3, <1>4, <1>5, <1>6, <1>7, <1>8, <1>9, <1>10, <1>11, <1>12
     DEF Next, Serve, Stopped

\* What is known of the loop between any two steps holds always.
THEOREM LoopInvariant == Spec => []LoopInv
  BY InitHolds, StepHolds, PTL DEF Spec

(***************************************************************************)
(* The daemon never waits past a scheduled time (Serve).                   *)
(***************************************************************************)
THEOREM NextTimeIsNext == Spec => []WaitsForTheNextTime
<1>1. LoopInv => WaitsForTheNextTime
  BY DEF LoopInv
<1>2. QED
  BY <1>1, LoopInvariant, PTL

(***************************************************************************)
(* Only a shutdown that used up its grace cancels a run (runOnce).         *)
(***************************************************************************)
THEOREM RunsKeepTheirGrace == Spec => []GraceKept
<1>1. LoopInv => GraceKept
  BY TimeAssumption DEF LoopInv, TypeOK, GraceKept, Unset, Horizon
<1>2. QED
  BY <1>1, LoopInvariant, PTL

(***************************************************************************)
(* With a schedule that matches, the health check sees a stuck run         *)
(* (Handler).                                                              *)
(***************************************************************************)
THEOREM StuckRunsAreSeen == Spec => [](Matches => StuckRunIsStale)
<1>1. LoopInv => (Matches => StuckRunIsStale)
  BY TimeAssumption DEF LoopInv, TypeOK, StuckRunIsStale, Health, ZeroTime, Horizon
<1>2. QED
  BY <1>1, LoopInvariant, PTL

(***************************************************************************)
(* With a schedule that matches, runs are never started back to back       *)
(* (Serve: the next time is computed after a run ends).                    *)
(***************************************************************************)
THEOREM RunsWaitForTheirTime == ASSUME Matches PROVE Spec => RunsAreScheduled
<1>1. LoopInv /\ [Next]_vars => [pc = "entering" /\ pc' = "running" => fresh]_vars
  BY DEF LoopInv
<1>2. QED
  BY <1>1, LoopInvariant, PTL DEF Spec, RunsAreScheduled
=============================================================================
