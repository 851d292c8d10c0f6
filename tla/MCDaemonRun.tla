---------------------------- MODULE MCDaemonRun ----------------------------
(***************************************************************************)
(* Findings of one target.  The channels share one rule, but for those in  *)
(* Terse, which want no persisting changes.                                *)
(***************************************************************************)
EXTENDS DaemonRun, TLC

CONSTANTS f1, f2, t1, c1, Wants, Beat, Terse

MCTargetOf == [f \in Findings |-> t1]
MCCheckOf == [f \in Findings |-> c1]
MCRank == [f \in Findings |-> IF f = f1 THEN 1 ELSE 2]
MCTargetRank == [t \in Targets |-> 1]
MCOn == [ch \in Channels |-> IF ch \in Terse THEN Wants \ {"persisting"} ELSE Wants]
MCMinSeverity == [ch \in Channels |-> 1]
MCHeartbeat == [ch \in Channels |-> Beat]
=============================================================================
