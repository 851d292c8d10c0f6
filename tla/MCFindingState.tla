--------------------------- MODULE MCFindingState ---------------------------
(***************************************************************************)
(* One check on two targets, a finding on each: a run can reach a verdict  *)
(* about one and fail on the other, and either target can leave the config *)
(* while the other stays.  The check is renamed once.                      *)
(***************************************************************************)
EXTENDS StoredRows, TLC

CONSTANTS f1, f2, t1, t2, c1

MCTargetOf == f1 :> t1 @@ f2 :> t2
MCCheckOf == f1 :> c1 @@ f2 :> c1
MCNames == <<c1 :> "a", c1 :> "b">>
=============================================================================
