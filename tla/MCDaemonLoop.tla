---------------------------- MODULE MCDaemonLoop ----------------------------
(***************************************************************************)
(* A schedule with a few moments between two times.                        *)
(***************************************************************************)
EXTENDS DaemonLoop
=============================================================================
