--------------------------- MODULE MCSingleFlight ---------------------------
(***************************************************************************)
(* Callers of one key; no symmetry, as liveness is checked.                *)
(***************************************************************************)
EXTENDS SingleFlight
=============================================================================
