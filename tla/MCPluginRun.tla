---------------------------- MODULE MCPluginRun -----------------------------
(***************************************************************************)
(* Two built-in checks on one target, each with its own ways to come back, *)
(* and a plugin's check on another.                                        *)
(***************************************************************************)
EXTENDS PluginRun

CONSTANTS a1, a2, p, ta, tb

MCTarget == [e \in Executions |-> IF e = p THEN tb ELSE ta]
MCReturns == [e \in Executions |->
    CASE e = a1 -> {"malformed"}
      [] e = a2 -> {"panic"}
      [] OTHER -> {"findings", "malformed", "error", "contextError"}]
=============================================================================
