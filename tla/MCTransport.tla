----------------------------- MODULE MCTransport ----------------------------
(***************************************************************************)
(* A unit of time stands for about ten seconds.  Digests are in the order  *)
(* of their targets; sizes are small, medium and more than a chunk holds.  *)
(***************************************************************************)
EXTENDS Transport

CONSTANTS MaxBlocks, Sizes

Blocks2 == [target : Targets, size : Sizes]

MCDigests ==
    {d \in UNION {[1..n -> Blocks2] : n \in 1..MaxBlocks} :
        \A i \in 1..(Len(d) - 1) : d[i].target = "b" => d[i + 1].target = "b"}
=============================================================================
