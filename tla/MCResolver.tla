----------------------------- MODULE MCResolver -----------------------------
(***************************************************************************)
(* Two servers of the system and one of each kind of encrypted DNS, any of *)
(* the first three withholding a type.                                     *)
(***************************************************************************)
EXTENDS Resolver

CONSTANTS s1, s2, e1, e2, A, TXT

MCAsked == <<s1, s2>>
MCChoices == <<<<e1>>, <<e2>>>>
MCWorlds == {w \in [Servers -> {{}, {A}, {TXT}}] :
                w[s1] # {A} /\ w[e1] # {A} /\ w[e2] = {}}
=============================================================================
