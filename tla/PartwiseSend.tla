---------------------------- MODULE PartwiseSend ----------------------------
(***************************************************************************)
(* What deliver (internal/notify/notify.go) relies on when it calls Send:  *)
(* a digest reaches the reader message by message, in order; Send returns  *)
(* nil only when all of it did, and an error says nothing of the messages  *)
(* that went before, nor of the one it failed at.                          *)
(***************************************************************************)
EXTENDS Naturals

CONSTANT Messages   \* the number of messages the digest is rendered to

VARIABLES
    reached,  \* the messages that have reached the reader
    outcome   \* "sending", "nil" or "error"

vars == <<reached, outcome>>

Init == reached = {} /\ outcome = "sending"

Reach ==
    /\ outcome = "sending"
    /\ \E m \in 1..Messages : reached = 1..(m - 1) /\ reached' = 1..m
    /\ UNCHANGED outcome

Succeed ==
    /\ outcome = "sending"
    /\ reached = 1..Messages
    /\ outcome' = "nil"
    /\ UNCHANGED reached

Fail ==
    /\ outcome = "sending"
    /\ outcome' = "error"
    /\ UNCHANGED reached

Next == Reach \/ Succeed \/ Fail

Spec == Init /\ [][Next]_vars
=============================================================================
