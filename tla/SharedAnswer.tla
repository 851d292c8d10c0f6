---------------------------- MODULE SharedAnswer ----------------------------
(***************************************************************************)
(* What core.Memo and dnsx.Cache promise the checks of one run: there is   *)
(* one answer to a question, whoever asks it.  A caller gets the answer or *)
(* fails for a reason of its own: its context ended, or its own            *)
(* computation panicked.  Nobody fails for what happened to another caller.*)
(***************************************************************************)
CONSTANTS Callers, Answers, Unset

VARIABLES
    answer,   \* the answer everybody shares, or Unset
    outcome,  \* per caller "asking", "answered" or "failed"
    excused   \* the callers whose context ended or whose computation panicked

vars == <<answer, outcome, excused>>

Init ==
    /\ answer = Unset
    /\ outcome = [c \in Callers |-> "asking"]
    /\ excused = {}

\* An answer is settled once and never replaced.
Settle ==
    /\ answer = Unset
    /\ answer' \in Answers
    /\ UNCHANGED <<outcome, excused>>

Receive(c) ==
    /\ outcome[c] = "asking"
    /\ answer # Unset
    /\ outcome' = [outcome EXCEPT ![c] = "answered"]
    /\ UNCHANGED <<answer, excused>>

Excuse(c) ==
    /\ excused' = excused \cup {c}
    /\ UNCHANGED <<answer, outcome>>

Fail(c) ==
    /\ outcome[c] = "asking"
    /\ c \in excused
    /\ outcome' = [outcome EXCEPT ![c] = "failed"]
    /\ UNCHANGED <<answer, excused>>

Next == Settle \/ \E c \in Callers : Receive(c) \/ Excuse(c) \/ Fail(c)

Spec == Init /\ [][Next]_vars
=============================================================================
