-------------------------- MODULE FindingLifecycle --------------------------
(***************************************************************************)
(* What the daemon promises about one finding over a series of runs,       *)
(* without rows, targets, checks, suppressions or time (the comment of     *)
(* Store.Record in internal/state/diff.go and the kinds of a Change).      *)
(*                                                                         *)
(* A finding is unknown, open or closed.  A run sights it, misses it,      *)
(* reaches no verdict about it, or forgets it.  It closes only after       *)
(* Patience misses in a row, and the alerts say exactly that.              *)
(***************************************************************************)
EXTENDS Naturals

CONSTANTS Findings, Patience

VARIABLES
    status,    \* "unknown", "open" or "closed"
    strikes,   \* misses since the last sighting, while open
    alert      \* what the last run said of the finding

vars == <<status, strikes, alert>>

Init ==
    /\ status = [f \in Findings |-> "unknown"]
    /\ strikes = [f \in Findings |-> 0]
    /\ alert = [f \in Findings |-> "none"]

\* A second "new" of an open finding tells that a suppression ended.
Sighted(f) ==
    /\ status'[f] = "open"
    /\ strikes'[f] = 0
    /\ alert'[f] \in CASE status[f] = "unknown" -> {"new"}
                       [] status[f] = "closed" -> {"regressed"}
                       [] OTHER -> {"persisting", "new"}

Missed(f) ==
    /\ status[f] = "open"
    /\ strikes[f] + 1 < Patience
    /\ status'[f] = "open"
    /\ strikes'[f] = strikes[f] + 1
    /\ alert'[f] = "none"

Closes(f) ==
    /\ status[f] = "open"
    /\ strikes[f] + 1 >= Patience
    /\ status'[f] = "closed"
    /\ strikes'[f] = 0
    /\ alert'[f] = "resolved"

Unjudged(f) ==
    /\ status'[f] = status[f]
    /\ strikes'[f] = strikes[f]
    /\ alert'[f] = "none"

Forgotten(f) ==
    /\ status'[f] = "unknown"
    /\ strikes'[f] = 0
    /\ alert'[f] = "none"

\* A run does one of these to every finding.
Run == \A f \in Findings :
          Sighted(f) \/ Missed(f) \/ Closes(f) \/ Unjudged(f) \/ Forgotten(f)

\* Retention: findings closed for long are forgotten.
Purge ==
    /\ alert' = alert
    /\ \A f \in Findings :
          /\ strikes'[f] = strikes[f]
          /\ \/ status'[f] = status[f]
             \/ status[f] = "closed" /\ status'[f] = "unknown"

Next == Run \/ Purge

Spec == Init /\ [][Next]_vars
=============================================================================
