----------------------------- MODULE FindingDiff -----------------------------
(***************************************************************************)
(* How one run changes the findings table: the pure part of Store.Record   *)
(* (internal/state/diff.go).  A row is what the findings table keeps of    *)
(* one fingerprint, a result is what engine.Run and config.Apply hand to   *)
(* Record, and NextRow and KindOf give the row that is saved and the       *)
(* change that is reported.                                                *)
(*                                                                         *)
(* A finding stands for its fingerprint: the hash of check ID, target and  *)
(* subject.  Title, evidence, remediation and last_seen are stored but     *)
(* decide nothing, so rows leave them out.                                 *)
(***************************************************************************)
EXTENDS Integers

CONSTANTS
    Findings,      \* fingerprints a check can report
    Targets,       \* domains a config can declare
    Checks,        \* check IDs
    TargetOf,      \* the target of each finding
    CheckOf,       \* the check that reports each finding
    Severities,    \* severity levels, a set of numbers; higher is worse
    ResolveAfter,  \* Options.ResolveAfter: absences before a finding resolves
    NoRow          \* "no row with this fingerprint"

Nil == -1          \* SQL NULL in resolved_at

ASSUME FindingAssumption ==
    /\ TargetOf \in [Findings -> Targets]
    /\ CheckOf \in [Findings -> Checks]
    /\ Severities \subseteq Nat
    /\ ResolveAfter \in Nat

Row == [open : BOOLEAN, suppressed : BOOLEAN, missing : Nat,
        firstSeen : Nat, resolvedAt : Nat \cup {Nil}, severity : Severities]

ASSUME NoRowAssumption == NoRow \notin Row

Kinds == {"new", "persisting", "resolved", "regressed"}

\* A Change of a Diff; kind "none" when the diff does not mention the finding.
Change == [kind : Kinds \cup {"none"}, suppressed : BOOLEAN, severity : Nat]
NoChange == [kind |-> "none", suppressed |-> FALSE, severity |-> 0]

\* resolveAfter := max(opts.ResolveAfter, 1)
Threshold == IF ResolveAfter > 1 THEN ResolveAfter ELSE 1

\* An engine.Execution: the (target, check) pair a finding comes from.
Execution(f) == <<TargetOf[f], CheckOf[f]>>

(***************************************************************************)
(* A result: the targets of the run, the executions that reached a verdict *)
(* (Ran without those in Errors), the findings present, those of them that *)
(* a suppression accepts, and their severities.  A finding is only ever    *)
(* reported by a check that reached a verdict on one of the run's targets. *)
(***************************************************************************)
IsResult(res) ==
    /\ res.targets \subseteq Targets
    /\ res.verdicts \subseteq (res.targets \X Checks)
    /\ res.present \subseteq {f \in Findings : Execution(f) \in res.verdicts}
    /\ res.suppressed \subseteq res.present
    /\ res.severity \in [Findings -> Severities]

\* Wrong: the end of a suppression is not told apart from persisting.
KindOfIgnoringSuppression(row, f, res) ==
    IF f \in res.present
    THEN CASE row = NoRow -> "new"
           [] row # NoRow /\ ~row.open -> "regressed"
           [] OTHER -> "persisting"
    ELSE IF /\ row # NoRow /\ row.open
            /\ TargetOf[f] \in res.targets
            /\ Execution(f) \in res.verdicts
            /\ row.missing + 1 >= Threshold
         THEN "resolved"
         ELSE "none"

\* What the diff says of a finding; "none" when the run changes nothing.
KindOf(row, f, res) ==
    IF f \in res.present
    THEN CASE row = NoRow -> "new"
           [] row # NoRow /\ ~row.open -> "regressed"
           \* The suppression expired or was removed.
           [] row # NoRow /\ row.open /\ row.suppressed /\ f \notin res.suppressed -> "new"
           [] OTHER -> "persisting"
    ELSE IF /\ row # NoRow /\ row.open
            /\ TargetOf[f] \in res.targets
            /\ Execution(f) \in res.verdicts
            /\ row.missing + 1 >= Threshold
         THEN "resolved"
         ELSE "none"

\* Present findings carry the run's severity and suppression, resolved ones
\* what their row kept.
ChangeOf(row, f, res) ==
    [kind |-> KindOf(row, f, res),
     suppressed |-> IF f \in res.present THEN f \in res.suppressed
                    ELSE row # NoRow /\ row.suppressed,
     severity |-> IF f \in res.present THEN res.severity[f]
                  ELSE IF row = NoRow THEN 0 ELSE row.severity]

\* What somebody who is told of a change believes of the finding afterwards.
Believe(belief, kind) ==
    CASE kind \in {"new", "regressed"} -> "open"
      [] kind = "resolved" -> "closed"
      [] OTHER -> belief

\* Wrong: a sighting does not clear the absences counted so far.
SeenRowStillMissing(row, f, res, now) ==
    [open |-> TRUE,
     suppressed |-> f \in res.suppressed,
     missing |-> IF row = NoRow THEN 0 ELSE row.missing,
     firstSeen |-> IF row = NoRow THEN now ELSE row.firstSeen,
     resolvedAt |-> Nil,
     severity |-> res.severity[f]]

\* The row of a finding that is present: reopened, its absences forgotten.
SeenRow(row, f, res, now) ==
    [open |-> TRUE,
     suppressed |-> f \in res.suppressed,
     missing |-> 0,
     firstSeen |-> IF row = NoRow THEN now ELSE row.firstSeen,
     resolvedAt |-> Nil,
     severity |-> res.severity[f]]

\* Wrong: compares before counting, so a row outlives its "resolved" change.
MissedRowLate(row, now) ==
    IF row.missing >= Threshold
    THEN [row EXCEPT !.open = FALSE, !.missing = 0, !.resolvedAt = now]
    ELSE [row EXCEPT !.missing = row.missing + 1]

\* The row of an open finding a verdict did not report.
MissedRow(row, now) ==
    IF row.missing + 1 >= Threshold
    THEN [row EXCEPT !.open = FALSE, !.missing = 0, !.resolvedAt = now]
    ELSE [row EXCEPT !.missing = row.missing + 1]

\* Wrong: a check that failed or was not selected loses its rows.
NextRowOfVerdicts(row, f, res, now) ==
    IF f \in res.present THEN SeenRow(row, f, res, now)
    ELSE IF row = NoRow \/ Execution(f) \notin res.verdicts THEN NoRow
    ELSE IF row.open THEN MissedRow(row, now)
    ELSE row

NextRow(row, f, res, now) ==
    IF f \in res.present THEN SeenRow(row, f, res, now)
    ELSE IF row = NoRow \/ TargetOf[f] \notin res.targets THEN NoRow
    ELSE IF row.open /\ Execution(f) \in res.verdicts THEN MissedRow(row, now)
    ELSE row

\* Store.Prune's second statement: open = 0 AND resolved_at < cutoff.
Expired(row, cutoff) ==
    row # NoRow /\ ~row.open /\ row.resolvedAt # Nil /\ row.resolvedAt < cutoff

=============================================================================
