---------------------------- MODULE FindingState ----------------------------
(***************************************************************************)
(* The state database of the daemon (internal/state): the findings and     *)
(* runs tables, changed by Record after every completed run and by Prune   *)
(* after the run's notifications.  Record is one SQL transaction, so it is *)
(* one step; a Record that fails rolls back and is a stuttering step.      *)
(* Prune is two statements, each committed by itself.                      *)
(***************************************************************************)
EXTENDS FindingDiff

CONSTANTS
    Retention,   \* how long runs and resolved findings are kept
    MaxTime,     \* bound of the clock
    MaxRuns      \* bound of the number of runs

ASSUME RetentionAssumption == Retention \in Nat /\ MaxTime \in Nat /\ MaxRuns \in Nat

VARIABLES
    rows,      \* the findings table
    runs,      \* the runs table: ids of the stored runs and when each started
    lastRun,   \* AUTOINCREMENT: the greatest run id given out
    time,      \* the wall clock
    phase,     \* where the program is between two Records
    changes,   \* Diff.Changes of the last Record, per finding
    absences,  \* history: verdicts without the finding since it was last seen
    told       \* history: what a reader of every unsuppressed change believes

vars == <<rows, runs, lastRun, time, phase, changes, absences, told>>

TypeOK ==
    /\ rows \in [Findings -> Row \cup {NoRow}]
    /\ runs \subseteq (Nat \X Nat)
    /\ lastRun \in Nat
    /\ time \in Nat
    /\ phase \in {"idle", "recorded", "runsPruned"}
    /\ changes \in [Findings -> Change]
    /\ absences \in [Findings -> Nat]
    /\ told \in [Findings -> {"nothing", "open", "closed"}]

Init ==
    /\ rows = [f \in Findings |-> NoRow]
    /\ runs = {}
    /\ lastRun = 0
    /\ time = 0
    /\ phase = "idle"
    /\ changes = [f \in Findings |-> NoChange]
    /\ absences = [f \in Findings |-> 0]
    /\ told = [f \in Findings |-> "nothing"]

Diff(res) == [f \in Findings |-> ChangeOf(rows[f], f, res)]

\* Suppressed changes are never notified.
Told(f, change) == IF change.suppressed THEN told[f] ELSE Believe(told[f], change.kind)

\* Counts absences from the results alone, not from the stored counter, and
\* up to the threshold.
CountAbsence(f, res) ==
    IF f \in res.present \/ TargetOf[f] \notin res.targets THEN 0
    ELSE IF Execution(f) \in res.verdicts /\ absences[f] < Threshold THEN absences[f] + 1
    ELSE absences[f]

\* Store.Record: the run is inserted, every row is diffed against the result.
Record(res) ==
    /\ phase = "idle"
    /\ lastRun < MaxRuns
    /\ IsResult(res)
    /\ lastRun' = lastRun + 1
    /\ runs' = runs \cup {<<lastRun + 1, time>>}
    /\ rows' = [f \in Findings |-> NextRow(rows[f], f, res, time)]
    /\ changes' = Diff(res)
    /\ absences' = [f \in Findings |-> CountAbsence(f, res)]
    /\ told' = [f \in Findings |-> Told(f, changes'[f])]
    /\ phase' = "recorded"
    /\ UNCHANGED time

\* The latest run is always kept.
PrunableRuns(cutoff) == {r \in runs : r[2] < cutoff /\ \E s \in runs : s[1] > r[1]}

\* Store.Prune's first statement.
PruneRuns ==
    /\ phase = "recorded"
    /\ runs' = runs \ PrunableRuns(time - Retention)
    /\ phase' = "runsPruned"
    /\ UNCHANGED <<rows, lastRun, time, changes, absences, told>>

\* Store.Prune's second statement.
PruneFindings ==
    /\ phase = "runsPruned"
    /\ rows' = [f \in Findings |->
                  IF Expired(rows[f], time - Retention) THEN NoRow ELSE rows[f]]
    /\ phase' = "idle"
    /\ UNCHANGED <<runs, lastRun, time, changes, absences, told>>

\* The first statement failed, or the process stopped before the second.
AbandonPrune ==
    /\ phase \in {"recorded", "runsPruned"}
    /\ phase' = "idle"
    /\ UNCHANGED <<rows, runs, lastRun, time, changes, absences, told>>

Tick ==
    /\ time < MaxTime
    /\ time' = time + 1
    /\ UNCHANGED <<rows, runs, lastRun, phase, changes, absences, told>>

Results == {res \in [targets : SUBSET Targets, verdicts : SUBSET (Targets \X Checks),
                     present : SUBSET Findings, suppressed : SUBSET Findings,
                     severity : [Findings -> Severities]] : IsResult(res)}

Next ==
    \/ \E res \in Results : Record(res)
    \/ PruneRuns
    \/ PruneFindings
    \/ AbandonPrune
    \/ Tick

Spec == Init /\ [][Next]_vars

-----------------------------------------------------------------------------
(***************************************************************************)
(* A finding is closed exactly when the results themselves show it absent  *)
(* from ResolveAfter verdicts since it was last seen.  A run whose check   *)
(* failed or was not selected neither counts nor resets the count, so one  *)
(* flaky DNS answer never turns into a "resolved" followed by a            *)
(* "regressed" (Record: rw.missing, and delete(ran, ...) for errors).      *)
(***************************************************************************)
ResolvedOnlyAfterAbsence ==
    \A f \in Findings : rows[f] # NoRow =>
        IF rows[f].open THEN rows[f].missing = absences[f] /\ absences[f] < Threshold
        ELSE absences[f] = Threshold

(***************************************************************************)
(* The diff keeps its reader in step with the table: whoever sees every    *)
(* unsuppressed change of every run believes a stored, unsuppressed        *)
(* finding open exactly when its row is.  It is what makes a change, and   *)
(* not a snapshot, enough to notify: across suppressions that begin and    *)
(* expire, findings pruned or forgotten and seen again (the switch over    *)
(* kinds in Record).                                                       *)
(***************************************************************************)
ReaderInStep ==
    \A f \in Findings : rows[f] # NoRow /\ ~rows[f].suppressed =>
        told[f] = IF rows[f].open THEN "open" ELSE "closed"

(***************************************************************************)
(* A row disappears in two ways only.  A run without its target drops it,  *)
(* and says nothing of it (Record: rw.gone); no run with its target does,  *)
(* whether or not its check was selected and succeeded.  Prune drops it    *)
(* once it has been closed for longer than the retention, never while it   *)
(* is open (the WHERE clause of Prune's second statement).                 *)
(***************************************************************************)
Forgotten(f) ==
    /\ lastRun' > lastRun
    /\ \A res \in Results : TargetOf[f] \in res.targets => ~Record(res)
    /\ changes'[f].kind = "none"

Pruned(f) == lastRun' = lastRun /\ ~rows[f].open /\ rows[f].resolvedAt + Retention < time

RowsGoQuietly ==
    [][\A f \in Findings : rows[f] # NoRow /\ rows'[f] = NoRow => Forgotten(f) \/ Pruned(f)]_vars

(***************************************************************************)
(* The runs table never loses the latest run, so run ids keep increasing   *)
(* and a daemon that pauses longer than the retention still has a run on   *)
(* record (Prune: id < (SELECT MAX(id) FROM runs)).                        *)
(***************************************************************************)
LatestRunKept ==
    /\ \A s \in runs : s[1] <= lastRun
    /\ lastRun > 0 => \E r \in runs : r[1] = lastRun

-----------------------------------------------------------------------------
(***************************************************************************)
(* The table implements the life cycle the alerts are documented by.       *)
(***************************************************************************)
StatusOf(row) == IF row = NoRow THEN "unknown" ELSE IF row.open THEN "open" ELSE "closed"

Lifecycle == INSTANCE FindingLifecycle WITH
    Patience <- Threshold,
    status <- [f \in Findings |-> StatusOf(rows[f])],
    strikes <- [f \in Findings |-> IF rows[f] = NoRow THEN 0 ELSE rows[f].missing],
    alert <- [f \in Findings |-> changes[f].kind]

\* Every step of the database is a step of FindingLifecycle, or none.
ImplementsLifecycle == Lifecycle!Spec
=============================================================================
