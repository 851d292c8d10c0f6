------------------------ MODULE FindingState_proofs ------------------------
(***************************************************************************)
(* Proofs about the state database, for any findings, targets, checks,     *)
(* severities, retention and number of runs, and about the same database   *)
(* through upgrades that rename checks, for any names.                     *)
(***************************************************************************)
EXTENDS StoredRows, TLAPS

\* max(opts.ResolveAfter, 1): a resolution always takes one absence at least.
LEMMA ThresholdPositive == Threshold \in Nat /\ Threshold >= 1
BY FindingAssumption DEF Threshold

\* A row exists or is NoRow, never both.
LEMMA NoRowIsNoRecord == NoRow \notin Row
BY NoRowAssumption

\* A sighting leaves a row, whatever was there.
LEMMA SeenRowTyped ==
    ASSUME NEW f \in Findings, NEW row \in Row \cup {NoRow},
           NEW res, IsResult(res), NEW now \in Nat
    PROVE  SeenRow(row, f, res, now) \in Row
<1>1. res.severity[f] \in Severities
  BY DEF IsResult
<1>2. (IF row = NoRow THEN now ELSE row.firstSeen) \in Nat
  BY DEF Row
<1> QED
  BY <1>1, <1>2 DEF SeenRow, Row

\* So does an absence, whether or not it resolves the finding.
LEMMA MissedRowTyped ==
    ASSUME NEW row \in Row, NEW now \in Nat
    PROVE  MissedRow(row, now) \in Row
<1>1. [row EXCEPT !.open = FALSE, !.missing = 0, !.resolvedAt = now] \in Row
  BY DEF Row
<1>2. [row EXCEPT !.missing = row.missing + 1] \in Row
  BY DEF Row
<1> QED
  BY <1>1, <1>2 DEF MissedRow

(***************************************************************************)
(* Whatever row a finding has, the next one is a row or none: no path      *)
(* through the diff leaves a counter negative or a severity unset.         *)
(***************************************************************************)
LEMMA NextRowTyped ==
    ASSUME NEW f \in Findings, NEW row \in Row \cup {NoRow},
           NEW res, IsResult(res), NEW now \in Nat
    PROVE  NextRow(row, f, res, now) \in Row \cup {NoRow}
<1>1. SeenRow(row, f, res, now) \in Row
  BY SeenRowTyped
<1>2. CASE row # NoRow
  BY <1>1, <1>2, MissedRowTyped DEF NextRow
<1>3. CASE row = NoRow
  BY <1>1, <1>3 DEF NextRow
<1> QED
  BY <1>2, <1>3

\* A change is always one of the four kinds, or none.
LEMMA DiffTyped ==
    ASSUME TypeOK, NEW res, IsResult(res)
    PROVE  Diff(res) \in [Findings -> Change]
<1> SUFFICES ASSUME NEW f \in Findings
             PROVE  ChangeOf(rows[f], f, res) \in Change
  BY DEF Diff
<1>1. KindOf(rows[f], f, res) \in Kinds \cup {"none"}
  BY DEF KindOf, Kinds
<1>2. rows[f] # NoRow => rows[f].suppressed \in BOOLEAN /\ rows[f].severity \in Nat
  BY FindingAssumption DEF TypeOK, Row
<1>3. res.severity[f] \in Nat
  BY FindingAssumption DEF IsResult
<1>4. CASE f \in res.present
  BY <1>1, <1>3, <1>4 DEF ChangeOf, Change
<1>5. CASE f \notin res.present /\ rows[f] # NoRow
  BY <1>1, <1>2, <1>5 DEF ChangeOf, Change
<1>6. CASE f \notin res.present /\ rows[f] = NoRow
  BY <1>1, <1>6 DEF ChangeOf, Change
<1> QED
  BY <1>4, <1>5, <1>6

(***************************************************************************)
(* Type correctness of the tables, the clock and the two histories.        *)
(***************************************************************************)
THEOREM TypeCorrect == Spec => []TypeOK
<1>1. Init => TypeOK
  BY DEF Init, TypeOK, Change, NoChange, Kinds
<1>2. TypeOK /\ [Next]_vars => TypeOK'
  <2> SUFFICES ASSUME TypeOK, [Next]_vars PROVE TypeOK'
    OBVIOUS
  <2>1. ASSUME NEW res \in Results, Record(res) PROVE TypeOK'
    <3>1. IsResult(res)
      BY <2>1 DEF Record
    <3>2. rows' \in [Findings -> Row \cup {NoRow}]
      BY <2>1, <3>1, NextRowTyped DEF Record, TypeOK
    <3>3. changes' \in [Findings -> Change]
      BY <2>1, <3>1, DiffTyped DEF Record
    <3>4. absences' \in [Findings -> Nat]
      BY <2>1 DEF Record, TypeOK, CountAbsence
    <3>5. told' \in [Findings -> {"nothing", "open", "closed"}]
      BY <2>1 DEF Record, TypeOK, Told, Believe
    <3>6. runs' \subseteq (Nat \X Nat) /\ lastRun' \in Nat
      BY <2>1 DEF Record, TypeOK
    <3> QED
      BY <2>1, <3>2, <3>3, <3>4, <3>5, <3>6 DEF Record, TypeOK
  <2>2. ASSUME PruneRuns PROVE TypeOK'
    BY <2>2 DEF PruneRuns, PrunableRuns, TypeOK
  <2>3. ASSUME PruneFindings PROVE TypeOK'
    BY <2>3 DEF PruneFindings, TypeOK
  <2>4. ASSUME AbandonPrune PROVE TypeOK'
    BY <2>4 DEF AbandonPrune, TypeOK
  <2>5. ASSUME Tick PROVE TypeOK'
    BY <2>5 DEF Tick, TypeOK
  <2>6. ASSUME UNCHANGED vars PROVE TypeOK'
    BY <2>6 DEF vars, TypeOK
  <2> QED
    BY <2>1, <2>2, <2>3, <2>4, <2>5, <2>6 DEF Next
<1> QED
  BY <1>1, <1>2, PTL DEF Spec

-----------------------------------------------------------------------------
(***************************************************************************)
(* A finding is closed exactly after ResolveAfter absences counted from    *)
(* the results alone.                                                      *)
(***************************************************************************)
THEOREM ResolutionIsEarned == Spec => []ResolvedOnlyAfterAbsence
<1>1. Init => ResolvedOnlyAfterAbsence
  BY DEF Init, ResolvedOnlyAfterAbsence
<1>2. TypeOK /\ ResolvedOnlyAfterAbsence /\ [Next]_vars => ResolvedOnlyAfterAbsence'
  <2> SUFFICES ASSUME TypeOK, ResolvedOnlyAfterAbsence, [Next]_vars
               PROVE  ResolvedOnlyAfterAbsence'
    OBVIOUS
  <2>1. ASSUME NEW res \in Results, Record(res) PROVE ResolvedOnlyAfterAbsence'
    <3> SUFFICES ASSUME NEW f \in Findings, rows'[f] # NoRow
                 PROVE  IF rows'[f].open
                        THEN rows'[f].missing = absences'[f] /\ absences'[f] < Threshold
                        ELSE absences'[f] = Threshold
      BY DEF ResolvedOnlyAfterAbsence
    <3>1. rows'[f] = NextRow(rows[f], f, res, time) /\ absences'[f] = CountAbsence(f, res)
      BY <2>1 DEF Record, TypeOK
    <3>2. CASE f \in res.present
      BY <3>1, <3>2, ThresholdPositive DEF NextRow, SeenRow, CountAbsence
    <3>3. CASE f \notin res.present
      <4>1. rows[f] # NoRow /\ rows[f] \in Row /\ TargetOf[f] \in res.targets
        BY <3>1, <3>3 DEF NextRow, TypeOK
      <4>2. IF rows[f].open THEN rows[f].missing = absences[f] /\ absences[f] < Threshold
            ELSE absences[f] = Threshold
        BY <4>1 DEF ResolvedOnlyAfterAbsence
      <4>3. rows[f].missing \in Nat /\ absences[f] \in Nat
        BY <4>1 DEF Row, TypeOK
      <4>4. CASE rows[f].open /\ Execution(f) \in res.verdicts
        <5>1. rows'[f] = MissedRow(rows[f], time) /\ absences'[f] = absences[f] + 1
          BY <3>1, <3>3, <4>1, <4>2, <4>4 DEF NextRow, CountAbsence
        <5>2. CASE rows[f].missing + 1 >= Threshold
          BY <4>1, <4>2, <4>3, <4>4, <5>1, <5>2, ThresholdPositive DEF MissedRow, Row
        <5>3. CASE ~(rows[f].missing + 1 >= Threshold)
          BY <4>1, <4>2, <4>3, <4>4, <5>1, <5>3, ThresholdPositive DEF MissedRow, Row
        <5> QED BY <5>2, <5>3
      <4>5. CASE ~(rows[f].open /\ Execution(f) \in res.verdicts)
        <5>1. rows'[f] = rows[f]
          BY <3>1, <3>3, <4>1, <4>5 DEF NextRow
        <5>2. absences'[f] = absences[f]
          BY <3>1, <3>3, <4>1, <4>2, <4>3, <4>5, ThresholdPositive DEF CountAbsence
        <5> QED BY <4>2, <5>1, <5>2
      <4> QED BY <4>4, <4>5
    <3> QED BY <3>2, <3>3
  <2>2. ASSUME PruneFindings PROVE ResolvedOnlyAfterAbsence'
    BY <2>2 DEF PruneFindings, TypeOK, ResolvedOnlyAfterAbsence
  <2>3. ASSUME PruneRuns \/ AbandonPrune \/ Tick \/ UNCHANGED vars
        PROVE  ResolvedOnlyAfterAbsence'
    BY <2>3 DEF PruneRuns, AbandonPrune, Tick, vars, ResolvedOnlyAfterAbsence
  <2> QED
    BY <2>1, <2>2, <2>3 DEF Next
<1> QED
  BY <1>1, <1>2, TypeCorrect, PTL DEF Spec

(***************************************************************************)
(* Whoever reads every unsuppressed change knows the state of every        *)
(* unsuppressed row.                                                       *)
(***************************************************************************)
THEOREM DiffKeepsReaderInStep == Spec => []ReaderInStep
<1>1. Init => ReaderInStep
  BY DEF Init, ReaderInStep
<1>2. TypeOK /\ ReaderInStep /\ [Next]_vars => ReaderInStep'
  <2> SUFFICES ASSUME TypeOK, ReaderInStep, [Next]_vars PROVE ReaderInStep'
    OBVIOUS
  <2>1. ASSUME NEW res \in Results, Record(res) PROVE ReaderInStep'
    <3> SUFFICES ASSUME NEW f \in Findings, rows'[f] # NoRow, ~rows'[f].suppressed
                 PROVE  told'[f] = IF rows'[f].open THEN "open" ELSE "closed"
      BY DEF ReaderInStep
    <3>1. /\ rows'[f] = NextRow(rows[f], f, res, time)
          /\ told'[f] = Told(f, changes'[f])
          /\ changes'[f] = ChangeOf(rows[f], f, res)
          /\ changes'[f].kind = KindOf(rows[f], f, res)
      BY <2>1 DEF Record, TypeOK, Diff, ChangeOf
    <3>2. rows[f] # NoRow /\ ~rows[f].suppressed =>
             told[f] = IF rows[f].open THEN "open" ELSE "closed"
      BY DEF ReaderInStep
    <3>3. CASE f \in res.present
      <4>1. rows'[f].open /\ f \notin res.suppressed /\ ~changes'[f].suppressed
        <5>1. rows'[f] = SeenRow(rows[f], f, res, time)
          BY <3>1, <3>3 DEF NextRow
        <5>2. rows'[f].open /\ rows'[f].suppressed = (f \in res.suppressed)
          BY <5>1 DEF SeenRow
        <5>3. changes'[f].suppressed = (f \in res.suppressed)
          BY <3>1, <3>3 DEF ChangeOf
        <5> QED BY <5>2, <5>3
      <4>2. CASE rows[f] = NoRow \/ ~rows[f].open \/ rows[f].suppressed
        <5>1. changes'[f].kind \in {"new", "regressed"}
          BY <3>1, <3>3, <4>1, <4>2 DEF KindOf
        <5> QED BY <3>1, <4>1, <5>1 DEF Told, Believe
      <4>3. CASE ~(rows[f] = NoRow \/ ~rows[f].open \/ rows[f].suppressed)
        <5>1. changes'[f].kind = "persisting"
          BY <3>1, <3>3, <4>1, <4>3 DEF KindOf
        <5>2. told'[f] = told[f]
          BY <3>1, <4>1, <5>1 DEF Told, Believe
        <5> QED BY <3>2, <4>1, <4>3, <5>2
      <4> QED BY <4>2, <4>3
    <3>4. CASE f \notin res.present
      <4>1. rows[f] # NoRow /\ rows[f] \in Row /\ TargetOf[f] \in res.targets
        BY <3>1, <3>4 DEF NextRow, TypeOK
      <4>2. rows'[f].suppressed = rows[f].suppressed
        BY <3>1, <3>4, <4>1 DEF NextRow, MissedRow, Row
      <4>3. CASE rows[f].open /\ Execution(f) \in res.verdicts /\ rows[f].missing + 1 >= Threshold
        <5>1. changes'[f].kind = "resolved" /\ ~changes'[f].suppressed
          <6>1. changes'[f].kind = "resolved"
            BY <3>1, <3>4, <4>1, <4>3 DEF KindOf
          <6>2. changes'[f].suppressed = rows[f].suppressed
            BY <3>1, <3>4, <4>1 DEF ChangeOf, Row
          <6> QED BY <4>2, <6>1, <6>2
        <5>2. told'[f] = "closed"
          BY <3>1, <5>1 DEF Told, Believe
        <5>3. ~rows'[f].open
          BY <3>1, <3>4, <4>1, <4>3 DEF NextRow, MissedRow, Row
        <5> QED BY <5>2, <5>3
      <4>4. CASE ~(rows[f].open /\ Execution(f) \in res.verdicts /\ rows[f].missing + 1 >= Threshold)
        <5>1. told'[f] = told[f]
          BY <3>1, <3>4, <4>1, <4>4 DEF KindOf, Told, Believe
        <5>2. rows'[f].open = rows[f].open
          BY <3>1, <3>4, <4>1, <4>4 DEF NextRow, MissedRow, Row
        <5> QED BY <3>2, <4>1, <4>2, <5>1, <5>2
      <4> QED BY <4>3, <4>4
    <3> QED BY <3>3, <3>4
  <2>2. ASSUME PruneFindings PROVE ReaderInStep'
    BY <2>2 DEF PruneFindings, TypeOK, ReaderInStep
  <2>3. ASSUME PruneRuns \/ AbandonPrune \/ Tick \/ UNCHANGED vars PROVE ReaderInStep'
    BY <2>3 DEF PruneRuns, AbandonPrune, Tick, vars, ReaderInStep
  <2> QED
    BY <2>1, <2>2, <2>3 DEF Next
<1> QED
  BY <1>1, <1>2, TypeCorrect, PTL DEF Spec
-----------------------------------------------------------------------------
(***************************************************************************)
(* The latest run survives every Prune: the first statement only deletes   *)
(* runs with an id below the greatest one, and AUTOINCREMENT gives every   *)
(* run a greater id than those before it.                                  *)
(***************************************************************************)
THEOREM LatestRunSurvives == Spec => []LatestRunKept
<1>1. Init => LatestRunKept
  BY DEF Init, LatestRunKept
<1>2. TypeOK /\ LatestRunKept /\ [Next]_vars => LatestRunKept'
  <2> SUFFICES ASSUME TypeOK, LatestRunKept, [Next]_vars PROVE LatestRunKept'
    OBVIOUS
  <2>1. lastRun \in Nat /\ \A s \in runs : s[1] \in Nat /\ s[1] <= lastRun
    BY DEF TypeOK, LatestRunKept
  <2>2. ASSUME NEW res \in Results, Record(res) PROVE LatestRunKept'
    <3>1. runs' = runs \cup {<<lastRun + 1, time>>} /\ lastRun' = lastRun + 1
      BY <2>2 DEF Record
    <3>2. \A s \in runs' : s[1] <= lastRun'
      BY <2>1, <3>1
    <3>3. <<lastRun + 1, time>> \in runs' /\ <<lastRun + 1, time>>[1] = lastRun'
      BY <3>1
    <3> QED BY <3>2, <3>3 DEF LatestRunKept
  <2>3. ASSUME PruneRuns PROVE LatestRunKept'
    <3>1. runs' = runs \ PrunableRuns(time - Retention) /\ lastRun' = lastRun
      BY <2>3 DEF PruneRuns
    <3>2. ASSUME NEW r \in runs, r[1] = lastRun PROVE r \in runs'
      BY <2>1, <3>1, <3>2 DEF PrunableRuns
    <3>3. \A s \in runs' : s[1] <= lastRun'
      BY <2>1, <3>1
    <3> QED BY <3>1, <3>2, <3>3 DEF LatestRunKept
  <2>4. ASSUME PruneFindings \/ AbandonPrune \/ Tick \/ UNCHANGED vars
        PROVE  LatestRunKept'
    BY <2>4 DEF PruneFindings, AbandonPrune, Tick, vars, LatestRunKept
  <2> QED
    BY <2>2, <2>3, <2>4 DEF Next
<1> QED
  BY <1>1, <1>2, TypeCorrect, PTL DEF Spec

(***************************************************************************)
(* No row vanishes behind the reader's back: either no result that makes   *)
(* the step has its target, and the diff is silent, or it was closed past  *)
(* the retention.                                                          *)
(***************************************************************************)
THEOREM RowsVanishQuietly == Spec => RowsGoQuietly
<1>1. TypeOK /\ [Next]_vars =>
        [\A f \in Findings : rows[f] # NoRow /\ rows'[f] = NoRow => Forgotten(f) \/ Pruned(f)]_vars
  <2> SUFFICES ASSUME TypeOK, [Next]_vars, NEW f \in Findings,
                      rows[f] # NoRow, rows'[f] = NoRow
               PROVE  Forgotten(f) \/ Pruned(f)
    OBVIOUS
  <2>1. ASSUME NEW res \in Results, Record(res)
        PROVE  TargetOf[f] \notin res.targets /\ changes'[f].kind = "none"
    <3>1. NextRow(rows[f], f, res, time) = NoRow /\ changes'[f].kind = KindOf(rows[f], f, res)
      BY <2>1 DEF Record, TypeOK, Diff, ChangeOf
    <3>2. f \notin res.present
      <4> SUFFICES ASSUME f \in res.present PROVE FALSE
        OBVIOUS
      <4>1. SeenRow(rows[f], f, res, time) = NoRow
        BY <3>1 DEF NextRow
      <4>2. SeenRow(rows[f], f, res, time) \in Row
        BY <2>1, SeenRowTyped DEF Record, TypeOK
      <4> QED BY <4>1, <4>2, NoRowIsNoRecord
    <3>3. TargetOf[f] \notin res.targets
      <4> SUFFICES ASSUME TargetOf[f] \in res.targets PROVE FALSE
        OBVIOUS
      <4>1. MissedRow(rows[f], time) \in Row
        BY MissedRowTyped DEF TypeOK
      <4> QED BY <3>1, <3>2, <4>1, NoRowIsNoRecord DEF NextRow
    <3> QED BY <3>1, <3>2, <3>3 DEF KindOf
  <2>2. ASSUME \E res \in Results : Record(res) PROVE Forgotten(f)
    <3>1. lastRun' > lastRun
      BY <2>2 DEF Record, TypeOK
    <3> QED BY <2>1, <2>2, <3>1 DEF Forgotten
  <2>3. ASSUME PruneFindings PROVE Pruned(f)
    <3>1. Expired(rows[f], time - Retention) /\ lastRun' = lastRun
      BY <2>3 DEF PruneFindings, TypeOK
    <3>2. rows[f] \in Row /\ time \in Nat
      BY DEF TypeOK
    <3>3. rows[f].resolvedAt \in Nat
      BY <3>1, <3>2 DEF Expired, Row
    <3> QED
      BY <3>1, <3>2, <3>3, RetentionAssumption DEF Expired, Pruned
  <2>4. ASSUME PruneRuns \/ AbandonPrune \/ Tick \/ UNCHANGED vars PROVE FALSE
    BY <2>4 DEF PruneRuns, AbandonPrune, Tick, vars
  <2> QED
    BY <2>2, <2>3, <2>4 DEF Next
<1> QED
  BY <1>1, TypeCorrect, PTL DEF Spec, RowsGoQuietly

-----------------------------------------------------------------------------
(***************************************************************************)
(* What the refinement needs beyond types: a closed row counts no absence, *)
(* so that forgetting it is invisible to FindingLifecycle's strikes.       *)
(***************************************************************************)
ClosedCountsNothing ==
    \A f \in Findings : rows[f] # NoRow /\ ~rows[f].open => rows[f].missing = 0

LEMMA ClosedCountsNothingInv == Spec => []ClosedCountsNothing
<1>1. Init => ClosedCountsNothing
  BY DEF Init, ClosedCountsNothing
<1>2. TypeOK /\ ClosedCountsNothing /\ [Next]_vars => ClosedCountsNothing'
  <2> SUFFICES ASSUME TypeOK, ClosedCountsNothing, [Next]_vars PROVE ClosedCountsNothing'
    OBVIOUS
  <2>1. ASSUME NEW res \in Results, Record(res) PROVE ClosedCountsNothing'
    <3> SUFFICES ASSUME NEW f \in Findings, rows'[f] # NoRow, ~rows'[f].open
                 PROVE  rows'[f].missing = 0
      BY DEF ClosedCountsNothing
    <3>1. rows'[f] = NextRow(rows[f], f, res, time) /\ rows[f] \in Row \cup {NoRow}
      BY <2>1 DEF Record, TypeOK
    <3>2. f \notin res.present /\ rows[f] # NoRow
      BY <3>1 DEF NextRow, SeenRow
    <3>3. CASE rows[f].open
      BY <3>1, <3>2, <3>3 DEF NextRow, MissedRow, Row
    <3>4. CASE ~rows[f].open
      BY <3>1, <3>2, <3>4 DEF NextRow, ClosedCountsNothing
    <3> QED BY <3>3, <3>4
  <2>2. ASSUME PruneFindings PROVE ClosedCountsNothing'
    BY <2>2 DEF PruneFindings, TypeOK, ClosedCountsNothing
  <2>3. ASSUME PruneRuns \/ AbandonPrune \/ Tick \/ UNCHANGED vars
        PROVE  ClosedCountsNothing'
    BY <2>3 DEF PruneRuns, AbandonPrune, Tick, vars, ClosedCountsNothing
  <2> QED
    BY <2>1, <2>2, <2>3 DEF Next
<1> QED
  BY <1>1, <1>2, TypeCorrect, PTL DEF Spec

(***************************************************************************)
(* A recorded run is a run of the life cycle, for each finding on its own. *)
(***************************************************************************)
LEMMA RecordIsARun ==
    ASSUME TypeOK, ClosedCountsNothing, NEW res \in Results, Record(res)
    PROVE  Lifecycle!Run
<1> SUFFICES ASSUME NEW f \in Findings
             PROVE  \/ Lifecycle!Sighted(f) \/ Lifecycle!Missed(f) \/ Lifecycle!Closes(f)
                    \/ Lifecycle!Unjudged(f) \/ Lifecycle!Forgotten(f)
  BY DEF Lifecycle!Run
<1>1. /\ rows'[f] = NextRow(rows[f], f, res, time)
      /\ changes'[f].kind = KindOf(rows[f], f, res)
      /\ rows[f] \in Row \cup {NoRow}
  BY DEF Record, TypeOK, Diff, ChangeOf
<1>2. CASE f \in res.present
  <2>1. rows'[f] = SeenRow(rows[f], f, res, time)
    BY <1>1, <1>2 DEF NextRow
  <2>2. SeenRow(rows[f], f, res, time) \in Row
    BY <1>1, SeenRowTyped DEF Record, TypeOK
  <2>3. rows'[f] # NoRow /\ rows'[f].open /\ rows'[f].missing = 0
    <3>1. rows'[f] \in Row
      BY <2>1, <2>2
    <3>2. rows'[f].open /\ rows'[f].missing = 0
      BY <2>1 DEF SeenRow
    <3> QED BY <3>1, <3>2, NoRowIsNoRecord
  <2>4. changes'[f].kind \in CASE StatusOf(rows[f]) = "unknown" -> {"new"}
                               [] StatusOf(rows[f]) = "closed" -> {"regressed"}
                               [] OTHER -> {"persisting", "new"}
    BY <1>1, <1>2 DEF KindOf, StatusOf
  <2> QED
    BY <2>3, <2>4 DEF Lifecycle!Sighted, StatusOf
<1>3. CASE f \notin res.present /\ (rows[f] = NoRow \/ TargetOf[f] \notin res.targets)
  BY <1>1, <1>3 DEF NextRow, KindOf, Lifecycle!Forgotten, StatusOf
<1>4. CASE /\ f \notin res.present /\ rows[f] # NoRow /\ TargetOf[f] \in res.targets
           /\ ~(rows[f].open /\ Execution(f) \in res.verdicts)
  <2>1. rows'[f] = rows[f] /\ changes'[f].kind = "none"
    BY <1>1, <1>4 DEF NextRow, KindOf
  <2> QED
    BY <2>1 DEF Lifecycle!Unjudged
<1>5. CASE /\ f \notin res.present /\ rows[f] # NoRow /\ TargetOf[f] \in res.targets
           /\ rows[f].open /\ Execution(f) \in res.verdicts
  <2>1. rows'[f] = MissedRow(rows[f], time) /\ rows[f] \in Row
    BY <1>1, <1>5 DEF NextRow
  <2>2. rows'[f] \in Row /\ rows'[f] # NoRow
    BY <2>1, MissedRowTyped, NoRowIsNoRecord DEF TypeOK
  <2>3. CASE rows[f].missing + 1 >= Threshold
    <3>1. ~rows'[f].open /\ rows'[f].missing = 0
      BY <2>1, <2>3 DEF MissedRow, Row
    <3>2. changes'[f].kind = "resolved"
      BY <1>1, <1>5, <2>3 DEF KindOf
    <3> QED
      BY <1>5, <2>2, <2>3, <3>1, <3>2 DEF Lifecycle!Closes, StatusOf
  <2>4. CASE ~(rows[f].missing + 1 >= Threshold)
    <3>1. rows'[f].open /\ rows'[f].missing = rows[f].missing + 1
      BY <1>5, <2>1, <2>4 DEF MissedRow, Row
    <3>2. changes'[f].kind = "none"
      BY <1>1, <1>5, <2>4 DEF KindOf
    <3>3. rows[f].missing + 1 < Threshold
      BY <2>1, <2>4, ThresholdPositive DEF Row
    <3> QED
      BY <1>5, <2>2, <3>1, <3>2, <3>3 DEF Lifecycle!Missed, StatusOf
  <2> QED BY <2>3, <2>4
<1> QED
  BY <1>2, <1>3, <1>4, <1>5

(***************************************************************************)
(* The findings table implements the life cycle: every run of the daemon   *)
(* sights, misses, closes, leaves or forgets each finding, and between     *)
(* runs the table only forgets findings long closed.                       *)
(***************************************************************************)
THEOREM TableImplementsLifecycle == Spec => ImplementsLifecycle
<1>1. Init => Lifecycle!Init
  BY DEF Init, Lifecycle!Init, StatusOf, NoChange
<1>2. TypeOK /\ ClosedCountsNothing /\ [Next]_vars => [Lifecycle!Next]_(Lifecycle!vars)
  <2> SUFFICES ASSUME TypeOK, ClosedCountsNothing, [Next]_vars
               PROVE  Lifecycle!Next \/ UNCHANGED Lifecycle!vars
    BY DEF Lifecycle!vars
  <2>1. ASSUME NEW res \in Results, Record(res) PROVE Lifecycle!Next
    BY <2>1, RecordIsARun DEF Lifecycle!Next
  <2>2. ASSUME PruneFindings PROVE Lifecycle!Next
    <3>1. [f \in Findings |-> changes[f].kind]' = [f \in Findings |-> changes[f].kind]
      BY <2>2 DEF PruneFindings
    <3>2. ASSUME NEW f \in Findings
          PROVE  /\ (IF rows'[f] = NoRow THEN 0 ELSE rows'[f].missing)
                      = (IF rows[f] = NoRow THEN 0 ELSE rows[f].missing)
                 /\ \/ StatusOf(rows'[f]) = StatusOf(rows[f])
                    \/ StatusOf(rows[f]) = "closed" /\ StatusOf(rows'[f]) = "unknown"
      <4>1. CASE Expired(rows[f], time - Retention)
        <5>1. rows[f] # NoRow /\ ~rows[f].open /\ rows[f].missing = 0
          BY <4>1 DEF Expired, ClosedCountsNothing
        <5>2. rows'[f] = NoRow
          BY <2>2, <4>1 DEF PruneFindings, TypeOK
        <5> QED BY <5>1, <5>2 DEF StatusOf
      <4>2. CASE ~Expired(rows[f], time - Retention)
        BY <2>2, <4>2 DEF PruneFindings, TypeOK
      <4> QED BY <4>1, <4>2
    <3>3. Lifecycle!Purge
      BY <3>1, <3>2 DEF Lifecycle!Purge
    <3> QED BY <3>3 DEF Lifecycle!Next
  <2>3. ASSUME PruneRuns \/ AbandonPrune \/ Tick \/ UNCHANGED vars
        PROVE  UNCHANGED Lifecycle!vars
    BY <2>3 DEF PruneRuns, AbandonPrune, Tick, vars, Lifecycle!vars
  <2> QED
    BY <2>1, <2>2, <2>3 DEF Next
<1> QED
  BY <1>1, <1>2, TypeCorrect, ClosedCountsNothingInv, PTL
     DEF Spec, ImplementsLifecycle, Lifecycle!Spec

-----------------------------------------------------------------------------
(***************************************************************************)
(* Under its current ID a check is known, and the IDs it is known by only  *)
(* grow from one version to the next.                                      *)
(***************************************************************************)
LEMMA NamesStayKnown ==
    ASSUME NEW v \in Versions, NEW w \in Versions, v <= w, NEW c \in Checks
    PROVE  /\ Names[w][c] \in Known(w, c)
           /\ Known(v, c) \subseteq Known(w, c)
           /\ Known(w, c) \subseteq IDs
<1>1. PICK n \in Versions : Versions = 1..n
  BY NamesAssumption
<1>2. v \in Nat /\ w \in Nat /\ n \in Nat /\ 1 <= w /\ w <= n
  BY <1>1, NamesAssumption
<1>3. \A i \in 1..w : i \in Versions
  BY <1>1, <1>2
<1>4. w \in 1..w /\ \A i \in 1..v : i \in 1..w
  BY <1>2
<1> QED
  BY <1>3, <1>4 DEF Known, IDs

(***************************************************************************)
(* The rows loadRows takes for a finding's are those under an ID that its  *)
(* check is known by.                                                      *)
(***************************************************************************)
LEMMA MineAreKnown ==
    ASSUME StoredInv, NEW f \in Findings
    PROVE  /\ Mine(f) = {id \in IDs : stored[f][id] # NoRow}
           /\ Current(f) \in IDs /\ Current(f) \in Known(version, CheckOf[f])
<1>1. CheckOf[f] \in Checks /\ version \in Versions /\ version <= version
  BY FindingAssumption, NamesAssumption DEF StoredInv
<1>2. Current(f) \in IDs /\ Current(f) \in Known(version, CheckOf[f])
  BY <1>1, NamesStayKnown DEF Current
<1>3. ASSUME NEW id \in IDs, stored[f][id] # NoRow
      PROVE  Canonical(version, CheckOf[f], id) = Current(f)
  BY <1>3 DEF StoredInv, Canonical, Current
<1> QED
  BY <1>2, <1>3 DEF Mine

\* Whichever row is read last, it is the one the finding would have without renames.
LEMMA LoadedIsTheRow ==
    ASSUME StoredInv, NEW f \in Findings, NEW last \in ReadLast
    PROVE  /\ LoadedRow(f, last[f]) = rows[f]
           /\ IF rows[f] = NoRow THEN last[f] = NoID
              ELSE last[f] \in IDs /\ last[f] # NoID /\ stored[f][last[f]] = rows[f]
           /\ \A id \in IDs : id # last[f] => stored[f][id] = NoRow
<1>1. Mine(f) = {id \in IDs : stored[f][id] # NoRow}
  BY MineAreKnown
<1>2. last[f] \in IF Mine(f) = {} THEN {NoID} ELSE Mine(f)
  BY DEF ReadLast
<1>3. CASE rows[f] = NoRow
  <2>1. Mine(f) = {}
    BY <1>1, <1>3 DEF StoredInv
  <2> QED
    BY <1>1, <1>2, <1>3, <2>1 DEF LoadedRow
<1>4. CASE rows[f] # NoRow
  <2>1. Mine(f) # {}
    BY <1>1, <1>4 DEF StoredInv
  <2>2. last[f] \in IDs /\ stored[f][last[f]] # NoRow
    BY <1>1, <1>2, <2>1
  <2>3. last[f] # NoID
    BY <2>2, NamesAssumption
  <2>4. stored[f][last[f]] = rows[f]
    BY <2>2 DEF StoredInv
  <2>5. \A id \in IDs : id # last[f] => stored[f][id] = NoRow
    BY <2>2 DEF StoredInv
  <2> QED
    BY <1>4, <2>2, <2>3, <2>4, <2>5 DEF LoadedRow
<1> QED
  BY <1>3, <1>4

\* A row that is saved over itself keeps the first_seen it would have anyway.
LEMMA FirstSeenKept ==
    ASSUME NEW f \in Findings, NEW row \in Row, NEW res, IsResult(res), NEW now \in Nat
    PROVE  Upserted(row, NextRow(row, f, res, now)) = NextRow(row, f, res, now)
<1> DEFINE next == NextRow(row, f, res, now)
<1>1. row # NoRow
  BY NoRowIsNoRecord
<1>2. CASE next = NoRow
  BY <1>2 DEF Upserted
<1>3. CASE next # NoRow
  <2>1. next \in Row
    BY <1>3, NextRowTyped
  <2>2. next.firstSeen = row.firstSeen
    <3>1. CASE f \in res.present
      BY <1>1, <3>1 DEF NextRow, SeenRow
    <3>2. CASE f \notin res.present
      BY <1>1, <1>3, <3>2 DEF NextRow, MissedRow, Row
    <3> QED
      BY <3>1, <3>2
  <2>3. [next EXCEPT !.firstSeen = row.firstSeen] = next
    BY <2>1, <2>2 DEF Row
  <2> QED
    BY <1>1, <1>3, <2>3 DEF Upserted
<1> QED
  BY <1>2, <1>3

(***************************************************************************)
(* Saving leaves one row, under the current ID, and none under a former    *)
(* one (saveRows: the DELETE of oldFP).                                    *)
(***************************************************************************)
LEMMA SavedIsTheRow ==
    ASSUME TypeOK, StoredInv, NEW f \in Findings, NEW last \in ReadLast,
           NEW res, IsResult(res)
    PROVE  LET next == NextRow(rows[f], f, res, time)
           IN  Saved(f, last[f], NextRow(LoadedRow(f, last[f]), f, res, time))
                 = [id \in IDs |-> IF id = Current(f) THEN next ELSE NoRow]
<1> DEFINE next == NextRow(rows[f], f, res, time)
           others == WithoutFormer(f, last[f])
<1>1. /\ LoadedRow(f, last[f]) = rows[f]
      /\ IF rows[f] = NoRow THEN last[f] = NoID
         ELSE last[f] \in IDs /\ last[f] # NoID /\ stored[f][last[f]] = rows[f]
      /\ \A id \in IDs : id # last[f] => stored[f][id] = NoRow
  BY LoadedIsTheRow
<1>2. Current(f) \in IDs /\ NoID \notin IDs
  BY MineAreKnown, NamesAssumption
<1>3. stored[f] \in [IDs -> Row \cup {NoRow}] /\ rows[f] \in Row \cup {NoRow} /\ time \in Nat
  BY DEF StoredInv, TypeOK
<1>4. others \in [IDs -> Row \cup {NoRow}]
  BY <1>3 DEF WithoutFormer
<1>5. /\ \A id \in IDs : id # Current(f) => others[id] = NoRow
      /\ others[Current(f)] \in {NoRow, rows[f]}
  <2>1. CASE last[f] # NoID /\ last[f] # Current(f)
    <3>1. others = [stored[f] EXCEPT ![last[f]] = NoRow]
      BY <2>1 DEF WithoutFormer
    <3>2. \A id \in IDs : others[id] = IF id = last[f] THEN NoRow ELSE stored[f][id]
      BY <1>3, <3>1
    <3> QED
      BY <1>1, <1>2, <3>2
  <2>2. CASE last[f] = NoID \/ last[f] = Current(f)
    <3>1. others = stored[f]
      BY <2>2 DEF WithoutFormer
    <3>2. CASE last[f] = Current(f)
      BY <1>1, <1>2, <3>1, <3>2
    <3>3. CASE last[f] # Current(f)
      BY <1>1, <1>2, <2>2, <3>1, <3>3
    <3> QED
      BY <3>2, <3>3
  <2> QED
    BY <2>1, <2>2
<1>6. Upserted(others[Current(f)], next) = next
  <2>1. CASE others[Current(f)] = NoRow
    BY <2>1 DEF Upserted
  <2>2. CASE others[Current(f)] # NoRow
    <3>1. others[Current(f)] = rows[f] /\ rows[f] \in Row
      BY <1>3, <1>5, <2>2
    <3> QED
      BY <1>3, <3>1, FirstSeenKept
  <2> QED
    BY <2>1, <2>2
<1>7. Saved(f, last[f], next) = [others EXCEPT ![Current(f)] = next]
  BY <1>6 DEF Saved
<1> HIDE DEF next, others
<1>8. [others EXCEPT ![Current(f)] = next] = [id \in IDs |-> IF id = Current(f) THEN next ELSE NoRow]
  BY <1>4, <1>5
<1>9. Saved(f, last[f], NextRow(LoadedRow(f, last[f]), f, res, time)) = Saved(f, last[f], next)
  BY <1>1 DEF next
<1> QED
  BY <1>7, <1>8, <1>9 DEF next

(***************************************************************************)
(* One row per finding, the right one, under an ID that its check had:     *)
(* inductive, together with the types.                                     *)
(***************************************************************************)
LEMMA StoredInitHolds == StoredInit => StoredInv
<1> SUFFICES ASSUME StoredInit PROVE StoredInv
  OBVIOUS
<1>1. 1 \in Versions
  BY NamesAssumption
<1> QED
  BY <1>1 DEF StoredInit, Init, StoredInv

LEMMA StoredStepHolds == TypeOK /\ StoredInv /\ [StoredNext]_storedVars => StoredInv'
<1> SUFFICES ASSUME TypeOK, StoredInv, [StoredNext]_storedVars PROVE StoredInv'
  OBVIOUS
<1> DEFINE OneRow(f) == /\ \A id \in IDs : stored[f][id] # NoRow =>
                             stored[f][id] = rows[f] /\ id \in Known(version, CheckOf[f])
                        /\ \A id, other \in IDs :
                             stored[f][id] # NoRow /\ stored[f][other] # NoRow => id = other
                        /\ rows[f] # NoRow => \E id \in IDs : stored[f][id] # NoRow
<1>1. CASE StoreRecord
  <2>1. PICK last \in ReadLast, res \in Results :
          /\ Record(res)
          /\ stored' = [f \in Findings |->
                 Saved(f, last[f], NextRow(LoadedRow(f, last[f]), f, res, time))]
    BY <1>1 DEF StoreRecord
  <2>2. IsResult(res) /\ time \in Nat /\ version' = version
        /\ rows' = [f \in Findings |-> NextRow(rows[f], f, res, time)]
    BY <1>1, <2>1 DEF StoreRecord, Record, TypeOK
  <2>3. ASSUME NEW f \in Findings
        PROVE  /\ stored'[f] = [id \in IDs |-> IF id = Current(f) THEN rows'[f] ELSE NoRow]
               /\ rows'[f] \in Row \cup {NoRow}
    <3>1. stored'[f] = Saved(f, last[f], NextRow(LoadedRow(f, last[f]), f, res, time))
      BY <2>1
    <3>2. rows'[f] = NextRow(rows[f], f, res, time)
      BY <2>2
    <3>3. stored'[f] = [id \in IDs |->
                          IF id = Current(f) THEN NextRow(rows[f], f, res, time) ELSE NoRow]
      BY <2>2, <3>1, SavedIsTheRow
    <3>4. rows'[f] \in Row \cup {NoRow}
      BY <2>2, <3>2, NextRowTyped DEF TypeOK
    <3> QED
      BY <3>2, <3>3, <3>4
  <2>4. stored' \in [Findings -> [IDs -> Row \cup {NoRow}]]
    <3>1. \A f \in Findings : stored'[f] \in [IDs -> Row \cup {NoRow}]
      BY <2>3
    <3>2. stored' = [f \in Findings |-> stored'[f]]
      BY <2>1
    <3> QED
      BY <3>1, <3>2
  <2>5. ASSUME NEW f \in Findings PROVE OneRow(f)'
    <3>1. Current(f) \in IDs /\ Current(f) \in Known(version, CheckOf[f])
      BY MineAreKnown
    <3>2. \A id \in IDs : stored'[f][id] = IF id = Current(f) THEN rows'[f] ELSE NoRow
      BY <2>3
    <3>3. Known(version, CheckOf[f])' = Known(version, CheckOf[f])
      BY <2>2
    <3> QED
      BY <3>1, <3>2, <3>3
  <2> QED
    BY <2>2, <2>4, <2>5 DEF StoredInv
<1>2. CASE StorePrune
  <2>1. /\ stored' = [f \in Findings |-> [id \in IDs |->
                        IF Expired(stored[f][id], time - Retention) THEN NoRow ELSE stored[f][id]]]
        /\ rows' = [f \in Findings |->
                      IF Expired(rows[f], time - Retention) THEN NoRow ELSE rows[f]]
        /\ version' = version
    BY <1>2 DEF StorePrune, PruneFindings
  <2>2. stored' \in [Findings -> [IDs -> Row \cup {NoRow}]]
    BY <2>1 DEF StoredInv
  <2>3. ASSUME NEW f \in Findings PROVE OneRow(f)'
    <3>1. OneRow(f)
      BY DEF StoredInv
    <3>2. ~Expired(NoRow, time - Retention)
      BY DEF Expired
    <3> QED
      BY <2>1, <3>1, <3>2
  <2> QED
    BY <2>1, <2>2, <2>3 DEF StoredInv
<1>3. CASE StoreElse \/ UNCHANGED storedVars
  BY <1>3 DEF StoreElse, storedVars, vars, PruneRuns, AbandonPrune, Tick, StoredInv
<1>4. CASE Upgrade
  <2>1. version' \in Versions /\ version' > version /\ UNCHANGED <<rows, stored>>
    BY <1>4 DEF Upgrade, vars
  <2>2. version <= version'
    BY <2>1, NamesAssumption DEF StoredInv
  <2>3. ASSUME NEW f \in Findings PROVE OneRow(f)'
    <3>1. Known(version, CheckOf[f]) \subseteq Known(version', CheckOf[f])
      BY <2>1, <2>2, NamesStayKnown, FindingAssumption DEF StoredInv
    <3>2. OneRow(f)
      BY DEF StoredInv
    <3> QED
      BY <2>1, <3>1, <3>2
  <2> QED
    BY <2>1, <2>3 DEF StoredInv
<1> QED
  BY <1>1, <1>2, <1>3, <1>4 DEF StoredNext

(***************************************************************************)
(* To whoever uses the database, one with renamed checks is one without:   *)
(* what is proved of Spec above holds through upgrades too.                *)
(***************************************************************************)
THEOREM RenamesAreInvisible == StoredSpec => Spec
<1>1. StoredInit => Init
  BY DEF StoredInit
<1>2. [StoredNext]_storedVars => [Next]_vars
  BY DEF StoredNext, StoreRecord, StorePrune, StoreElse, Upgrade, storedVars, Next
<1> QED
  BY <1>1, <1>2, PTL DEF StoredSpec, Spec

(***************************************************************************)
(* For any findings, versions and names: the running version loads the row *)
(* that it would without renames, whichever row is read last.              *)
(***************************************************************************)
THEOREM RenamedRowsAreFound == StoredSpec => []RenamesLoseNothing
<1>1. StoredSpec => []TypeOK
  BY RenamesAreInvisible, TypeCorrect, PTL
<1>2. StoredInv => RenamesLoseNothing
  <2> SUFFICES ASSUME StoredInv, NEW f \in Findings
               PROVE  {stored[f][id] : id \in Mine(f)} = {rows[f]} \ {NoRow}
    BY DEF RenamesLoseNothing
  <2>1. Mine(f) = {id \in IDs : stored[f][id] # NoRow}
    BY MineAreKnown
  <2>2. /\ \A id \in IDs : stored[f][id] # NoRow => stored[f][id] = rows[f]
        /\ rows[f] # NoRow => \E id \in IDs : stored[f][id] # NoRow
    BY DEF StoredInv
  <2> QED
    BY <2>1, <2>2
<1> QED
  BY <1>1, <1>2, StoredInitHolds, StoredStepHolds, PTL DEF StoredSpec

=============================================================================
