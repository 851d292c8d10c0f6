\* Two findings on two targets, before and after an upgrade; runs and times
\* enough for a finding to resolve, be pruned and return.
CONSTANTS
    f1 = f1
    f2 = f2
    t1 = t1
    t2 = t2
    c1 = c1
    NoRow = NoRow
    Findings = {f1, f2}
    Targets = {t1, t2}
    Checks = {c1}
    TargetOf <- MCTargetOf
    CheckOf <- MCCheckOf
    Names <- MCNames
    Severities = {1}
    ResolveAfter = 2
    Retention = 1
    MaxTime = 2
    MaxRuns = 4
SPECIFICATION StoredSpec
INVARIANTS
    ResolvedOnlyAfterAbsence
    ReaderInStep
    RenamesLoseNothing
PROPERTIES
    RowsGoQuietly
    ImplementsLifecycle
CHECK_DEADLOCK FALSE
