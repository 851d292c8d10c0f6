\* One channel that wants everything, with a heartbeat, whose sends and stamps
\* fail; two findings.
CONSTANTS
    f1 = f1
    f2 = f2
    t1 = t1
    c1 = c1
    NoRow = NoRow
    ch1 = ch1
    Findings = {f1, f2}
    Targets = {t1}
    Checks = {c1}
    TargetOf <- MCTargetOf
    CheckOf <- MCCheckOf
    Severities = {1}
    ResolveAfter = 1
    Channels = {ch1}
    On <- MCOn
    MinSeverity <- MCMinSeverity
    Heartbeat <- MCHeartbeat
    MaxPending = 2
    Rank <- MCRank
    TargetRank <- MCTargetRank
    Faults = {"send", "stamp"}
    Interrupts = {}
    Reachable = {}
    Wants = {"new", "regressed", "resolved", "persisting"}
    Terse = {}
    Beat = 1
SPECIFICATION Spec
INVARIANTS
    NothingLost
    ReaderCatchesUp
