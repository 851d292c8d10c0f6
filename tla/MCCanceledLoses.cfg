\* A shutdown whose grace ends during the dispatch.
CONSTANTS
    f1 = f1
    f2 = f2
    t1 = t1
    c1 = c1
    NoRow = NoRow
    ch1 = ch1
    Findings = {f1}
    Targets = {t1}
    Checks = {c1}
    TargetOf <- MCTargetOf
    CheckOf <- MCCheckOf
    Severities = {1}
    ResolveAfter = 1
    Channels = {ch1}
    On <- MCOn
    MinSeverity <- MCMinSeverity
    Heartbeat <- MCHeartbeat
    MaxPending = 2
    Rank <- MCRank
    TargetRank <- MCTargetRank
    Faults = {}
    Interrupts = {"cancel"}
    Reachable = {}
    Wants = {"new", "regressed", "resolved"}
    Terse = {}
    Beat = 0
SPECIFICATION Spec
INVARIANTS
    NothingLost
