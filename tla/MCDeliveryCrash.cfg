\* Every call fails, shutdowns cancel runs and the process dies anywhere; there
\* is room for one undelivered change.
CONSTANTS
    f1 = f1
    f2 = f2
    t1 = t1
    c1 = c1
    NoRow = NoRow
    ch1 = ch1
    Findings = {f1, f2}
    Targets = {t1}
    Checks = {c1}
    TargetOf <- MCTargetOf
    CheckOf <- MCCheckOf
    Severities = {1}
    ResolveAfter = 1
    Channels = {ch1}
    On <- MCOn
    MinSeverity <- MCMinSeverity
    Heartbeat <- MCHeartbeat
    MaxPending = 1
    Rank <- MCRank
    TargetRank <- MCTargetRank
    Faults = {"send", "stamp", "forget", "get", "keep"}
    Interrupts = {"cancel", "crash"}
    Reachable = {}
    Wants = {"new", "regressed", "resolved"}
    Terse = {}
    Beat = 1
SPECIFICATION Spec
PROPERTIES
    KeptUntilSent
