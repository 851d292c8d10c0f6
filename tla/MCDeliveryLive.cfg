\* Two channels with heartbeats; the first wants persisting changes too, the
\* second may be unreachable for ever.
CONSTANTS
    f1 = f1
    f2 = f2
    t1 = t1
    c1 = c1
    NoRow = NoRow
    ch1 = ch1
    ch2 = ch2
    Findings = {f1}
    Targets = {t1}
    Checks = {c1}
    TargetOf <- MCTargetOf
    CheckOf <- MCCheckOf
    Severities = {1}
    ResolveAfter = 1
    Channels = {ch1, ch2}
    On <- MCOn
    MinSeverity <- MCMinSeverity
    Heartbeat <- MCHeartbeat
    MaxPending = 2
    Rank <- MCRank
    TargetRank <- MCTargetRank
    Faults = {"send"}
    Interrupts = {}
    Reachable = {ch1}
    Wants = {"new", "regressed", "resolved", "persisting"}
    Terse = {ch2}
    Beat = 1
SPECIFICATION FairSpec
PROPERTIES
    EventuallyDelivered
    NeverSilent
