\* Runs may take longer than two periods and longer than StaleAfter, or for
\* ever, until they are canceled.
SPECIFICATION FairSpec
CONSTANTS
    Period = 3
    Grace = 2
    StaleAfter = 4
    Matches = TRUE
INVARIANT StuckRunIsStale
PROPERTY RunsAreScheduled
PROPERTY ShutdownStops
