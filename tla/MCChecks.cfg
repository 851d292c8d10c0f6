\* Every family of checks against its small networks and their failures.
SPECIFICATION Spec
CONSTANTS
    Error = Error
    NoURL = NoURL
    MaxRedirects = 2
    MaxLookups = 2
    MaxVoidLookups = 1
    MaxMXNames = 2
    MaxDepth = 3
    MaxQueries = 12
    Scenes <- MCScenes
INVARIANT FailureIsNoVerdict
INVARIANT DeclaredHostsAnswered
INVARIANT FirstAskerIsImmaterial
INVARIANT LimitIsNoticed
INVARIANT WorkIsBounded
INVARIANT OneReportPerFault
INVARIANT ValidChainsPass
\* A run ends once its checks have judged.
CHECK_DEADLOCK FALSE
