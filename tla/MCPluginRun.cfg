\* Fewer slots than executions, for the target and for the run.
SPECIFICATION PluginFairSpec
CONSTANTS
    a1 = a1
    a2 = a2
    p = p
    ta = ta
    tb = tb
    Executions = {a1, a2, p}
    Plugins = {p}
    Target <- MCTarget
    Returns <- MCReturns
    Workers = 1
    PerTarget = 1
INVARIANT OutcomesComplete
INVARIANT HonestBlame
INVARIANT PluginsKeepTheProtocol
PROPERTY RunReturns
PROPERTY PluginsAreReaped
