CONSTANTS
    Callers = {web, ha}
    Collector = loop
    None = none
    RestartGuard = 1
    MaxRequests = 2
    MaxTime = 1
    MaxRestartFaults = 1
SPECIFICATION FairRestartSpec
INVARIANT
    NeverReplayed
PROPERTIES
    TakesAreApart
    EveryRequestEnds
