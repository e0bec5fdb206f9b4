CONSTANTS
    Callers = {web, ha}
    Collector = loop
    None = none
    RestartGuard = 2
    MaxRequests = 3
    MaxTime = 3
    MaxRestartFaults = 0
SPECIFICATION RestartSpec
PROPERTY
    OneTakePerGuard
