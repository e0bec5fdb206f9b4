CONSTANTS
    Browsers = {phone, desk}
    Cli = cli
    MaxRequests = 3
    MaxFaults = 0
SPECIFICATION Spec
SYMMETRY Symmetry
INVARIANT
    DemoEndsAtInstallation
CHECK_DEADLOCK FALSE
