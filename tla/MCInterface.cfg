CONSTANTS
    Browsers = {phone, desk}
    Cli = cli
    MaxRequests = 5
    MaxFaults = 1
SPECIFICATION Spec
SYMMETRY Symmetry
INVARIANTS
    PasswordStands
    DemoIsKept
    RedirectsEnd
CHECK_DEADLOCK FALSE
