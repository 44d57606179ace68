\* A run that crosses a boundary: nothing fails and nobody interferes.
SPECIFICATION Spec
CONSTANTS
    Windows = 3
    MaxMessages = 2
    MaxAttempts = 1
    MaxDbFaults = 0
    MaxCrashes = 0
    MaxAdminActs = 0
    Admin = admin
INVARIANTS
    EveryWindowRuns
