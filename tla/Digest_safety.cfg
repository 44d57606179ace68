\* Three windows with crashes, database errors, lost acknowledgements and
\* administrators who move pins and delete messages.
SPECIFICATION FairSpec
CONSTANTS
    Windows = 3
    MaxMessages = 3
    MaxAttempts = 2
    MaxDbFaults = 1
    MaxCrashes = 1
    MaxAdminActs = 2
    Admin = admin
INVARIANTS
    TypeOK
    RecordedIsShown
    OkIsShown
    OneMessagePerTrouble
PROPERTIES
    CompletedWindowNotTouched
    AdminPinRespected
    NeverSilent
