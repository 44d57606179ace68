\* Everything that can go wrong once goes wrong, in every order.
SPECIFICATION Spec
CONSTANTS
    Guids = {g1, g2}
    Contents = {c1, c2}
    Blank = blank
    NoGuid = noguid
    MaxAttempts = 3
    OkFalse = TRUE
    RecoveryWired = TRUE
    MaxDbFaults = 1
    MaxCrashes = 1
SYMMETRY Symmetry
INVARIANTS
    TypeOK
    DeliveryBound
    ContentAnnouncedOnce
    PremiumTextIsStored
PROPERTIES
    OnlyStagesAndStoreAbandon
    RecoveryRequeues
    ImplementsLifecycle
