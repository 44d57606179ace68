\* orchestrator.py:137-139 against a failing stage.
SPECIFICATION Spec
CONSTANTS
    Guids = {g1}
    Contents = {c1}
    Blank = blank
    NoGuid = noguid
    MaxAttempts = 3
    OkFalse = FALSE
    RecoveryWired = FALSE
    MaxDbFaults = 0
    MaxCrashes = 0
INVARIANT NeverStuckAtAiPending
