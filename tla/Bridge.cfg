\* The second item is corrected under its guid to the text of the first.
\* A database error while seeding ends the poller, so the service may stop.
SPECIFICATION BridgeFairSpec
CONSTANTS
    g1 = g1
    g2 = g2
    c1 = c1
    c2 = c2
    Guids = {g1, g2}
    Contents = {c1, c2}
    Blank = blank
    NoGuid = noguid
    NoTitle = notitle
    NotStored = notstored
    Items = 3
    Historic = 1
    Window = 2
    GuidOf <- CorrectedGuids
    ContentOf <- CorrectedContents
    Undated = {}
    Zoneless = {1}
    BrokenFeed = TRUE
    MaxAttempts = 2
    OkFalse = FALSE
    RecoveryWired = FALSE
    MaxDbFaults = 1
    MaxCrashes = 1
INVARIANT PublishedIsShown
PROPERTIES ImplementsPoller HeldToRecord
CHECK_DEADLOCK FALSE
