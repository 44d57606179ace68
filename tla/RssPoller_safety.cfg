\* Restarts, database errors and failing polls, over a moving window.
\* A database error while seeding ends the poller, so it may stop.
SPECIFICATION Spec
CONSTANTS
    g1 = g1
    g2 = g2
    g3 = g3
    g4 = g4
    g5 = g5
    c1 = c1
    c2 = c2
    c3 = c3
    Guids = {g1, g2, g3, g4, g5}
    Contents = {c1, c2, c3}
    Blank = blank
    NoTitle = notitle
    NotStored = notstored
    Items = 5
    Historic = 2
    Window = 3
    GuidOf <- FeedGuids
    ContentOf <- FeedContents
    Undated = {4}
    Zoneless = {1, 5}
    BrokenFeed = TRUE
    DbMayFail = TRUE
    MaxCrashes = 2
INVARIANTS
    TypeOK
    SeenCoversTable
    ColdStartQuiet
    OlderFirst
    EtagHidesNothing
CHECK_DEADLOCK FALSE
