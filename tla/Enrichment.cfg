\* One item, nine headlines, fifteen replies, failing attempts and a restart.
SPECIFICATION EnrichmentSpec
CONSTANTS
    None = None
    Garbage = Garbage
    Developments = {earlier}
    BankPatterns <- MCBanks
    EventPatterns <- MCEvents
    CountryPatterns <- MCCountries
    BareCurrencies <- MCBare
    Flagged <- MCFlagged
    Guids = {g1}
    Contents <- MCHeadlines
    HeadlineOf <- MCHeadlineOf
    Answers <- MCAnswers
    Blank = blank
    NoGuid = noguid
    MaxAttempts = 2
    OkFalse = TRUE
    RecoveryWired = TRUE
    MaxDbFaults = 0
    MaxCrashes = 1
INVARIANTS
    NothingUncheckedShown
    VerdictIsTrue
    FrameWasTold
    SirenHasAReason
    DigestSirensWereSirens
