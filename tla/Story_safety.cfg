\* Three items, one of them processed by two tasks, over three hours, and the digest of the window.
SPECIFICATION Spec
CONSTANTS
    us = us
    de = de
    wire = wire
    again = again
    EUR = EUR
    USD = USD
    US = US
    DE = DE
    CPI = CPI
    inflation = inflation
    housing = housing
    berlin = berlin
    None = None
    EconomicData = economic_data
    Items <- MCItems
    Tasks <- MCTasks
    ItemOf <- MCItemOf
    Category <- MCCategory
    Country <- MCCountry
    Currency <- MCCurrency
    Bank <- MCBank
    Event <- MCEvent
    Tokens <- MCTokens
    EventToken <- MCEventToken
    Routine = {}
    Marked = {}
    WindowOf <- MCWindowOf
    MaxWindow = 1
    CandidateLimit = 1
    MaxClock = 2
    MaxFaults = 1
    Importance <- MCImportance
    AiCategory <- MCAiCategory
    Precedence <- MCPrecedence
    CreatedAt <- MCCreatedAt
    IdOrder <- MCIdOrder
    Readable <- MCItems
    Summarised <- MCSummarised
    MaxEntries = 2
    CategoryCap = 1
    SoftLimit = 12
    HardLimit = 13
    MinEntriesWhenTrimming = 1
    FrameLength = 2
    HeadlineLength <- MCHeadlineLength
    SummaryLength <- MCSummaryLength
    WindowStart = 1
    WindowEnd = 3
INVARIANTS
    PriorIsPublished
    DecisionMatchesLink
    CountDriftsOnlyByRaces
    StaysWarm
    CountriesKeptApart
    OneEntryPerStory
    NothingBetterLeftOut
    TrimmedFromBelow
