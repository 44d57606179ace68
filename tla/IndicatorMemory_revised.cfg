\* A revision is committed between the two queries of the macro context.
SPECIFICATION Spec
CONSTANTS
    Backfill = backfill
    again = again
    DE = DE
    FR = FR
    CPI = CPI
    None = None
    NoFigure = NoFigure
    Items <- MCItems
    Tasks <- MCTasks
    ItemOf <- MCItemOf
    Past <- MCPast
    Recorded <- MCRecorded
    Structured <- MCItems
    Actual <- MCActual
    Forecast <- MCForecast
    Country <- MCCountry
    Event <- MCEvent
    Variant <- MCVariant
    Unit <- MCUnit
    ForecastUnit <- MCForecastUnit
    Marked = {7}
    MaxDbFaults = 0
INVARIANT RevisionsSilenceClaims
