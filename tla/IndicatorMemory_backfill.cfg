\* One statement of the backfill fails.
SPECIFICATION Spec
CONSTANTS
    Backfill = backfill
    again = again
    DE = DE
    FR = FR
    CPI = CPI
    None = None
    NoFigure = NoFigure
    Items <- MCItems
    Tasks <- MCTasks
    ItemOf <- MCItemOf
    Past <- MCPast
    Recorded <- MCRecorded
    Structured <- MCItems
    Actual <- MCActual
    Forecast <- MCForecast
    Country <- MCCountry
    Event <- MCEvent
    Variant <- MCVariant
    Unit <- MCUnit
    ForecastUnit <- MCForecastUnit
    Marked = {7}
    MaxDbFaults = 1
INVARIANT BadRowDoesNotStopTheRun
