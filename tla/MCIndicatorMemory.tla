--------------------------- MODULE MCIndicatorMemory ---------------------------
(* A German inflation series with a history; two prints of a French one, the *)
(* first of them not recorded yet because its stage failed.                  *)
EXTENDS IndicatorMemory, TLC

CONSTANTS again, DE, FR, CPI

MCItems      == 1 .. 9
MCPast       == 1 .. 6
MCRecorded   == {1, 2, 4, 5, 6}
MCTasks      == {7, 8, 9, again}
MCItemOf     == [t \in MCTasks |-> IF t = again THEN 9 ELSE t]
MCActual     == <<3, 1, 2, 2, 3, 4, 5, 6, 1>>
MCForecast   == <<1, 1, NoFigure, 1, 1, 3, NoFigure, 4, 1>>
MCCountry    == [i \in MCItems |-> IF i \in {3, 9} THEN FR ELSE DE]
MCEvent      == [i \in MCItems |-> CPI]
MCVariant    == [i \in MCItems |-> [axis \in {"basis"} |-> {"MOM"}]]
MCUnit       == [i \in MCItems |-> "PERCENT"]
MCForecastUnit == [i \in MCItems |-> IF i = 9 THEN "BARE" ELSE "PERCENT"]
================================================================================
