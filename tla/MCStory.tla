------------------------------- MODULE MCStory -------------------------------
(* News items for the runs of Story and StoryDigest.                        *)
EXTENDS StoryDigest, TLC

CONSTANTS us, de, wire, again   \* items, and a second task for one
CONSTANTS EUR, USD, US, DE, CPI, inflation, housing, berlin

\* A US and a German CPI print with a word in common, and a report of the US
\* print that names no country, which two tasks process.
MCItems    == {us, de, wire}
MCTasks    == MCItems \cup {again}
MCItemOf   == [t \in MCTasks |-> IF t = again THEN wire ELSE t]
MCCategory == [i \in MCItems |-> EconomicData]
MCCountry  == us :> US @@ de :> DE @@ wire :> None
MCCurrency == us :> USD @@ de :> EUR @@ wire :> None
MCBank     == [i \in MCItems |-> None]
MCEvent    == [i \in MCItems |-> CPI]
MCTokens   == us :> {CPI, inflation, housing} @@ wire :> {CPI, inflation, housing}
              @@ de :> {CPI, inflation, berlin}
MCEventToken == MCEvent
MCWindowOf == EconomicData :> 0

\* Two breaking items, and one that the cap may hold back.
MCImportance == us :> 5 @@ de :> 5 @@ wire :> 4
MCAiCategory == [i \in MCItems |-> "economic_data"]
MCPrecedence == "economic_data" :> 1
MCCreatedAt  == us :> 1 @@ de :> 2 @@ wire :> 2
MCSummarised == {us, de}
\* Two breaking headlines are too long for one text; alone, that of us leaves
\* room for its summary, that of de only up to the hard limit.
MCHeadlineLength == us :> 6 @@ de :> 6 @@ wire :> 3
MCSummaryLength  == us :> 1 @@ de :> 5 @@ wire :> 0
MCIdOrder    == us :> 1 @@ de :> 2 @@ wire :> 3
=============================================================================
