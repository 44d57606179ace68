----------------------------- MODULE MCEnrichment -----------------------------
(* Headlines and replies for the runs of Enrichment.                        *)
EXTENDS Enrichment

MCBanks     == <<[code |-> "FED", country |-> "United States", currency |-> "USD"],
                 [code |-> "ECB", country |-> "Eurozone", currency |-> "EUR"]>>
MCEvents    == <<"CPI">>
MCCountries == <<[country |-> "Germany", currency |-> "EUR"]>>
MCBare      == {"USD", "EUR"}
MCFlagged   == {"United States", "Germany"}

Percent(n) == [known |-> TRUE, percent |-> TRUE, value |-> n]
Plain(n)   == [known |-> TRUE, percent |-> FALSE, value |-> n]

Nothing ==
    [banks |-> {}, events |-> {}, countries |-> {}, code |-> None,
     generic |-> FALSE, earnings |-> FALSE, routine |-> FALSE, shock |-> FALSE,
     weight |-> [c \in Scored |-> 0], structural |-> FALSE, pair |-> FALSE,
     pound |-> FALSE, sterling |-> FALSE, numbers |-> {},
     actual |-> None, forecast |-> None, previous |-> None]

\* Figures are in tenths.
PrintOf(h, a, f, p) == [h EXCEPT !.actual = a, !.forecast = f, !.previous = p,
                               !.numbers = {x.value : x \in {a, f, p}}]

\* An emergency decision; a routine series that mentions the bank and a shock;
\* two prints, one without a forecast; a print of no known kind; figures in
\* different units; a conflict that ties with oil; a metal by the pound; a
\* country and nothing else.
MCHeadlines == {
    [Nothing EXCEPT !.banks = {1, 2}, !.shock = TRUE, !.numbers = {50}],
    [Nothing EXCEPT !.banks = {1}, !.shock = TRUE, !.routine = TRUE],
    PrintOf([Nothing EXCEPT !.events = {1}, !.countries = {1}], Percent(31), Percent(29), Percent(30)),
    PrintOf([Nothing EXCEPT !.events = {1}, !.countries = {1}], Percent(31), Dash, Percent(30)),
    PrintOf(Nothing, Plain(121), Plain(121), Plain(134)),
    PrintOf([Nothing EXCEPT !.events = {1}], Percent(31), Plain(29), Percent(30)),
    [Nothing EXCEPT !.weight["geopolitical"] = 3, !.weight["commodities"] = 3, !.shock = TRUE],
    [Nothing EXCEPT !.weight["commodities"] = 1, !.weight["forex"] = 1, !.pound = TRUE],
    [Nothing EXCEPT !.countries = {1}]}
MCHeadlineOf == [c \in MCHeadlines \cup {Blank} |-> IF c = Blank THEN Nothing ELSE c]

All  == UNION {h.numbers : h \in MCHeadlines}
Good == [string |-> TRUE, arabic |-> TRUE, numbers |-> All]
Bare == [string |-> TRUE, arabic |-> TRUE, numbers |-> {}]

\* A reply that keeps every number, with the figures of the first print.
Faithful ==
    [complete |-> TRUE, headline |-> Good, translation |-> Bare, explanation |-> Bare,
     summary |-> Good, watch |-> None, category |-> "economic_data", importance |-> 3,
     confidence |-> "inside", actual |-> Percent(31), forecast |-> Percent(29),
     previous |-> None, assets |-> TRUE]

\* What a model may do otherwise.
MCAnswers == {
    Faithful,
    [Faithful EXCEPT !.headline = Bare, !.summary = Good],
    [Faithful EXCEPT !.headline = Bare, !.summary = Bare, !.watch = Good, !.importance = 2],
    [Faithful EXCEPT !.summary.arabic = FALSE, !.importance = 4],
    [Faithful EXCEPT !.headline = Bare, !.translation = Good],
    [Faithful EXCEPT !.headline.arabic = FALSE],
    [Faithful EXCEPT !.translation.arabic = FALSE],
    [Faithful EXCEPT !.explanation.string = FALSE],
    [Faithful EXCEPT !.importance = 5, !.category = None],
    [Faithful EXCEPT !.importance = None, !.category = "breaking", !.actual = Dash, !.forecast = Dash],
    [Faithful EXCEPT !.importance = 1, !.category = "commodities", !.confidence = None],
    [Faithful EXCEPT !.importance = 6],
    [Faithful EXCEPT !.importance = Garbage, !.category = "unheard"],
    [Faithful EXCEPT !.confidence = Garbage],
    [Faithful EXCEPT !.complete = FALSE]}
=============================================================================
