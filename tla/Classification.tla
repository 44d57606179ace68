---------------------------- MODULE Classification ----------------------------
(***************************************************************************)
(* The local classification of a headline, app/services/intelligence: pure *)
(* functions, and the authority on category, urgency, country and figures. *)
(* A headline is what the pattern tables of rules.py find in it.           *)
(***************************************************************************)
EXTENDS Integers, Sequences

CONSTANTS
    None,              \* Python's None
    BankPatterns,      \* the tables, first match first: [code, country, currency]
    EventPatterns,     \* names of economic indicators
    CountryPatterns,   \* [country, currency] of an adjective
    BareCurrencies     \* the ISO codes looked for

STRONG == 3
WEAK   == 1

(* Categories that collect evidence, in the order of the tie-breaker.      *)
Precedence == <<"geopolitical", "government", "commodities", "bonds", "crypto",
                "company", "forex">>
Scored     == {Precedence[n] : n \in DOMAIN Precedence}
Categories == Scored \cup {"central_bank", "economic_data", "earnings", "general"}

(* A figure of the "Actual X (Forecast Y, Previous Z)" shape; "-" and what *)
(* does not parse is not known.                                            *)
Dash    == [known |-> FALSE, percent |-> FALSE, value |-> 0]
Figures == [known : {TRUE}, percent : BOOLEAN, value : Int] \cup {Dash}

(* weight is the sum of the keywords found, structural a ticker or a       *)
(* corporate suffix, numbers those that are no ordinal, name or day.       *)
Evidence ==
    [banks : SUBSET DOMAIN BankPatterns, events : SUBSET DOMAIN EventPatterns,
     countries : SUBSET DOMAIN CountryPatterns, code : BareCurrencies \cup {None},
     generic : BOOLEAN, earnings : BOOLEAN, routine : BOOLEAN, shock : BOOLEAN,
     weight : [Scored -> Nat], structural : BOOLEAN, pair : BOOLEAN,
     pound : BOOLEAN, sterling : BOOLEAN, numbers : SUBSET Int,
     actual : Figures \cup {None}, forecast : Figures \cup {None},
     previous : Figures \cup {None}]

\* The three figures are found together or not at all.
Wellformed(h) == h.actual = None <=> h.forecast = None

(* The first pattern of a table that matches.                              *)
First(found) == CHOOSE i \in found : \A j \in found : i <= j

Bank(h)  == IF h.banks = {} THEN None ELSE BankPatterns[First(h.banks)].code
Event(h) == IF h.events = {} THEN None ELSE EventPatterns[First(h.events)]

-----------------------------------------------------------------------------
(* Evidence scores decide where no rule does.                              *)

Evidenced(h) ==
    [c \in Scored |-> h.weight[c] + IF \/ c = "company" /\ h.structural
                                       \/ c = "forex" /\ h.pair
                                    THEN STRONG ELSE 0]

(* A pound next to commodities is a weight, unless sterling is named.      *)
OnlyAPound(h) ==
    /\ Evidenced(h)["commodities"] > 0 /\ Evidenced(h)["forex"] > 0
    /\ h.pound /\ ~h.sterling

Score(h) ==
    [c \in Scored |-> Evidenced(h)[c] -
                          IF c = "forex" /\ OnlyAPound(h) THEN WEAK ELSE 0]

Strongest(h) == {n \in DOMAIN Precedence : \A c \in Scored : Score(h)[c] <= Score(h)[Precedence[n]]}

Winner(h) == IF \A c \in Scored : Score(h)[c] <= 0 THEN "general"
             ELSE Precedence[First(Strongest(h))]

Category(h) ==
    IF h.banks # {} \/ h.generic THEN "central_bank"
    ELSE IF h.events # {} THEN "economic_data"
    ELSE IF h.earnings THEN "earnings"
    ELSE Winner(h)

-----------------------------------------------------------------------------
(* Country and currency: of the bank, of the adjective, or a bare code.    *)

Place(h) == IF h.banks # {} THEN BankPatterns[First(h.banks)]
            ELSE IF h.countries # {} THEN CountryPatterns[First(h.countries)]
            ELSE [country |-> None, currency |-> h.code]
Country(h)  == Place(h).country
Currency(h) == Place(h).currency

(* Figures with different units are not comparable.                        *)
Compare(a, b) ==
    IF \/ None \in {a, b}
       \/ a.percent # b.percent
       \/ ~a.known \/ ~b.known THEN "UNKNOWN"
    ELSE IF a.value = b.value THEN "MATCH"
    ELSE IF a.value > b.value THEN "HIGHER" ELSE "LOWER"

\* Mutant: a forecast without a figure is replaced by the previous print.
MutSurprise(h) == IF h.forecast # None /\ h.forecast.known
                  THEN Compare(h.actual, h.forecast) ELSE Compare(h.actual, h.previous)

Surprise(h) == IF h.forecast # None THEN Compare(h.actual, h.forecast)
                                    ELSE Compare(h.actual, h.previous)

Grave(h) == h.banks # {} \/ Category(h) = "geopolitical"

\* Mutant: shock words are looked at before the routine series.
MutUrgency(h) == IF h.shock /\ Grave(h) THEN "BREAKING"
                 ELSE IF h.routine THEN "LOW"
                 ELSE IF Grave(h) THEN "HIGH" ELSE "NORMAL"

(* A routine series is never urgent, whatever else it mentions.            *)
Urgency(h) == IF h.routine THEN "LOW"
              ELSE IF h.shock /\ Grave(h) THEN "BREAKING"
              ELSE IF Grave(h) THEN "HIGH" ELSE "NORMAL"

\* Mutant: a country alone is no signal.
MutIsFallback(h) == /\ Bank(h) = None /\ Event(h) = None
                    /\ Category(h) = "general" /\ ~h.routine

IsFallback(h) == /\ Bank(h) = None /\ Event(h) = None
                 /\ Country(h) = None /\ Currency(h) = None
                 /\ Category(h) = "general" /\ ~h.routine

Classify(h) ==
    [category |-> Category(h), urgency |-> Urgency(h), country |-> Country(h),
     currency |-> Currency(h), bank |-> Bank(h), event |-> Event(h),
     actual |-> h.actual, forecast |-> h.forecast, previous |-> h.previous,
     surprise |-> Surprise(h), fallback |-> IsFallback(h)]
=============================================================================
