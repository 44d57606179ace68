------------------------------- MODULE Editorial -------------------------------
(***************************************************************************)
(* How a translated item is presented: the editorial mode of               *)
(* app/services/formatting/editorial_engine.py and the message that        *)
(* telegram_formatter.py builds in it, from the classification, the story  *)
(* decision and the reply.  Pure functions; wording is left out.           *)
(***************************************************************************)
EXTENDS Translation

CONSTANT Flagged     \* countries with a flag

(* Missing or not convertible, the importance is ordinary.                 *)
Importance(r) == IF r.importance \in {None, Garbage} THEN 2 ELSE r.importance

(* The engine's category where it is confident, else the AI's.             *)
CategoryShown(c, r) == IF c.fallback THEN r.category ELSE c.category

\* Mutant: as the comment says, the AI is asked only where the engine is unsure.
MutIsBreaking(c, r) ==
    IF c.fallback THEN Importance(r) >= 5 \/ r.category = "breaking"
                  ELSE c.urgency = "BREAKING"

IsBreaking(c, r) == \/ ~c.fallback /\ c.urgency = "BREAKING"
                    \/ Importance(r) >= 5
                    \/ r.category = "breaking"

IsUpdate(d) == /\ d # None
               /\ d.relationship \in {"UPDATE", "CORRECTION"}
               /\ d.prior # None

Mode(c, d, r) ==
    IF IsBreaking(c, r) THEN IF IsUpdate(d) THEN "BREAKING_UPDATE" ELSE "BREAKING"
    ELSE IF IsUpdate(d) THEN "STORY_UPDATE"
    ELSE IF CategoryShown(c, r) \in Categories \ {"forex", "bonds", "general"}
         THEN CategoryShown(c, r) ELSE "GENERAL"

Badge(c, d, r) ==
    CASE IsBreaking(c, r) -> "breaking"
      [] ~IsBreaking(c, r) /\ IsUpdate(d) ->
            IF d.relationship = "CORRECTION" THEN "correction" ELSE "update"
      [] OTHER -> "none"

SectionOrder(mode) ==
    CASE mode = "economic_data" ->
            <<"data", "explanation", "impact", "context", "watch", "assets">>
      [] mode \in {"STORY_UPDATE", "BREAKING_UPDATE"} ->
            <<"explanation", "context", "data", "impact", "watch", "assets">>
      [] OTHER ->
            <<"explanation", "data", "impact", "context", "watch", "assets">>

-----------------------------------------------------------------------------
(* The message.                                                            *)

\* Dashes, words for nothing and a bare zero count as no figure.
Empty(f) == f = None \/ ~f.known \/ (f.value = 0 /\ ~f.percent)

Rows(r) == {field \in {"actual", "forecast", "previous"} : ~Empty(r[field])}

(* The comparison with the forecast, where both sides have one.            *)
VerdictShown(c, r) ==
    IF /\ Rows(r) # {} /\ c.forecast # None /\ ~Empty(r.forecast)
       /\ c.surprise # "UNKNOWN"
    THEN c.surprise ELSE None

(* Interpretation from importance 2 on, optional sections from 3 on; the   *)
(* figures are shown whatever the importance.                              *)
Present(d, r) ==
    {"explanation"}
        \cup (IF Rows(r) # {} THEN {"data"} ELSE {})
        \cup (IF Importance(r) >= 2 THEN {"impact"} ELSE {})
        \cup (IF Importance(r) >= 2 /\ IsUpdate(d) THEN {"context"} ELSE {})
        \cup (IF Importance(r) >= 3 /\ r.watch # None THEN {"watch"} ELSE {})
        \cup (IF Importance(r) >= 3 /\ r.assets THEN {"assets"} ELSE {})

(* A siren for breaking news, the asset for commodities, else the category.*)
Icon(c, r) ==
    IF IsBreaking(c, r) THEN "siren"
    ELSE IF CategoryShown(c, r) = "commodities" /\ r.assets THEN "asset"
    ELSE IF CategoryShown(c, r) \in Categories THEN CategoryShown(c, r) ELSE "general"

(* The numbers of the reply that readers see, for certain: the impact may  *)
(* show more.                                                              *)
Visible(d, r) ==
    r.headline.numbers \cup r.explanation.numbers
        \cup {r[field].value : field \in Rows(r)}
        \cup (IF "watch" \in Present(d, r) THEN r.watch.numbers ELSE {})

Message(c, d, r) ==
    [badge    |-> Badge(c, d, r),
     arabic   |-> r.headline.arabic,
     numbers  |-> Visible(d, r),
     icon     |-> Icon(c, r),
     flag     |-> IF c.country \in Flagged THEN c.country ELSE None,
     sections |-> Present(d, r),
     order    |-> SectionOrder(Mode(c, d, r)),
     prior    |-> IF "context" \in Present(d, r) THEN d.prior ELSE None,
     verdict  |-> VerdictShown(c, r),
     meta     |-> Importance(r) >= 2]
=============================================================================
