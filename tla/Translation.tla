----------------------------- MODULE Translation ------------------------------
(***************************************************************************)
(* What passes between the service and the language model: the context of  *)
(* a request (app/services/ai/openai_provider.py) and the check of a reply *)
(* (app/services/validation/validator.py).  Pure functions.                *)
(***************************************************************************)
EXTENDS Classification

CONSTANTS
    Garbage,    \* a value of a type or a form that the check cannot convert
    Developments  \* published developments a story may hand over as prior

ASSUME TranslationAssumption ==
    /\ None # Garbage
    /\ None \notin 1 .. 5 /\ Garbage \notin 1 .. 5

(* An Arabic field of a reply: is it a string, are enough of the letters   *)
(* in it Arabic, and which numbers does it show.                           *)
Texts == [string : BOOLEAN, arabic : BOOLEAN, numbers : SUBSET Int]

(* A JSON object.  complete: every required field, and something in the    *)
(* five fields that need it.  watch is None if null or one of the fillers  *)
(* that are not shown; what the headline has not may be null as well.      *)
(* market_bias is checked as category is.                                  *)
Replies ==
    [complete : BOOLEAN,
     headline : Texts, translation : Texts, explanation : Texts, summary : Texts,
     watch : Texts \cup {None},
     category : Categories \cup {"breaking", "unheard", None, Garbage},
     importance : Int \cup {None, Garbage},
     confidence : {"inside", "outside", None, Garbage},
     actual : Figures \cup {None}, forecast : Figures \cup {None},
     previous : Figures \cup {None}, assets : BOOLEAN]

-----------------------------------------------------------------------------
(* The context of a request.                                               *)

Relationships == {"NEW_STORY", "UPDATE", "CORRECTION", "REPETITION"}
Decisions     == {d \in [relationship : Relationships, prior : Developments \cup {None}] :
                     d.relationship = "NEW_STORY" => d.prior = None}

(* The lines of the context that are called authoritative, None for a line *)
(* that is not written: nothing of a classification that is not confident. *)
Facts(c) ==
    LET Line(value) == IF c.fallback THEN None ELSE value
    IN  [category |-> Line(c.category), country |-> Line(c.country),
         currency |-> Line(c.currency), bank |-> Line(c.bank),
         event |-> Line(c.event), surprise |-> Line(c.surprise)]

StoryUsable(d) == /\ d # None
                  /\ d.relationship \in {"UPDATE", "CORRECTION"}
                  /\ d.prior # None

Prompt(c, d, macro) ==
    [facts |-> Facts(c), macro |-> macro,
     prior |-> IF StoryUsable(d) THEN d.prior ELSE None]

-----------------------------------------------------------------------------
(* The check of a reply, field by field in the order of the code; the      *)
(* first one that does not pass decides.                                   *)

(* Numbers of one digit need not be kept.                                  *)
Required(h) == h.numbers \ 0 .. 9

Figured(r) == {f.value : f \in {r.actual, r.forecast, r.previous} \ {None}}

(* The fields that are joined to one text, in which the numbers must be.   *)
Joined(r) == {r.headline, r.translation, r.explanation, r.watch} \ {None}

\* Mutant: the summary counts as well.
MutKept(r) == Figured(r) \cup UNION {text.numbers : text \in Joined(r) \cup {r.summary}}

(* The numbers of that text.                                               *)
Kept(r) == Figured(r) \cup UNION {text.numbers : text \in Joined(r)}

Check(value, passes) ==
    IF value = Garbage THEN "raises" ELSE IF passes THEN "passes" ELSE "refused"

Checks(h, r) ==
    <<Check(None, r.complete),
      Check(r.category, r.category # "unheard"),
      Check(r.importance, r.importance \in {None} \cup 1 .. 5),
      Check(r.confidence, r.confidence # "outside"),
      Check(None, r.headline.arabic /\ r.translation.arabic),
      Check(IF \A text \in Joined(r) : text.string THEN None ELSE Garbage,
            Required(h) \subseteq Kept(r))>>

(* A refused reply is a ValidationError; a conversion that fails, int() of *)
(* a word, a list looked up in a set or joined to text, raises something   *)
(* else.                                                                   *)
Verdict(h, r) ==
    LET failing == {n \in DOMAIN Checks(h, r) : Checks(h, r)[n] # "passes"}
    IN  IF failing = {} THEN "accepted" ELSE Checks(h, r)[First(failing)]

(* What the row keeps of a reply.                                          *)
Columns(r) == [translation |-> r.translation, summary |-> r.summary,
               category |-> r.category, importance |-> r.importance]
=============================================================================
