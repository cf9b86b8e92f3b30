--------------------------- MODULE BriefingContract ---------------------------
(***************************************************************************)
(* The contract of a question (briefing/analyzer.ts, briefing/compiler.ts): *)
(* what it is asked for, whether it can be answered as it stands, and the  *)
(* sections the answer must have.                                          *)
(*                                                                         *)
(* A question is known by what is looked for in it: the rules its text     *)
(* matches, an unclear "this", a "which one", a time, the words it is      *)
(* searched by, the events and entities it refers to, the places and the   *)
(* other personal context it carries.  What every contract says alike is a *)
(* constant below or is left out.                                          *)
(***************************************************************************)
EXTENDS Integers, Sequences, FiniteSets

\* INTENT_RULES, in the order that breaks ties.
Rules == <<"causal-explanation", "impact-analysis", "fact-verification", "comparison",
           "forecast", "personalized-impact", "situation-summary">>
Intents == {Rules[k] : k \in DOMAIN Rules}

\* A rule has one pattern; a personalized question is given two points more.
Score(q, intent) ==
    (IF intent \in q.matches THEN 1 ELSE 0)
    + (IF intent = "personalized-impact" /\ (q.personalized \/ intent \in q.matches)
       THEN 2 ELSE 0)

Place(intent) == CHOOSE k \in DOMAIN Rules : Rules[k] = intent
Scored(q) == {i \in Intents : Score(q, i) > 0}
Beats(q, i, j) ==
    Score(q, i) > Score(q, j) \/ (Score(q, i) = Score(q, j) /\ Place(i) <= Place(j))
PrimaryIntent(q) ==
    IF Scored(q) = {} THEN "exploratory"
    ELSE CHOOSE i \in Scored(q) : \A j \in Scored(q) : Beats(q, i, j)

\* evaluateAmbiguity.
References(q) == Cardinality(q.events) + Cardinality(q.entities)
HasContext(q) == q.context \/ q.places # {}
Issues(q) ==
    {x \in {"subject", "comparison", "personalization"} :
        \/ x = "subject" /\ q.unclear /\ References(q) = 0
        \/ x = "comparison" /\ PrimaryIntent(q) = "comparison" /\ References(q) < 2 /\ q.choosing
        \/ /\ x = "personalization" /\ ~HasContext(q)
           /\ q.personalized \/ PrimaryIntent(q) = "personalized-impact"}

Ambiguity(q) ==
    CASE Issues(q) # {} -> "clarification-required"
      [] Issues(q) = {} /\ PrimaryIntent(q) = "forecast" /\ ~q.dated -> "defaults-applied"
      [] OTHER -> IF q.legible THEN "clear" ELSE "unsupported"

-----------------------------------------------------------------------------
\* STANDARD_SECTIONS and SECTION_OVERRIDES.  A label is given by the kind of plan
\* section it stands for (sectionKind in explanation/assembler.ts); the first is
\* the direct answer whatever its label.
StandardSections ==
    <<"direct-answer", "current-situation", "necessary-background", "explanation-path",
      "counter-factors", "confirmed", "uncertainty", "next-verification-signals", "sources">>

SectionsFor(intent) ==
    CASE intent = "fact-verification" ->
            <<"direct-answer", "necessary-background", "supporting-evidence",
              "contradicting-evidence", "confirmed", "uncertainty", "sources">>
      [] intent = "comparison" ->
            <<"direct-answer", "comparison", "comparison", "comparison",
              "explanation-path", "sources">>
      [] intent = "forecast" ->
            <<"direct-answer", "scenarios", "scenarios", "uncertainty",
              "next-verification-signals", "sources">>
      [] OTHER -> StandardSections

\* visualPolicy: a map is preferred for a way through several places.
MapUsage(q) ==
    IF Cardinality(q.places) >= 2 \/ "supply-chain" \in q.domains THEN "preferred" ELSE "optional"

MaximumScenes == 7
MaximumCausalSteps == 6

NoContract == [status |-> "none"]
Contract(q) ==
    [status |-> IF Ambiguity(q) \in {"clarification-required", "unsupported"}
                THEN Ambiguity(q) ELSE "ready",
     intent |-> PrimaryIntent(q),
     secondary |-> Scored(q) \ {PrimaryIntent(q)},
     sections |-> SectionsFor(PrimaryIntent(q)),
     maps |-> MapUsage(q)]

\* validateInput, and compile.
CompileContract(q) ==
    IF q.form = "well-formed" THEN Contract(q) ELSE [NoContract EXCEPT !.status = q.form]
=============================================================================
