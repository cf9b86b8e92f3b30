---------------------------- MODULE BriefingContent ----------------------------
(***************************************************************************)
(* What the stages of a briefing make of a question and of the evidence     *)
(* there is: its contract, its context package, the plan by one of two     *)
(* routes (the rule-based assembler, or the local proposal of the web       *)
(* runtime), and the script under a presentation preference.  BriefingRun  *)
(* has the order, the failures and the cancellation of these stages; here  *)
(* is what they hand to each other.                                        *)
(***************************************************************************)
EXTENDS BriefingScript

CONSTANTS
    AskedQuestions, \* the questions asked
    Corpora,        \* the sequences of records there may be
    Preferences     \* the presentation preferences

\* What is there to tell of a record: its number, its document or documents, and
\* when it was published and which revision it is.
RecordHas(r) ==
    /\ r.record \in {"document", "claim", "link", "point", "entity", "statement", "place"}
    /\ r.id \in Nat
    /\ r.record \in {"claim", "link", "point"} => r.document \in Nat
    /\ r.record = "statement" => r.documents \in Seq(Nat) /\ r.revision \in Nat
    /\ r.record \notin {"link", "entity"} => r.published \in Nat

Forms == {"well-formed", "INVALID_QUESTION", "EMPTY_QUESTION", "QUESTION_TOO_LONG",
          "UNSUPPORTED_LANGUAGE"}

ASSUME ContentAssumption ==
    /\ \A q \in AskedQuestions : q.form \in Forms /\ IsFiniteSet(q.words)
    /\ \A records \in Corpora :
          /\ Len(records) \in Nat /\ DOMAIN records = 1..Len(records)
          /\ \A k \in DOMAIN records : RecordHas(records[k])

VARIABLES
    question, route,
    contract,
    corpus, package,
    plan,
    preference, script

contentVars == <<question, route, contract, corpus, package, plan, preference, script>>

Routes == {"rules", "local"}
Nothing == "none"

\* The personal planning of a question: the run has analyzed its impact when, and
\* only when, the intent is a personal one.
PlanningOf(q) ==
    IF PrimaryIntent(q) = "personalized-impact"
    THEN [given |-> TRUE, channels |-> q.channels, scenario |-> q.scenario]
    ELSE NoPlanning

ContentInit ==
    /\ question \in AskedQuestions /\ route \in Routes
    /\ contract = NoContract /\ corpus = <<>> /\ package = NoPackage
    /\ plan = NoPlan /\ preference = Nothing /\ script = NoScript

Compile ==
    /\ contract.status = "none"
    /\ contract' = CompileContract(question)
    /\ UNCHANGED <<question, route, corpus, package, plan, preference, script>>

\* A run goes on with a contract that is ready.
Build ==
    /\ contract.status = "ready" /\ package.status = "none"
    /\ \E records \in Corpora :
          corpus' = records /\ package' = ContextOf(question, contract, records)
    /\ UNCHANGED <<question, route, contract, plan, preference, script>>

AssemblePlan ==
    /\ route = "rules" /\ package.status # "none" /\ plan.status = "none"
    /\ plan' = Assemble(contract, package)
    /\ UNCHANGED <<question, route, contract, corpus, package, preference, script>>

ProposePlan ==
    /\ route = "local" /\ package.status # "none" /\ plan.status = "none"
    /\ plan' = Propose(contract, package, PlanningOf(question))
    /\ UNCHANGED <<question, route, contract, corpus, package, preference, script>>

Script ==
    /\ plan.status # "none" /\ script.status = "none"
    /\ \E p \in Preferences :
          preference' = p /\ script' = ScriptOf(plan, package, p)
    /\ UNCHANGED <<question, route, contract, corpus, package, plan>>

ContentNext == Compile \/ Build \/ AssemblePlan \/ ProposePlan \/ Script
ContentSpec == ContentInit /\ [][ContentNext]_contentVars

-----------------------------------------------------------------------------
(* Properties                                                              *)

Answerable == package.status \in {"partial", "ready"}
Scripted == script.status \in {"validated-script", "validated-static-script"}

\* The one thing the assembler makes that the validator refuses is a plan of a
\* contract without a section on what is uncertain; no evidence makes it
\* produce another.
AssembledPlansAreValid ==
    route = "rules" /\ Answerable /\ plan.status # "none" =>
        (plan.status = "validated" <=> "uncertainty" \in ToSet(contract.sections))

\* What a local proposal of answerable evidence is refused for.
ProposalsAreRefusedFor ==
    \/ UNION {GroupPlaces[g] : g \in DOMAIN GroupPlaces} # PlacesOf(ToSet(package.items))
    \/ PointsOf(ToSet(package.items)) = {}
    \/ contract.maps = "optional" /\ ~PlanningOf(question).given
    \/ "unknown" \in question.channels

ProposedPlansAreValid ==
    route = "local" /\ Answerable /\ plan.status # "none" =>
        plan.status = "validated" \/ ProposalsAreRefusedFor

\* What the script of a validated plan is refused for under a valid preference.
Visuals == {v : v \in UNION {plan.sections[k].visuals : k \in DOMAIN plan.sections}}
ScriptsAreRefusedFor ==
    \/ \E k \in DOMAIN plan.sections : \E c \in plan.sections[k].bound : c.documents = <<>>
    \/ /\ preference.animation = "disabled" /\ preference.mode \notin Still
       /\ \E v \in Visuals : OnMap(v)
    \/ /\ preference.mode \notin Still
       /\ \E v \in Visuals : OnMap(v) /\ v.places = {} /\ v.entities = {}

ValidPlansAreScripted ==
    plan.status = "validated" /\ script.status # "none" /\ ValidPreference(preference) =>
        (Scripted <=> ~ScriptsAreRefusedFor)

\* Each validator refuses only what is known to be refused: an invalid plan or
\* script comes of no evidence but in the cases named here.
RefusalsAreKnown ==
    AssembledPlansAreValid /\ ProposedPlansAreValid /\ ValidPlansAreScripted

\* A script stands on evidence of which one document at least is primary and two
\* are independent.
Grounded ==
    Scripted => HasCategory(package.items, "primary") /\ Cardinality(Documents(package.items)) >= 2

\* What is missing in the evidence is told: whatever sections a scene groups,
\* one scene discloses uncertainty and one names every gap, unless a personal
\* scenario took that scene.
Disclosed ==
    Scripted /\ package.gaps # {} =>
        /\ \E g \in DOMAIN script.scenes : script.scenes[g].discloses
        /\ \/ \E g \in DOMAIN script.scenes : script.scenes[g].named = package.gaps
           \/ \E g \in DOMAIN script.scenes : script.scenes[g].kind = "scenario"

ScriptsAreHonest == Grounded /\ Disclosed

\* A package that says primary, contradicting or quantitative evidence is missing
\* says so truly: none was found, or some that was found has no text.  The
\* limits of the selection never make a gap.
FoundOf(Test(_)) ==
    {c \in Candidates(question, corpus) : Test(c)}
TrueGap(gap, Test(_)) ==
    gap \in package.gaps => FoundOf(Test) = {} \/ \E c \in FoundOf(Test) : c.words = {}
GapsAreReal ==
    /\ TrueGap("missing-primary-source", LAMBDA c : Category(c) = "primary")
    /\ TrueGap("missing-contradicting-evidence", LAMBDA c : Category(c) = "contradicting")
    /\ TrueGap("missing-quantitative-data", LAMBDA c : c.type = "data-point")

=============================================================================
