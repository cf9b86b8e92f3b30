---------------------------- MODULE ExplanationPlan ----------------------------
(***************************************************************************)
(* The plan of an answer: what the rule-based assembler makes of a contract *)
(* and its evidence (explanation/assembler.ts), what the web runtime's      *)
(* local proposal makes of the assembler's plan                            *)
(* (canonical-map-impact-proposal.ts, checked against the references it may *)
(* use by generation/proposal.ts), and what the validator accepts           *)
(* (explanation/validator.ts).                                              *)
(*                                                                         *)
(* A section has one step; it is known by its kind, the items bound to it, *)
(* its epistemic posture and whether it must disclose uncertainty.         *)
(* References within a plan hold as they are made and are left out.        *)
(***************************************************************************)
EXTENDS EvidenceContext

-----------------------------------------------------------------------------
(* Sections                                                                *)

\* itemsFor: the sections of the package a section draws on.
DrawsOn(kind) ==
    CASE kind \in {"direct-answer", "current-situation"} -> {"directEvidence", "currentSituation"}
      [] kind = "necessary-background" -> {"background"}
      [] kind = "explanation-path" -> {"supportingEvidence", "background"}
      [] kind \in {"supporting-evidence", "comparison", "confirmed"} ->
            {"supportingEvidence", "directEvidence"}
      [] kind \in {"contradicting-evidence", "counter-factors"} -> {"contradictingEvidence"}
      [] kind = "scenarios" -> {"currentSituation", "verificationSignals"}
      [] kind = "uncertainty" -> {"openQuestions", "contradictingEvidence"}
      [] kind = "next-verification-signals" -> {"verificationSignals"}
      [] kind = "sources" -> {"directEvidence", "supportingEvidence", "contradictingEvidence"}

MaximumBound == 5
ItemsFor(kind, items) ==
    LET drawn == {k \in DOMAIN items : SectionOf(items[k]) \in DrawsOn(kind)} IN
    {items[k] : k \in {n \in drawn : Cardinality({m \in drawn : m <= n}) <= MaximumBound}}

\* epistemicType.
Posture(kind) ==
    CASE kind = "scenarios" -> "forecast"
      [] kind = "uncertainty" -> "unknown"
      [] kind \in {"explanation-path", "counter-factors"} -> "inference"
      [] kind = "direct-answer" -> "interpretation"
      [] OTHER -> "confirmed-fact"

PlacesOf(cs) == UNION {c.places : c \in cs}
EntitiesOf(cs) == UNION {c.entities : c \in cs}
PointsOf(cs) == UNION {c.points : c \in cs}
SourcesOf(cs) == UNION {ToSet(c.documents) : c \in cs}

NoPersonal == [bound |-> FALSE, channels |-> {}, scenario |-> FALSE]

Section(kind, items) ==
    [kind |-> kind, bound |-> ItemsFor(kind, items), posture |-> Posture(kind),
     discloses |-> kind \in {"uncertainty", "scenarios"},
     places |-> PlacesOf(ItemsFor(kind, items)), visuals |-> {}, personal |-> NoPersonal]

-----------------------------------------------------------------------------
(* The assembler's plan                                                    *)

Visual(mode, required, cs) ==
    [mode |-> mode, required |-> required, places |-> PlacesOf(cs),
     entities |-> EntitiesOf(cs), points |-> PointsOf(cs)]

VisualMode(cs) ==
    IF PointsOf(cs) # {} THEN "chart" ELSE IF PlacesOf(cs) # {} THEN "map" ELSE "document"

\* Mutant: A chart goes to the first section that has items.
FirstWithItems(mode, sections) == {k \in DOMAIN sections : sections[k].bound # {}}

\* The sections that could show the visual; the first of them does.
VisualSections(mode, sections) ==
    {k \in DOMAIN sections :
        \E c \in sections[k].bound : mode = "chart" => c.points # {}}

AssembledSections(contract, items) ==
    LET mode == VisualMode(ToSet(items))
        bare == [k \in DOMAIN contract.sections |-> Section(contract.sections[k], items)]
        shows == VisualSections(mode, bare) IN
    [k \in DOMAIN bare |->
        IF shows # {} /\ k = Min(shows)
        THEN [bare[k] EXCEPT !.visuals = {Visual(mode, FALSE, bare[k].bound)}]
        ELSE bare[k]]

-----------------------------------------------------------------------------
(* The validator                                                           *)

VisualsOf(sections) ==
    UNION {{<<k, v>> : v \in sections[k].visuals} : k \in DOMAIN sections}
OnMap(v) == v.mode \in {"map", "map-flow"}
Personal(sections) == {k \in DOMAIN sections : sections[k].personal.bound}

PlanErrors(sections, contract, items, planning) ==
    {e \in {"INVALID_SECTION_ORDER", "UNCERTAINTY_REQUIREMENT_MISSING",
            "STOP_CONDITION_EXCEEDED", "VISUAL_POLICY_VIOLATION",
            "UNSUPPORTED_FACT_PROMOTION", "FORECAST_ASSUMPTION_MISSING",
            "PERSONAL_IMPACT_LINEAGE_MISMATCH"} :
        \/ e = "INVALID_SECTION_ORDER" /\ sections[1].kind # "direct-answer"
        \/ /\ e = "UNCERTAINTY_REQUIREMENT_MISSING"
           /\ \A k \in DOMAIN sections : sections[k].kind # "uncertainty"
        \/ /\ e = "STOP_CONDITION_EXCEEDED"
           /\ \/ Cardinality(VisualsOf(sections))
                    + Cardinality({p \in VisualsOf(sections) : p[2].required}) > MaximumScenes
              \/ Cardinality({k \in DOMAIN sections : sections[k].kind = "explanation-path"})
                    > MaximumCausalSteps
        \/ /\ e = "VISUAL_POLICY_VIOLATION"
           /\ \E p \in VisualsOf(sections) :
                 \/ contract.maps = "optional" /\ p[2].required /\ OnMap(p[2])
                 \/ p[2].mode = "chart" /\ p[2].points \cap PointsOf(ToSet(items)) = {}
        \/ /\ e = "UNSUPPORTED_FACT_PROMOTION"
           /\ \E k \in Personal(sections) :
                 "unknown" \in sections[k].personal.channels /\ sections[k].posture # "unknown"
        \/ /\ e = "FORECAST_ASSUMPTION_MISSING"
           /\ \E k \in Personal(sections) :
                 sections[k].personal.scenario /\ sections[k].posture # "forecast"
        \/ /\ e = "PERSONAL_IMPACT_LINEAGE_MISMATCH"
           /\ planning.given # (Personal(sections) # {})}

\* A step whose posture is unknown never names a gap, which is a warning.
Warned(sections) == \E k \in DOMAIN sections : sections[k].posture = "unknown"

Insufficient(context) ==
    \/ context.status \in {"insufficient-evidence", "no-relevant-context"}
    \/ Blocking(context.gaps) # {}

NoPlan == [status |-> "none", outcome |-> "none", sections |-> <<>>, errors |-> {},
           personal |-> FALSE]

Validated(sections, contract, context, planning) ==
    LET errors == PlanErrors(sections, contract, context.items, planning) IN
    [status |-> IF errors # {} THEN "invalid"
                ELSE IF Insufficient(context) THEN "insufficient-context" ELSE "validated",
     outcome |-> IF Insufficient(context) THEN "insufficient-context"
                 ELSE IF context.status = "partial" \/ (errors = {} /\ Warned(sections))
                      THEN "partial" ELSE "ready",
     sections |-> sections, errors |-> errors, personal |-> planning.given]

\* RuleBasedExplanationPlanAssembler.generate.
NoPlanning == [given |-> FALSE, channels |-> {}, scenario |-> FALSE]
Assemble(contract, context) ==
    Validated(AssembledSections(contract, context.items), contract, context, NoPlanning)

-----------------------------------------------------------------------------
(* The local proposal: the five middle scenes of the canonical fixture      *)

GroupKinds == <<"direct-answer", "necessary-background", "explanation-path",
                "supporting-evidence", "uncertainty">>
GroupModes == <<"map", "map", "map-flow", "chart", "evidence-board">>
GroupPlaces == <<{"world"}, {"united-states", "east-asia"},
                 {"united-states", "taiwan", "south-korea"}, {}, {}>>

GroupOf(k, n) == ((k - 1) * Len(GroupKinds)) \div n + 1

\* createCanonicalMapImpactProposal, one section: its first of a group shows the
\* visual, and what concerns the places or the chart of the group is bound.
Recast(section, k, n, items, planning) ==
    LET g == GroupOf(k, n)
        first == k = 1 \/ GroupOf(k - 1, n) # g
        concerned == {c \in ToSet(items) :
                         \/ c.places \cap GroupPlaces[g] # {}
                         \/ GroupModes[g] = "chart" /\ c.points # {}}
        visual == [mode |-> GroupModes[g],
                   required |-> GroupModes[g] = "map-flow" /\ ~planning.given,
                   places |-> GroupPlaces[g], entities |-> {},
                   points |-> IF GroupModes[g] = "chart" THEN PointsOf(ToSet(items)) ELSE {}] IN
    [section EXCEPT !.kind = GroupKinds[g], !.bound = @ \cup concerned,
        !.discloses = g = Len(GroupKinds), !.places = GroupPlaces[g],
        !.visuals = IF first THEN {visual} ELSE {}]

\* bindPersonalizedImpact: the first mechanism carries the channels, the first
\* uncertainty the scenarios.
BindPersonal(sections, planning) ==
    LET First(kind) == Min({k \in DOMAIN sections : sections[k].kind = kind})
        channels == [bound |-> TRUE, channels |-> planning.channels, scenario |-> FALSE]
        scenario == [bound |-> TRUE, scenario |-> planning.scenario,
                     channels |-> IF planning.scenario THEN planning.channels ELSE {}] IN
    [sections EXCEPT
        ![First("explanation-path")] = [@ EXCEPT !.posture = "inference", !.personal = channels],
        ![First("uncertainty")] = [@ EXCEPT !.posture = "forecast", !.personal = scenario]]

ProposedSections(contract, items, planning) ==
    LET assembled == AssembledSections(contract, items)
        recast == [k \in DOMAIN assembled |->
                      Recast(assembled[k], k, Len(assembled), items, planning)] IN
    IF planning.given THEN BindPersonal(recast, planning) ELSE recast

\* The coordinator: its preflight, the proposal, its allow-list and the validator.  A
\* proposal that either refuses is repaired once, and the local provider answers the
\* request for a repair with the same proposal.
Propose(contract, context, planning) ==
    LET sections == ProposedSections(contract, context.items, planning)
        made == Validated(sections, contract, context, planning)
        allowed == UNION {sections[k].places : k \in DOMAIN sections}
                      \subseteq PlacesOf(ToSet(context.items)) IN
    IF Insufficient(context) THEN [NoPlan EXCEPT !.status = "insufficient-context"]
    ELSE IF allowed /\ made.status = "validated" THEN made
    ELSE [NoPlan EXCEPT !.status = "REPAIR_EXHAUSTED"]
=============================================================================
