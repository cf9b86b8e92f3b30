---------------------------- MODULE BriefingScript -----------------------------
(***************************************************************************)
(* The script of a plan (script/compiler.ts) and what its validator accepts *)
(* (script/validator.ts): the sections of the plan in at most five scenes   *)
(* between an opening and a closing, their visuals and camera motion under  *)
(* a presentation preference, and the disclosure of what is uncertain.     *)
(***************************************************************************)
EXTENDS ExplanationPlan

Still == {"static", "reduced-motion"}

\* BriefingPresentationPreferenceSchema.
ValidPreference(p) ==
    /\ p.mode = "static" => p.animation = "disabled" /\ p.camera = "disallow"
    /\ p.mode = "reduced-motion" => p.animation # "full" /\ p.camera # "allow"

-----------------------------------------------------------------------------
(* Scenes                                                                  *)

MiddleScenes == MaximumScenes - 2

\* Mutant: The group of a section is rounded to the nearest one.
RoundedMembers(g, count, n) == {k \in 1..n : (2 * (k - 1) * count + n) \div (2 * n) = g - 1}

\* groupSections: the sections of group g, of count groups of n sections.
Members(g, count, n) == {k \in 1..n : ((k - 1) * count) \div n = g - 1}

\* sceneKind, as far as a property tells scenes apart.
SceneKind(section, personal) ==
    IF \E p \in personal : p.scenario THEN "scenario"
    ELSE IF \E p \in personal : p.channels # {} THEN "impact-path"
    ELSE section.kind

\* cameraIntent, and the mode a static preference leaves.
Shown(v, preference) ==
    [mode |-> IF preference.mode = "static" THEN "text" ELSE v.mode,
     moves |-> OnMap(v) /\ preference.mode \notin Still,
     places |-> v.places, entities |-> v.entities, points |-> v.points]

Scene(sections, members, gaps, preference) ==
    LET within == {sections[k] : k \in members}
        personal == {s.personal : s \in within}
        kind == SceneKind(sections[Min(members)], personal) IN
    [kind |-> kind, steps |-> members, bound |-> UNION {s.bound : s \in within},
     visuals |-> {Shown(v, preference) : v \in UNION {s.visuals : s \in within}},
     discloses |-> \E s \in within : s.discloses,
     named |-> IF kind = "uncertainty" THEN gaps ELSE {},
     personal |-> \E p \in personal : p.bound]

Scenes(sections, gaps, preference) ==
    LET n == Len(sections)
        count == IF n < MiddleScenes THEN n ELSE MiddleScenes IN
    [g \in 1..count |-> Scene(sections, Members(g, count, n), gaps, preference)]

-----------------------------------------------------------------------------
(* The validator                                                           *)

\* Its camera and visual rules for one visual of a scene.
VisualRefused(scene, v, preference) ==
    \/ v.moves /\ v.places = {} /\ v.entities = {}
    \/ v.moves /\ preference.animation = "disabled"
    \/ v.mode = "chart" /\ (v.points = {} \/ ~(v.points \subseteq PointsOf(scene.bound)))
    \/ v.mode = "document" /\ SourcesOf(scene.bound) = {}
    \/ OnMap(v) /\ ~(v.places \subseteq PlacesOf(scene.bound))

\* An item without a document has an excerpt of no document it could be bound to.
Refused(scenes, plan, preference) ==
    \/ Len(scenes) + 2 > MaximumScenes
    \/ DOMAIN plan.sections # UNION {scenes[g].steps : g \in DOMAIN scenes}
    \/ plan.personal # (\E g \in DOMAIN scenes : scenes[g].personal)
    \/ \E g \in DOMAIN scenes :
          \/ \E c \in scenes[g].bound : c.documents = <<>>
          \/ \E v \in scenes[g].visuals : VisualRefused(scenes[g], v, preference)

NoScript == [status |-> "none", scenes |-> <<>>]

\* RuleBasedBriefingScriptCompiler.compile.
ScriptOf(plan, context, preference) ==
    LET scenes == Scenes(plan.sections, context.gaps, preference)
        Fail(status) == [NoScript EXCEPT !.status = status] IN
    IF ~ValidPreference(preference) THEN Fail("PRESENTATION_PREFERENCE_INVALID")
    ELSE IF plan.status # "validated" THEN Fail("PLAN_NOT_VALIDATED")
    ELSE IF Insufficient(context) THEN Fail("insufficient-context")
    ELSE IF Refused(scenes, plan, preference) THEN Fail("SCRIPT_VALIDATION_FAILED")
    ELSE [status |-> IF preference.mode \in Still THEN "validated-static-script"
                     ELSE "validated-script",
          scenes |-> scenes]
=============================================================================
