--------------------------- MODULE SessionReducer ---------------------------
(***************************************************************************)
(* The pure reducer of a briefing session                                  *)
(* (src/session/session-reducer.ts), with the part of the session schema   *)
(* (session-validator.ts) that the reducer checks before it accepts a      *)
(* transition.                                                             *)
(*                                                                         *)
(* A command is applied to a session by Applied(s, c): the set that holds  *)
(* the next session, or {} when the reducer rejects the command.           *)
(* Accepted(s, c) drops a next session the schema refuses.                 *)
(*                                                                         *)
(* Abstractions.  The identities a replacement changes together (question, *)
(* contract, context package, plan, script and their fingerprints) are one *)
(* value, the script; ScenesOf gives its scene identifiers in order and    *)
(* QuestionOf the question it answers.  Analysis tab and presentation      *)
(* preference, which no command changes, policy version and timestamps are *)
(* left out.  The fingerprint of a session is the session itself.          *)
(***************************************************************************)
EXTENDS Naturals, Sequences, Functions

CONSTANTS
    SceneIds,           \* scene identifiers
    Scripts,            \* validated scripts
    ScenesOf,           \* the scene identifiers of a script, in order
    Questions,          \* question identifiers
    QuestionOf,         \* the question a script answers
    OperationIds,       \* identifiers of motions, follow-ups and replans
    FollowUps,          \* follow-up identifiers
    Viewports,          \* camera snapshots
    MaxSceneIndex,      \* bound on the scene index a command may carry
    None                \* an absent optional field

-----------------------------------------------------------------------------
(* The session record *)

Returnable == {"exploration", "briefing-ready", "presenting-scene",
               "scene-motion-running", "manual-map-view", "closing", "ended"}

Statuses == Returnable \cup {"composer-open", "replanning", "error"}

Cursor == [sceneId : SceneIds, index : Nat, total : Nat,
           visited : Seq(SceneIds)]

ManualInactive == [status |-> "inactive", viewport |-> None]

ManualView == [status : {"active", "returning-to-briefing"},
               viewport : Viewports]
              \cup {ManualInactive}

MotionKinds == {"scene-motion", "return-to-briefing-camera"}
FollowUpKinds == {"follow-up", "replan"}

Operation == [id : OperationIds, kind : MotionKinds, target : SceneIds]
             \cup [id : OperationIds, kind : FollowUpKinds, target : {None}]

Session == [status : Statuses,
            original : Questions,
            question : Questions,
            script : Scripts,
            cursor : Cursor,
            manual : ManualView,
            viewport : Viewports \cup {None},
            composer : {"closed", "compact", "expanded"},
            operation : Operation \cup {None},
            resume : Returnable \cup {None},
            followUp : FollowUps \cup {None},
            failed : BOOLEAN]

ASSUME ConstantsAssumption ==
    /\ ScenesOf \in [Scripts -> Seq(SceneIds)]
    /\ \A p \in Scripts : ScenesOf[p] # <<>>
    /\ QuestionOf \in [Scripts -> Questions]
    /\ MaxSceneIndex \in Nat
    /\ None \notin OperationIds \cup FollowUps \cup Viewports \cup Returnable
    /\ None \notin Operation
    /\ None \notin Session

\* What BriefingSessionSchema refuses beyond the shape of the record.
ValidCursor(k) ==
    /\ k.visited # <<>>
    /\ k.index < k.total
    /\ IsInjective(k.visited)
    /\ k.sceneId \in Range(k.visited)

ValidSession(s) ==
    /\ s \in Session
    /\ ValidCursor(s.cursor)
    /\ s.status = "manual-map-view" => s.manual.status = "active"
    /\ s.manual.status = "active" =>
          s.status \in {"manual-map-view", "scene-motion-running",
                        "composer-open", "replanning"}
    /\ s.status \in {"composer-open", "replanning"} => s.composer = "expanded"
    /\ s.status = "replanning" => s.operation # None

-----------------------------------------------------------------------------
(* The commands *)

SceneIndexes == 0 .. MaxSceneIndex

ViewportPolicies == {"preserve-manual-view", "preserve-when-scene-survives",
                     "apply-replacement-scene-camera"}

\* "map-to-scene" stands for the three strategies that carry a target scene:
\* the reducer treats them alike.
Mappings ==
    [strategy : {"preserve-current-scene"}, policy : ViewportPolicies]
    \cup [strategy : {"map-to-scene"}, policy : ViewportPolicies,
          scene : SceneIds, index : SceneIndexes]
    \cup [strategy : {"restart-at-opening"},
          policy : {"apply-replacement-scene-camera"}]

Navigation == {"NEXT_SCENE", "PREVIOUS_SCENE", "JUMP_TO_SCENE"}

\* A replan resolution is "answer" (current-context-answer) or "ask"
\* (clarification-required or unsupported); sameStart says whether it names
\* the fingerprint its operation was started from.
Commands ==
    [type : {"START_BRIEFING", "KEEP_MANUAL_VIEW", "OPEN_COMPOSER",
             "CLOSE_COMPOSER", "END_BRIEFING", "RESET_SESSION"}]
    \cup [type : Navigation, scene : SceneIds, index : SceneIndexes]
    \cup [type : {"REPLAY_SCENE_MOTION", "SCENE_MOTION_STARTED",
                  "SCENE_MOTION_COMPLETED", "RETURN_TO_BRIEFING_CAMERA",
                  "REPLAN_STARTED", "REPLAN_FAILED"},
          operation : OperationIds]
    \cup [type : {"USER_MAP_INTERACTION_STARTED"}, viewport : Viewports]
    \cup [type : {"SUBMIT_FOLLOW_UP"}, followUp : FollowUps,
          operation : OperationIds]
    \cup [type : {"REPLAN_COMPLETED"}, operation : OperationIds,
          previous : Scripts, script : Scripts, mapping : Mappings]
    \cup [type : {"REPLAN_RESOLVED"}, operation : OperationIds,
          sameStart : BOOLEAN, resolution : {"answer", "ask"}]
    \cup [type : {"REPLAY_BRIEFING"}, scene : SceneIds]

-----------------------------------------------------------------------------
(* Helpers of the reducer *)

When(guard, next) == IF guard THEN {next} ELSE {}

\* Mutant: whichever operation runs, a completion is taken for its own.
OwnsAny(s, id) == s.operation # None

Owns(s, id) == s.operation # None /\ s.operation.id = id

Visit(visited, scene) ==
    IF scene \in Range(visited) THEN visited ELSE Append(visited, scene)

StatusAt(index, total) ==
    IF index = total - 1 THEN "closing" ELSE "presenting-scene"

MoveToScene(s, scene, index) ==
    When(index < s.cursor.total,
         [s EXCEPT !.cursor.sceneId = scene,
                   !.cursor.index = index,
                   !.cursor.visited = Visit(s.cursor.visited, scene),
                   !.status = StatusAt(index, s.cursor.total),
                   !.manual = ManualInactive,
                   !.viewport = None,
                   !.operation = None])

ComposerFor(status) == IF status = "exploration" THEN "closed" ELSE "compact"

ResumeOr(s, fallback) == IF s.resume = None THEN fallback ELSE s.resume

-----------------------------------------------------------------------------
(* Presentation and navigation *)

StartBriefing(s) ==
    When(s.status \in {"exploration", "briefing-ready"},
         [s EXCEPT !.status = "presenting-scene", !.composer = "compact"])

NextScene(s, c) ==
    IF /\ s.status \in {"presenting-scene", "scene-motion-running",
                        "manual-map-view"}
       /\ c.index = s.cursor.index + 1
    THEN MoveToScene(s, c.scene, c.index) ELSE {}

PreviousScene(s, c) ==
    IF /\ s.status \in {"presenting-scene", "scene-motion-running",
                        "manual-map-view", "closing"}
       /\ c.index + 1 = s.cursor.index
    THEN MoveToScene(s, c.scene, c.index) ELSE {}

JumpToScene(s, c) ==
    IF s.status \in {"presenting-scene", "scene-motion-running",
                     "manual-map-view", "closing"}
    THEN MoveToScene(s, c.scene, c.index) ELSE {}

\* Mutant: a replay keeps the index of the scene it leaves.
ReplayInPlace(s, c) ==
    IF s.status \in {"closing", "ended"}
    THEN {[t EXCEPT !.composer = "compact"] :
             t \in MoveToScene(s, c.scene, s.cursor.index)}
    ELSE {}

ReplayBriefing(s, c) ==
    IF s.status \in {"closing", "ended"}
    THEN {[t EXCEPT !.composer = "compact"] : t \in MoveToScene(s, c.scene, 0)}
    ELSE {}

EndBriefing(s) ==
    IF s.status = "ended" THEN {s}
    ELSE When(s.status \in {"presenting-scene", "scene-motion-running",
                            "manual-map-view", "closing"},
              [s EXCEPT !.status = "ended", !.composer = "compact",
                        !.manual = ManualInactive, !.viewport = None,
                        !.operation = None])

\* The opening scene is taken to be the first visited one; the script stays.
ResetSession(s) ==
    {[s EXCEPT !.status = "exploration",
               !.cursor.sceneId = s.cursor.visited[1],
               !.cursor.index = 0,
               !.cursor.visited = <<s.cursor.visited[1]>>,
               !.question = s.original,
               !.manual = ManualInactive,
               !.composer = "closed",
               !.viewport = None, !.operation = None, !.resume = None,
               !.followUp = None, !.failed = FALSE]}

-----------------------------------------------------------------------------
(* Scene motions and the manual map view *)

\* REPLAY_SCENE_MOTION and SCENE_MOTION_STARTED share this case.
SceneMotionStarted(s, c) ==
    When(/\ s.status \in {"presenting-scene", "scene-motion-running"}
         /\ s.operation # None => Owns(s, c.operation),
         [s EXCEPT !.status = "scene-motion-running",
                   !.operation = [id |-> c.operation, kind |-> "scene-motion",
                                  target |-> s.cursor.sceneId]])

SceneMotionCompleted(s, c) ==
    When(/\ s.status = "scene-motion-running"
         /\ Owns(s, c.operation)
         /\ s.operation.kind \in MotionKinds,
         [s EXCEPT !.status = "presenting-scene",
                   !.manual = ManualInactive,
                   !.viewport = None,
                   !.operation = None])

UserMapInteractionStarted(s, c) ==
    When(s.status \in {"presenting-scene", "scene-motion-running"},
         [s EXCEPT !.status = "manual-map-view",
                   !.viewport = c.viewport,
                   !.manual = [status |-> "active", viewport |-> c.viewport],
                   !.operation = None])

KeepManualView(s) == When(s.status = "manual-map-view", s)

ReturnToBriefingCamera(s, c) ==
    When(s.status = "manual-map-view" /\ s.manual.status = "active",
         [s EXCEPT !.status = "scene-motion-running",
                   !.manual.status = "returning-to-briefing",
                   !.operation = [id |-> c.operation,
                                  kind |-> "return-to-briefing-camera",
                                  target |-> s.cursor.sceneId]])

-----------------------------------------------------------------------------
(* Composer, follow-up and replacement *)

\* Mutant: the running operation survives the opening of the composer.
OperationLeft(s) ==
    When(s.status \in Returnable,
         [s EXCEPT !.resume = IF s.status = "scene-motion-running"
                              THEN "presenting-scene" ELSE s.status,
                   !.status = "composer-open",
                   !.composer = "expanded"])

\* Mutant: opening the composer drops the manual map view.
ViewDropped(s) ==
    When(s.status \in Returnable,
         [s EXCEPT !.resume = IF s.status = "scene-motion-running"
                              THEN "presenting-scene" ELSE s.status,
                   !.status = "composer-open",
                   !.composer = "expanded",
                   !.manual = ManualInactive, !.viewport = None,
                   !.operation = None])

OpenComposer(s) ==
    When(s.status \in Returnable,
         [s EXCEPT !.resume = IF s.status = "scene-motion-running"
                              THEN "presenting-scene" ELSE s.status,
                   !.status = "composer-open",
                   !.composer = "expanded",
                   !.operation = None])

CloseComposer(s) ==
    LET back == ResumeOr(s, "briefing-ready")
    IN When(s.status = "composer-open",
            [s EXCEPT !.status = back, !.composer = ComposerFor(back),
                      !.resume = None, !.failed = FALSE])

SubmitFollowUp(s, c) ==
    When(s.status = "composer-open",
         [s EXCEPT !.status = "replanning",
                   !.composer = "expanded",
                   !.followUp = c.followUp,
                   !.operation = [id |-> c.operation, kind |-> "follow-up",
                                  target |-> None]])

ReplanStarted(s, c) ==
    When(/\ s.status = "replanning"
         /\ Owns(s, c.operation)
         /\ s.operation.kind = "follow-up",
         [s EXCEPT !.operation.kind = "replan"])

\* resolveReplacementScene: does the mapping name a scene of the replacement?
MappingResolves(s, m, scenes) ==
    /\ IsInjective(scenes)
    /\ m.strategy = "preserve-current-scene" =>
          s.cursor.sceneId \in Range(scenes)
    /\ m.strategy = "map-to-scene" =>
          m.index < Len(scenes) /\ scenes[m.index + 1] = m.scene

TargetIndex(s, m, scenes) ==
    CASE m.strategy = "preserve-current-scene" ->
            (CHOOSE i \in 1 .. Len(scenes) : scenes[i] = s.cursor.sceneId) - 1
      [] m.strategy = "map-to-scene" -> m.index
      [] m.strategy = "restart-at-opening" -> 0

PolicyPreserves(m) ==
    \/ m.policy = "preserve-manual-view"
    \/ /\ m.strategy = "preserve-current-scene"
       /\ m.policy = "preserve-when-scene-survives"

\* The visited scenes that the replacement has, in the order of the visits.
Surviving(visited, scenes) ==
    LET kept[n \in 0 .. Len(visited)] ==
          IF n = 0 THEN <<>>
          ELSE IF visited[n] \in Range(scenes) THEN Append(kept[n - 1], visited[n])
          ELSE kept[n - 1]
    IN kept[Len(visited)]

\* Those, then the target unless it was visited.
Revisit(visited, scenes, target) ==
    Surviving(visited, scenes)
        \o (IF target \in Range(visited) THEN <<>> ELSE <<target>>)

Replaced(s, c) ==
    LET scenes == ScenesOf[c.script]
        index == TargetIndex(s, c.mapping, scenes)
        keepView == PolicyPreserves(c.mapping) /\ s.manual.status # "inactive"
    IN [s EXCEPT !.question = QuestionOf[c.script],
                 !.script = c.script,
                 !.cursor = [sceneId |-> scenes[index + 1],
                             index |-> index,
                             total |-> Len(scenes),
                             visited |-> Revisit(s.cursor.visited, scenes,
                                                 scenes[index + 1])],
                 !.status = IF keepView THEN "manual-map-view"
                            ELSE StatusAt(index, Len(scenes)),
                 !.manual = IF keepView THEN @ ELSE ManualInactive,
                 !.viewport = IF keepView THEN @ ELSE None,
                 !.composer = "compact",
                 !.operation = None, !.resume = None, !.failed = FALSE]

\* Does the command own the replan, target the active script and map a scene?
CanReplace(s, c) ==
    /\ s.status = "replanning"
    /\ Owns(s, c.operation)
    /\ s.operation.kind = "replan"
    /\ c.previous = s.script
    /\ MappingResolves(s, c.mapping, ScenesOf[c.script])

ReplanCompleted(s, c) == When(CanReplace(s, c), Replaced(s, c))

\* Mutant: a failure returns to the presentation, wherever it came from.
PresentAfterFailure(s, c) ==
    When(s.status = "replanning" /\ Owns(s, c.operation),
         [s EXCEPT !.status = IF s.manual.status = "active"
                              THEN s.resume ELSE "presenting-scene",
                   !.composer = "compact",
                   !.failed = TRUE, !.operation = None, !.resume = None])

ReplanFailed(s, c) ==
    LET back == ResumeOr(s, "briefing-ready")
    IN When(s.status = "replanning" /\ Owns(s, c.operation),
            [s EXCEPT !.status = back, !.composer = ComposerFor(back),
                      !.failed = TRUE, !.operation = None, !.resume = None])

ReplanResolved(s, c) ==
    LET back == ResumeOr(s, "presenting-scene")
    IN IF /\ s.status = "replanning"
          /\ Owns(s, c.operation)
          /\ s.operation.kind = "replan"
          /\ c.sameStart
       THEN IF c.resolution = "answer"
            THEN {[s EXCEPT !.status = back, !.composer = ComposerFor(back),
                            !.resume = None, !.operation = None,
                            !.failed = FALSE]}
            ELSE {[s EXCEPT !.status = "composer-open",
                            !.composer = "expanded", !.operation = None,
                            !.failed = FALSE]}
       ELSE {}

-----------------------------------------------------------------------------
(* Dispatch *)

Applied(s, c) ==
    CASE c.type = "START_BRIEFING" -> StartBriefing(s)
      [] c.type = "NEXT_SCENE" -> NextScene(s, c)
      [] c.type = "PREVIOUS_SCENE" -> PreviousScene(s, c)
      [] c.type = "JUMP_TO_SCENE" -> JumpToScene(s, c)
      [] c.type \in {"REPLAY_SCENE_MOTION", "SCENE_MOTION_STARTED"} ->
            SceneMotionStarted(s, c)
      [] c.type = "SCENE_MOTION_COMPLETED" -> SceneMotionCompleted(s, c)
      [] c.type = "USER_MAP_INTERACTION_STARTED" ->
            UserMapInteractionStarted(s, c)
      [] c.type = "KEEP_MANUAL_VIEW" -> KeepManualView(s)
      [] c.type = "RETURN_TO_BRIEFING_CAMERA" -> ReturnToBriefingCamera(s, c)
      [] c.type = "OPEN_COMPOSER" -> OpenComposer(s)
      [] c.type = "CLOSE_COMPOSER" -> CloseComposer(s)
      [] c.type = "SUBMIT_FOLLOW_UP" -> SubmitFollowUp(s, c)
      [] c.type = "REPLAN_STARTED" -> ReplanStarted(s, c)
      [] c.type = "REPLAN_COMPLETED" -> ReplanCompleted(s, c)
      [] c.type = "REPLAN_FAILED" -> ReplanFailed(s, c)
      [] c.type = "REPLAN_RESOLVED" -> ReplanResolved(s, c)
      [] c.type = "REPLAY_BRIEFING" -> ReplayBriefing(s, c)
      [] c.type = "END_BRIEFING" -> EndBriefing(s)
      [] c.type = "RESET_SESSION" -> ResetSession(s)

\* The reducer: the next session, unless the command or the schema refuses it.
Accepted(s, c) == {t \in Applied(s, c) : ValidSession(t)}

\* What some command can make of session s.
NextSessions(s) == UNION {Accepted(s, c) : c \in Commands}

-----------------------------------------------------------------------------
(* Creation *)

SceneAt(script, index) == ScenesOf[script][index + 1]

\* A session is created ready, at the opening scene of a validated script.
InitialSession(script) ==
    [status |-> "briefing-ready",
     original |-> QuestionOf[script],
     question |-> QuestionOf[script],
     script |-> script,
     cursor |-> [sceneId |-> SceneAt(script, 0), index |-> 0,
                 total |-> Len(ScenesOf[script]),
                 visited |-> <<SceneAt(script, 0)>>],
     manual |-> ManualInactive,
     viewport |-> None,
     composer |-> "compact",
     operation |-> None,
     resume |-> None,
     followUp |-> None,
     failed |-> FALSE]

InitialSessions ==
    {InitialSession(script) : script \in {p \in Scripts : IsInjective(ScenesOf[p])}}

-----------------------------------------------------------------------------
(* Predicates of a session *)

Composing(s) == s.status \in {"composer-open", "replanning"}

\* The running operation always belongs to what the session is doing: a replan
\* while replanning, a motion aimed at the current scene while one runs, and
\* no operation is left behind in any other status.
OperationBelongs(s) ==
    /\ s.status = "replanning" <=>
          s.operation # None /\ s.operation.kind \in FollowUpKinds
    /\ s.status = "scene-motion-running" <=>
          s.operation # None /\ s.operation.kind \in MotionKinds
    /\ s.status = "scene-motion-running" =>
          s.operation.target = s.cursor.sceneId

\* A status to return to is remembered exactly while the composer is open or a
\* replan runs, so the reducer's fallbacks for a missing one are never taken,
\* and it is never the status of a motion, which would have no operation.
ResumeKept(s) ==
    /\ s.resume # None <=> Composing(s)
    /\ s.resume # "scene-motion-running"

\* The status the presentation is in, or will return to.
Underlying(s) == IF s.resume = None THEN s.status ELSE s.resume

\* The two copies of the manual viewport agree, and the manual view is active
\* exactly when the presentation is, or will return to, the manual map view.
ManualCoherent(s) ==
    /\ s.viewport = s.manual.viewport
    /\ s.manual.status = "active" <=> Underlying(s) = "manual-map-view"

\* A failed replan can always return to the prior state: no session is reached
\* from which the schema would refuse the rollback, which would leave the
\* briefing locked in replanning.
CanRollBack(s) ==
    s.status = "replanning" =>
        Accepted(s, [type |-> "REPLAN_FAILED",
                     operation |-> s.operation.id]) # {}

\* The closing status, also as one to return to, means the last scene.
ClosingAtEnd(s) ==
    Underlying(s) = "closing" => s.cursor.index = s.cursor.total - 1

\* The cursor names the scene the bound script has at its index.
OnScript(s) == /\ s.cursor.total = Len(ScenesOf[s.script])
               /\ s.cursor.sceneId = SceneAt(s.script, s.cursor.index)

\* The inductive invariant: what the schema checks, and what it leaves to the
\* reducer.
SessionInv(s) ==
    /\ ValidSession(s)
    /\ OperationBelongs(s)
    /\ ResumeKept(s)
    /\ ManualCoherent(s)
    /\ ClosingAtEnd(s)

=============================================================================
