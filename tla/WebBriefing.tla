---------------------------- MODULE WebBriefing ----------------------------
(***************************************************************************)
(* The web application over one briefing (apps/web/src): the player        *)
(* (player-reducer.ts), the follow-up controller                           *)
(* (use-follow-up-session-controller.ts) with the outcome orchestrator it  *)
(* calls (application/follow-up/follow-up-outcome-orchestrator.ts), and    *)
(* the effects of App.tsx that carry the scene from the player to the      *)
(* session and from the session to the player.                             *)
(*                                                                         *)
(* A user event changes the state; then Commit renders it and runs the     *)
(* effects whose dependencies changed, with the values of that render,     *)
(* until nothing changed.  React flushes the effects of one discrete event *)
(* before it handles the next, so events wait for Settled.  A follow-up    *)
(* awaits promises only, which resolve before the next event, and is one   *)
(* step.  A command that is refused inside a state updater without a catch *)
(* of its own throws while React renders: the application is lost (alive). *)
(*                                                                         *)
(* Left out: playback speed, animation, motion tokens, pause reason, draft *)
(* text, analysis panel, and focus, so that any event whose control is     *)
(* shown may come.  Any scene may be shown on the map.                     *)
(***************************************************************************)
EXTENDS SessionReducer

VARIABLES
    session,    \* the controller's session
    script,     \* the script it presents
    player,     \* the state of the player
    view,       \* the follow-up outcome shown in the analysis panel
    rendered,   \* the dependencies of the effects at the last render
    alive,      \* FALSE: a state updater threw and the tree is unmounted
    event       \* history: what the last user event was

vars == <<session, script, player, view, rendered, alive, event>>

\* What the effects of one render may depend on.
DependencyValues == [script : Scripts, index : Nat, scene : SceneIds,
                     composer : {"closed", "compact", "expanded"}]

\* The application can always name a follow-up and an operation, and before
\* the first render there are no dependencies.
ASSUME WebAssumption == /\ OperationIds # {} /\ FollowUps # {}
                        /\ None \notin DependencyValues

-----------------------------------------------------------------------------
(* The player *)

NewPlayer == [status |-> "exploration", count |-> 0, index |-> 0,
              composer |-> FALSE, conflict |-> FALSE]

AtIndex(status, index, count) ==
    CASE index = count - 1 -> "ended"
      [] index # count - 1 /\ status = "ended" -> "paused"
      [] OTHER -> status

SyncScript(p, count, index) ==
    [p EXCEPT !.count = count,
              !.index = index,
              !.status = IF p.count = 0 THEN "ready"
                         ELSE AtIndex(@, index, count)]

Play(p) == IF p.count > 0 /\ p.status # "ended"
           THEN [p EXCEPT !.status = "playing", !.conflict = FALSE] ELSE p

PlayNext(p) ==
    LET next == IF p.index + 1 < p.count THEN p.index + 1 ELSE p.count - 1
    IN [p EXCEPT !.index = next,
                 !.status = IF next = p.count - 1 THEN "ended" ELSE @]

PlayPrevious(p) ==
    [p EXCEPT !.index = IF @ > 0 THEN @ - 1 ELSE 0,
              !.status = IF @ = "ended" THEN "paused" ELSE @]

PlayAgain(p) == [p EXCEPT !.index = 0, !.status = "playing",
                          !.composer = FALSE]

EndPlaying(p) == [p EXCEPT !.index = 0, !.status = "exploration",
                           !.composer = FALSE]

FocusComposer(p) ==
    [p EXCEPT !.status = IF @ = "playing" THEN "paused" ELSE @,
              !.composer = TRUE]

CancelFocus(p) == [p EXCEPT !.composer = FALSE]

MapMoved(p) == [p EXCEPT !.status = "paused", !.conflict = TRUE]

\* What App.tsx shows of the player.
Playing(p) == p.status \notin {"ready", "exploration"}
ClosingShown(p) == ~p.composer /\ p.status = "ended"
StartShown(p) == ~Playing(p)

-----------------------------------------------------------------------------
(* Rendering and effects *)

\* The scene at the player's index; the first one when there is none.
Shown == IF player.index < Len(ScenesOf[script])
         THEN SceneAt(script, player.index) ELSE SceneAt(script, 0)

Dependencies == [script |-> script, index |-> player.index, scene |-> Shown,
                 composer |-> session.composer]

Settled == rendered = Dependencies

Changed(fields) ==
    \/ rendered = None
    \/ \E f \in fields : rendered[f] # Dependencies[f]

\* A command whose refusal the updater catches leaves the session.
Tried(s, c) == IF Accepted(s, c) = {} THEN {s} ELSE Accepted(s, c)

\* navigateToScene
Navigated(s, scene, index) ==
    IF s.cursor.sceneId = scene \/ s.status = "composer-open" THEN {s}
    ELSE Tried(s, [type |-> "JUMP_TO_SCENE", scene |-> scene, index |-> index])

SyncEffect(p) ==
    IF Changed({"script"})
    THEN SyncScript(p, Len(ScenesOf[script]), session.cursor.index) ELSE p

\* Mutant: the effect ignores the manual map view.
PresentingOnly(s) ==
    IF Changed({"index", "scene"}) /\ s.status = "presenting-scene"
    THEN Navigated(s, Shown, player.index) ELSE {s}

\* Mutant: the effect names the scene of the render before.
StaleScene(s) ==
    IF /\ Changed({"index", "scene"})
       /\ s.status \in {"presenting-scene", "manual-map-view"}
    THEN Navigated(s, IF rendered = None THEN Shown ELSE rendered.scene,
                   player.index)
    ELSE {s}

NavigateEffect(s) ==
    IF /\ Changed({"index", "scene"})
       /\ s.status \in {"presenting-scene", "manual-map-view"}
    THEN Navigated(s, Shown, player.index) ELSE {s}

ComposerEffect(p) ==
    IF Changed({"composer"})
    THEN IF session.composer = "expanded" THEN FocusComposer(p)
                                          ELSE CancelFocus(p)
    ELSE p

Commit ==
    /\ alive /\ ~Settled
    /\ player' = ComposerEffect(SyncEffect(player))
    /\ session' \in NavigateEffect(session)
    /\ rendered' = Dependencies
    /\ UNCHANGED <<script, view, alive, event>>

-----------------------------------------------------------------------------
(* Events of the player and of the map *)

Ready == alive /\ Settled

\* Did the player move to another scene of a briefing that is presented?
NavigationEvent ==
    IF /\ player'.index # player.index
       /\ session.status \in {"presenting-scene", "manual-map-view"}
    THEN "navigated" ELSE "other"

GoNext == /\ Ready
          /\ player' = PlayNext(player)
          /\ event' = NavigationEvent
          /\ UNCHANGED <<session, script, view, rendered, alive>>

GoBack == /\ Ready
          /\ player' = PlayPrevious(player)
          /\ event' = NavigationEvent
          /\ UNCHANGED <<session, script, view, rendered, alive>>

\* Escape outside of a text field: closeTransient
CloseTransient == /\ Ready
                  /\ player' = CancelFocus(player)
                  /\ event' = "other"
                  /\ UNCHANGED <<session, script, view, rendered, alive>>

\* The replay of the closing controls tells the player only.
Replay == /\ Ready /\ ClosingShown(player)
          /\ player' = PlayAgain(player)
          /\ event' = "other"
          /\ UNCHANGED <<session, script, view, rendered, alive>>

\* recordManualMapInteraction
MapInteraction ==
    /\ Ready
    /\ player' = MapMoved(player)
    /\ session' \in
          IF session.status = "manual-map-view" THEN {session}
          ELSE UNION {Tried(session, [type |-> "USER_MAP_INTERACTION_STARTED",
                                      viewport |-> v]) : v \in Viewports}
    /\ event' = "other"
    /\ UNCHANGED <<script, view, rendered, alive>>

\* keepManualMapView
KeepView ==
    /\ Ready /\ player.conflict
    /\ player' = [player EXCEPT !.conflict = FALSE]
    /\ session' \in
          IF session.status # "manual-map-view" THEN {session}
          ELSE Tried(session, [type |-> "KEEP_MANUAL_VIEW"])
    /\ event' = "other"
    /\ UNCHANGED <<script, view, rendered, alive>>

\* returnToBriefingCamera: the motion starts and completes in one updater.
Returned(s, o) ==
    LET done == UNION {Accepted(t, [type |-> "SCENE_MOTION_COMPLETED",
                                    operation |-> o]) :
                       t \in Accepted(s, [type |-> "RETURN_TO_BRIEFING_CAMERA",
                                          operation |-> o])}
    IN IF done = {} THEN {s} ELSE done

ReturnCamera ==
    /\ Ready /\ player.conflict
    /\ player' = [player EXCEPT !.conflict = FALSE]
    /\ session' \in
          IF session.status # "manual-map-view" THEN {session}
          ELSE UNION {Returned(session, o) : o \in OperationIds}
    /\ event' = "other"
    /\ UNCHANGED <<script, view, rendered, alive>>

-----------------------------------------------------------------------------
(* Events that send one command: a refused one throws while rendering *)

Dispatch(c) ==
    /\ alive' = (Accepted(session, c) # {})
    /\ session' \in Tried(session, c)

Start == /\ Ready /\ StartShown(player)
         /\ player' = Play(player)
         /\ Dispatch([type |-> "START_BRIEFING"])
         /\ event' = "other"
         /\ UNCHANGED <<script, view, rendered>>

End == /\ Ready /\ ClosingShown(player)
       /\ player' = EndPlaying(player)
       /\ Dispatch([type |-> "END_BRIEFING"])
       /\ event' = "other"
       /\ UNCHANGED <<script, view, rendered>>

Open == /\ Ready
        /\ player' = FocusComposer(player)
        /\ IF session.status = "composer-open" THEN UNCHANGED <<session, alive>>
           ELSE Dispatch([type |-> "OPEN_COMPOSER"])
        /\ event' = "other"
        /\ UNCHANGED <<script, view, rendered>>

Close == /\ Ready /\ player.composer
         /\ player' = CancelFocus(player)
         /\ IF session.status # "composer-open" THEN UNCHANGED <<session, alive>>
            ELSE Dispatch([type |-> "CLOSE_COMPOSER"])
         /\ event' = "other"
         /\ UNCHANGED <<script, view, rendered>>

-----------------------------------------------------------------------------
(* Follow-ups *)

\* SUBMIT_FOLLOW_UP, then REPLAN_STARTED under the operation it set.
Submitted(s) ==
    UNION {UNION {Accepted(s, [type |-> "SUBMIT_FOLLOW_UP", followUp |-> f,
                               operation |-> o]) : o \in OperationIds} :
           f \in FollowUps}

Started(t) == Accepted(t, [type |-> "REPLAN_STARTED",
                           operation |-> t.operation.id])

Replanning(s) == UNION {Started(t) : t \in Submitted(s)}

Resolved(u, resolution) ==
    Accepted(u, [type |-> "REPLAN_RESOLVED", operation |-> u.operation.id,
                 sameStart |-> TRUE, resolution |-> resolution])

\* Mutant: a failure keeps the progressed session.
NotRolledBack(s) == IF Replanning(s) = {} THEN {s} ELSE Replanning(s)

\* technicalFailure: back to the status before, or to the session as it was.
RolledBack(s) ==
    LET failed == UNION {Accepted(u, [type |-> "REPLAN_FAILED",
                                      operation |-> u.operation.id]) :
                         u \in Replanning(s)}
    IN IF failed = {} THEN {s} ELSE failed

\* The replacements a fixture makes of script p at scene index.  A change of
\* the personal context runs the briefing again and may lead to any script.
Scopes == {"revise-current-scene", "replace-remaining-scenes",
           "rebuild-entire-briefing", "personal-context"}

Variants(p, scope, index) ==
    {q \in Scripts \ {p} :
        /\ IsInjective(ScenesOf[q])
        /\ scope # "personal-context" => Len(ScenesOf[q]) = Len(ScenesOf[p])
        /\ scope = "revise-current-scene" => ScenesOf[q] = ScenesOf[p]
        /\ scope = "replace-remaining-scenes" =>
              \A i \in 0 .. index : SceneAt(q, i) = SceneAt(p, i)}

\* The last completed scene of p that q still has.
NearestPreceding(s, p, q) ==
    {SceneAt(p, i) : i \in {j \in 0 .. s.cursor.index :
        /\ SceneAt(p, j) \in Range(ScenesOf[q])
        /\ \A k \in j + 1 .. s.cursor.index :
              SceneAt(p, k) \notin Range(ScenesOf[q])}}

\* Mutant: scene indexes count from one.
OneBased(q, scene) == CHOOSE i \in 1 .. Len(ScenesOf[q]) :
                        ScenesOf[q][i] = scene

PlaceOf(q, scene) == CHOOSE i \in 0 .. Len(ScenesOf[q]) - 1 :
                        SceneAt(q, i) = scene

\* createSceneReplacementMapping, for the strategy the classifier suggests.
SceneMappings(s, p, q, scope) ==
    CASE scope = "revise-current-scene" ->
            {[strategy |-> "map-to-scene",
              policy |-> "apply-replacement-scene-camera",
              scene |-> x, index |-> PlaceOf(q, x)] :
                x \in {s.cursor.sceneId} \cap Range(ScenesOf[q])}
      [] scope = "replace-remaining-scenes" ->
            {[strategy |-> "map-to-scene",
              policy |-> "preserve-when-scene-survives",
              scene |-> x, index |-> PlaceOf(q, x)] :
                x \in NearestPreceding(s, p, q)}
      [] scope \in {"rebuild-entire-briefing", "personal-context"} ->
            {[strategy |-> "restart-at-opening",
              policy |-> "apply-replacement-scene-camera"]}

Completed(u, p, q, m) ==
    Accepted(u, [type |-> "REPLAN_COMPLETED", operation |-> u.operation.id,
                 previous |-> p, script |-> q, mapping |-> m])

\* The validated replacements of session s over script p.
PreparedFor(s, p, scope) ==
    UNION {{[script |-> q, mapping |-> m] : m \in SceneMappings(s, p, q, scope)} :
           q \in Variants(p, scope, s.cursor.index)}

Prepared(s, p) == UNION {PreparedFor(s, p, scope) : scope \in Scopes}

Outcome(s, p, v) == [session |-> s, script |-> p, view |-> v]

\* applyReplacementAtomically: session, script and presentation together.
Replacement(s, q) == Outcome(s, q, "replaced")

\* executeFollowUp: what a follow-up over session s and script p may lead to.
\* Appending scenes is answered with a clarification.
Outcomes(s, p) ==
    LET running == Replanning(s)
        resolved(r, v) == {Outcome(t, p, v) :
                           t \in UNION {Resolved(u, r) : u \in running}}
    IN IF s.script # p THEN {}
       ELSE resolved("answer", "answer")
            \cup resolved("ask", "clarification")
            \cup resolved("ask", "unsupported")
            \cup {Outcome(t, p, "failed") : t \in RolledBack(s)}
            \cup UNION {UNION {{Replacement(t, r.script) :
                                  t \in Completed(u, p, r.script, r.mapping)} :
                                u \in running} : r \in Prepared(s, p)}

FollowUp(s) ==
    /\ \E o \in Outcomes(s, script) :
          session' = o.session /\ script' = o.script /\ view' = o.view
    /\ event' = "follow-up"
    /\ UNCHANGED <<player, rendered, alive>>

Submit == Ready /\ player.composer /\ FollowUp(session)

\* OPEN_COMPOSER, unless the composer is open: of a retry or a clarification.
Opened(s) == IF s.status = "composer-open" THEN {s}
             ELSE Accepted(s, [type |-> "OPEN_COMPOSER"])

Retry == /\ Ready /\ view = "failed"
         /\ \E s \in Opened(session) : FollowUp(s)

KeepCurrentBriefing ==
    /\ Ready /\ view = "clarification"
    /\ session' \in IF session.status = "composer-open"
                    THEN Accepted(session, [type |-> "CLOSE_COMPOSER"])
                    ELSE {session}
    /\ view' = "none"
    /\ event' = "other"
    /\ UNCHANGED <<script, player, rendered, alive>>

Clarify == /\ Ready /\ view = "clarification"
           /\ session' \in Opened(session)
           /\ view' = "none"
           /\ event' = "other"
           /\ UNCHANGED <<script, player, rendered, alive>>

Dismiss == /\ Ready /\ view # "none"
           /\ view' = "none"
           /\ event' = "other"
           /\ UNCHANGED <<session, script, player, rendered, alive>>

-----------------------------------------------------------------------------
(* Mounting *)

Init ==
    /\ session \in InitialSessions
    /\ script = session.script
    /\ player = NewPlayer
    /\ view = "none"
    /\ rendered = None
    /\ alive = TRUE
    /\ event = "other"

\* A reload, or another demo whose loading state was rendered.
Remount ==
    /\ session' \in InitialSessions
    /\ script' = session'.script
    /\ player' = NewPlayer
    /\ view' = "none"
    /\ rendered' = None
    /\ alive' = TRUE
    /\ event' = "other"

\* Another demo whose run ended before its loading state was rendered: the
\* controller takes the new session and script, the player stays mounted.
SwapDemo ==
    /\ Ready
    /\ session' \in InitialSessions
    /\ script' = session'.script
    /\ view' = "none"
    /\ event' = "other"
    /\ UNCHANGED <<player, rendered, alive>>

Next ==
    \/ Commit \/ GoNext \/ GoBack \/ CloseTransient \/ Replay
    \/ MapInteraction \/ KeepView \/ ReturnCamera
    \/ Start \/ End \/ Open \/ Close
    \/ Submit \/ Retry \/ KeepCurrentBriefing \/ Clarify \/ Dismiss
    \/ Remount \/ SwapDemo

Spec == Init /\ [][Next]_vars

-----------------------------------------------------------------------------
(* Properties *)

\* Session, presented script and player belong together: the session is bound to
\* the script that is shown, its cursor names the scene that script has at its
\* index, which no reducer checks, and once the effects have run the player counts
\* its scenes.  Between two events the session is not locked in a replan or in a
\* motion that nobody will complete (App.tsx:94).
SessionOnScript ==
    /\ session.script = script /\ OnScript(session)
    /\ Settled => player.count = Len(ScenesOf[script]) /\ player.index < player.count
    /\ session.operation = None
    /\ session.status \notin {"replanning", "scene-motion-running"}
    /\ session.manual.status # "returning-to-briefing"

\* Once the effects have run, a navigation of the player over a presented
\* briefing, also one in manual map view, has reached the session.
NavigationIsFollowed ==
    Settled /\ event = "navigated" => session.cursor.index = player.index

\* Every validated replacement the application can prepare is committed by the
\* reducer: a submitted follow-up never fails on the mapping or the schema.
ReplacementsCommit ==
    session.status = "composer-open" =>
        \A r \in Prepared(session, script) : \A u \in Replanning(session) :
            Completed(u, script, r.script, r.mapping) # {}

\* A follow-up without a replacement keeps script, question, cursor and manual
\* view; after a failure the session has left the composer for the status it
\* was opened over.
Briefing(s) == [script |-> s.script, question |-> s.question,
                cursor |-> s.cursor, manual |-> s.manual,
                viewport |-> s.viewport]

FollowedUp == event' = "follow-up" /\ rendered' = rendered

UnappliedKeepsBriefing ==
    [][FollowedUp /\ view' # "replaced"
       => /\ script' = script
          /\ Briefing(session') = Briefing(session)
          /\ view' = "failed" =>
                (session.status = "composer-open" =>
                   session'.status = session.resume)]_vars

=============================================================================
