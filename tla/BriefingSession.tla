--------------------------- MODULE BriefingSession ---------------------------
(***************************************************************************)
(* The life of one briefing session under the reducer: one action per      *)
(* command type (the session becomes what the reducer computed), and one   *)
(* for every command the reducer refuses or ignores as stale (the session  *)
(* stays).  Of the audit trail, the type and the operation id of the last  *)
(* accepted command are kept.                                              *)
(*                                                                         *)
(* "opened" is a history variable: the session, frozen while the composer  *)
(* is open or a replan runs.                                               *)
(***************************************************************************)
EXTENDS SessionReducer

CONSTANT CallersNameScenes
    \* TRUE: a navigation command names the scene that the bound script has at
    \* the index it carries, as the web player does.  FALSE: any scene.

ASSUME CallersAssumption == CallersNameScenes \in BOOLEAN

VARIABLES
    session,    \* the current session
    accepted,   \* command type of the last accepted audit record
    acted,      \* its operation id, when the command carries one
    opened      \* history: the session the composer was opened over

vars == <<session, accepted, acted, opened>>

-----------------------------------------------------------------------------

NamesScene(script, scene, index) ==
    index < Len(ScenesOf[script]) => scene = SceneAt(script, index)

\* The commands a caller may send to session s.
Sendable(s, c) ==
    CallersNameScenes =>
        /\ c.type \in Navigation => NamesScene(s.script, c.scene, c.index)
        /\ c.type = "REPLAY_BRIEFING" => c.scene = SceneAt(s.script, 0)

CommandTypes ==
    Navigation \cup
    {"START_BRIEFING", "REPLAY_SCENE_MOTION", "SCENE_MOTION_STARTED",
     "SCENE_MOTION_COMPLETED", "USER_MAP_INTERACTION_STARTED",
     "KEEP_MANUAL_VIEW", "RETURN_TO_BRIEFING_CAMERA", "OPEN_COMPOSER",
     "CLOSE_COMPOSER", "SUBMIT_FOLLOW_UP", "REPLAN_STARTED",
     "REPLAN_COMPLETED", "REPLAN_FAILED", "REPLAN_RESOLVED",
     "REPLAY_BRIEFING", "END_BRIEFING", "RESET_SESSION"}

\* The commands that carry the id of an operation.
Operating == {"REPLAY_SCENE_MOTION", "SCENE_MOTION_STARTED",
              "SCENE_MOTION_COMPLETED", "RETURN_TO_BRIEFING_CAMERA",
              "SUBMIT_FOLLOW_UP", "REPLAN_STARTED", "REPLAN_COMPLETED",
              "REPLAN_FAILED", "REPLAN_RESOLVED"}

ActsFor(c) == IF c.type \in Operating THEN c.operation ELSE None

CommandsOf == [type \in CommandTypes |-> {c \in Commands : c.type = type}]

Init ==
    /\ session \in InitialSessions
    /\ accepted = "none"
    /\ acted = None
    /\ opened = session

-----------------------------------------------------------------------------

Dispatch(type) ==
    \E c \in CommandsOf[type] :
        /\ Sendable(session, c)
        /\ session' \in Accepted(session, c)
        /\ accepted' = type
        /\ acted' = ActsFor(c)
        /\ opened' = IF Composing(session') THEN opened ELSE session'

Start == Dispatch("START_BRIEFING")
GoNext == Dispatch("NEXT_SCENE")
GoPrevious == Dispatch("PREVIOUS_SCENE")
GoTo == Dispatch("JUMP_TO_SCENE")
ReplayMotion == Dispatch("REPLAY_SCENE_MOTION")
StartMotion == Dispatch("SCENE_MOTION_STARTED")
MotionDone == Dispatch("SCENE_MOTION_COMPLETED")
UserMovesMap == Dispatch("USER_MAP_INTERACTION_STARTED")
KeepView == Dispatch("KEEP_MANUAL_VIEW")
ReturnCamera == Dispatch("RETURN_TO_BRIEFING_CAMERA")
Open == Dispatch("OPEN_COMPOSER")
Close == Dispatch("CLOSE_COMPOSER")
Submit == Dispatch("SUBMIT_FOLLOW_UP")
BeginReplan == Dispatch("REPLAN_STARTED")
CompleteReplan == Dispatch("REPLAN_COMPLETED")
FailReplan == Dispatch("REPLAN_FAILED")
ResolveReplan == Dispatch("REPLAN_RESOLVED")
Replay == Dispatch("REPLAY_BRIEFING")
End == Dispatch("END_BRIEFING")
Reset == Dispatch("RESET_SESSION")

\* A refused command, or one computed from an earlier session (its expected
\* fingerprint does not match), leaves the session as it was.
Refused ==
    /\ \E c \in Commands : Accepted(session, c) = {}
    /\ UNCHANGED vars

Next ==
    \/ Start \/ GoNext \/ GoPrevious \/ GoTo
    \/ ReplayMotion \/ StartMotion \/ MotionDone 
    \/ UserMovesMap \/ KeepView \/ ReturnCamera
    \/ Open \/ Close \/ Submit
    \/ BeginReplan \/ CompleteReplan \/ FailReplan \/ ResolveReplan
    \/ Replay \/ End \/ Reset \/ Refused

Spec == Init /\ [][Next]_vars

-----------------------------------------------------------------------------
(* Properties *)

\* The session satisfies its schema, also when a replacement is committed over
\* a map that is still returning to the briefing camera.
TypeOK ==
    /\ ValidSession(session)
    /\ accepted \in CommandTypes \cup {"none"}
    /\ opened \in Session

\* The parts of a session fit together, as far as the schema checks it and beyond:
\* a running operation belongs to what the session is doing, the status to return to
\* is kept while composing or replanning and no longer, the manual view agrees with
\* the status that is shown or returned to, and closing means the last scene
\* (session-reducer.ts:145).
SessionCoherent == SessionInv(session)

\* A failed replan can always return to the prior briefing state.
FailureCanAlwaysReturn == CanRollBack(session)

\* What a follow-up must not touch before its replacement is committed.
Briefing(s) == [script |-> s.script, question |-> s.question,
                cursor |-> s.cursor, manual |-> s.manual,
                viewport |-> s.viewport]

\* While the composer is open or a replan runs, the briefing below it is the
\* one it was opened over.
ComposerPreservesBriefing ==
    Composing(session) =>
        Briefing(session) = Briefing(opened)

\* The status the composer returns to when it is opened over session s.
Returning(s) == IF s.status = "scene-motion-running"
                THEN "presenting-scene" ELSE s.status

\* Cancelling the composer, a failed replan and an answer within the current
\* context all return to the status the composer was opened in, a running
\* motion being cancelled.
ReturnsToOpened ==
    [][accepted' # accepted
       /\ \/ accepted' \in {"CLOSE_COMPOSER", "REPLAN_FAILED"}
          \/ accepted' = "REPLAN_RESOLVED" /\ session'.status # "composer-open"
       => /\ Briefing(session') = Briefing(opened)
          /\ session'.status = Returning(opened)]_vars

\* What a replacement must leave behind: question, cursor and visited scenes
\* are all those of the bound script.
OnReplacement(s) ==
    /\ s.question = QuestionOf[s.script]
    /\ s.cursor.total = Len(ScenesOf[s.script])
    /\ s.cursor.sceneId = SceneAt(s.script, s.cursor.index)
    /\ Range(s.cursor.visited) \subseteq Range(ScenesOf[s.script])

\* An operation ends only by a command with its own id or by one of the viewer
\* that carries none, never by the late completion of an operation before it;
\* and the script changes only when the replan that owns the session completes,
\* and then question, cursor and visited scenes change with it.
OwnersAloneComplete ==
    [][/\ session.operation # None /\ session'.operation # session.operation
            => acted' \in {session.operation.id, None}
       /\ session'.script # session.script =>
            /\ session.operation # None /\ session.operation.kind = "replan"
            /\ acted' = session.operation.id
            /\ OnReplacement(session')]_vars

\* Every accepted command but RESET_SESSION keeps the cursor on the script.
OnlyResetLeavesTheScript ==
    [][OnScript(session) /\ ~OnScript(session') =>
         accepted' = "RESET_SESSION"]_vars

=============================================================================
