--------------------------- MODULE SessionProofs ----------------------------
(***************************************************************************)
(* The session under the reducer keeps the session invariant; a failed     *)
(* replan can therefore always roll back, and the composer never changes   *)
(* the briefing it was opened over.                                        *)
(*                                                                         *)
(* The repository under any number of clients, who interleave their reads, *)
(* reductions and saves in any order, keeps the stored session valid and   *)
(* implements AtomicSession: no update is lost.                            *)
(***************************************************************************)
EXTENDS BriefingSession, SessionStore, SessionReducerProofs

-----------------------------------------------------------------------------
(* Steps *)

\* What an accepted command c does to the variables.
Taken(c) == /\ session' \in Accepted(session, c)
            /\ accepted' = c.type
            /\ acted' = ActsFor(c)
            /\ opened' = IF Composing(session') THEN opened ELSE session'

\* A step is an accepted command that a caller may send, or changes nothing.
LEMMA StepIsSendable ==
    ASSUME [Next]_vars
    PROVE  \/ UNCHANGED vars
           \/ \E c \in Commands : Sendable(session, c) /\ Taken(c)
<1>1. ASSUME NEW type \in CommandTypes, Dispatch(type)
      PROVE  \E c \in Commands : Sendable(session, c) /\ Taken(c)
  BY <1>1 DEF Dispatch, CommandsOf, Taken
<1>2. CASE UNCHANGED vars
  BY <1>2
<1>3. CASE Start \/ GoNext \/ GoPrevious \/ GoTo \/ ReplayMotion \/ StartMotion
           \/ MotionDone \/ UserMovesMap \/ KeepView \/ ReturnCamera
  BY <1>1, <1>3 DEF Start, GoNext, GoPrevious, GoTo, ReplayMotion, StartMotion,
     MotionDone, UserMovesMap, KeepView, ReturnCamera, CommandTypes, Navigation
<1>4. CASE Open \/ Close \/ Submit \/ BeginReplan \/ CompleteReplan
           \/ FailReplan \/ ResolveReplan \/ Replay \/ End \/ Reset
  BY <1>1, <1>4 DEF Open, Close, Submit, BeginReplan, CompleteReplan,
     FailReplan, ResolveReplan, Replay, End, Reset, CommandTypes
<1>5. CASE Refused
  BY <1>5 DEF Refused
<1> QED
  BY <1>2, <1>3, <1>4, <1>5 DEF Next

\* So much as most proofs need.
LEMMA StepIsCommand ==
    ASSUME [Next]_vars
    PROVE  UNCHANGED vars \/ \E c \in Commands : Taken(c)
  BY StepIsSendable

-----------------------------------------------------------------------------
(* The session invariant *)

\* The session invariant holds in every state.
LEMMA SessionInvariant == Spec => []SessionInv(session)
<1>1. Init => SessionInv(session)
  BY InitialHolds DEF Init
<1>2. SessionInv(session) /\ [Next]_vars => SessionInv(session)'
  <2> SUFFICES ASSUME SessionInv(session), [Next]_vars
               PROVE  SessionInv(session')
    OBVIOUS
  <2>1. CASE UNCHANGED vars
    BY <2>1 DEF vars
  <2>2. CASE \E c \in Commands : Taken(c)
    BY <2>2, CommandKeeps DEF Taken
  <2> QED
    BY <2>1, <2>2, StepIsCommand
<1> QED
  BY <1>1, <1>2, PTL DEF Spec

\* Operation, remembered status, manual view and closing always fit the status.
THEOREM SessionIsCoherent == Spec => []SessionCoherent
<1>1. SessionInv(session) => SessionCoherent
  BY DEF SessionCoherent
<1> QED
  BY <1>1, SessionInvariant, PTL

-----------------------------------------------------------------------------
(* Rollback *)

\* A failed replan can return to the prior state from every reachable session.
THEOREM RollbackIsPossible == Spec => []FailureCanAlwaysReturn
<1>1. SessionInv(session) => FailureCanAlwaysReturn
  BY RollbackAccepted DEF FailureCanAlwaysReturn
<1> QED
  BY <1>1, SessionInvariant, PTL

-----------------------------------------------------------------------------
(* The composer and the briefing below it *)

\* Moving to a scene leaves the session presenting or closing.
LEMMA MoveShows ==
    ASSUME NEW s \in Session, NEW scene, NEW index,
           NEW u \in MoveToScene(s, scene, index)
    PROVE  u.status \in {"presenting-scene", "closing"}
<1>1. u.status = StatusAt(index, s.cursor.total)
  BY DEF MoveToScene, When, Session
<1> QED
  BY <1>1 DEF StatusAt

\* Every command but the four of the composer leaves the composer closed.
LEMMA OthersLeaveComposer ==
    ASSUME NEW s, SessionInv(s), NEW c \in Commands, NEW t \in Applied(s, c),
           c.type \notin {"OPEN_COMPOSER", "SUBMIT_FOLLOW_UP",
                          "REPLAN_STARTED", "REPLAN_RESOLVED"}
    PROVE  t.status \notin {"composer-open", "replanning"}
<1>1. s \in Session
  BY DEF SessionInv, ValidSession
<1>2. CASE c.type \in {"NEXT_SCENE", "PREVIOUS_SCENE", "JUMP_TO_SCENE"}
  <2>1. t \in MoveToScene(s, c.scene, c.index)
    BY <1>2 DEF Applied, NextScene, PreviousScene, JumpToScene
  <2> QED
    BY <1>1, <2>1, MoveShows
<1>3. CASE c.type = "REPLAY_BRIEFING"
  <2>1. t \in ReplayBriefing(s, c)
    BY <1>3 DEF Applied
  <2>2. PICK u \in MoveToScene(s, c.scene, 0) : t = [u EXCEPT !.composer = "compact"]
    BY <2>1 DEF ReplayBriefing
  <2>3. t.status = u.status
    BY <1>1, <2>2 DEF MoveToScene, When, Session
  <2> QED
    BY <1>1, <2>2, <2>3, MoveShows
<1>4. CASE c.type \in {"REPLAY_SCENE_MOTION", "SCENE_MOTION_STARTED"}
  <2>1. t \in SceneMotionStarted(s, c)
    BY <1>4 DEF Applied
  <2> QED
    BY <1>1, <2>1 DEF SceneMotionStarted, When, Session
<1>5. CASE c.type = "SCENE_MOTION_COMPLETED"
  <2>1. t \in SceneMotionCompleted(s, c)
    BY <1>5 DEF Applied
  <2> QED
    BY <1>1, <2>1 DEF SceneMotionCompleted, When, Session
<1>6. CASE c.type = "USER_MAP_INTERACTION_STARTED"
  <2>1. t \in UserMapInteractionStarted(s, c)
    BY <1>6 DEF Applied
  <2> QED
    BY <1>1, <2>1 DEF UserMapInteractionStarted, When, Session
<1>7. CASE c.type \in {"KEEP_MANUAL_VIEW", "RETURN_TO_BRIEFING_CAMERA"}
  <2>1. t \in KeepManualView(s) \cup ReturnToBriefingCamera(s, c)
    BY <1>7 DEF Applied
  <2>2. CASE t \in KeepManualView(s)
    BY <2>2 DEF KeepManualView, When
  <2>3. CASE t \in ReturnToBriefingCamera(s, c)
    <3>1. t.status = "scene-motion-running"
      BY <1>1, <2>3 DEF ReturnToBriefingCamera, When, Session
    <3> QED
      BY <3>1
  <2> QED
    BY <2>1, <2>2, <2>3
<1>8. CASE c.type \in {"CLOSE_COMPOSER", "REPLAN_FAILED"}
  <2>1. t \in CloseComposer(s) \cup ReplanFailed(s, c)
    BY <1>8 DEF Applied
  <2>2. t.status = ResumeOr(s, "briefing-ready")
    BY <1>1, <2>1 DEF CloseComposer, ReplanFailed, When, Session
  <2> QED
    BY <1>1, <2>2 DEF ResumeOr, Session, Returnable
<1>9. CASE c.type = "REPLAN_COMPLETED"
  <2>1. t \in ReplanCompleted(s, c)
    BY <1>9 DEF Applied
  <2>2. t = Replaced(s, c)
    BY <2>1 DEF ReplanCompleted, When
  <2> QED
    BY <1>1, <2>2 DEF Replaced, StatusAt, Session
<1>10. CASE c.type \in {"START_BRIEFING", "RESET_SESSION"}
  <2>1. t \in StartBriefing(s) \cup ResetSession(s)
    BY <1>10 DEF Applied
  <2> QED
    BY <1>1, <2>1 DEF StartBriefing, ResetSession, When, Session
<1>11. CASE c.type = "END_BRIEFING"
  <2>1. t \in EndBriefing(s)
    BY <1>11 DEF Applied
  <2> QED
    BY <1>1, <2>1 DEF EndBriefing, When, Session
<1> QED
  BY <1>2, <1>3, <1>4, <1>5, <1>6, <1>7, <1>8, <1>9, <1>10, <1>11
     DEF Commands, Navigation

\* A command that leaves the composer open, or opens it, leaves the briefing
\* alone, and remembers the status of the session it was opened over.
LEMMA ComposingKeepsBriefing ==
    ASSUME NEW s, SessionInv(s), NEW c \in Commands, NEW t \in Accepted(s, c),
           Composing(t)
    PROVE  /\ Briefing(t) = Briefing(s)
           /\ t.resume = IF Composing(s) THEN s.resume ELSE Returning(s)
<1>1. s \in Session /\ t \in Applied(s, c)
  BY DEF Accepted, SessionInv, ValidSession
<1>2. t.status \in {"composer-open", "replanning"}
  BY DEF Composing
<1>3. CASE c.type = "OPEN_COMPOSER"
  <2>1. t \in OpenComposer(s)
    BY <1>1, <1>3 DEF Applied
  <2>2. s.status \in Returnable /\ ~Composing(s)
    BY <2>1 DEF OpenComposer, When, Returnable, Composing
  <2>3. /\ t.script = s.script /\ t.question = s.question
        /\ t.cursor = s.cursor /\ t.manual = s.manual
        /\ t.viewport = s.viewport /\ t.resume = Returning(s)
    BY <1>1, <2>1 DEF OpenComposer, When, Session, Returning
  <2> QED
    BY <2>2, <2>3 DEF Briefing
<1>4. CASE c.type = "SUBMIT_FOLLOW_UP"
  <2>1. t \in SubmitFollowUp(s, c)
    BY <1>1, <1>4 DEF Applied
  <2>2. Composing(s)
    BY <2>1 DEF SubmitFollowUp, When, Composing
  <2>3. /\ t.script = s.script /\ t.question = s.question
        /\ t.cursor = s.cursor /\ t.manual = s.manual
        /\ t.viewport = s.viewport /\ t.resume = s.resume
    BY <1>1, <2>1 DEF SubmitFollowUp, When, Session
  <2> QED
    BY <2>2, <2>3 DEF Briefing
<1>5. CASE c.type = "REPLAN_STARTED"
  <2>1. t \in ReplanStarted(s, c)
    BY <1>1, <1>5 DEF Applied
  <2>2. Composing(s)
    BY <2>1 DEF ReplanStarted, When, Composing
  <2>3. /\ t.script = s.script /\ t.question = s.question
        /\ t.cursor = s.cursor /\ t.manual = s.manual
        /\ t.viewport = s.viewport /\ t.resume = s.resume
    BY <1>1, <2>1 DEF ReplanStarted, When, Session
  <2> QED
    BY <2>2, <2>3 DEF Briefing
<1>6. CASE c.type = "REPLAN_RESOLVED"
  <2>1. t \in ReplanResolved(s, c)
    BY <1>1, <1>6 DEF Applied
  <2>2. Composing(s)
    BY <2>1 DEF ReplanResolved, Composing
  <2>3. s.resume # None /\ s.resume \in Returnable
    BY <1>1, <2>2 DEF SessionInv, ResumeKept, Session
  <2>4. c.resolution # "answer"
    <3>1. SUFFICES ASSUME c.resolution = "answer" PROVE t.status = s.resume
      BY <1>2, <2>3, <3>1 DEF Returnable
    <3> QED
      BY <1>1, <2>1, <2>3, <3>1 DEF ReplanResolved, ResumeOr, Session
  <2>5. /\ t.script = s.script /\ t.question = s.question
        /\ t.cursor = s.cursor /\ t.manual = s.manual
        /\ t.viewport = s.viewport /\ t.resume = s.resume
    BY <1>1, <2>1, <2>4 DEF ReplanResolved, Session
  <2> QED
    BY <2>2, <2>5 DEF Briefing
<1>7. ASSUME c.type \notin {"OPEN_COMPOSER", "SUBMIT_FOLLOW_UP",
                            "REPLAN_STARTED", "REPLAN_RESOLVED"}
      PROVE  FALSE
  BY <1>1, <1>2, <1>7, OthersLeaveComposer
<1> QED
  BY <1>3, <1>4, <1>5, <1>6, <1>7

\* A command that leaves the composer for the briefing restores the remembered
\* status over an untouched briefing.
LEMMA LeavingRestores ==
    ASSUME NEW s, SessionInv(s), NEW c \in Commands, NEW t \in Accepted(s, c),
           \/ c.type \in {"CLOSE_COMPOSER", "REPLAN_FAILED"}
           \/ c.type = "REPLAN_RESOLVED" /\ t.status # "composer-open"
    PROVE  Composing(s) /\ Briefing(t) = Briefing(s) /\ t.status = s.resume
<1>1. s \in Session /\ t \in Applied(s, c)
  BY DEF Accepted, SessionInv, ValidSession
<1>2. t \in CloseComposer(s) \cup ReplanFailed(s, c) \cup ReplanResolved(s, c)
  BY <1>1 DEF Applied
<1>3. Composing(s)
  BY <1>2 DEF CloseComposer, ReplanFailed, ReplanResolved, When, Composing
<1>4. s.resume # None
  BY <1>3 DEF SessionInv, ResumeKept
<1>5. CASE t \in CloseComposer(s) \cup ReplanFailed(s, c)
  <2>1. /\ t.script = s.script /\ t.question = s.question
        /\ t.cursor = s.cursor /\ t.manual = s.manual
        /\ t.viewport = s.viewport /\ t.status = s.resume
    BY <1>1, <1>4, <1>5 DEF CloseComposer, ReplanFailed, When, ResumeOr, Session
  <2> QED
    BY <1>3, <2>1 DEF Briefing
<1>6. CASE t \in ReplanResolved(s, c) /\ t.status # "composer-open"
  <2>1. c.resolution = "answer"
    BY <1>1, <1>6 DEF ReplanResolved, Session
  <2>2. /\ t.script = s.script /\ t.question = s.question
        /\ t.cursor = s.cursor /\ t.manual = s.manual
        /\ t.viewport = s.viewport /\ t.status = s.resume
    BY <1>1, <1>4, <1>6, <2>1 DEF ReplanResolved, ResumeOr, Session
  <2> QED
    BY <1>3, <2>2 DEF Briefing
<1>7. CASE c.type \in {"CLOSE_COMPOSER", "REPLAN_FAILED"}
  <2>1. t \in CloseComposer(s) \cup ReplanFailed(s, c)
    BY <1>1, <1>7 DEF Applied
  <2> QED
    BY <1>5, <2>1
<1>8. CASE c.type = "REPLAN_RESOLVED" /\ t.status # "composer-open"
  <2>1. t \in ReplanResolved(s, c)
    BY <1>1, <1>8 DEF Applied
  <2> QED
    BY <1>6, <1>8, <2>1
<1> QED
  BY <1>7, <1>8

\* The history variable freezes the session the composer was opened over.
OpenedInv ==
    /\ opened \in Session
    /\ ~Composing(session) => opened = session
    /\ Composing(session) =>
          /\ Briefing(session) = Briefing(opened)
          /\ session.resume = Returning(opened)

\* The session and its history, with the type of the last accepted command.
ComposerInv ==
    /\ SessionInv(session)
    /\ OpenedInv
    /\ accepted \in CommandTypes \cup {"none"}

\* A composer starts on the session it opened, and is not composing.
LEMMA InitComposer == Init => ComposerInv
<1> SUFFICES ASSUME Init PROVE ComposerInv
  OBVIOUS
<1>1. SessionInv(session) /\ opened = session
  BY InitialHolds DEF Init
<1>2. ~Composing(session)
  BY DEF Init, InitialSessions, InitialSession, Composing
<1> QED
  BY <1>1, <1>2 DEF Init, ComposerInv, OpenedInv, SessionInv, ValidSession

\* One command keeps the session, and its history, in order.
LEMMA CommandComposer ==
    ASSUME ComposerInv, NEW c \in Commands, Taken(c)
    PROVE  ComposerInv'
<1>1. SessionInv(session) /\ session' \in Accepted(session, c)
  BY DEF ComposerInv, Taken
<1>2. SessionInv(session')
  BY <1>1, CommandKeeps
<1>3. accepted' \in CommandTypes
  BY DEF Taken, Commands, CommandTypes, Navigation
<1>4. CASE ~Composing(session')
  <2>1. opened' = session'
    BY <1>4 DEF Taken
  <2>2. opened' \in Session
    BY <1>2, <2>1 DEF SessionInv, ValidSession
  <2> QED
    BY <1>2, <1>3, <1>4, <2>1, <2>2 DEF ComposerInv, OpenedInv
<1>5. CASE Composing(session')
  <2>1. opened' = opened
    BY <1>5 DEF Taken
  <2>2. /\ Briefing(session') = Briefing(session)
        /\ session'.resume = IF Composing(session) THEN session.resume
                             ELSE Returning(session)
    BY <1>1, <1>5, ComposingKeepsBriefing
  <2>3. /\ Briefing(session) = Briefing(opened)
        /\ (IF Composing(session) THEN session.resume
            ELSE Returning(session)) = Returning(opened)
    BY DEF ComposerInv, OpenedInv
  <2>4. /\ Briefing(session)' = Briefing(opened)'
        /\ session'.resume = Returning(opened)'
    BY <2>1, <2>2, <2>3 DEF Briefing, Returning
  <2> QED
    BY <1>2, <1>3, <1>5, <2>1, <2>4 DEF ComposerInv, OpenedInv
<1> QED
  BY <1>4, <1>5

\* The invariant of the composer holds in every behaviour.
LEMMA ComposerInvariant == Spec => []ComposerInv
<1>1. ComposerInv /\ [Next]_vars => ComposerInv'
  <2> SUFFICES ASSUME ComposerInv, [Next]_vars PROVE ComposerInv'
    OBVIOUS
  <2>1. CASE UNCHANGED vars
    BY <2>1 DEF vars, ComposerInv, OpenedInv
  <2>2. CASE \E c \in Commands : Taken(c)
    BY <2>2, CommandComposer
  <2> QED
    BY <2>1, <2>2, StepIsCommand
<1> QED
  BY <1>1, InitComposer, PTL DEF Spec

\* Every state is typed.
THEOREM TypeCorrect == Spec => []TypeOK
<1>1. ComposerInv => TypeOK
  BY DEF ComposerInv, OpenedInv, SessionInv, ValidSession, TypeOK
<1> QED
  BY <1>1, ComposerInvariant, PTL

\* Until a replacement is committed, the composer leaves the briefing alone.
THEOREM ComposerIsHarmless == Spec => []ComposerPreservesBriefing
<1>1. ComposerInv => ComposerPreservesBriefing
  BY DEF ComposerInv, OpenedInv, ComposerPreservesBriefing
<1> QED
  BY <1>1, ComposerInvariant, PTL

\* Cancelling, failing and answering return to what the composer was opened on.
THEOREM ComposerReturns == Spec => ReturnsToOpened
<1>1. ComposerInv /\ [Next]_vars =>
        [accepted' # accepted
           /\ \/ accepted' \in {"CLOSE_COMPOSER", "REPLAN_FAILED"}
              \/ accepted' = "REPLAN_RESOLVED"
                 /\ session'.status # "composer-open"
         => /\ Briefing(session') = Briefing(opened)
            /\ session'.status = Returning(opened)]_vars
  <2> SUFFICES
        ASSUME ComposerInv, [Next]_vars, accepted' # accepted,
               \/ accepted' \in {"CLOSE_COMPOSER", "REPLAN_FAILED"}
               \/ accepted' = "REPLAN_RESOLVED"
                  /\ session'.status # "composer-open"
        PROVE  /\ Briefing(session') = Briefing(opened)
               /\ session'.status = Returning(opened)
    OBVIOUS
  <2>1. PICK c \in Commands : Taken(c)
    BY StepIsCommand DEF vars
  <2>2. /\ Composing(session) /\ Briefing(session') = Briefing(session)
        /\ session'.status = session.resume
    BY <2>1, LeavingRestores DEF Taken, ComposerInv
  <2> QED
    BY <2>2 DEF ComposerInv, OpenedInv
<1> QED
  BY <1>1, ComposerInvariant, PTL DEF Spec, ReturnsToOpened

-----------------------------------------------------------------------------
(* The scene shown *)

\* Commands that may move the scene.
Moving == Navigation \cup {"REPLAY_BRIEFING", "REPLAN_COMPLETED",
                           "RESET_SESSION"}

\* Every other command keeps the cursor and the script.
LEMMA OthersKeepScene ==
    ASSUME NEW s \in Session, NEW c \in Commands, NEW t \in Applied(s, c),
           c.type \notin Moving
    PROVE  t.cursor = s.cursor /\ t.script = s.script
<1>1. CASE c.type \in {"START_BRIEFING", "KEEP_MANUAL_VIEW", "END_BRIEFING"}
  <2>1. t \in StartBriefing(s) \cup KeepManualView(s) \cup EndBriefing(s)
    BY <1>1 DEF Applied
  <2> QED
    BY <2>1 DEF StartBriefing, KeepManualView, EndBriefing, When, Session
<1>2. CASE c.type \in {"REPLAY_SCENE_MOTION", "SCENE_MOTION_STARTED",
                       "SCENE_MOTION_COMPLETED"}
  <2>1. t \in SceneMotionStarted(s, c) \cup SceneMotionCompleted(s, c)
    BY <1>2 DEF Applied
  <2> QED
    BY <2>1 DEF SceneMotionStarted, SceneMotionCompleted, When, Session
<1>3. CASE c.type \in {"USER_MAP_INTERACTION_STARTED",
                       "RETURN_TO_BRIEFING_CAMERA"}
  <2>1. t \in UserMapInteractionStarted(s, c) \cup ReturnToBriefingCamera(s, c)
    BY <1>3 DEF Applied
  <2> QED
    BY <2>1 DEF UserMapInteractionStarted, ReturnToBriefingCamera, When, Session
<1>4. CASE c.type \in {"OPEN_COMPOSER", "CLOSE_COMPOSER"}
  <2>1. t \in OpenComposer(s) \cup CloseComposer(s)
    BY <1>4 DEF Applied
  <2> QED
    BY <2>1 DEF OpenComposer, CloseComposer, When, Session
<1>5. CASE c.type \in {"SUBMIT_FOLLOW_UP", "REPLAN_STARTED", "REPLAN_FAILED"}
  <2>1. t \in SubmitFollowUp(s, c) \cup ReplanStarted(s, c) \cup ReplanFailed(s, c)
    BY <1>5 DEF Applied
  <2> QED
    BY <2>1 DEF SubmitFollowUp, ReplanStarted, ReplanFailed, When, Session
<1>6. CASE c.type = "REPLAN_RESOLVED"
  <2>1. t \in ReplanResolved(s, c)
    BY <1>6 DEF Applied
  <2> QED
    BY <2>1 DEF ReplanResolved, Session
<1> QED
  BY <1>1, <1>2, <1>3, <1>4, <1>5, <1>6 DEF Commands, Moving, Navigation

\* Motion, map and composer leave the viewer in the scene they are in.
OnlyNavigationMovesTheScene ==
    [][session'.cursor # session.cursor => accepted' \in Moving]_vars

\* The scene moves only by navigation, a committed replacement or a reset
\* (session-reducer.ts, applyCommand).
THEOREM SceneMovesExplicitly == Spec => OnlyNavigationMovesTheScene
<1>1. SessionInv(session) /\ [Next]_vars =>
        [session'.cursor # session.cursor => accepted' \in Moving]_vars
  <2> SUFFICES ASSUME SessionInv(session), [Next]_vars,
                      session'.cursor # session.cursor
               PROVE  accepted' \in Moving
    OBVIOUS
  <2>1. PICK c \in Commands : Taken(c)
    BY StepIsCommand DEF vars
  <2>2. session' \in Applied(session, c) /\ accepted' = c.type
    BY <2>1 DEF Taken, Accepted
  <2>3. session \in Session
    BY DEF SessionInv, ValidSession
  <2> QED
    BY <2>2, <2>3, OthersKeepScene
<1> QED
  BY <1>1, SessionInvariant, PTL DEF Spec, OnlyNavigationMovesTheScene

\* Only a committed replacement changes the script.
LEMMA OthersKeepScript ==
    ASSUME NEW s \in Session, NEW c \in Commands, NEW t \in Applied(s, c),
           c.type # "REPLAN_COMPLETED"
    PROVE  t.script = s.script
<1>1. CASE c.type \notin Moving
  BY <1>1, OthersKeepScene
<1>2. CASE c.type \in Navigation
  <2>1. t \in MoveToScene(s, c.scene, c.index)
    BY <1>2 DEF Applied, Navigation, NextScene, PreviousScene, JumpToScene
  <2> QED
    BY <2>1 DEF MoveToScene, When, Session
<1>3. CASE c.type = "REPLAY_BRIEFING"
  <2>1. t \in ReplayBriefing(s, c)
    BY <1>3 DEF Applied
  <2>2. PICK u \in MoveToScene(s, c.scene, 0) : t = [u EXCEPT !.composer = "compact"]
    BY <2>1 DEF ReplayBriefing
  <2> QED
    BY <2>2 DEF MoveToScene, When, Session
<1>4. CASE c.type = "RESET_SESSION"
  <2>1. t \in ResetSession(s)
    BY <1>4 DEF Applied
  <2> QED
    BY <2>1 DEF ResetSession, Session
<1> QED
  BY <1>1, <1>2, <1>3, <1>4 DEF Moving

\* A command that ends or changes a running operation carries its id, or none.
LEMMA OwnersEnd ==
    ASSUME NEW s, SessionInv(s), NEW c \in Commands, NEW t \in Applied(s, c),
           s.operation # None, t.operation # s.operation
    PROVE  ActsFor(c) \in {s.operation.id, None}
<1>1. s \in Session
  BY DEF SessionInv, ValidSession
<1>2. s.status \in {"replanning", "scene-motion-running"}
  BY <1>1 DEF SessionInv, OperationBelongs, Session, Operation, MotionKinds,
              FollowUpKinds
<1>3. CASE c.type \in {"REPLAY_SCENE_MOTION", "SCENE_MOTION_STARTED",
                       "SCENE_MOTION_COMPLETED"}
  <2>1. t \in SceneMotionStarted(s, c) \cup SceneMotionCompleted(s, c)
    BY <1>3 DEF Applied
  <2>2. Owns(s, c.operation)
    BY <2>1 DEF SceneMotionStarted, SceneMotionCompleted, When
  <2> QED
    BY <1>3, <2>2 DEF Owns, ActsFor, Operating
<1>4. CASE c.type \in {"RETURN_TO_BRIEFING_CAMERA", "SUBMIT_FOLLOW_UP"}
  <2>1. t \in ReturnToBriefingCamera(s, c) \cup SubmitFollowUp(s, c)
    BY <1>4 DEF Applied
  <2> QED
    BY <1>2, <2>1 DEF ReturnToBriefingCamera, SubmitFollowUp, When
<1>5. CASE c.type \in {"REPLAN_STARTED", "REPLAN_FAILED"}
  <2>1. t \in ReplanStarted(s, c) \cup ReplanFailed(s, c)
    BY <1>5 DEF Applied
  <2>2. Owns(s, c.operation)
    BY <2>1 DEF ReplanStarted, ReplanFailed, When
  <2> QED
    BY <1>5, <2>2 DEF Owns, ActsFor, Operating
<1>6. CASE c.type = "REPLAN_COMPLETED"
  <2>1. Owns(s, c.operation)
    BY <1>6 DEF Applied, ReplanCompleted, CanReplace, When
  <2> QED
    BY <1>6, <2>1 DEF Owns, ActsFor, Operating
<1>7. CASE c.type = "REPLAN_RESOLVED"
  <2>1. Owns(s, c.operation)
    BY <1>7 DEF Applied, ReplanResolved
  <2> QED
    BY <1>7, <2>1 DEF Owns, ActsFor, Operating
<1>8. CASE c.type \notin Operating
  BY <1>8 DEF ActsFor
<1> QED
  BY <1>3, <1>4, <1>5, <1>6, <1>7, <1>8 DEF Operating

\* The script is replaced by the replan that owns the session, with question,
\* cursor and visited scenes (session-reducer.ts, completeReplan).
LEMMA ReplacementMovesAll ==
    ASSUME NEW s, SessionInv(s), NEW c \in Commands, NEW t \in Applied(s, c),
           t.script # s.script
    PROVE  /\ s.operation # None /\ s.operation.kind = "replan"
           /\ ActsFor(c) = s.operation.id
           /\ OnReplacement(t)
<1>1. s \in Session /\ IsInjective(s.cursor.visited)
  BY DEF SessionInv, ValidSession, ValidCursor
<1>2. c.type = "REPLAN_COMPLETED"
  BY <1>1, OthersKeepScript
<1>3. CanReplace(s, c) /\ t = Replaced(s, c)
  BY <1>2 DEF Applied, ReplanCompleted, When
<1>4. /\ c.script \in Scripts /\ Strategic(c.mapping)
      /\ MappingResolves(s, c.mapping, ScenesOf[c.script])
  BY <1>2, <1>3, MappingsAreStrategic DEF Commands, Navigation, CanReplace
<1>5. /\ t.script = c.script /\ t.question = QuestionOf[c.script] /\ OnScript(t)
      /\ Range(t.cursor.visited) \subseteq Range(ScenesOf[c.script])
  BY <1>1, <1>3, <1>4, ReplacedOnScript
<1>6. OnReplacement(t)
  BY <1>5 DEF OnReplacement, OnScript
<1> QED
  BY <1>2, <1>3, <1>6 DEF CanReplace, Owns, ActsFor, Operating

\* Every operation ends by its own id or by the viewer, and every replacement
\* of the script is the completion of the replan that owns the session.
THEOREM CompletionsAreOwned == Spec => OwnersAloneComplete
<1>1. SessionInv(session) /\ [Next]_vars =>
        [/\ session.operation # None /\ session'.operation # session.operation
              => acted' \in {session.operation.id, None}
         /\ session'.script # session.script =>
              /\ session.operation # None /\ session.operation.kind = "replan"
              /\ acted' = session.operation.id
              /\ OnReplacement(session')]_vars
  <2> SUFFICES ASSUME SessionInv(session), [Next]_vars, ~UNCHANGED vars
               PROVE  /\ (/\ session.operation # None
                          /\ session'.operation # session.operation)
                         => acted' \in {session.operation.id, None}
                      /\ session'.script # session.script =>
                         /\ session.operation # None
                         /\ session.operation.kind = "replan"
                         /\ acted' = session.operation.id
                         /\ OnReplacement(session')
    OBVIOUS
  <2>1. PICK c \in Commands : Taken(c)
    BY StepIsCommand
  <2>2. session' \in Applied(session, c) /\ acted' = ActsFor(c)
    BY <2>1 DEF Taken, Accepted
  <2> QED
    BY <2>2, OwnersEnd, ReplacementMovesAll
<1> QED
  BY <1>1, SessionInvariant, PTL DEF Spec, OwnersAloneComplete

\* A move to a scene of the script, at its index, stays on the script.
LEMMA MoveOnScript ==
    ASSUME NEW s \in Session, OnScript(s), NEW scene, NEW index,
           NEW t \in MoveToScene(s, scene, index),
           NamesScene(s.script, scene, index)
    PROVE  OnScript(t)
<1>1. /\ index < s.cursor.total
      /\ t.script = s.script
      /\ t.cursor = [s.cursor EXCEPT !.sceneId = scene, !.index = index,
                                    !.visited = Visit(@, scene)]
  BY DEF MoveToScene, When, Session
<1>2. s.cursor \in Cursor
  BY DEF Session
<1>3. /\ t.cursor.total = s.cursor.total /\ t.cursor.index = index
      /\ t.cursor.sceneId = scene
  BY <1>1, <1>2 DEF Cursor
<1> QED
  BY <1>1, <1>3 DEF OnScript, NamesScene

\* When callers name the scene at the index they send, every command but a
\* reset keeps the cursor on the script.
LEMMA CommandOnScript ==
    ASSUME CallersNameScenes, NEW s \in Session, OnScript(s), NEW c \in Commands,
           Sendable(s, c), NEW t \in Applied(s, c), c.type # "RESET_SESSION"
    PROVE  OnScript(t)
<1>1. CASE c.type \notin Moving
  BY <1>1, OthersKeepScene DEF OnScript
<1>2. CASE c.type \in Navigation
  <2>1. t \in MoveToScene(s, c.scene, c.index)
    BY <1>2 DEF Applied, Navigation, NextScene, PreviousScene, JumpToScene
  <2> QED
    BY <1>2, <2>1, MoveOnScript DEF Sendable
<1>3. CASE c.type = "REPLAY_BRIEFING"
  <2>1. t \in ReplayBriefing(s, c)
    BY <1>3 DEF Applied
  <2>2. PICK u \in MoveToScene(s, c.scene, 0) : t = [u EXCEPT !.composer = "compact"]
    BY <2>1 DEF ReplayBriefing
  <2>3. OnScript(u)
    BY <1>3, <2>2, MoveOnScript DEF Sendable, NamesScene
  <2>4. t.cursor = u.cursor /\ t.script = u.script
    BY <2>2 DEF MoveToScene, When, Session
  <2> QED
    BY <2>3, <2>4 DEF OnScript
<1>4. CASE c.type = "REPLAN_COMPLETED"
  <2>1. t \in ReplanCompleted(s, c)
    BY <1>4 DEF Applied
  <2>2. t = Replaced(s, c)
    BY <2>1 DEF ReplanCompleted, When
  <2> DEFINE index == TargetIndex(s, c.mapping, ScenesOf[c.script])
  <2>3. /\ t.script = c.script /\ t.cursor.index = index
        /\ t.cursor.total = Len(ScenesOf[c.script])
        /\ t.cursor.sceneId = ScenesOf[c.script][index + 1]
    BY <2>2 DEF Replaced, Session
  <2> QED
    BY <2>3 DEF OnScript, SceneAt
<1> QED
  BY <1>1, <1>2, <1>3, <1>4 DEF Moving

\* When callers name the scene at the index they send, only a reset can leave
\* the cursor on a scene that the bound script does not have at its index.
THEOREM ResetAloneLeavesTheScript ==
    ASSUME CallersNameScenes
    PROVE  Spec => OnlyResetLeavesTheScript
<1>1. SessionInv(session) /\ [Next]_vars =>
        [OnScript(session) /\ ~OnScript(session') =>
           accepted' = "RESET_SESSION"]_vars
  <2> SUFFICES ASSUME SessionInv(session), [Next]_vars,
                      OnScript(session), ~OnScript(session')
               PROVE  accepted' = "RESET_SESSION"
    OBVIOUS
  <2>1. ~UNCHANGED vars
    BY DEF vars
  <2>2. PICK c \in Commands : Sendable(session, c) /\ Taken(c)
    BY <2>1, StepIsSendable
  <2>3. session' \in Applied(session, c) /\ accepted' = c.type
    BY <2>2 DEF Taken, Accepted
  <2>4. session \in Session
    BY DEF SessionInv, ValidSession
  <2> QED
    BY <2>2, <2>3, <2>4, CommandOnScript
<1> QED
  BY <1>1, SessionInvariant, PTL DEF Spec, OnlyResetLeavesTheScript

-----------------------------------------------------------------------------
(* The repository *)

\* A valid session is a record.
LEMMA ValidIsSession ==
    ASSUME NEW s, SessionInv(s) PROVE s \in Session /\ s # None
BY ConstantsAssumption DEF SessionInv, ValidSession

\* What some command makes of a valid session is valid.
LEMMA NextIsValid ==
    ASSUME NEW s, SessionInv(s), NEW t \in NextSessions(s)
    PROVE  SessionInv(t)
BY CommandKeeps DEF NextSessions

\* Nothing is saved, and nobody saves.
LEMMA InitStore == StoreInit => StoreInv
<1> SUFFICES ASSUME StoreInit PROVE StoreInv
  OBVIOUS
<1>1. Idle \in Holding /\ HoldsValid(Idle)
  BY DEF Idle, Holding, HoldsValid
<1> QED
  BY <1>1 DEF StoreInit, StoreInv, StoreTypeOK

\* A step that changes only what client k holds, to something valid.
LEMMA ClientStep ==
    ASSUME StoreInv, NEW k \in Clients, NEW h \in Holding, HoldsValid(h),
           client' = [client EXCEPT ![k] = h],
           stored' \in Session \cup {None}, stored' # None => SessionInv(stored')
    PROVE  StoreInv'
<1>1. client' \in [Clients -> Holding]
  BY DEF StoreInv, StoreTypeOK
<1>2. \A j \in Clients : HoldsValid(client'[j])
  BY DEF StoreInv, StoreTypeOK
<1>3. StoreTypeOK'
  BY <1>1 DEF StoreTypeOK
<1> QED
  BY <1>2, <1>3 DEF StoreInv, HoldsValid, Idle

\* Every step keeps the invariant, and changes the stored session as
\* AtomicSession allows, or not at all.
LEMMA StoreStep ==
    ASSUME StoreInv, [StoreNext]_storeVars
    PROVE  StoreInv' /\ [Atomic!Next]_stored
<1>1. /\ stored \in Session \cup {None}
      /\ stored # None => SessionInv(stored)
      /\ client \in [Clients -> Holding]
      /\ \A k \in Clients : HoldsValid(client[k])
  BY DEF StoreInv, StoreTypeOK
<1>2. Idle \in Holding /\ HoldsValid(Idle)
  BY DEF Idle, Holding, HoldsValid
<1>3. CASE UNCHANGED storeVars
  BY <1>3 DEF storeVars, StoreInv, StoreTypeOK
<1>4. ASSUME NEW k \in Clients, Create(k)
      PROVE  StoreInv' /\ [Atomic!Next]_stored
  <2>1. /\ client' = client
        /\ \/ stored' = stored
           \/ stored = None /\ stored' \in InitialSessions
    BY <1>4 DEF Create
  <2>2. stored' \in Session \cup {None} /\ (stored' # None => SessionInv(stored'))
    BY <1>1, <2>1, InitialHolds, ValidIsSession
  <2>3. StoreInv'
    BY <1>1, <2>1, <2>2 DEF StoreInv, StoreTypeOK
  <2> QED
    BY <2>1, <2>3 DEF Atomic!Next, Atomic!Create
<1>5. ASSUME NEW k \in Clients, GetById(k)
      PROVE  StoreInv' /\ stored' = stored
  <2> DEFINE h == [phase |-> "read", read |-> stored, next |-> None]
  <2>1. h \in Holding /\ HoldsValid(h)
    BY <1>1, <1>5 DEF GetById, Holding, HoldsValid
  <2> QED
    BY <1>1, <1>5, <2>1, ClientStep DEF GetById
<1>6. ASSUME NEW k \in Clients, Reduce(k)
      PROVE  StoreInv' /\ stored' = stored
  <2>1. client[k] \in Holding /\ client[k].phase = "read" /\ stored' = stored
    BY <1>1, <1>6 DEF Reduce
  <2>2. SessionInv(client[k].read)
    BY <1>1, <2>1 DEF HoldsValid
  <2>3. CASE client' = [client EXCEPT ![k] = Idle]
    BY <1>1, <1>2, <2>1, <2>3, ClientStep
  <2>4. CASE \E c \in ClientCommands : \E t \in Accepted(client[k].read, c) :
                client' = [client EXCEPT ![k] =
                           [phase |-> "reduced", read |-> @.read, next |-> t]]
    <3>1. PICK t \in NextSessions(client[k].read) :
             client' = [client EXCEPT ![k] =
                           [phase |-> "reduced", read |-> @.read, next |-> t]]
      BY <2>4, ClientCommandsAssumption DEF NextSessions
    <3>3. PICK h : h = [phase |-> "reduced", read |-> client[k].read, next |-> t]
      OBVIOUS
    <3>2. client' = [client EXCEPT ![k] = h]
      BY <1>1, <2>1, <3>1, <3>3 DEF Holding
    <3>4. h \in Holding /\ HoldsValid(h)
      BY <2>1, <2>2, <3>1, <3>3, NextIsValid, ValidIsSession
         DEF Holding, HoldsValid
    <3> QED
      BY <1>1, <2>1, <3>2, <3>4, ClientStep
  <2> QED
    BY <1>6, <2>3, <2>4 DEF Reduce
<1>7. ASSUME NEW k \in Clients, Save(k)
      PROVE  StoreInv' /\ [Atomic!Next]_stored
  <2>1. /\ client' = [client EXCEPT ![k] = Idle]
        /\ client[k].next \in NextSessions(client[k].read)
        /\ SessionInv(client[k].read)
    BY <1>1, <1>7 DEF Save, HoldsValid
  <2>2. CASE MaySave(client[k].read)
    <3>1. /\ stored # None /\ stored = client[k].read
          /\ stored' = client[k].next
      BY <1>7, <2>2 DEF Save, MaySave
    <3>2. SessionInv(stored') /\ stored' \in Session
      BY <2>1, <3>1, NextIsValid, ValidIsSession
    <3>3. Atomic!Next
      BY <2>1, <3>1 DEF Atomic!Next, Atomic!Command
    <3> QED
      BY <1>2, <2>1, <3>2, <3>3, ClientStep
  <2>3. CASE ~MaySave(client[k].read)
    BY <1>1, <1>2, <1>7, <2>1, <2>3, ClientStep DEF Save
  <2> QED
    BY <2>2, <2>3
<1>8. ASSUME NEW k \in Clients, GiveUp(k)
      PROVE  StoreInv' /\ stored' = stored
  BY <1>1, <1>2, <1>8, ClientStep DEF GiveUp
<1> QED
  BY <1>3, <1>4, <1>5, <1>6, <1>7, <1>8 DEF StoreNext

\* The stored session, and every copy a client holds, stays valid.
THEOREM StoreIsValid == StoreSpec => []StoreInv
<1> QED
  BY InitStore, StoreStep, PTL DEF StoreSpec

\* The repository implements AtomicSession, whatever its clients interleave.
THEOREM StoreIsAtomic == StoreSpec => ImplementsAtomicSession
<1>1. StoreInit => Atomic!Init
  BY DEF StoreInit, Atomic!Init
<1> QED
  BY <1>1, InitStore, StoreStep, PTL DEF StoreSpec, ImplementsAtomicSession, Atomic!Spec
=============================================================================
