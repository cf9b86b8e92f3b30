------------------------- MODULE SessionReducerProofs -------------------------
(***************************************************************************)
(* One accepted command preserves the session invariant, for every set of  *)
(* scenes, scripts, operations and viewports, and creation establishes it: *)
(* the lemmas under the theorems about the session and its repository.     *)
(***************************************************************************)
EXTENDS SessionReducer, WellFoundedInduction, TLAPS

USE DEF When

\* What a command leaves of the invariant beyond the schema.
Kept(t) == OperationBelongs(t) /\ ResumeKept(t) /\ ManualCoherent(t)
           /\ ClosingAtEnd(t)

\* Moving to another scene ends what was running and leaves the manual view.
LEMMA MoveKeeps ==
    ASSUME NEW s, SessionInv(s), ~Composing(s),
           NEW scene, NEW index, NEW t \in MoveToScene(s, scene, index)
    PROVE  Kept(t)
<1>1. s \in Session
  BY DEF SessionInv, ValidSession
<1>2. s.resume = None
  BY DEF SessionInv, ResumeKept
<1>3. /\ t.status = StatusAt(index, s.cursor.total)
      /\ t.cursor.index = index
      /\ t.cursor.total = s.cursor.total
      /\ t.manual = ManualInactive
      /\ t.viewport = None
      /\ t.operation = None
      /\ t.resume = None
  <2>1. t = [s EXCEPT !.cursor.sceneId = scene,
                      !.cursor.index = index,
                      !.cursor.visited = Visit(s.cursor.visited, scene),
                      !.status = StatusAt(index, s.cursor.total),
                      !.manual = ManualInactive,
                      !.viewport = None,
                      !.operation = None]
    BY DEF MoveToScene
  <2>2. t.status = StatusAt(index, s.cursor.total)
    BY <1>1, <2>1 DEF Session
  <2>3. t.cursor.index = index /\ t.cursor.total = s.cursor.total
    BY <1>1, <2>1 DEF Session, Cursor
  <2>4. t.manual = ManualInactive /\ t.viewport = None /\ t.operation = None
    BY <1>1, <2>1 DEF Session
  <2>5. t.resume = None
    BY <1>1, <1>2, <2>1 DEF Session
  <2> QED
    BY <2>2, <2>3, <2>4, <2>5
<1>4. t.status \in {"closing", "presenting-scene"}
      /\ (t.status = "closing" => t.cursor.index = t.cursor.total - 1)
  BY <1>3 DEF StatusAt
<1>5. None # "scene-motion-running"
  BY ConstantsAssumption DEF Returnable
<1> QED
  BY <1>3, <1>4, <1>5 DEF Kept, OperationBelongs, ResumeKept, ManualCoherent,
     ClosingAtEnd, Composing, Underlying, ManualInactive

\* Starting shows the current scene and changes nothing else.
LEMMA StartKeeps ==
    ASSUME NEW s, SessionInv(s), NEW t \in StartBriefing(s)
    PROVE  Kept(t)
<1>1. s \in Session /\ s.status \in {"exploration", "briefing-ready"}
  BY DEF StartBriefing, SessionInv, ValidSession
<1>2. /\ t.status = "presenting-scene" /\ t.operation = s.operation
      /\ t.resume = s.resume /\ t.manual = s.manual /\ t.viewport = s.viewport
  BY <1>1 DEF StartBriefing, Session
<1> QED
  BY <1>1, <1>2 DEF SessionInv, Kept, OperationBelongs, ResumeKept,
     ManualCoherent, ClosingAtEnd, Composing, Underlying

\* A motion started or replayed owns the session and aims at its scene.
LEMMA MotionStartKeeps ==
    ASSUME NEW s, SessionInv(s), NEW c, NEW t \in SceneMotionStarted(s, c),
           c.operation \in OperationIds
    PROVE  Kept(t)
<1>1. s \in Session /\ s.status \in {"presenting-scene", "scene-motion-running"}
  BY DEF SceneMotionStarted, SessionInv, ValidSession
<1>2. /\ t.status = "scene-motion-running" /\ t.cursor = s.cursor
      /\ t.operation = [id |-> c.operation, kind |-> "scene-motion",
                        target |-> s.cursor.sceneId]
      /\ t.resume = s.resume /\ t.manual = s.manual /\ t.viewport = s.viewport
  BY <1>1 DEF SceneMotionStarted, Session
<1>3. t.operation # None
  BY <1>1, <1>2, ConstantsAssumption
     DEF Session, Operation, Cursor, MotionKinds
<1> QED
  BY <1>1, <1>2, <1>3 DEF SessionInv, Kept, OperationBelongs, ResumeKept,
     ManualCoherent, ClosingAtEnd, Composing, Underlying, MotionKinds, FollowUpKinds

\* A completed motion leaves no operation and no manual view behind.
LEMMA MotionDoneKeeps ==
    ASSUME NEW s, SessionInv(s), NEW c, NEW t \in SceneMotionCompleted(s, c)
    PROVE  Kept(t)
<1>1. s \in Session /\ s.status = "scene-motion-running"
  BY DEF SceneMotionCompleted, SessionInv, ValidSession
<1>2. /\ t.status = "presenting-scene" /\ t.operation = None
      /\ t.resume = s.resume /\ t.manual = ManualInactive /\ t.viewport = None
  BY <1>1 DEF SceneMotionCompleted, Session
<1> QED
  BY <1>1, <1>2 DEF SessionInv, Kept, OperationBelongs, ResumeKept,
     ManualCoherent, ClosingAtEnd, Composing, Underlying, ManualInactive

\* A user who moves the map takes the session from the running motion.
LEMMA UserMapKeeps ==
    ASSUME NEW s, SessionInv(s), NEW c, NEW t \in UserMapInteractionStarted(s, c)
    PROVE  Kept(t)
<1>1. s \in Session /\ s.status \in {"presenting-scene", "scene-motion-running"}
  BY DEF UserMapInteractionStarted, SessionInv, ValidSession
<1>2. /\ t.status = "manual-map-view" /\ t.operation = None
      /\ t.manual = [status |-> "active", viewport |-> c.viewport]
      /\ t.resume = s.resume /\ t.viewport = c.viewport
  BY <1>1 DEF UserMapInteractionStarted, Session
<1> QED
  BY <1>1, <1>2 DEF SessionInv, Kept, OperationBelongs, ResumeKept,
     ManualCoherent, ClosingAtEnd, Composing, Underlying

\* Keeping the manual view changes nothing.
LEMMA KeepViewKeeps ==
    ASSUME NEW s, SessionInv(s), NEW t \in KeepManualView(s)
    PROVE  Kept(t)
BY DEF KeepManualView, SessionInv, Kept

\* Returning to the camera starts a motion at the current scene.
LEMMA ReturnKeeps ==
    ASSUME NEW s, SessionInv(s), NEW c, NEW t \in ReturnToBriefingCamera(s, c),
           c.operation \in OperationIds
    PROVE  Kept(t)
<1>1. s \in Session /\ s.status = "manual-map-view" /\ s.manual.status = "active"
  BY DEF ReturnToBriefingCamera, SessionInv, ValidSession
<1>2. /\ t.status = "scene-motion-running" /\ t.cursor = s.cursor
      /\ t.operation = [id |-> c.operation,
                        kind |-> "return-to-briefing-camera",
                        target |-> s.cursor.sceneId]
      /\ t.manual.status = "returning-to-briefing"
      /\ t.manual.viewport = s.manual.viewport
      /\ t.resume = s.resume /\ t.viewport = s.viewport
  <2>1. t = [s EXCEPT !.status = "scene-motion-running",
                      !.manual.status = "returning-to-briefing",
                      !.operation = [id |-> c.operation,
                                     kind |-> "return-to-briefing-camera",
                                     target |-> s.cursor.sceneId]]
    BY DEF ReturnToBriefingCamera
  <2>2. t.manual = [s.manual EXCEPT !.status = "returning-to-briefing"]
    BY <1>1, <2>1 DEF Session
  <2>3. s.manual \in [status : {"active", "returning-to-briefing"},
                      viewport : Viewports]
    BY <1>1 DEF Session, ManualView, ManualInactive
  <2>4. /\ t.manual.status = "returning-to-briefing"
        /\ t.manual.viewport = s.manual.viewport
    BY <2>2, <2>3
  <2>5. /\ t.status = "scene-motion-running" /\ t.cursor = s.cursor
        /\ t.resume = s.resume /\ t.viewport = s.viewport
    BY <1>1, <2>1 DEF Session
  <2>6. t.operation = [id |-> c.operation,
                       kind |-> "return-to-briefing-camera",
                       target |-> s.cursor.sceneId]
    BY <1>1, <2>1 DEF Session
  <2> QED
    BY <2>4, <2>5, <2>6
<1>3. t.operation # None
  BY <1>1, <1>2, ConstantsAssumption
     DEF Session, Operation, Cursor, MotionKinds
<1>4. /\ t.operation.kind = "return-to-briefing-camera"
      /\ t.operation.target = t.cursor.sceneId
  BY <1>2
<1>5. s.resume = None /\ t.resume = None
  BY <1>1, <1>2 DEF SessionInv, ResumeKept, Composing
<1>6. OperationBelongs(t)
  BY <1>2, <1>3, <1>4 DEF OperationBelongs, MotionKinds, FollowUpKinds
<1>7. ManualCoherent(t) /\ ClosingAtEnd(t)
  BY <1>2, <1>5 DEF SessionInv, ManualCoherent, ClosingAtEnd, Underlying
<1>8. ResumeKept(t)
  BY <1>1, <1>2, <1>5 DEF SessionInv, ResumeKept, Composing
<1> QED
  BY <1>6, <1>7, <1>8 DEF Kept

\* Opening the composer cancels the motion and remembers the status.
LEMMA OpenKeeps ==
    ASSUME NEW s, SessionInv(s), NEW t \in OpenComposer(s)
    PROVE  Kept(t)
<1>1. s \in Session /\ s.status \in Returnable
  BY DEF OpenComposer, SessionInv, ValidSession
<1>2. /\ t.status = "composer-open" /\ t.operation = None
      /\ t.resume = IF s.status = "scene-motion-running"
                     THEN "presenting-scene" ELSE s.status
      /\ t.manual = s.manual /\ t.viewport = s.viewport /\ t.cursor = s.cursor
  BY <1>1 DEF OpenComposer, Session
<1>3. t.resume # None /\ s.resume = None
  BY <1>1, <1>2, ConstantsAssumption DEF Returnable, SessionInv, ResumeKept,
     Composing
<1>4. t.resume # "scene-motion-running"
  BY <1>1, <1>2
<1> QED
  BY <1>1, <1>2, <1>3, <1>4 DEF SessionInv, Kept, OperationBelongs, ResumeKept,
     ManualCoherent, ClosingAtEnd, Composing, Underlying

\* Closing the composer restores the remembered status.
LEMMA CloseKeeps ==
    ASSUME NEW s, SessionInv(s), NEW t \in CloseComposer(s)
    PROVE  Kept(t)
<1>1. s \in Session /\ s.status = "composer-open"
  BY DEF CloseComposer, SessionInv, ValidSession
<1>2. /\ t.status = ResumeOr(s, "briefing-ready")
      /\ t.resume = None /\ t.operation = s.operation
      /\ t.manual = s.manual /\ t.viewport = s.viewport /\ t.cursor = s.cursor
  BY <1>1 DEF CloseComposer, Session
<1>3. s.resume # None /\ s.resume \in Returnable
  BY <1>1 DEF Session, SessionInv, ResumeKept, Composing
<1>4. t.status = s.resume
  BY <1>2, <1>3 DEF ResumeOr
<1>5. s.resume # "scene-motion-running" /\ None # "scene-motion-running"
  BY ConstantsAssumption DEF SessionInv, ResumeKept, Returnable
<1> QED
  BY <1>1, <1>2, <1>3, <1>4, <1>5 DEF SessionInv, Kept, OperationBelongs, ResumeKept,
     ManualCoherent, ClosingAtEnd, Composing, Underlying, Returnable

\* A submitted follow-up owns the session.
LEMMA SubmitKeeps ==
    ASSUME NEW s, SessionInv(s), NEW c, NEW t \in SubmitFollowUp(s, c),
           c.operation \in OperationIds
    PROVE  Kept(t)
<1>1. s \in Session /\ s.status = "composer-open"
  BY DEF SubmitFollowUp, SessionInv, ValidSession
<1>2. /\ t.status = "replanning" /\ t.resume = s.resume
      /\ t.operation = [id |-> c.operation, kind |-> "follow-up",
                        target |-> None]
      /\ t.manual = s.manual /\ t.viewport = s.viewport /\ t.cursor = s.cursor
  BY <1>1 DEF SubmitFollowUp, Session
<1>3. t.operation # None
  BY <1>1, <1>2, ConstantsAssumption DEF Operation, FollowUpKinds
<1> QED
  BY <1>1, <1>2, <1>3 DEF SessionInv, Kept, OperationBelongs, ResumeKept,
     ManualCoherent, ClosingAtEnd, Composing, Underlying, MotionKinds, FollowUpKinds

\* A follow-up becomes a replan under the same operation.
LEMMA ReplanStartKeeps ==
    ASSUME NEW s, SessionInv(s), NEW c, NEW t \in ReplanStarted(s, c)
    PROVE  Kept(t)
<1>1. s \in Session /\ s.status = "replanning" /\ s.operation # None
      /\ s.operation \in Operation
  BY DEF ReplanStarted, SessionInv, ValidSession, Session, Owns
<1>2. /\ t.status = "replanning" /\ t.resume = s.resume
      /\ t.operation = [s.operation EXCEPT !.kind = "replan"]
      /\ t.manual = s.manual /\ t.viewport = s.viewport /\ t.cursor = s.cursor
  BY <1>1 DEF ReplanStarted, Session
<1>3. t.operation.kind = "replan"
      /\ t.operation \in [id : OperationIds, kind : FollowUpKinds, target : {None}]
  <2>1. s.operation.kind = "follow-up"
    BY DEF ReplanStarted
  <2>2. s.operation \in [id : OperationIds, kind : FollowUpKinds, target : {None}]
    BY <1>1, <2>1 DEF Operation, MotionKinds
  <2> QED
    BY <1>2, <2>2 DEF FollowUpKinds
<1>4. t.operation # None
  BY <1>3, ConstantsAssumption DEF Operation
<1>5. OperationBelongs(t)
  BY <1>2, <1>3, <1>4 DEF OperationBelongs, MotionKinds, FollowUpKinds
<1>6. ResumeKept(t) /\ ManualCoherent(t) /\ ClosingAtEnd(t)
  BY <1>1, <1>2 DEF SessionInv, ResumeKept, ManualCoherent, ClosingAtEnd,
     Composing, Underlying
<1> QED
  BY <1>5, <1>6 DEF Kept

\* A committed replacement leaves composer and operation, and keeps the manual
\* view only where the schema finds it active.
LEMMA ReplanCompleteKeeps ==
    ASSUME NEW s, SessionInv(s), NEW c, NEW t \in ReplanCompleted(s, c),
           ValidSession(t)
    PROVE  Kept(t)
<1> DEFINE scenes == ScenesOf[c.script]
           index == TargetIndex(s, c.mapping, scenes)
           keepView == PolicyPreserves(c.mapping) /\ s.manual.status # "inactive"
<1>1. s \in Session /\ t = Replaced(s, c)
  BY DEF ReplanCompleted, SessionInv, ValidSession
<1>2. /\ t.status = IF keepView THEN "manual-map-view"
                     ELSE StatusAt(index, Len(scenes))
      /\ t.manual = IF keepView THEN s.manual ELSE ManualInactive
      /\ t.viewport = IF keepView THEN s.viewport ELSE None
      /\ t.operation = None /\ t.resume = None
  BY <1>1 DEF Replaced, Session
<1>3. t.cursor.index = index /\ t.cursor.total = Len(scenes)
  BY <1>1 DEF Replaced, Session
<1>4. None # "scene-motion-running"
  BY ConstantsAssumption DEF Returnable
<1>5. CASE keepView
  <2>1. t.status = "manual-map-view" /\ t.manual.status = "active"
    BY <1>2, <1>5 DEF ValidSession
  <2>2. t.viewport = t.manual.viewport
    BY <1>2, <1>5 DEF SessionInv, ManualCoherent
  <2> QED
    BY <1>2, <1>4, <2>1, <2>2 DEF Kept, OperationBelongs, ResumeKept,
       ManualCoherent, ClosingAtEnd, Composing, Underlying
<1>6. CASE ~keepView
  <2>1. t.status = StatusAt(index, Len(scenes))
    BY <1>2, <1>6
  <2>2. t.status \in {"closing", "presenting-scene"}
    BY <2>1 DEF StatusAt
  <2>3. t.status = "closing" => t.cursor.index = t.cursor.total - 1
    BY <1>3, <2>1 DEF StatusAt
  <2>4. t.manual = ManualInactive /\ t.viewport = None
    BY <1>2, <1>6
  <2> QED
    BY <1>2, <1>4, <2>2, <2>3, <2>4 DEF Kept, OperationBelongs, ResumeKept,
       ManualCoherent, ClosingAtEnd, Composing, Underlying, ManualInactive
<1> QED
  BY <1>5, <1>6

\* A failed replan restores the remembered status.
LEMMA ReplanFailKeeps ==
    ASSUME NEW s, SessionInv(s), NEW c, NEW t \in ReplanFailed(s, c)
    PROVE  Kept(t)
<1>1. s \in Session /\ s.status = "replanning"
  BY DEF ReplanFailed, SessionInv, ValidSession
<1>2. /\ t.status = ResumeOr(s, "briefing-ready")
      /\ t.resume = None /\ t.operation = None
      /\ t.manual = s.manual /\ t.viewport = s.viewport /\ t.cursor = s.cursor
  BY <1>1 DEF ReplanFailed, Session
<1>3. s.resume # None /\ s.resume \in Returnable
  BY <1>1 DEF Session, SessionInv, ResumeKept, Composing
<1>4. t.status = s.resume
  BY <1>2, <1>3 DEF ResumeOr
<1>5. s.resume # "scene-motion-running" /\ None # "scene-motion-running"
  BY ConstantsAssumption DEF SessionInv, ResumeKept, Returnable
<1> QED
  BY <1>1, <1>2, <1>3, <1>4, <1>5 DEF SessionInv, Kept, OperationBelongs, ResumeKept,
     ManualCoherent, ClosingAtEnd, Composing, Underlying, Returnable

\* A resolved replan restores the remembered status, or reopens the composer.
LEMMA ReplanResolveKeeps ==
    ASSUME NEW s, SessionInv(s), NEW c, NEW t \in ReplanResolved(s, c)
    PROVE  Kept(t)
<1> USE DEF ReplanResolved
<1>1. s \in Session /\ s.status = "replanning"
  BY DEF SessionInv, ValidSession
<1>2. s.resume # None /\ s.resume \in Returnable
      /\ s.resume # "scene-motion-running"
  BY <1>1 DEF Session, SessionInv, ResumeKept, Composing
<1>3. None # "scene-motion-running"
  BY ConstantsAssumption DEF Returnable
<1>4. CASE c.resolution = "answer"
  <2>1. /\ t.status = ResumeOr(s, "presenting-scene")
        /\ t.resume = None /\ t.operation = None
        /\ t.manual = s.manual /\ t.viewport = s.viewport
        /\ t.cursor = s.cursor
    BY <1>1, <1>4 DEF Session
  <2>2. t.status = s.resume
    BY <1>2, <2>1 DEF ResumeOr
  <2> QED
    BY <1>1, <1>2, <1>3, <2>1, <2>2 DEF SessionInv, Kept, OperationBelongs,
       ResumeKept, ManualCoherent, ClosingAtEnd, Composing, Underlying,
       Returnable
<1>5. CASE c.resolution # "answer"
  <2>1. /\ t.status = "composer-open"
        /\ t.resume = s.resume /\ t.operation = None
        /\ t.manual = s.manual /\ t.viewport = s.viewport
        /\ t.cursor = s.cursor
    BY <1>1, <1>5 DEF Session
  <2> QED
    BY <1>1, <1>2, <1>3, <2>1 DEF SessionInv, Kept, OperationBelongs,
       ResumeKept, ManualCoherent, ClosingAtEnd, Composing, Underlying
<1> QED
  BY <1>4, <1>5

\* Replaying the briefing moves to the opening scene.
LEMMA ReplayKeeps ==
    ASSUME NEW s, SessionInv(s), NEW c, NEW t \in ReplayBriefing(s, c)
    PROVE  Kept(t)
<1>1. s.status \in {"closing", "ended"} /\ ~Composing(s)
  BY DEF ReplayBriefing, Composing
<1>2. PICK u \in MoveToScene(s, c.scene, 0) : t = [u EXCEPT !.composer = "compact"]
  BY <1>1 DEF ReplayBriefing
<1>3. Kept(u)
  BY <1>1, <1>2, MoveKeeps
<1>4. s \in Session
  BY DEF SessionInv, ValidSession
<1>5. /\ t.status = u.status /\ t.operation = u.operation
      /\ t.resume = u.resume /\ t.manual = u.manual
      /\ t.viewport = u.viewport /\ t.cursor = u.cursor
  BY <1>2, <1>4 DEF MoveToScene, Session
<1> QED
  BY <1>3, <1>5 DEF Kept, OperationBelongs, ResumeKept, ManualCoherent,
     ClosingAtEnd, Composing, Underlying

\* Ending drops the operation and the manual view.
LEMMA EndKeeps ==
    ASSUME NEW s, SessionInv(s), NEW t \in EndBriefing(s)
    PROVE  Kept(t)
<1> USE DEF EndBriefing
<1>1. CASE s.status = "ended"
  BY <1>1 DEF SessionInv, Kept
<1>2. CASE s.status # "ended"
  <2>1. s \in Session /\ ~Composing(s)
    BY <1>2 DEF SessionInv, ValidSession, Composing
  <2>2. /\ t.status = "ended" /\ t.operation = None /\ t.resume = s.resume
        /\ t.manual = ManualInactive /\ t.viewport = None
    BY <1>2, <2>1 DEF Session
  <2> QED
    BY <2>1, <2>2 DEF SessionInv, Kept, OperationBelongs, ResumeKept,
       ManualCoherent, ClosingAtEnd, Composing, Underlying, ManualInactive
<1> QED
  BY <1>1, <1>2

\* A reset forgets whatever was going on.
LEMMA ResetKeeps ==
    ASSUME NEW s, SessionInv(s), NEW t \in ResetSession(s)
    PROVE  Kept(t)
<1>1. s \in Session
  BY DEF SessionInv, ValidSession
<1>2. /\ t.status = "exploration" /\ t.operation = None /\ t.resume = None
      /\ t.manual = ManualInactive /\ t.viewport = None
  <2>1. t = [s EXCEPT !.status = "exploration",
                      !.cursor.sceneId = s.cursor.visited[1],
                      !.cursor.index = 0,
                      !.cursor.visited = <<s.cursor.visited[1]>>,
                      !.question = s.original,
                      !.manual = ManualInactive,
                      !.composer = "closed",
                      !.viewport = None, !.operation = None, !.resume = None,
                      !.followUp = None, !.failed = FALSE]
    BY DEF ResetSession
  <2>2. t.status = "exploration"
    BY <1>1, <2>1 DEF Session
  <2>3. t.operation = None
    BY <1>1, <2>1 DEF Session
  <2>4. t.resume = None
    BY <1>1, <2>1 DEF Session
  <2>5. t.manual = ManualInactive
    BY <1>1, <2>1 DEF Session
  <2>6. t.viewport = None
    BY <1>1, <2>1 DEF Session
  <2> QED
    BY <2>2, <2>3, <2>4, <2>5, <2>6
<1>3. None # "scene-motion-running"
  BY ConstantsAssumption DEF Returnable
<1> QED
  BY <1>2, <1>3 DEF Kept, OperationBelongs, ResumeKept, ManualCoherent,
     ClosingAtEnd, Composing, Underlying, ManualInactive

\* Every accepted command preserves the invariant.
LEMMA CommandKeeps ==
    ASSUME NEW s, SessionInv(s), NEW c \in Commands, NEW t \in Accepted(s, c)
    PROVE  SessionInv(t)
<1> SUFFICES Kept(t)
  BY DEF Accepted, SessionInv, Kept
<1>1. t \in Applied(s, c) /\ ValidSession(t)
  BY DEF Accepted
<1>2. CASE c.type = "START_BRIEFING"
  BY <1>1, <1>2, StartKeeps DEF Applied
<1>3. CASE c.type = "NEXT_SCENE"
  BY <1>1, <1>3, MoveKeeps DEF Applied, NextScene, Composing
<1>4. CASE c.type = "PREVIOUS_SCENE"
  BY <1>1, <1>4, MoveKeeps DEF Applied, PreviousScene, Composing
<1>5. CASE c.type = "JUMP_TO_SCENE"
  BY <1>1, <1>5, MoveKeeps DEF Applied, JumpToScene, Composing
<1>6. CASE c.type = "SCENE_MOTION_COMPLETED"
  BY <1>1, <1>6, MotionDoneKeeps DEF Applied
<1>7. CASE c.type = "USER_MAP_INTERACTION_STARTED"
  BY <1>1, <1>7, UserMapKeeps DEF Applied
<1>8. CASE c.type = "KEEP_MANUAL_VIEW"
  BY <1>1, <1>8, KeepViewKeeps DEF Applied
<1>9. CASE c.type = "OPEN_COMPOSER"
  BY <1>1, <1>9, OpenKeeps DEF Applied
<1>10. CASE c.type = "CLOSE_COMPOSER"
  BY <1>1, <1>10, CloseKeeps DEF Applied
<1>11. CASE c.type = "REPLAN_STARTED"
  BY <1>1, <1>11, ReplanStartKeeps DEF Applied
<1>12. CASE c.type = "REPLAN_COMPLETED"
  BY <1>1, <1>12, ReplanCompleteKeeps DEF Applied
<1>13. CASE c.type = "REPLAN_FAILED"
  BY <1>1, <1>13, ReplanFailKeeps DEF Applied
<1>14. CASE c.type = "REPLAN_RESOLVED"
  BY <1>1, <1>14, ReplanResolveKeeps DEF Applied
<1>15. CASE c.type = "REPLAY_BRIEFING"
  BY <1>1, <1>15, ReplayKeeps DEF Applied
<1>16. CASE c.type = "END_BRIEFING"
  BY <1>1, <1>16, EndKeeps DEF Applied
<1>17. CASE c.type = "RESET_SESSION"
  BY <1>1, <1>17, ResetKeeps DEF Applied
<1>18. CASE c.type = "REPLAY_SCENE_MOTION"
  <2>1. c.operation \in OperationIds
    BY <1>18 DEF Commands, Navigation
  <2> QED
    BY <1>1, <1>18, <2>1, MotionStartKeeps DEF Applied
<1>19. CASE c.type = "SCENE_MOTION_STARTED"
  <2>1. c.operation \in OperationIds
    BY <1>19 DEF Commands, Navigation
  <2> QED
    BY <1>1, <1>19, <2>1, MotionStartKeeps DEF Applied
<1>20. CASE c.type = "RETURN_TO_BRIEFING_CAMERA"
  <2>1. c.operation \in OperationIds
    BY <1>20 DEF Commands, Navigation
  <2> QED
    BY <1>1, <1>20, <2>1, ReturnKeeps DEF Applied
<1>21. CASE c.type = "SUBMIT_FOLLOW_UP"
  <2>1. c.operation \in OperationIds
    BY <1>21 DEF Commands, Navigation
  <2> QED
    BY <1>1, <1>21, <2>1, SubmitKeeps DEF Applied
<1> QED
  BY <1>2, <1>3, <1>4, <1>5, <1>6, <1>7, <1>8, <1>9, <1>10, <1>11, <1>12, <1>13, <1>14, <1>15, <1>16, <1>17, <1>18, <1>19, <1>20, <1>21 DEF Commands, Navigation

\* A session is created in a state that satisfies the invariant.
LEMMA InitialHolds ==
    ASSUME NEW s \in InitialSessions
    PROVE  SessionInv(s)
<1>1. PICK p \in Scripts : s = InitialSession(p) /\ IsInjective(ScenesOf[p])
  BY DEF InitialSessions
<1> DEFINE q == ScenesOf[p]
<1>2. q \in Seq(SceneIds) /\ q # <<>> /\ QuestionOf[p] \in Questions
  BY ConstantsAssumption
<1>3. q[1] \in SceneIds /\ Len(q) \in Nat /\ 0 < Len(q) /\ SceneAt(p, 0) = q[1]
  BY <1>2 DEF SceneAt
<1>4. s.cursor \in Cursor /\ ValidCursor(s.cursor)
  <2>1. s.cursor = [sceneId |-> q[1], index |-> 0, total |-> Len(q),
                    visited |-> <<q[1]>>]
    BY <1>1, <1>3 DEF InitialSession
  <2>2. <<q[1]>> \in Seq(SceneIds) /\ <<q[1]>> # <<>>
    BY <1>3
  <2>3. IsInjective(<<q[1]>>) /\ q[1] \in Range(<<q[1]>>)
    BY DEF IsInjective, Range
  <2> QED
    BY <1>3, <2>1, <2>2, <2>3 DEF Cursor, ValidCursor
<1>5. s \in Session
  BY <1>1, <1>2, <1>4 DEF InitialSession, Session, Statuses, Returnable,
     ManualView
<1>6. /\ s.status = "briefing-ready" /\ s.operation = None /\ s.resume = None
      /\ s.manual = ManualInactive /\ s.viewport = None
  BY <1>1 DEF InitialSession
<1>7. None # "scene-motion-running"
  BY ConstantsAssumption DEF Returnable
<1> QED
  BY <1>4, <1>5, <1>6, <1>7 DEF SessionInv, ValidSession, OperationBelongs,
     ResumeKept, ManualCoherent, ClosingAtEnd, Composing, Underlying,
     ManualInactive

\* The schema never refuses the rollback of a failed replan.
LEMMA RollbackAccepted ==
    ASSUME NEW s, SessionInv(s)
    PROVE  CanRollBack(s)
<1> SUFFICES ASSUME s.status = "replanning"
             PROVE  Accepted(s, [type |-> "REPLAN_FAILED",
                                 operation |-> s.operation.id]) # {}
  BY DEF CanRollBack
<1> DEFINE c == [type |-> "REPLAN_FAILED", operation |-> s.operation.id]
           back == ResumeOr(s, "briefing-ready")
<1>1. s \in Session /\ ValidSession(s) /\ s.operation # None
  BY DEF SessionInv, ValidSession
<1>2. s.resume # None /\ s.resume \in Returnable /\ back = s.resume
  BY <1>1 DEF SessionInv, ResumeKept, Composing, ResumeOr, Session
<1>3. PICK t : t = [s EXCEPT !.status = s.resume,
                             !.composer = ComposerFor(s.resume),
                             !.failed = TRUE, !.operation = None,
                             !.resume = None]
  OBVIOUS
<1>4. t \in Applied(s, c)
  <2>1. Applied(s, c) = ReplanFailed(s, c)
    BY DEF Applied
  <2>2. Owns(s, c.operation)
    BY <1>1 DEF Owns
  <2> HIDE DEF c
  <2>3. t \in ReplanFailed(s, c)
    BY <1>2, <1>3, <2>2 DEF ReplanFailed, When
  <2> QED
    BY <2>1, <2>3
<1>5. t \in Session
  <2>1. /\ s.resume \in Statuses
        /\ ComposerFor(s.resume) \in {"closed", "compact", "expanded"}
    BY <1>2 DEF Statuses, ComposerFor
  <2> QED
    BY <1>1, <1>3, <2>1 DEF Session
<1>6. /\ t.status = s.resume /\ t.cursor = s.cursor /\ t.manual = s.manual
      /\ t.resume = None
  BY <1>1, <1>3 DEF Session
<1>7. s.manual.status = "active" <=> s.resume = "manual-map-view"
  BY <1>2 DEF SessionInv, ManualCoherent, Underlying
<1>8. ValidSession(t)
  <2>1. t.status \notin {"composer-open", "replanning"}
    BY <1>2, <1>6 DEF Returnable
  <2> QED
    BY <1>1, <1>5, <1>6, <1>7, <2>1 DEF ValidSession
<1> QED
  BY <1>4, <1>8 DEF Accepted

-----------------------------------------------------------------------------
(* The visited scenes that survive a replacement                           *)

\* Induction over the natural numbers, for a set instead of a predicate.
LEMMA Induction ==
    ASSUME NEW S, 0 \in S, \A n \in Nat : n \in S => n + 1 \in S
    PROVE  \A n \in Nat : n \in S
<1> DEFINE R == {ss \in Nat \X Nat : ss[1] < ss[2]}
           I == Nat \ S
<1>1. IsWellFoundedOn(OpToRel(<, Nat), Nat)
  BY NatLessThanWellFounded
<1>2. IsWellFoundedOn(R, Nat)
  BY <1>1 DEF OpToRel
<1>3. \A x, y \in Nat : <<y, x>> \in R <=> y < x
  OBVIOUS
<1> HIDE DEF R
<1>4. SUFFICES ASSUME I # {} PROVE FALSE
  OBVIOUS
<1>5. PICK x \in I : \A y \in I : ~(<<y, x>> \in R)
  <2>1. I \subseteq Nat
    OBVIOUS
  <2> HIDE DEF I
  <2> QED BY <1>2, <1>4, <2>1, WFMin
<1>6. x \in Nat /\ x \notin S /\ x # 0
  OBVIOUS
<1>7. x - 1 \in Nat /\ x - 1 \in S /\ (x - 1) + 1 = x
  <2>1. x - 1 \in Nat /\ x - 1 < x /\ (x - 1) + 1 = x
    BY <1>6
  <2>2. x - 1 \notin I
    BY <1>3, <1>5, <1>6, <2>1
  <2> QED BY <2>1, <2>2
<1> QED BY <1>6, <1>7

\* One step of keeping the visited scenes.
KeptBy(f, visited, scenes, D) ==
    f = [n \in D |->
           IF n = 0 THEN <<>>
           ELSE IF visited[n] \in Range(scenes) THEN Append(f[n - 1], visited[n])
           ELSE f[n - 1]]

\* The recursion of Surviving defines a function.
LEMMA KeptExists ==
    ASSUME NEW visited, NEW scenes
    PROVE  \A n \in Nat : \E f : KeptBy(f, visited, scenes, 0 .. n)
<1> DEFINE S == {n \in Nat : \E f : KeptBy(f, visited, scenes, 0 .. n)}
<1>1. 0 \in S
  <2>1. KeptBy([n \in 0 .. 0 |-> <<>>], visited, scenes, 0 .. 0)
    BY DEF KeptBy
  <2> QED BY <2>1
<1>2. ASSUME NEW n \in Nat, n \in S PROVE n + 1 \in S
  <2>1. PICK g : KeptBy(g, visited, scenes, 0 .. n)
    BY <1>2
  <2> DEFINE last == IF visited[n + 1] \in Range(scenes) THEN Append(g[n], visited[n + 1]) ELSE g[n]
             f == [i \in 0 .. n + 1 |-> IF i = n + 1 THEN last ELSE g[i]]
  <2>2. \A i \in 0 .. n : f[i] = g[i]
    OBVIOUS
  <2>3. \A i \in 0 .. n + 1 : f[i] =
           IF i = 0 THEN <<>>
           ELSE IF visited[i] \in Range(scenes) THEN Append(f[i - 1], visited[i])
           ELSE f[i - 1]
    <3> SUFFICES ASSUME NEW i \in 0 .. n + 1
                 PROVE  f[i] = IF i = 0 THEN <<>>
                               ELSE IF visited[i] \in Range(scenes) THEN Append(f[i - 1], visited[i])
                               ELSE f[i - 1]
      OBVIOUS
    <3>1. CASE i = n + 1
      <4>1. i # 0 /\ i - 1 = n /\ f[n] = g[n] /\ f[i] = last
        BY <3>1
      <4> HIDE DEF f
      <4> QED BY <3>1, <4>1
    <3>2. CASE i \in 0 .. n
      <4>1. g[i] = IF i = 0 THEN <<>>
                   ELSE IF visited[i] \in Range(scenes) THEN Append(g[i - 1], visited[i])
                   ELSE g[i - 1]
        BY <2>1, <3>2 DEF KeptBy
      <4>2. i # 0 => i - 1 \in 0 .. n
        BY <3>2
      <4>3. f[i] = g[i] /\ (i # 0 => f[i - 1] = g[i - 1])
        BY <2>2, <3>2, <4>2
      <4> HIDE DEF f
      <4> QED BY <4>1, <4>3
    <3> QED BY <3>1, <3>2
  <2>4. f = [i \in 0 .. n + 1 |-> f[i]]
    OBVIOUS
  <2>5. KeptBy(f, visited, scenes, 0 .. n + 1)
    <3> HIDE DEF f
    <3> QED BY <2>3, <2>4 DEF KeptBy
  <2> QED BY <2>5
<1> HIDE DEF S
<1>3. \A n \in Nat : n \in S
  BY <1>1, <1>2, Induction
<1> QED BY <1>3 DEF S

\* Appending an element that is not there keeps a sequence injective.
LEMMA AppendInjective ==
    ASSUME NEW S, NEW q \in Seq(S), NEW x \in S, IsInjective(q), x \notin Range(q)
    PROVE  /\ Append(q, x) \in Seq(S) /\ IsInjective(Append(q, x))
           /\ Range(Append(q, x)) = Range(q) \cup {x}
<1>1. /\ Append(q, x) \in Seq(S) /\ Len(q) \in Nat
      /\ DOMAIN q = 1 .. Len(q) /\ DOMAIN Append(q, x) = 1 .. Len(q) + 1
      /\ \A i \in 1 .. Len(q) : Append(q, x)[i] = q[i]
      /\ Append(q, x)[Len(q) + 1] = x
  OBVIOUS
<1>2. \A i \in 1 .. Len(q) + 1 : i \in 1 .. Len(q) \/ i = Len(q) + 1
  BY <1>1
<1>3. \A i \in 1 .. Len(q) : q[i] # x
  BY <1>1 DEF Range
<1> DEFINE r == Append(q, x)
<1> HIDE DEF r
<1>4. IsInjective(r)
  <2> SUFFICES ASSUME NEW i \in DOMAIN r, NEW j \in DOMAIN r, r[i] = r[j] PROVE i = j
    BY DEF IsInjective
  <2>1. CASE i \in 1 .. Len(q) /\ j \in 1 .. Len(q)
    BY <1>1, <2>1 DEF IsInjective, r
  <2>2. CASE i = Len(q) + 1 \/ j = Len(q) + 1
    BY <1>1, <1>2, <1>3, <2>2 DEF r
  <2> QED BY <1>1, <1>2, <2>1, <2>2 DEF r
<1>5. Range(r) = Range(q) \cup {x}
  BY <1>1, <1>2 DEF Range, r
<1> QED BY <1>1, <1>4, <1>5 DEF r

\* What survives are the visited scenes the replacement has, each once.
LEMMA SurvivingHas ==
    ASSUME NEW S, NEW visited \in Seq(S), NEW scenes, IsInjective(visited)
    PROVE  /\ Surviving(visited, scenes) \in Seq(S)
           /\ IsInjective(Surviving(visited, scenes))
           /\ Range(Surviving(visited, scenes)) = Range(visited) \cap Range(scenes)
<1>1. PICK f : f = CHOOSE g : KeptBy(g, visited, scenes, 0 .. Len(visited))
  OBVIOUS
<1>2. Surviving(visited, scenes) = f[Len(visited)]
  BY <1>1 DEF Surviving, KeptBy
<1>3. Len(visited) \in Nat /\ DOMAIN visited = 1 .. Len(visited)
      /\ \A i \in 1 .. Len(visited) : visited[i] \in S
  OBVIOUS
<1>4. KeptBy(f, visited, scenes, 0 .. Len(visited))
  BY <1>1, <1>3, KeptExists
<1>5. \A n \in 0 .. Len(visited) :
         f[n] = IF n = 0 THEN <<>>
                ELSE IF visited[n] \in Range(scenes) THEN Append(f[n - 1], visited[n])
                ELSE f[n - 1]
  BY <1>4 DEF KeptBy
<1> DEFINE seen(n) == {visited[i] : i \in 1 .. n}
           Good == {n \in Nat : n <= Len(visited) =>
                      /\ f[n] \in Seq(S) /\ IsInjective(f[n])
                      /\ Range(f[n]) = seen(n) \cap Range(scenes)}
<1>6. 0 \in Good
  <2>1. f[0] = <<>>
    BY <1>3, <1>5
  <2>2. <<>> \in Seq(S) /\ IsInjective(<<>>) /\ Range(<<>>) = {}
    BY DEF IsInjective, Range
  <2>3. seen(0) = {}
    OBVIOUS
  <2> QED BY <2>1, <2>2, <2>3
<1>7. ASSUME NEW n \in Nat, n \in Good PROVE n + 1 \in Good
  <2> SUFFICES ASSUME n + 1 <= Len(visited)
               PROVE  /\ f[n + 1] \in Seq(S) /\ IsInjective(f[n + 1])
                      /\ Range(f[n + 1]) = seen(n + 1) \cap Range(scenes)
    OBVIOUS
  <2>1. /\ f[n] \in Seq(S) /\ IsInjective(f[n])
        /\ Range(f[n]) = seen(n) \cap Range(scenes)
    BY <1>3, <1>7
  <2>2. n + 1 \in 1 .. Len(visited) /\ n + 1 \in 0 .. Len(visited) /\ n + 1 # 0 /\ (n + 1) - 1 = n
    BY <1>3
  <2>3. f[n + 1] = IF visited[n + 1] \in Range(scenes) THEN Append(f[n], visited[n + 1]) ELSE f[n]
    BY <1>5, <2>2
  <2>4. seen(n + 1) = seen(n) \cup {visited[n + 1]}
    <3>1. \A i \in 1 .. n + 1 : i \in 1 .. n \/ i = n + 1
      OBVIOUS
    <3>2. \A i \in 1 .. n : i \in 1 .. n + 1
      OBVIOUS
    <3>3. n + 1 \in 1 .. n + 1
      OBVIOUS
    <3> QED BY <3>1, <3>2, <3>3
  <2>5. visited[n + 1] \in S /\ visited[n + 1] \notin seen(n)
    BY <1>3, <2>2 DEF IsInjective
  <2> HIDE DEF seen
  <2>6. CASE visited[n + 1] \in Range(scenes)
    <3>1. visited[n + 1] \notin Range(f[n])
      BY <2>1, <2>5
    <3>2. /\ Append(f[n], visited[n + 1]) \in Seq(S) /\ IsInjective(Append(f[n], visited[n + 1]))
          /\ Range(Append(f[n], visited[n + 1])) = Range(f[n]) \cup {visited[n + 1]}
      BY <2>1, <2>5, <3>1, AppendInjective
    <3> QED BY <2>1, <2>3, <2>4, <2>6, <3>2
  <2>7. CASE visited[n + 1] \notin Range(scenes)
    BY <2>1, <2>3, <2>4, <2>7
  <2> QED BY <2>6, <2>7
<1>8. Len(visited) \in Good
  <2> HIDE DEF Good
  <2> QED BY <1>3, <1>6, <1>7, Induction
<1>9. seen(Len(visited)) = Range(visited)
  BY <1>3 DEF Range
<1> QED BY <1>2, <1>3, <1>8, <1>9

\* The scenes of a replacement that may be revisited: those visited that it
\* has and the one it goes on with, each once.
LEMMA RevisitHas ==
    ASSUME NEW S, NEW visited \in Seq(S), IsInjective(visited), NEW scenes,
           NEW target \in S, target \in Range(scenes)
    PROVE  /\ Revisit(visited, scenes, target) \in Seq(S)
           /\ IsInjective(Revisit(visited, scenes, target))
           /\ Range(Revisit(visited, scenes, target)) \subseteq Range(scenes)
           /\ target \in Range(Revisit(visited, scenes, target))
<1>1. PICK q : q = Surviving(visited, scenes)
  OBVIOUS
<1>2. /\ q \in Seq(S) /\ IsInjective(q)
      /\ Range(q) = Range(visited) \cap Range(scenes)
  BY <1>1, SurvivingHas
<1>3. CASE target \in Range(visited)
  <2>1. Revisit(visited, scenes, target) = q \o <<>>
    BY <1>1, <1>3 DEF Revisit
  <2>2. q \o <<>> = q
    BY <1>2
  <2> QED BY <1>2, <1>3, <2>1, <2>2
<1>4. CASE target \notin Range(visited)
  <2>1. Revisit(visited, scenes, target) = q \o <<target>>
    BY <1>1, <1>4 DEF Revisit
  <2>2. q \o <<target>> = Append(q, target)
    BY <1>2
  <2>3. /\ Append(q, target) \in Seq(S) /\ IsInjective(Append(q, target))
        /\ Range(Append(q, target)) = Range(q) \cup {target}
    BY <1>2, <1>4, AppendInjective
  <2> QED BY <1>2, <2>1, <2>2, <2>3
<1> QED BY <1>3, <1>4

\* A mapping with one of the strategies; its index need not be bounded.
Strategic(m) ==
    /\ m.strategy \in {"preserve-current-scene", "map-to-scene", "restart-at-opening"}
    /\ m.strategy = "map-to-scene" => m.index \in Nat

\* Every mapping of scenes is made by one of the strategies.
LEMMA MappingsAreStrategic == \A m \in Mappings : Strategic(m)
BY ConstantsAssumption DEF Mappings, Strategic, SceneIndexes

\* A committed replacement moves the cursor to a scene of the new script, and
\* forgets the visits to scenes that script does not have.
LEMMA ReplacedOnScript ==
    ASSUME NEW s \in Session, IsInjective(s.cursor.visited), NEW c,
           c.script \in Scripts, Strategic(c.mapping),
           MappingResolves(s, c.mapping, ScenesOf[c.script]),
           NEW t, t = Replaced(s, c)
    PROVE  /\ t.script = c.script /\ t.question = QuestionOf[c.script]
           /\ t.cursor \in Cursor /\ ValidCursor(t.cursor) /\ OnScript(t)
           /\ Range(t.cursor.visited) \subseteq Range(ScenesOf[c.script])
<1>1. PICK scenes : scenes = ScenesOf[c.script]
  OBVIOUS
<1>2. PICK index : index = TargetIndex(s, c.mapping, scenes)
  OBVIOUS
<1>3. PICK visited : visited = Revisit(s.cursor.visited, scenes, scenes[index + 1])
  OBVIOUS
<1>4. /\ scenes \in Seq(SceneIds) /\ scenes # <<>> /\ Len(scenes) \in Nat \ {0}
      /\ DOMAIN scenes = 1 .. Len(scenes)
  BY <1>1, ConstantsAssumption
<1>5. /\ t.script = c.script /\ t.question = QuestionOf[c.script]
      /\ t.cursor = [sceneId |-> scenes[index + 1], index |-> index,
                     total |-> Len(scenes), visited |-> visited]
  BY <1>1, <1>2, <1>3 DEF Replaced, Session
<1>6. index \in Nat /\ index < Len(scenes)
  <2> DEFINE m == c.mapping
  <2>1. m.strategy \in {"preserve-current-scene", "map-to-scene", "restart-at-opening"}
    BY DEF Strategic
  <2>2. CASE m.strategy = "preserve-current-scene"
    <3>1. \E i \in 1 .. Len(scenes) : scenes[i] = s.cursor.sceneId
      BY <1>1, <1>4, <2>2 DEF MappingResolves, Range
    <3>2. PICK i \in 1 .. Len(scenes) : index = i - 1
      BY <1>2, <2>2, <3>1 DEF TargetIndex
    <3> QED BY <1>4, <3>2
  <2>3. CASE m.strategy = "map-to-scene"
    <3>1. index = m.index /\ m.index < Len(scenes)
      BY <1>1, <1>2, <2>3 DEF TargetIndex, MappingResolves
    <3>2. m.index \in Nat
      BY <2>3 DEF Strategic
    <3> QED BY <3>1, <3>2
  <2>4. CASE m.strategy = "restart-at-opening"
    BY <1>2, <1>4, <2>4 DEF TargetIndex
  <2> QED BY <2>1, <2>2, <2>3, <2>4
<1>7. scenes[index + 1] \in SceneIds /\ scenes[index + 1] \in Range(scenes)
  <2>1. index + 1 \in 1 .. Len(scenes)
    BY <1>4, <1>6
  <2> QED BY <1>4, <2>1 DEF Range
<1>8. /\ visited \in Seq(SceneIds) /\ IsInjective(visited)
      /\ Range(visited) \subseteq Range(scenes) /\ scenes[index + 1] \in Range(visited)
  <2>1. s.cursor.visited \in Seq(SceneIds)
    BY DEF Session, Cursor
  <2> QED BY <1>3, <1>7, <2>1, RevisitHas
<1>9. visited # <<>>
  BY <1>8 DEF Range
<1>10. t.cursor \in Cursor
  BY <1>4, <1>5, <1>6, <1>7, <1>8 DEF Cursor
<1>11. ValidCursor(t.cursor)
  BY <1>5, <1>6, <1>8, <1>9 DEF ValidCursor
<1>12. OnScript(t)
  BY <1>1, <1>5 DEF OnScript, SceneAt
<1> QED BY <1>1, <1>5, <1>8, <1>10, <1>11, <1>12
=============================================================================
