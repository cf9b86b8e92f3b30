------------------------------ MODULE WebProofs ------------------------------
(***************************************************************************)
(* The web application over any scripts, scenes and camera snapshots:      *)
(* session, script and player stay together, a navigation of the player    *)
(* reaches the session, every replacement that can be prepared is          *)
(* committed, and a follow-up without one leaves the briefing as it was.   *)
(*                                                                         *)
(* The map over any scenes: what it shows belongs to the scene that is     *)
(* shown, only news sets it in motion, and routes and frames are right on  *)
(* both sides of the antimeridian.                                         *)
(***************************************************************************)
EXTENDS WebBriefing, MapSurface, SessionReducerProofs

-----------------------------------------------------------------------------
(* A session between two events                                            *)

\* Session s presents script p, on one of its scenes, and nothing runs.
Bound(s, p) ==
    /\ SessionInv(s) /\ OnScript(s) /\ s.script = p
    /\ IsInjective(ScenesOf[p])
    /\ s.operation = None /\ s.manual.status # "returning-to-briefing"

\* What a bound session is.
LEMMA BoundHas ==
    ASSUME NEW s, NEW p, Bound(s, p)
    PROVE  /\ s \in Session /\ ValidSession(s) /\ p \in Scripts
           /\ s.status \in (Returnable \ {"scene-motion-running"})
                             \cup {"composer-open", "error"}
           /\ ScenesOf[p] \in Seq(SceneIds) /\ Len(ScenesOf[p]) \in Nat \ {0}
           /\ DOMAIN ScenesOf[p] = 1 .. Len(ScenesOf[p])
           /\ s.cursor.total = Len(ScenesOf[p])
           /\ s.cursor.index \in Nat /\ s.cursor.index < Len(ScenesOf[p])
           /\ s.cursor.sceneId = SceneAt(p, s.cursor.index)
           /\ s.cursor.sceneId \in SceneIds
           /\ s.composer \in {"closed", "compact", "expanded"}
           /\ (s.resume # None <=> Composing(s))
<1>1. s \in Session /\ ValidSession(s) /\ s.script = p /\ p \in Scripts
  BY DEF Bound, SessionInv, ValidSession, Session
<1>2. s.status \in (Returnable \ {"scene-motion-running"})
                     \cup {"composer-open", "error"}
  BY <1>1 DEF Bound, SessionInv, OperationBelongs, Session, Statuses
<1>3. ScenesOf[p] \in Seq(SceneIds) /\ ScenesOf[p] # <<>>
  BY <1>1, ConstantsAssumption
<1>4. Len(ScenesOf[p]) \in Nat \ {0} /\ DOMAIN ScenesOf[p] = 1 .. Len(ScenesOf[p])
  BY <1>3
<1>5. /\ s.cursor.total = Len(ScenesOf[p])
      /\ s.cursor.sceneId = SceneAt(p, s.cursor.index)
  BY <1>1 DEF Bound, OnScript
<1>6. /\ s.cursor.index \in Nat /\ s.cursor.sceneId \in SceneIds
      /\ s.composer \in {"closed", "compact", "expanded"}
  BY <1>1 DEF Session, Cursor
<1>7. s.cursor.index < s.cursor.total
  BY <1>1 DEF ValidSession, ValidCursor
<1>8. s.resume # None <=> Composing(s)
  BY DEF Bound, SessionInv, ResumeKept
<1> QED BY <1>1, <1>2, <1>3, <1>4, <1>5, <1>6, <1>7, <1>8

\* A step that keeps cursor and script keeps the session bound.
LEMMA BoundKept ==
    ASSUME NEW s, NEW p, Bound(s, p), NEW t, ValidSession(t), Kept(t),
           t.cursor = s.cursor, t.script = s.script, t.operation = None,
           t.manual.status # "returning-to-briefing"
    PROVE  Bound(t, p)
BY DEF Bound, SessionInv, Kept, OnScript

\* A script shows each of its scenes once.
LEMMA ScenesDiffer ==
    ASSUME NEW p \in Scripts, IsInjective(ScenesOf[p]),
           NEW i \in Nat, i < Len(ScenesOf[p]), NEW j \in Nat, j < Len(ScenesOf[p]),
           SceneAt(p, i) = SceneAt(p, j)
    PROVE  i = j
<1>1. ScenesOf[p] \in Seq(SceneIds)
  BY ConstantsAssumption
<1>2. i + 1 \in DOMAIN ScenesOf[p] /\ j + 1 \in DOMAIN ScenesOf[p]
  BY <1>1
<1>3. i + 1 = j + 1
  BY <1>2 DEF IsInjective, SceneAt
<1> QED BY <1>3

\* The next session of a jump.
JumpTo(to, index) == [type |-> "JUMP_TO_SCENE", scene |-> to, index |-> index]

\* A jump to a scene of the script moves the cursor there.
LEMMA JumpFits ==
    ASSUME NEW s, NEW p, Bound(s, p), NEW to, NEW index \in Nat,
           index < Len(ScenesOf[p]) => to = SceneAt(p, index),
           NEW t \in Accepted(s, JumpTo(to, index))
    PROVE  /\ Bound(t, p) /\ t.cursor.index = index
           /\ t.composer = s.composer
<1>1. s \in Session /\ s.cursor.total = Len(ScenesOf[p])
  BY BoundHas
<1>2. ValidSession(t) /\ t \in JumpToScene(s, JumpTo(to, index))
  BY DEF Accepted, Applied, JumpTo
<1>3. t \in MoveToScene(s, to, index) /\ ~Composing(s)
  BY <1>2 DEF JumpToScene, JumpTo, Composing
<1>4. /\ index < s.cursor.total
      /\ t = [s EXCEPT !.cursor.sceneId = to,
                       !.cursor.index = index,
                       !.cursor.visited = Visit(s.cursor.visited, to),
                       !.status = StatusAt(index, s.cursor.total),
                       !.manual = ManualInactive,
                       !.viewport = None,
                       !.operation = None]
  BY <1>3 DEF MoveToScene, When
<1>5. /\ t.cursor.sceneId = to /\ t.cursor.index = index
      /\ t.cursor.total = s.cursor.total
  BY <1>1, <1>4 DEF Session, Cursor
<1>6. /\ t.script = s.script /\ t.composer = s.composer /\ t.operation = None
      /\ t.manual = ManualInactive
  BY <1>1, <1>4 DEF Session
<1>7. Kept(t)
  BY <1>3, MoveKeeps DEF Bound
<1>8. OnScript(t)
  BY <1>1, <1>4, <1>5, <1>6 DEF OnScript, Bound
<1> QED BY <1>2, <1>5, <1>6, <1>7, <1>8 DEF Bound, SessionInv, Kept, ManualInactive

\* While a briefing is presented such a jump is not refused.
LEMMA JumpAccepted ==
    ASSUME NEW s, NEW p, Bound(s, p),
           s.status \in {"presenting-scene", "manual-map-view"},
           NEW index \in Nat, index < Len(ScenesOf[p])
    PROVE  Accepted(s, JumpTo(SceneAt(p, index), index)) # {}
<1> DEFINE to == SceneAt(p, index)
<1>1. /\ s \in Session /\ ValidSession(s) /\ s.cursor.total = Len(ScenesOf[p])
      /\ to \in SceneIds
  BY BoundHas DEF SceneAt
<1>2. PICK k : k = [s.cursor EXCEPT !.sceneId = to, !.index = index,
                                    !.visited = Visit(s.cursor.visited, to)]
  OBVIOUS
<1>3. PICK t : t = [s EXCEPT !.cursor = k,
                             !.status = StatusAt(index, s.cursor.total),
                             !.manual = ManualInactive,
                             !.viewport = None,
                             !.operation = None]
  OBVIOUS
<1>4. t = [s EXCEPT !.cursor.sceneId = to,
                    !.cursor.index = index,
                    !.cursor.visited = Visit(s.cursor.visited, to),
                    !.status = StatusAt(index, s.cursor.total),
                    !.manual = ManualInactive,
                    !.viewport = None,
                    !.operation = None]
  <2>1. s.cursor \in Cursor
    BY <1>1 DEF Session
  <2> QED BY <1>1, <1>2, <1>3, <2>1 DEF Session, Cursor
<1>5. t \in Applied(s, JumpTo(to, index))
  <2>1. t \in MoveToScene(s, to, index)
    BY <1>1, <1>4 DEF MoveToScene, When
  <2>2. Applied(s, JumpTo(to, index)) = JumpToScene(s, JumpTo(to, index))
    BY DEF Applied, JumpTo
  <2> QED BY <2>1, <2>2 DEF JumpToScene, JumpTo
<1>6. k \in Cursor /\ ValidCursor(k)
  <2>1. PICK v : v = s.cursor.visited
    OBVIOUS
  <2>2. /\ v \in Seq(SceneIds) /\ v # <<>> /\ IsInjective(v)
        /\ s.cursor \in Cursor
    BY <1>1, <2>1 DEF Session, Cursor, ValidSession, ValidCursor
  <2>3. PICK w : w = Visit(v, to)
    OBVIOUS
  <2>4. /\ w \in Seq(SceneIds) /\ w # <<>> /\ IsInjective(w)
        /\ to \in Range(w)
    <3>1. CASE to \in Range(v)
      BY <2>2, <2>3, <3>1 DEF Visit
    <3>2. CASE to \notin Range(v)
      <4>1. w = Append(v, to)
        BY <2>3, <3>2 DEF Visit
      <4>2. /\ w \in Seq(SceneIds) /\ IsInjective(w)
            /\ Range(w) = Range(v) \cup {to}
        BY <1>1, <2>2, <3>2, <4>1, AppendInjective
      <4>3. w # <<>>
        BY <4>2 DEF Range
      <4> QED BY <4>2, <4>3
    <3> QED BY <3>1, <3>2
  <2>5. k = [sceneId |-> to, index |-> index, total |-> s.cursor.total,
             visited |-> w]
    BY <1>2, <2>1, <2>2, <2>3 DEF Cursor
  <2>6. s.cursor.total \in Nat
    BY <2>2 DEF Cursor
  <2> QED BY <1>1, <2>4, <2>5, <2>6 DEF Cursor, ValidCursor
<1>7. t \in Session
  BY <1>1, <1>3, <1>6 DEF Session, StatusAt, Statuses, Returnable, ManualView
<1>8. /\ t.cursor = k /\ t.manual.status = "inactive" /\ t.operation = None
      /\ t.status \in {"closing", "presenting-scene"}
  BY <1>1, <1>3 DEF Session, StatusAt, ManualInactive
<1>9. ValidSession(t)
  BY <1>6, <1>7, <1>8 DEF ValidSession
<1> QED BY <1>5, <1>9 DEF Accepted

\* The commands of a user that carry nothing keep cursor and script.
LEMMA PlainCommandFits ==
    ASSUME NEW s, NEW p, Bound(s, p),
           NEW type \in {"START_BRIEFING", "KEEP_MANUAL_VIEW", "OPEN_COMPOSER",
                         "CLOSE_COMPOSER", "END_BRIEFING"},
           NEW t \in Accepted(s, [type |-> type])
    PROVE  Bound(t, p)
<1>1. s \in Session /\ SessionInv(s) /\ s.operation = None
      /\ s.manual.status # "returning-to-briefing"
  BY BoundHas DEF Bound
<1>2. ValidSession(t) /\ t \in Applied(s, [type |-> type])
  BY DEF Accepted
<1> SUFFICES /\ Kept(t) /\ t.cursor = s.cursor /\ t.script = s.script
             /\ t.operation = None /\ t.manual.status # "returning-to-briefing"
  BY <1>2, BoundKept
<1>3. CASE type = "START_BRIEFING"
  <2>1. t \in StartBriefing(s)
    BY <1>2, <1>3 DEF Applied
  <2>2. Kept(t)
    BY <1>1, <2>1, StartKeeps
  <2> QED BY <1>1, <2>1, <2>2 DEF StartBriefing, When, Session
<1>4. CASE type = "KEEP_MANUAL_VIEW"
  <2>1. t \in KeepManualView(s)
    BY <1>2, <1>4 DEF Applied
  <2>2. Kept(t)
    BY <1>1, <2>1, KeepViewKeeps
  <2> QED BY <1>1, <2>1, <2>2 DEF KeepManualView, When
<1>5. CASE type = "OPEN_COMPOSER"
  <2>1. t \in OpenComposer(s)
    BY <1>2, <1>5 DEF Applied
  <2>2. Kept(t)
    BY <1>1, <2>1, OpenKeeps
  <2> QED BY <1>1, <2>1, <2>2 DEF OpenComposer, When, Session
<1>6. CASE type = "CLOSE_COMPOSER"
  <2>1. t \in CloseComposer(s)
    BY <1>2, <1>6 DEF Applied
  <2>2. Kept(t)
    BY <1>1, <2>1, CloseKeeps
  <2> QED BY <1>1, <2>1, <2>2 DEF CloseComposer, When, Session
<1>7. CASE type = "END_BRIEFING"
  <2>1. t \in EndBriefing(s)
    BY <1>2, <1>7 DEF Applied
  <2>2. Kept(t)
    BY <1>1, <2>1, EndKeeps
  <2>3. CASE s.status = "ended"
    BY <1>1, <2>1, <2>2, <2>3 DEF EndBriefing
  <2>4. CASE s.status # "ended"
    <3>1. /\ t.cursor = s.cursor /\ t.script = s.script /\ t.operation = None
          /\ t.manual = ManualInactive
      BY <1>1, <2>1, <2>4 DEF EndBriefing, When, Session
    <3> QED BY <2>2, <3>1 DEF ManualInactive
  <2> QED BY <2>3, <2>4
<1> QED BY <1>3, <1>4, <1>5, <1>6, <1>7

\* A refused command leaves the session.
LEMMA PlainTriedFits ==
    ASSUME NEW s, NEW p, Bound(s, p),
           NEW type \in {"START_BRIEFING", "KEEP_MANUAL_VIEW", "OPEN_COMPOSER",
                         "CLOSE_COMPOSER", "END_BRIEFING"},
           NEW t \in Tried(s, [type |-> type])
    PROVE  Bound(t, p)
BY PlainCommandFits DEF Tried

\* Taking the map over keeps cursor and script.
LEMMA UserMapFits ==
    ASSUME NEW s, NEW p, Bound(s, p), NEW v \in Viewports,
           NEW t \in Tried(s, [type |-> "USER_MAP_INTERACTION_STARTED",
                               viewport |-> v])
    PROVE  Bound(t, p)
<1> DEFINE c == [type |-> "USER_MAP_INTERACTION_STARTED", viewport |-> v]
<1>1. CASE t = s
  BY <1>1
<1>2. CASE t \in Accepted(s, c)
  <2>1. ValidSession(t) /\ t \in UserMapInteractionStarted(s, c)
    BY <1>2 DEF Accepted, Applied
  <2>2. s \in Session /\ SessionInv(s)
    BY BoundHas DEF Bound
  <2>3. Kept(t)
    BY <2>1, <2>2, UserMapKeeps
  <2>4. /\ t.cursor = s.cursor /\ t.script = s.script /\ t.operation = None
        /\ t.manual = [status |-> "active", viewport |-> c.viewport]
    BY <2>1, <2>2 DEF UserMapInteractionStarted, When, Session
  <2>5. t.manual.status = "active"
    BY <2>4
  <2> QED BY <2>1, <2>3, <2>4, <2>5, BoundKept
<1> QED BY <1>1, <1>2 DEF Tried

\* The motion back to the briefing completes at once.
LEMMA ReturnedFits ==
    ASSUME NEW s, NEW p, Bound(s, p), NEW o \in OperationIds, NEW t \in Returned(s, o)
    PROVE  Bound(t, p)
<1> DEFINE back == [type |-> "RETURN_TO_BRIEFING_CAMERA", operation |-> o]
           done == [type |-> "SCENE_MOTION_COMPLETED", operation |-> o]
<1>1. CASE t = s
  BY <1>1
<1>2. ASSUME NEW u \in Accepted(s, back), t \in Accepted(u, done)
      PROVE  Bound(t, p)
  <2>1. s \in Session /\ SessionInv(s)
    BY BoundHas DEF Bound
  <2>2. ValidSession(u) /\ u \in ReturnToBriefingCamera(s, back)
    BY DEF Accepted, Applied
  <2>3. SessionInv(u)
    BY <2>1, <2>2, ReturnKeeps DEF SessionInv, Kept
  <2>4. u.cursor = s.cursor /\ u.script = s.script
    BY <2>1, <2>2 DEF ReturnToBriefingCamera, When, Session
  <2>5. ValidSession(t) /\ t \in SceneMotionCompleted(u, done)
    BY <1>2 DEF Accepted, Applied
  <2>6. Kept(t)
    BY <2>3, <2>5, MotionDoneKeeps
  <2>7. u \in Session
    BY <2>2 DEF ValidSession
  <2>8. /\ t.cursor = u.cursor /\ t.script = u.script /\ t.operation = None
        /\ t.manual = ManualInactive
    BY <2>5, <2>7 DEF SceneMotionCompleted, When, Session
  <2>9. t.manual.status = "inactive"
    BY <2>8 DEF ManualInactive
  <2> QED BY <2>4, <2>5, <2>6, <2>8, <2>9, BoundKept
<1> QED BY <1>1, <1>2 DEF Returned

-----------------------------------------------------------------------------
(* Follow-ups                                                              *)

\* Session u is session s with a replan running over it.
Running(u, s) ==
    /\ SessionInv(u) /\ u.status = "replanning"
    /\ u.operation # None /\ u.operation.kind = "replan"
    /\ Briefing(u) = Briefing(s) /\ u.resume = s.resume

\* A submitted follow-up changes nothing of the briefing.
LEMMA ReplanningRuns ==
    ASSUME NEW s, NEW p, Bound(s, p), NEW u \in Replanning(s)
    PROVE  Running(u, s) /\ s.status = "composer-open"
<1>1. PICK t \in Submitted(s) : u \in Started(t)
  BY DEF Replanning
<1>2. PICK f \in FollowUps, o \in OperationIds :
         t \in Accepted(s, [type |-> "SUBMIT_FOLLOW_UP", followUp |-> f,
                            operation |-> o])
  BY <1>1 DEF Submitted
<1> DEFINE c == [type |-> "SUBMIT_FOLLOW_UP", followUp |-> f, operation |-> o]
<1> DEFINE d == [type |-> "REPLAN_STARTED", operation |-> t.operation.id]
<1>3. s \in Session /\ SessionInv(s)
  BY BoundHas DEF Bound
<1>4. ValidSession(t) /\ t \in SubmitFollowUp(s, c)
  BY <1>2 DEF Accepted, Applied
<1>5. SessionInv(t)
  <2>1. c.operation \in OperationIds
    OBVIOUS
  <2> HIDE DEF c
  <2> QED BY <1>3, <1>4, <2>1, SubmitKeeps DEF SessionInv, Kept
<1>6. /\ s.status = "composer-open" /\ t.script = s.script
      /\ t.question = s.question /\ t.cursor = s.cursor
      /\ t.manual = s.manual /\ t.viewport = s.viewport /\ t.resume = s.resume
  BY <1>3, <1>4 DEF SubmitFollowUp, When, Session
<1>7. ValidSession(u) /\ u \in ReplanStarted(t, d)
  BY <1>1 DEF Started, Accepted, Applied
<1> HIDE DEF d
<1>8. SessionInv(u)
  BY <1>5, <1>7, ReplanStartKeeps DEF SessionInv, Kept
<1>9. t \in Session /\ t.status = "replanning" /\ t.operation # None
      /\ t.operation \in Operation
  BY <1>4, <1>7 DEF ValidSession, ReplanStarted, When, Session, Owns
<1>10. u = [t EXCEPT !.operation = [t.operation EXCEPT !.kind = "replan"]]
  BY <1>7, <1>9 DEF ReplanStarted, When, Session
<1>11. /\ u.status = "replanning" /\ u.script = t.script
       /\ u.question = t.question /\ u.cursor = t.cursor
       /\ u.manual = t.manual /\ u.viewport = t.viewport /\ u.resume = t.resume
       /\ u.operation = [t.operation EXCEPT !.kind = "replan"]
  BY <1>9, <1>10 DEF Session
<1>12. u.operation.kind = "replan"
  BY <1>9, <1>11 DEF Operation
<1>13. u.operation # None
  BY <1>8, <1>11 DEF SessionInv, ValidSession
<1> QED BY <1>6, <1>8, <1>11, <1>12, <1>13 DEF Running, Briefing

\* An open composer always accepts a follow-up.
LEMMA ReplanningStarts ==
    ASSUME NEW s, NEW p, Bound(s, p), s.status = "composer-open"
    PROVE  Replanning(s) # {}
<1>1. PICK f \in FollowUps, o \in OperationIds : TRUE
  BY WebAssumption
<1>2. s \in Session /\ ValidSession(s)
  BY BoundHas
<1>3. PICK a : a = [id |-> o, kind |-> "follow-up", target |-> None]
  OBVIOUS
<1>4. PICK b : b = [a EXCEPT !.kind = "replan"]
  OBVIOUS
<1>5. /\ a \in Operation /\ b \in Operation /\ a # None /\ b # None
      /\ a.id = o /\ a.kind = "follow-up"
  BY <1>3, <1>4, ConstantsAssumption DEF Operation, FollowUpKinds
<1>6. PICK t : t = [s EXCEPT !.status = "replanning", !.composer = "expanded",
                             !.followUp = f, !.operation = a]
  OBVIOUS
<1>7. PICK u : u = [t EXCEPT !.operation = b]
  OBVIOUS
<1>8. /\ t \in Session /\ t.status = "replanning" /\ t.operation = a
      /\ t.cursor = s.cursor /\ t.manual = s.manual /\ t.composer = "expanded"
  BY <1>2, <1>5, <1>6 DEF Session, Statuses
<1>9. /\ u \in Session /\ u.status = "replanning" /\ u.operation = b
      /\ u.cursor = s.cursor /\ u.manual = s.manual /\ u.composer = "expanded"
  BY <1>5, <1>7, <1>8 DEF Session
<1>10. ValidSession(t) /\ ValidSession(u)
  BY <1>2, <1>5, <1>8, <1>9 DEF ValidSession
<1>11. t \in Accepted(s, [type |-> "SUBMIT_FOLLOW_UP", followUp |-> f,
                          operation |-> o])
  BY <1>3, <1>6, <1>10 DEF Accepted, Applied, SubmitFollowUp, When
<1>12. u \in Accepted(t, [type |-> "REPLAN_STARTED",
                          operation |-> t.operation.id])
  <2> DEFINE d == [type |-> "REPLAN_STARTED", operation |-> t.operation.id]
  <2>1. Owns(t, d.operation) /\ t.operation.kind = "follow-up"
    BY <1>5, <1>8 DEF Owns
  <2>2. u = [t EXCEPT !.operation.kind = "replan"]
    BY <1>4, <1>7, <1>8 DEF Session
  <2>3. u \in ReplanStarted(t, d)
    BY <1>8, <2>1, <2>2 DEF ReplanStarted, When
  <2> QED BY <1>10, <2>3 DEF Accepted, Applied
<1>13. t \in Submitted(s)
  BY <1>11 DEF Submitted
<1> QED BY <1>12, <1>13 DEF Replanning, Started

\* What a follow-up without a replacement leaves.
Unapplied(t, s, p) == Bound(t, p) /\ Briefing(t) = Briefing(s)

\* A resolved follow-up returns, or reopens the composer, over the same briefing.
LEMMA ResolvedFits ==
    ASSUME NEW s, NEW p, Bound(s, p), NEW u, Running(u, s),
           NEW r, NEW t \in Resolved(u, r)
    PROVE  Unapplied(t, s, p)
<1> DEFINE c == [type |-> "REPLAN_RESOLVED", operation |-> u.operation.id,
                 sameStart |-> TRUE, resolution |-> r]
<1>1. ValidSession(t) /\ t \in ReplanResolved(u, c)
  BY DEF Resolved, Accepted, Applied
<1> HIDE DEF c
<1>2. SessionInv(u) /\ u \in Session
  BY DEF Running, SessionInv, ValidSession
<1>3. Kept(t)
  BY <1>1, <1>2, ReplanResolveKeeps
<1>4. /\ t.script = u.script /\ t.question = u.question /\ t.cursor = u.cursor
      /\ t.manual = u.manual /\ t.viewport = u.viewport /\ t.operation = None
  <2>1. CASE c.resolution = "answer"
    BY <1>1, <1>2, <2>1 DEF ReplanResolved, Session
  <2>2. CASE c.resolution # "answer"
    BY <1>1, <1>2, <2>2 DEF ReplanResolved, Session
  <2> QED BY <2>1, <2>2
<1>5. Briefing(u) = Briefing(s)
  BY DEF Running
<1>6. Briefing(t) = Briefing(s)
  BY <1>4, <1>5 DEF Briefing
<1>7. t.cursor = s.cursor /\ t.script = s.script /\ t.manual = s.manual
  BY <1>6 DEF Briefing
<1>8. t.manual.status # "returning-to-briefing"
  BY <1>7 DEF Bound
<1> QED BY <1>1, <1>3, <1>4, <1>6, <1>7, <1>8, BoundKept DEF Unapplied

\* A failed follow-up leaves the composer for the status it was opened over.
LEMMA RolledBackFits ==
    ASSUME NEW s, NEW p, Bound(s, p), NEW t \in RolledBack(s)
    PROVE  /\ Unapplied(t, s, p)
           /\ (s.status = "composer-open" => t.status = s.resume)
<1>1. ASSUME NEW u \in Replanning(s),
             t \in Accepted(u, [type |-> "REPLAN_FAILED",
                                operation |-> u.operation.id])
      PROVE  Unapplied(t, s, p) /\ t.status = s.resume
  <2> DEFINE c == [type |-> "REPLAN_FAILED", operation |-> u.operation.id]
  <2>1. ValidSession(t) /\ t \in ReplanFailed(u, c)
    BY <1>1 DEF Accepted, Applied
  <2> HIDE DEF c
  <2>2. Running(u, s) /\ s.status = "composer-open"
    BY ReplanningRuns
  <2>3. SessionInv(u) /\ u \in Session /\ u.resume = s.resume
    BY <2>2 DEF Running, SessionInv, ValidSession
  <2>4. Kept(t)
    BY <2>1, <2>3, ReplanFailKeeps
  <2>5. s.resume # None
    BY <2>2, BoundHas DEF Composing
  <2>6. /\ t.script = u.script /\ t.question = u.question /\ t.cursor = u.cursor
        /\ t.manual = u.manual /\ t.viewport = u.viewport /\ t.operation = None
        /\ t.status = ResumeOr(u, "briefing-ready")
    BY <2>1, <2>3 DEF ReplanFailed, When, Session
  <2>7. Briefing(u) = Briefing(s)
    BY <2>2 DEF Running
  <2>8. Briefing(t) = Briefing(s)
    BY <2>6, <2>7 DEF Briefing
  <2>9. t.cursor = s.cursor /\ t.script = s.script /\ t.manual = s.manual
    BY <2>8 DEF Briefing
  <2>10. t.manual.status # "returning-to-briefing"
    BY <2>9 DEF Bound
  <2>11. t.status = s.resume
    BY <2>3, <2>5, <2>6 DEF ResumeOr
  <2> QED BY <2>1, <2>4, <2>6, <2>8, <2>9, <2>10, <2>11, BoundKept DEF Unapplied
<1>2. s.status = "composer-open" =>
        \E u \in Replanning(s) : Accepted(u, [type |-> "REPLAN_FAILED",
                                              operation |-> u.operation.id]) # {}
  <2> SUFFICES ASSUME s.status = "composer-open"
               PROVE  \E u \in Replanning(s) :
                         Accepted(u, [type |-> "REPLAN_FAILED",
                                      operation |-> u.operation.id]) # {}
    OBVIOUS
  <2>1. PICK u \in Replanning(s) : TRUE
    BY ReplanningStarts
  <2>2. Running(u, s)
    BY ReplanningRuns
  <2>3. CanRollBack(u) /\ u.status = "replanning"
    BY <2>2, RollbackAccepted DEF Running
  <2> QED BY <2>3 DEF CanRollBack
<1> DEFINE failed == UNION {Accepted(u, [type |-> "REPLAN_FAILED",
                                         operation |-> u.operation.id]) :
                            u \in Replanning(s)}
<1>3. t \in IF failed = {} THEN {s} ELSE failed
  BY DEF RolledBack
<1>4. CASE failed = {}
  <2>1. t = s
    BY <1>3, <1>4
  <2>2. s.status # "composer-open"
    BY <1>2, <1>4
  <2> QED BY <2>1, <2>2 DEF Unapplied
<1>5. CASE failed # {}
  <2>1. t \in failed
    BY <1>3, <1>5
  <2>2. PICK u \in Replanning(s) : t \in Accepted(u, [type |-> "REPLAN_FAILED",
                                                      operation |-> u.operation.id])
    BY <2>1
  <2> QED BY <1>1, <2>2
<1> QED BY <1>4, <1>5

-----------------------------------------------------------------------------
(* Replacements                                                            *)

\* Scene indexes count from zero.
LEMMA PlaceIs ==
    ASSUME NEW q \in Scripts, NEW x \in Range(ScenesOf[q])
    PROVE  /\ PlaceOf(q, x) \in Nat /\ PlaceOf(q, x) < Len(ScenesOf[q])
           /\ SceneAt(q, PlaceOf(q, x)) = x
<1>1. ScenesOf[q] \in Seq(SceneIds) /\ Len(ScenesOf[q]) \in Nat
  BY ConstantsAssumption
<1>2. PICK j \in 1 .. Len(ScenesOf[q]) : ScenesOf[q][j] = x
  BY <1>1 DEF Range
<1>3. j - 1 \in 0 .. Len(ScenesOf[q]) - 1 /\ SceneAt(q, j - 1) = x
  BY <1>1, <1>2 DEF SceneAt
<1>4. /\ PlaceOf(q, x) \in 0 .. Len(ScenesOf[q]) - 1
      /\ SceneAt(q, PlaceOf(q, x)) = x
  BY <1>3 DEF PlaceOf
<1> QED BY <1>1, <1>4

\* A mapping that can be prepared names a scene of the replacement.
Names(m, q) ==
    \/ m.strategy = "restart-at-opening"
    \/ /\ m.strategy = "map-to-scene"
       /\ m.index \in Nat /\ m.index < Len(ScenesOf[q])
       /\ SceneAt(q, m.index) = m.scene

\* A prepared replacement names scenes of another script, each once.
LEMMA PreparedNames ==
    ASSUME NEW s, NEW p, NEW r \in Prepared(s, p)
    PROVE  /\ r.script \in Scripts /\ r.script # p
           /\ IsInjective(ScenesOf[r.script]) /\ Names(r.mapping, r.script)
<1>1. PICK scope \in Scopes : r \in PreparedFor(s, p, scope)
  BY DEF Prepared
<1>2. PICK q \in Variants(p, scope, s.cursor.index) :
         r \in {[script |-> q, mapping |-> m] : m \in SceneMappings(s, p, q, scope)}
  BY <1>1 DEF PreparedFor
<1>3. PICK m \in SceneMappings(s, p, q, scope) : r = [script |-> q, mapping |-> m]
  BY <1>2
<1>4. q \in Scripts /\ q # p /\ IsInjective(ScenesOf[q])
  BY DEF Variants
<1>5. Names(m, q)
  <2>1. CASE scope = "revise-current-scene"
    <3>1. PICK x \in Range(ScenesOf[q]) :
             m = [strategy |-> "map-to-scene",
                  policy |-> "apply-replacement-scene-camera",
                  scene |-> x, index |-> PlaceOf(q, x)]
      BY <2>1 DEF SceneMappings
    <3> QED BY <1>4, <3>1, PlaceIs DEF Names
  <2>2. CASE scope = "replace-remaining-scenes"
    <3>1. PICK x \in NearestPreceding(s, p, q) :
             m = [strategy |-> "map-to-scene",
                  policy |-> "preserve-when-scene-survives",
                  scene |-> x, index |-> PlaceOf(q, x)]
      BY <2>2 DEF SceneMappings
    <3>2. x \in Range(ScenesOf[q])
      BY DEF NearestPreceding
    <3> QED BY <1>4, <3>1, <3>2, PlaceIs DEF Names
  <2>3. CASE scope \in {"rebuild-entire-briefing", "personal-context"}
    <3>1. m = [strategy |-> "restart-at-opening",
               policy |-> "apply-replacement-scene-camera"]
      BY <2>3 DEF SceneMappings
    <3> QED BY <3>1 DEF Names
  <2> QED BY <1>1, <2>1, <2>2, <2>3 DEF Scopes
<1> QED BY <1>3, <1>4, <1>5

\* The command that commits replacement r of script p over session u.
Completion(u, p, r) ==
    [type |-> "REPLAN_COMPLETED", operation |-> u.operation.id,
     previous |-> p, script |-> r.script, mapping |-> r.mapping]

\* What the reducer makes of it.
LEMMA ReplacedIs ==
    ASSUME NEW s, NEW p, Bound(s, p), NEW u, Running(u, s),
           NEW r \in Prepared(s, p), NEW c, c = Completion(u, p, r),
           NEW t, t = Replaced(u, c)
    PROVE  /\ CanReplace(u, c)
           /\ t.script = r.script /\ t.cursor \in Cursor /\ ValidCursor(t.cursor)
           /\ OnScript(t) /\ t.operation = None
           /\ \/ /\ t.status = "manual-map-view" /\ t.manual = u.manual
                 /\ t.viewport = u.viewport /\ t.manual.status = "active"
              \/ /\ t.status \in {"closing", "presenting-scene"}
                 /\ t.manual = ManualInactive /\ t.viewport = None
<1>1. /\ u \in Session /\ ValidSession(u) /\ u.script = p
      /\ u.manual.status # "returning-to-briefing"
  <2>1. Briefing(u) = Briefing(s) /\ u \in Session /\ ValidSession(u)
    BY DEF Running, SessionInv, ValidSession
  <2>2. u.script = s.script /\ u.manual = s.manual
    BY <2>1 DEF Briefing
  <2> QED BY <2>1, <2>2 DEF Bound
<1>2. /\ c.type = "REPLAN_COMPLETED" /\ c.operation = u.operation.id
      /\ c.previous = p /\ c.script = r.script /\ c.mapping = r.mapping
  BY DEF Completion
<1>3. /\ c.script \in Scripts /\ IsInjective(ScenesOf[c.script])
      /\ Names(c.mapping, c.script)
  BY <1>2, PreparedNames
<1>4. MappingResolves(u, c.mapping, ScenesOf[c.script])
  BY <1>3 DEF MappingResolves, Names, SceneAt
<1>5. Strategic(c.mapping)
  BY <1>3 DEF Strategic, Names
<1>6. CanReplace(u, c)
  BY <1>1, <1>2, <1>4 DEF CanReplace, Owns, Running
<1>7. IsInjective(u.cursor.visited)
  BY <1>1 DEF ValidSession, ValidCursor
<1>8. /\ t.script = c.script /\ t.cursor \in Cursor /\ ValidCursor(t.cursor)
      /\ OnScript(t)
  BY <1>1, <1>3, <1>4, <1>5, <1>7, ReplacedOnScript
<1> DEFINE keepView == PolicyPreserves(c.mapping) /\ u.manual.status # "inactive"
           index == TargetIndex(u, c.mapping, ScenesOf[c.script])
<1>9. /\ t.operation = None
      /\ t.status = IF keepView THEN "manual-map-view"
                    ELSE StatusAt(index, Len(ScenesOf[c.script]))
      /\ t.manual = IF keepView THEN u.manual ELSE ManualInactive
      /\ t.viewport = IF keepView THEN u.viewport ELSE None
  BY <1>1 DEF Replaced, Session
<1>10. u.manual.status # "inactive" => u.manual.status = "active"
  <2>1. u.manual \in ManualView
    BY <1>1 DEF Session
  <2> QED BY <1>1, <2>1 DEF ManualView, ManualInactive
<1>11. StatusAt(index, Len(ScenesOf[c.script])) \in {"closing", "presenting-scene"}
  BY DEF StatusAt
<1> HIDE DEF index
<1> QED BY <1>2, <1>6, <1>8, <1>9, <1>10, <1>11

\* Every replacement that can be prepared is committed.
LEMMA ReplacementAccepted ==
    ASSUME NEW s, NEW p, Bound(s, p), NEW u, Running(u, s), NEW r \in Prepared(s, p)
    PROVE  Completed(u, p, r.script, r.mapping) # {}
<1>1. PICK c : c = Completion(u, p, r)
  OBVIOUS
<1>2. PICK t : t = Replaced(u, c)
  OBVIOUS
<1>3. /\ CanReplace(u, c)
      /\ t.script = r.script /\ t.cursor \in Cursor /\ ValidCursor(t.cursor)
      /\ t.operation = None
      /\ \/ /\ t.status = "manual-map-view" /\ t.manual = u.manual
            /\ t.viewport = u.viewport /\ t.manual.status = "active"
         \/ /\ t.status \in {"closing", "presenting-scene"}
            /\ t.manual = ManualInactive /\ t.viewport = None
  BY <1>1, <1>2, ReplacedIs
<1>4. u \in Session
  BY DEF Running, SessionInv, ValidSession
<1>5. r.script \in Scripts /\ QuestionOf[r.script] \in Questions
  BY PreparedNames, ConstantsAssumption
<1>6. t \in Session
  <2>1. PICK k, st, mv, vp : k = t.cursor /\ st = t.status /\ mv = t.manual
                             /\ vp = t.viewport
    OBVIOUS
  <2>2. t = [u EXCEPT !.question = QuestionOf[r.script], !.script = r.script,
                      !.cursor = k, !.status = st, !.manual = mv,
                      !.viewport = vp, !.composer = "compact",
                      !.operation = None, !.resume = None, !.failed = FALSE]
    BY <1>1, <1>2, <1>4, <2>1 DEF Replaced, Completion, Session
  <2>3. k \in Cursor /\ st \in Statuses
    BY <1>3, <2>1 DEF Statuses, Returnable
  <2>4. mv \in ManualView /\ vp \in Viewports \cup {None}
    BY <1>3, <1>4, <2>1 DEF Session, ManualView
  <2> QED BY <1>4, <1>5, <2>2, <2>3, <2>4 DEF Session
<1>7. ValidSession(t)
  <2>1. ManualInactive.status = "inactive"
    BY DEF ManualInactive
  <2> QED BY <1>3, <1>6, <2>1 DEF ValidSession
<1>8. t \in Applied(u, c)
  BY <1>1, <1>2, <1>3 DEF Applied, ReplanCompleted, When, Completion
<1> QED BY <1>1, <1>7, <1>8 DEF Completed, Accepted, Completion

\* A committed replacement presents the new script, on one of its scenes.
LEMMA ReplacementFits ==
    ASSUME NEW s, NEW p, Bound(s, p), NEW u, Running(u, s), NEW r \in Prepared(s, p),
           NEW t \in Completed(u, p, r.script, r.mapping)
    PROVE  Bound(t, r.script)
<1>1. PICK c : c = Completion(u, p, r)
  OBVIOUS
<1>2. ValidSession(t) /\ t \in ReplanCompleted(u, c)
  BY <1>1 DEF Completed, Accepted, Applied, Completion
<1>3. t = Replaced(u, c)
  BY <1>2 DEF ReplanCompleted, When
<1>4. Kept(t)
  BY <1>2, ReplanCompleteKeeps DEF Running
<1>5. t.script = r.script /\ OnScript(t) /\ t.operation = None
      /\ (t.manual.status = "active" \/ t.manual = ManualInactive)
  BY <1>1, <1>3, ReplacedIs
<1>6. t.manual.status # "returning-to-briefing"
  BY <1>5 DEF ManualInactive
<1>7. IsInjective(ScenesOf[r.script])
  BY PreparedNames
<1> QED BY <1>2, <1>4, <1>5, <1>6, <1>7 DEF Bound, SessionInv, Kept

-----------------------------------------------------------------------------
(* Outcomes of a follow-up                                                 *)

\* A follow-up is applied with its script or leaves the briefing as it was.
LEMMA OutcomeFits ==
    ASSUME NEW s, NEW p, Bound(s, p), NEW o \in Outcomes(s, p)
    PROVE  \/ /\ o.view = "replaced" /\ o.script # p /\ Bound(o.session, o.script)
           \/ /\ o.view # "replaced" /\ o.script = p /\ Unapplied(o.session, s, p)
              /\ o.view = "failed" =>
                    (s.status = "composer-open" => o.session.status = s.resume)
<1> DEFINE running == Replanning(s)
           resolved(r, v) == {Outcome(t, p, v) :
                              t \in UNION {Resolved(u, r) : u \in running}}
           replaced(r) == UNION {{Replacement(t, r.script) :
                                  t \in Completed(u, p, r.script, r.mapping)} :
                                 u \in running}
<1>1. \/ o \in resolved("answer", "answer")
      \/ o \in resolved("ask", "clarification")
      \/ o \in resolved("ask", "unsupported")
      \/ o \in {Outcome(t, p, "failed") : t \in RolledBack(s)}
      \/ o \in UNION {replaced(r) : r \in Prepared(s, p)}
  BY DEF Outcomes
<1>2. ASSUME NEW r, NEW v, v \notin {"failed", "replaced"}, o \in resolved(r, v)
      PROVE  /\ o.view = v /\ o.script = p /\ Unapplied(o.session, s, p)
  <2>1. PICK u \in running : \E t \in Resolved(u, r) : o = Outcome(t, p, v)
    BY <1>2
  <2>2. PICK t \in Resolved(u, r) : o = Outcome(t, p, v)
    BY <2>1
  <2>3. Running(u, s)
    BY ReplanningRuns
  <2>4. Unapplied(t, s, p)
    BY <2>3, ResolvedFits
  <2> QED BY <2>2, <2>4 DEF Outcome
<1>3. CASE \/ o \in resolved("answer", "answer")
           \/ o \in resolved("ask", "clarification")
           \/ o \in resolved("ask", "unsupported")
  <2> HIDE DEF resolved
  <2>1. o.view \in {"answer", "clarification", "unsupported"} /\ o.script = p
        /\ Unapplied(o.session, s, p)
    BY <1>2, <1>3
  <2> QED BY <2>1
<1>4. CASE o \in {Outcome(t, p, "failed") : t \in RolledBack(s)}
  <2>1. PICK t \in RolledBack(s) : o = Outcome(t, p, "failed")
    BY <1>4
  <2>2. Unapplied(t, s, p) /\ (s.status = "composer-open" => t.status = s.resume)
    BY RolledBackFits
  <2>3. o.session = t /\ o.script = p /\ o.view = "failed"
    BY <2>1 DEF Outcome
  <2> QED BY <2>2, <2>3
<1>5. CASE o \in UNION {replaced(r) : r \in Prepared(s, p)}
  <2>1. PICK r \in Prepared(s, p) : o \in replaced(r)
    BY <1>5
  <2>2. PICK u \in running : \E t \in Completed(u, p, r.script, r.mapping) :
                                o = Replacement(t, r.script)
    BY <2>1
  <2>3. PICK t \in Completed(u, p, r.script, r.mapping) : o = Replacement(t, r.script)
    BY <2>2
  <2>4. Running(u, s)
    BY ReplanningRuns
  <2>5. Bound(t, r.script) /\ r.script # p
    BY <2>4, ReplacementFits, PreparedNames
  <2>6. o.session = t /\ o.script = r.script /\ o.view = "replaced"
    BY <2>3 DEF Outcome, Replacement
  <2> QED BY <2>5, <2>6
<1> QED BY <1>1, <1>3, <1>4, <1>5

\* Opening the composer keeps the briefing; an open one is left as it is.
LEMMA OpenedFits ==
    ASSUME NEW s, NEW p, Bound(s, p), NEW t \in Opened(s)
    PROVE  Unapplied(t, s, p) /\ (s.status = "composer-open" => t = s)
<1>1. CASE s.status = "composer-open"
  BY <1>1 DEF Opened, Unapplied
<1>2. CASE s.status # "composer-open"
  <2>1. t \in Accepted(s, [type |-> "OPEN_COMPOSER"])
    BY <1>2 DEF Opened
  <2>2. Bound(t, p)
    BY <2>1, PlainCommandFits
  <2>3. t \in OpenComposer(s)
    BY <2>1 DEF Accepted, Applied
  <2>4. s \in Session
    BY BoundHas
  <2>5. /\ t.script = s.script /\ t.question = s.question /\ t.cursor = s.cursor
        /\ t.manual = s.manual /\ t.viewport = s.viewport
    BY <2>3, <2>4 DEF OpenComposer, When, Session
  <2> QED BY <1>2, <2>2, <2>5 DEF Unapplied, Briefing
<1> QED BY <1>1, <1>2

-----------------------------------------------------------------------------
(* The player                                                              *)

PlayerStatuses == {"exploration", "ready", "playing", "paused", "ended"}

Player == [status : PlayerStatuses, count : Nat, index : Nat,
           composer : BOOLEAN, conflict : BOOLEAN]

\* The player counts n scenes and shows one of them.
Shows(q, n) == q \in Player /\ q.count = n /\ q.index < n

\* No operation of the player leaves its scenes.
LEMMA PlayerStays ==
    ASSUME NEW q, NEW n \in Nat, Shows(q, n)
    PROVE  /\ Shows(Play(q), n) /\ Shows(PlayNext(q), n)
           /\ Shows(PlayPrevious(q), n) /\ Shows(PlayAgain(q), n)
           /\ Shows(EndPlaying(q), n) /\ Shows(FocusComposer(q), n)
           /\ Shows(CancelFocus(q), n) /\ Shows(MapMoved(q), n)
           /\ Shows([q EXCEPT !.conflict = FALSE], n)
<1> USE DEF Shows, Player, PlayerStatuses
<1>1. Shows(Play(q), n)
  BY DEF Play
<1>2. Shows(PlayNext(q), n)
  <2>1. PICK next : next = IF q.index + 1 < q.count THEN q.index + 1 ELSE q.count - 1
    OBVIOUS
  <2>2. next \in Nat /\ next < n
    BY <2>1
  <2>3. PlayNext(q) = [q EXCEPT !.index = next,
                                !.status = IF next = q.count - 1 THEN "ended"
                                           ELSE q.status]
    BY <2>1 DEF PlayNext
  <2> QED BY <2>2, <2>3
<1>3. Shows(PlayPrevious(q), n)
  <2>1. PICK prior : prior = IF q.index > 0 THEN q.index - 1 ELSE 0
    OBVIOUS
  <2>2. prior \in Nat /\ prior < n
    BY <2>1
  <2>3. PlayPrevious(q) = [q EXCEPT !.index = prior,
                                    !.status = IF q.status = "ended" THEN "paused"
                                               ELSE q.status]
    BY <2>1 DEF PlayPrevious
  <2> QED BY <2>2, <2>3
<1>4. Shows(PlayAgain(q), n) /\ Shows(EndPlaying(q), n)
  <2>1. 0 < n
    OBVIOUS
  <2>2. Shows(PlayAgain(q), n)
    BY <2>1 DEF PlayAgain
  <2>3. Shows(EndPlaying(q), n)
    BY <2>1 DEF EndPlaying
  <2> QED BY <2>2, <2>3
<1>5. Shows(FocusComposer(q), n) /\ Shows(CancelFocus(q), n)
  BY DEF FocusComposer, CancelFocus
<1>6. Shows(MapMoved(q), n) /\ Shows([q EXCEPT !.conflict = FALSE], n)
  BY DEF MapMoved
<1> QED BY <1>1, <1>2, <1>3, <1>4, <1>5, <1>6

\* Once synchronized it shows the scene of the cursor.
LEMMA SyncShows ==
    ASSUME NEW q \in Player, NEW n \in Nat, NEW i \in Nat, i < n
    PROVE  Shows(SyncScript(q, n, i), n)
<1>1. PICK st : st = IF q.count = 0 THEN "ready" ELSE AtIndex(q.status, i, n)
  OBVIOUS
<1>2. st \in PlayerStatuses
  BY <1>1 DEF AtIndex, Player, PlayerStatuses
<1>3. SyncScript(q, n, i) = [q EXCEPT !.count = n, !.index = i, !.status = st]
  BY <1>1 DEF SyncScript
<1> QED BY <1>2, <1>3 DEF Shows, Player

-----------------------------------------------------------------------------
(* The inductive invariant                                                 *)

\* The dependencies rendered last are the ones of a render, and while they name
\* the script that is presented the player counts its scenes.
PlayerFits ==
    /\ player \in Player
    /\ rendered = None \/ rendered \in DependencyValues
    /\ rendered # None /\ rendered.script = script =>
          Shows(player, Len(ScenesOf[script]))

\* After a navigation of the player its scene is still to be told to the session,
\* which will take it, or has reached it.
Following ==
    event = "navigated" =>
        /\ rendered \in DependencyValues /\ rendered.script = script
        /\ rendered.composer = session.composer
        /\ \/ /\ rendered.index # player.index
              /\ session.status \in {"presenting-scene", "manual-map-view"}
           \/ Settled /\ session.cursor.index = player.index

WebInv == Bound(session, script) /\ PlayerFits /\ Following

\* The dependencies of a render.
LEMMA DependenciesTyped ==
    ASSUME Bound(session, script), player \in Player
    PROVE  /\ Dependencies \in DependencyValues /\ Dependencies # None
           /\ Dependencies.script = script /\ Dependencies.index = player.index
           /\ Dependencies.composer = session.composer
           /\ Dependencies.scene = Shown /\ Shown \in SceneIds
           /\ (player.index < Len(ScenesOf[script]) =>
                  Shown = SceneAt(script, player.index))
<1>1. /\ script \in Scripts /\ ScenesOf[script] \in Seq(SceneIds)
      /\ Len(ScenesOf[script]) \in Nat \ {0}
      /\ session.composer \in {"closed", "compact", "expanded"}
  BY BoundHas
<1>2. player.index \in Nat
  BY DEF Player
<1>3. Shown \in SceneIds
  BY <1>1, <1>2 DEF Shown, SceneAt
<1> QED BY <1>1, <1>2, <1>3, WebAssumption DEF Dependencies, DependencyValues, Shown

\* When the effects have run, player and script agree.
LEMMA SettledShows ==
    ASSUME WebInv, Settled
    PROVE  /\ rendered \in DependencyValues /\ rendered.script = script
           /\ rendered.index = player.index /\ rendered.composer = session.composer
           /\ Shows(player, Len(ScenesOf[script]))
<1>1. /\ rendered \in DependencyValues /\ rendered # None
      /\ rendered.script = script /\ rendered.index = player.index
      /\ rendered.composer = session.composer
  BY DependenciesTyped DEF WebInv, PlayerFits, Settled
<1> QED BY <1>1 DEF WebInv, PlayerFits

\* An event of the user keeps the invariant when session and player fit.
LEMMA EventKeeps ==
    ASSUME WebInv, Ready, Bound(session', script'), script' = script,
           rendered' = rendered, Shows(player', Len(ScenesOf[script])),
           event' # "navigated"
    PROVE  WebInv'
<1>1. rendered \in DependencyValues
  BY SettledShows DEF Ready
<1> QED BY <1>1 DEF WebInv, PlayerFits, Following, Shows

\* A move of the player keeps the invariant.
LEMMA MoveKeepsWeb ==
    ASSUME WebInv, Ready, Shows(player', Len(ScenesOf[script])),
           event' = NavigationEvent,
           UNCHANGED <<session, script, view, rendered, alive>>
    PROVE  WebInv'
<1>1. /\ rendered \in DependencyValues /\ rendered.script = script
      /\ rendered.index = player.index /\ rendered.composer = session.composer
  BY SettledShows DEF Ready
<1>2. Bound(session, script)' /\ PlayerFits'
  BY <1>1 DEF WebInv, PlayerFits, Shows
<1>3. Following'
  BY <1>1 DEF Following, NavigationEvent
<1> QED BY <1>2, <1>3 DEF WebInv

\* A follow-up keeps the invariant.
LEMMA FollowUpKeeps ==
    ASSUME WebInv, Ready, NEW s, Bound(s, script), FollowUp(s)
    PROVE  WebInv'
<1>1. PICK o \in Outcomes(s, script) :
         session' = o.session /\ script' = o.script /\ view' = o.view
  BY DEF FollowUp
<1>2. Bound(session', script')
  BY <1>1, OutcomeFits DEF Unapplied
<1>3. /\ rendered \in DependencyValues /\ rendered.script = script
      /\ Shows(player, Len(ScenesOf[script]))
  BY SettledShows DEF Ready
<1>4. event' # "navigated" /\ player' = player /\ rendered' = rendered
  BY DEF FollowUp
<1>5. PlayerFits'
  BY <1>3, <1>4 DEF PlayerFits, Shows
<1> QED BY <1>2, <1>4, <1>5 DEF WebInv, Following

\* The effects of a render keep the invariant.
LEMMA CommitKeeps ==
    ASSUME WebInv, Commit
    PROVE  WebInv'
<1> DEFINE n == Len(ScenesOf[script])
<1>1. /\ script \in Scripts /\ n \in Nat \ {0} /\ IsInjective(ScenesOf[script])
      /\ session.cursor.index \in Nat /\ session.cursor.index < n
      /\ session.cursor.sceneId = SceneAt(script, session.cursor.index)
  BY BoundHas DEF WebInv, Bound
<1>2. /\ Dependencies \in DependencyValues /\ Dependencies # None
      /\ Dependencies.script = script /\ Dependencies.index = player.index
      /\ Dependencies.composer = session.composer
      /\ Dependencies.scene = Shown /\ Shown \in SceneIds
      /\ (player.index < n => Shown = SceneAt(script, player.index))
  BY DependenciesTyped DEF WebInv, PlayerFits
<1>3. /\ rendered' = Dependencies /\ script' = script /\ event' = event
      /\ player' = ComposerEffect(SyncEffect(player))
      /\ session' \in NavigateEffect(session) /\ ~Settled
  BY DEF Commit
<1>4. player \in Player /\ player.index \in Nat
  BY DEF WebInv, PlayerFits, Player
<1>5. ~Changed({"script"}) => rendered # None /\ rendered.script = script
  BY <1>2 DEF Changed
<1>6. Shows(SyncEffect(player), n)
  <2>1. CASE Changed({"script"})
    <3>1. SyncEffect(player) = SyncScript(player, n, session.cursor.index)
      BY <2>1 DEF SyncEffect
    <3> HIDE DEF n
    <3> QED BY <1>1, <1>4, <3>1, SyncShows
  <2>2. CASE ~Changed({"script"})
    BY <1>5, <2>2 DEF SyncEffect, WebInv, PlayerFits
  <2> QED BY <2>1, <2>2
<1>7. Shows(player', n)
  <2>1. \/ player' = FocusComposer(SyncEffect(player))
        \/ player' = CancelFocus(SyncEffect(player))
        \/ player' = SyncEffect(player)
    BY <1>3 DEF ComposerEffect
  <2> HIDE DEF n
  <2> QED BY <1>1, <1>6, <2>1, PlayerStays
<1>8. PlayerFits'
  BY <1>2, <1>3, <1>7 DEF PlayerFits, Shows
<1>9. \/ session' = session
      \/ session' \in Accepted(session, JumpTo(Shown, player.index))
  BY <1>3 DEF NavigateEffect, Navigated, Tried, JumpTo
<1>10. Bound(session', script')
  <2>1. CASE session' = session
    BY <1>3, <2>1 DEF WebInv
  <2>2. CASE session' \in Accepted(session, JumpTo(Shown, player.index))
    BY <1>2, <1>3, <1>4, <2>2, JumpFits DEF WebInv
  <2> QED BY <1>9, <2>1, <2>2
<1>11. Following'
  <2> SUFFICES ASSUME event = "navigated"
               PROVE  /\ rendered' = Dependencies'
                      /\ session'.cursor.index = player'.index
                      /\ rendered'.composer = session'.composer
    BY <1>2, <1>3 DEF Following, Settled
  <2>1. /\ rendered \in DependencyValues /\ rendered.script = script
        /\ rendered.composer = session.composer
        /\ rendered.index # player.index
        /\ session.status \in {"presenting-scene", "manual-map-view"}
    BY <1>3 DEF WebInv, Following
  <2>2. rendered # None
    BY <2>1, WebAssumption
  <2>3. ~Changed({"script"}) /\ ~Changed({"composer"}) /\ Changed({"index", "scene"})
    BY <1>2, <2>1, <2>2 DEF Changed
  <2>4. player' = player
    BY <1>3, <2>3 DEF SyncEffect, ComposerEffect
  <2>5. player.index < n /\ Shown = SceneAt(script, player.index)
    BY <1>2, <1>7, <2>4 DEF Shows
  <2>6. session' \in Navigated(session, Shown, player.index)
    BY <1>3, <2>1, <2>3 DEF NavigateEffect
  <2>7. session'.cursor.index = player.index /\ session'.composer = session.composer
    <3>1. CASE session.cursor.sceneId = Shown
      <4>1. session' = session
        BY <2>6, <3>1 DEF Navigated
      <4>2. session.cursor.index = player.index
        BY <1>1, <1>4, <2>5, <3>1, ScenesDiffer
      <4> QED BY <4>1, <4>2
    <3>2. CASE session.cursor.sceneId # Shown
      <4>1. session' \in Tried(session, JumpTo(Shown, player.index))
        BY <2>1, <2>6, <3>2 DEF Navigated, JumpTo
      <4>2. Accepted(session, JumpTo(Shown, player.index)) # {}
        BY <1>4, <2>1, <2>5, JumpAccepted DEF WebInv
      <4>3. session' \in Accepted(session, JumpTo(Shown, player.index))
        BY <4>1, <4>2 DEF Tried
      <4> QED BY <1>4, <2>5, <4>3, JumpFits DEF WebInv
    <3> QED BY <3>1, <3>2
  <2>8. Dependencies' = Dependencies
    BY <1>3, <2>4, <2>7 DEF Dependencies, Shown
  <2> QED BY <1>2, <1>3, <2>4, <2>7, <2>8
<1> QED BY <1>3, <1>8, <1>10, <1>11 DEF WebInv

\* A new session is bound to its script.
LEMMA InitialBound ==
    ASSUME NEW s \in InitialSessions
    PROVE  Bound(s, s.script)
<1>1. PICK p \in Scripts : s = InitialSession(p) /\ IsInjective(ScenesOf[p])
  BY DEF InitialSessions
<1>2. SessionInv(s)
  BY InitialHolds
<1>3. /\ s.script = p /\ s.operation = None /\ s.manual = ManualInactive
      /\ s.cursor.total = Len(ScenesOf[p]) /\ s.cursor.index = 0
      /\ s.cursor.sceneId = SceneAt(p, 0)
  BY <1>1 DEF InitialSession
<1>4. s.manual.status # "returning-to-briefing"
  BY <1>3 DEF ManualInactive
<1> QED BY <1>1, <1>2, <1>3, <1>4 DEF Bound, OnScript

\* At first nothing is played.
LEMMA WebInitially == Init => WebInv
<1> SUFFICES ASSUME Init PROVE WebInv
  OBVIOUS
<1>1. Bound(session, script)
  BY InitialBound DEF Init
<1>2. player \in Player
  BY DEF Init, NewPlayer, Player, PlayerStatuses
<1> QED BY <1>1, <1>2 DEF Init, WebInv, PlayerFits, Following

\* Every step keeps the invariant.
LEMMA WebStep == WebInv /\ [Next]_vars => WebInv'
<1> SUFFICES ASSUME WebInv, [Next]_vars PROVE WebInv'
  OBVIOUS
<1> DEFINE n == Len(ScenesOf[script])
<1>1. Bound(session, script) /\ n \in Nat
  BY BoundHas DEF WebInv
<1>2. Ready => Shows(player, n)
  BY SettledShows DEF Ready
<1>3. Ready => /\ Shows(Play(player), n) /\ Shows(PlayNext(player), n)
               /\ Shows(PlayPrevious(player), n) /\ Shows(PlayAgain(player), n)
               /\ Shows(EndPlaying(player), n) /\ Shows(FocusComposer(player), n)
               /\ Shows(CancelFocus(player), n) /\ Shows(MapMoved(player), n)
               /\ Shows([player EXCEPT !.conflict = FALSE], n)
  <2> HIDE DEF n
  <2> QED BY <1>1, <1>2, PlayerStays
<1> HIDE DEF n
<1>4. CASE Commit
  BY <1>4, CommitKeeps
<1>5. CASE GoNext
  BY <1>3, <1>5, MoveKeepsWeb DEF GoNext, n
<1>6. CASE GoBack
  BY <1>3, <1>6, MoveKeepsWeb DEF GoBack, n
<1>7. CASE CloseTransient
  BY <1>1, <1>3, <1>7, EventKeeps DEF CloseTransient, n
<1>8. CASE Replay
  BY <1>1, <1>3, <1>8, EventKeeps DEF Replay, n
<1>9. CASE MapInteraction
  <2>1. Bound(session', script)
    <3>1. CASE session.status = "manual-map-view"
      BY <1>1, <1>9, <3>1 DEF MapInteraction
    <3>2. CASE session.status # "manual-map-view"
      <4>1. PICK v \in Viewports :
               session' \in Tried(session, [type |-> "USER_MAP_INTERACTION_STARTED",
                                            viewport |-> v])
        BY <1>9, <3>2 DEF MapInteraction
      <4> QED BY <1>1, <4>1, UserMapFits
    <3> QED BY <3>1, <3>2
  <2> QED BY <1>3, <1>9, <2>1, EventKeeps DEF MapInteraction, n
<1>10. CASE KeepView
  <2>1. Bound(session', script)
    BY <1>1, <1>10, PlainTriedFits DEF KeepView
  <2> QED BY <1>3, <1>10, <2>1, EventKeeps DEF KeepView, n
<1>11. CASE ReturnCamera
  <2>1. Bound(session', script)
    <3>1. CASE session.status = "manual-map-view"
      <4>1. PICK o \in OperationIds : session' \in Returned(session, o)
        BY <1>11, <3>1 DEF ReturnCamera
      <4> QED BY <1>1, <4>1, ReturnedFits
    <3>2. CASE session.status # "manual-map-view"
      BY <1>1, <1>11, <3>2 DEF ReturnCamera
    <3> QED BY <3>1, <3>2
  <2> QED BY <1>3, <1>11, <2>1, EventKeeps DEF ReturnCamera, n
<1>12. CASE Start
  <2>1. Bound(session', script)
    BY <1>1, <1>12, PlainTriedFits DEF Start, Dispatch
  <2> QED BY <1>3, <1>12, <2>1, EventKeeps DEF Start, n
<1>13. CASE End
  <2>1. Bound(session', script)
    BY <1>1, <1>13, PlainTriedFits DEF End, Dispatch
  <2> QED BY <1>3, <1>13, <2>1, EventKeeps DEF End, n
<1>14. CASE Open
  <2>1. Bound(session', script)
    BY <1>1, <1>14, PlainTriedFits DEF Open, Dispatch
  <2> QED BY <1>3, <1>14, <2>1, EventKeeps DEF Open, n
<1>15. CASE Close
  <2>1. Bound(session', script)
    BY <1>1, <1>15, PlainTriedFits DEF Close, Dispatch
  <2> QED BY <1>3, <1>15, <2>1, EventKeeps DEF Close, n
<1>16. CASE Submit
  BY <1>1, <1>16, FollowUpKeeps DEF Submit
<1>17. CASE Retry
  <2>1. PICK s \in Opened(session) : FollowUp(s)
    BY <1>17 DEF Retry
  <2>2. Bound(s, script)
    BY <1>1, OpenedFits DEF Unapplied
  <2> QED BY <1>17, <2>1, <2>2, FollowUpKeeps DEF Retry
<1>18. CASE KeepCurrentBriefing
  <2>1. Bound(session', script)
    BY <1>1, <1>18, PlainCommandFits DEF KeepCurrentBriefing
  <2> QED BY <1>2, <1>18, <2>1, EventKeeps DEF KeepCurrentBriefing, n
<1>19. CASE Clarify
  <2>1. Bound(session', script)
    BY <1>1, <1>19, OpenedFits DEF Clarify, Unapplied
  <2> QED BY <1>2, <1>19, <2>1, EventKeeps DEF Clarify, n
<1>20. CASE Dismiss
  BY <1>1, <1>2, <1>20, EventKeeps DEF Dismiss, n
<1>21. CASE Remount
  <2>1. Bound(session', script')
    BY <1>21, InitialBound DEF Remount
  <2>2. player' \in Player
    BY <1>21 DEF Remount, NewPlayer, Player, PlayerStatuses
  <2> QED BY <1>21, <2>1, <2>2 DEF Remount, WebInv, PlayerFits, Following
<1>22. CASE SwapDemo
  <2>1. Bound(session', script')
    BY <1>22, InitialBound DEF SwapDemo
  <2>2. PlayerFits'
    BY <1>22, SettledShows DEF SwapDemo, Ready, PlayerFits, Shows
  <2> QED BY <1>22, <2>1, <2>2 DEF SwapDemo, WebInv, Following
<1>23. CASE UNCHANGED vars
  BY <1>23 DEF vars, WebInv, PlayerFits, Following, Settled, Dependencies, Shown
<1> QED
  BY <1>4, <1>5, <1>6, <1>7, <1>8, <1>9, <1>10, <1>11, <1>12, <1>13, <1>14, <1>15,
     <1>16, <1>17, <1>18, <1>19, <1>20, <1>21, <1>22, <1>23 DEF Next

-----------------------------------------------------------------------------
(* Theorems                                                                *)

\* The invariant of the page holds in every behaviour.
THEOREM WebInvariant == Spec => []WebInv
BY WebInitially, WebStep, PTL DEF Spec

\* Session, presented script and player stay together, and between two events
\* nothing locks the session, for any scripts and any sequence of events.
THEOREM SessionStaysOnScript == Spec => []SessionOnScript
<1>1. WebInv => SessionOnScript
  <2> SUFFICES ASSUME WebInv PROVE SessionOnScript
    OBVIOUS
  <2>1. /\ OnScript(session) /\ session.script = script /\ session.operation = None
        /\ session.manual.status # "returning-to-briefing"
    BY DEF WebInv, Bound
  <2>2. session.status \notin {"replanning", "scene-motion-running"}
    BY BoundHas DEF WebInv, Returnable
  <2>3. Settled => player.count = Len(ScenesOf[script]) /\ player.index < player.count
    BY SettledShows DEF Shows
  <2> QED BY <2>1, <2>2, <2>3 DEF SessionOnScript
<1> QED BY <1>1, WebInvariant, PTL

\* A navigation of the player over a presented briefing reaches the session.
THEOREM NavigationReachesSession == Spec => []NavigationIsFollowed
<1>1. WebInv => NavigationIsFollowed
  <2> SUFFICES ASSUME WebInv, Settled, event = "navigated"
               PROVE  session.cursor.index = player.index
    BY DEF NavigationIsFollowed
  <2>1. rendered.index = player.index
    BY SettledShows
  <2> QED BY <2>1 DEF WebInv, Following
<1> QED BY <1>1, WebInvariant, PTL

\* No replacement that can be prepared is refused by the reducer.
THEOREM ReplacementsAreCommitted == Spec => []ReplacementsCommit
<1>1. WebInv => ReplacementsCommit
  <2> SUFFICES ASSUME WebInv, NEW r \in Prepared(session, script),
                      NEW u \in Replanning(session)
               PROVE  Completed(u, script, r.script, r.mapping) # {}
    BY DEF ReplacementsCommit
  <2>1. Bound(session, script)
    BY DEF WebInv
  <2>2. Running(u, session)
    BY <2>1, ReplanningRuns
  <2> QED BY <2>1, <2>2, ReplacementAccepted
<1> QED BY <1>1, WebInvariant, PTL

\* A follow-up without a replacement keeps the briefing it was asked over.
LEMMA UnappliedStep ==
    ASSUME WebInv, NEW s \in {session} \cup Opened(session), FollowUp(s),
           view' # "replaced"
    PROVE  /\ script' = script
           /\ Briefing(session') = Briefing(session)
           /\ view' = "failed" =>
                 (session.status = "composer-open" => session'.status = session.resume)
<1>1. Unapplied(s, session, script)
      /\ (session.status = "composer-open" => s = session)
  <2>1. Bound(session, script)
    BY DEF WebInv
  <2>2. CASE s = session
    BY <2>1, <2>2 DEF Unapplied
  <2>3. CASE s \in Opened(session)
    BY <2>1, <2>3, OpenedFits
  <2> QED BY <2>2, <2>3
<1>2. PICK o \in Outcomes(s, script) :
         session' = o.session /\ script' = o.script /\ view' = o.view
  BY DEF FollowUp
<1>3. /\ o.script = script /\ Unapplied(o.session, s, script)
      /\ o.view = "failed" =>
            (s.status = "composer-open" => o.session.status = s.resume)
  BY <1>1, <1>2, OutcomeFits DEF Unapplied
<1> QED BY <1>1, <1>2, <1>3 DEF Unapplied

\* A follow-up that replaces nothing keeps script, question, cursor and manual
\* view; after a failure the session is back in the status before the composer.
THEOREM UnappliedIsHarmless == Spec => UnappliedKeepsBriefing
<1>1. WebInv /\ [Next]_vars =>
        [FollowedUp /\ view' # "replaced"
         => /\ script' = script
            /\ Briefing(session') = Briefing(session)
            /\ view' = "failed" =>
                  (session.status = "composer-open" =>
                     session'.status = session.resume)]_vars
  <2> SUFFICES ASSUME WebInv, Next, FollowedUp, view' # "replaced"
               PROVE  /\ script' = script
                      /\ Briefing(session') = Briefing(session)
                      /\ view' = "failed" =>
                            (session.status = "composer-open" =>
                               session'.status = session.resume)
    OBVIOUS
  <2>1. Submit \/ Retry
    <3>1. ~Commit
      BY DEF FollowedUp, Commit, Settled
    <3>2. ~GoNext /\ ~GoBack
      BY DEF FollowedUp, GoNext, GoBack, NavigationEvent
    <3> QED
      BY <3>1, <3>2 DEF FollowedUp, Next, CloseTransient, Replay, MapInteraction,
         KeepView, ReturnCamera, Start, End, Open, Close, KeepCurrentBriefing,
         Clarify, Dismiss, Remount, SwapDemo
  <2>2. PICK s \in {session} \cup Opened(session) : FollowUp(s)
    BY <2>1 DEF Submit, Retry
  <2> QED BY <2>2, UnappliedStep
<1> QED BY <1>1, WebInvariant, PTL DEF Spec, UnappliedKeepsBriefing

-----------------------------------------------------------------------------
(* Drawn routes                                                            *)

\* A sequence and its last element.
LEMMA SeqHas ==
    ASSUME NEW S, NEW s \in Seq(S)
    PROVE  /\ Len(s) \in Nat /\ DOMAIN s = 1 .. Len(s)
           /\ \A k \in 1 .. Len(s) : s[k] \in S
           /\ s # <<>> <=> Len(s) # 0
OBVIOUS

\* Appending to a sequence.
LEMMA Appended ==
    ASSUME NEW S, NEW s \in Seq(S), NEW e \in S
    PROVE  /\ Append(s, e) \in Seq(S) /\ Len(Append(s, e)) = Len(s) + 1
           /\ DOMAIN Append(s, e) = 1 .. Len(s) + 1
           /\ Append(s, e)[Len(s) + 1] = e
           /\ \A k \in 1 .. Len(s) : Append(s, e)[k] = s[k]
OBVIOUS

\* Replacing the last element of a sequence.
LEMMA LastReplaced ==
    ASSUME NEW S, NEW s \in Seq(S), s # <<>>, NEW e \in S, NEW n, n = Len(s)
    PROVE  LET t == [s EXCEPT ![n] = e] IN
           /\ t \in Seq(S) /\ Len(t) = n /\ DOMAIN t = 1 .. n
           /\ t[n] = e /\ \A k \in 1 .. n - 1 : t[k] = s[k]
OBVIOUS

\* A wrapped longitude is one of the map.
LEMMA WrappedRange ==
    ASSUME NEW x \in Int
    PROVE  Wrapped(x) \in -180 .. 180
BY DEF Wrapped

\* The world copies of a longitude: the closest is one of them.
LEMMA CopyIsInt ==
    ASSUME NEW x \in Int, NEW centre \in Int
    PROVE  Copy(x, centre) \in Int
<1> DEFINE D == {x - 360, x, x + 360}
           Best(c) == \A d \in D : Abs(c - centre) < Abs(d - centre)
                                   \/ (Abs(c - centre) = Abs(d - centre) /\ c <= d)
<1>1. \E c \in D : Best(c)
  BY DEF Abs
<1>2. Copy(x, centre) = CHOOSE c \in D : Best(c)
  BY DEF Copy
<1> HIDE DEF Best
<1>3. Copy(x, centre) \in D
  BY <1>1, <1>2
<1> QED BY <1>3

\* A route that is unwrapped has as many points, again longitudes.
LEMMA UnwrappedType ==
    ASSUME NEW points \in Seq(Int)
    PROVE  Unwrapped(points) \in Seq(Int) /\ Len(Unwrapped(points)) = Len(points)
<1> DEFINE Body(f, k) == IF k = 1 THEN points[1] ELSE Copy(points[k], f[k - 1])
           at == CHOOSE at : at = [k \in DOMAIN points |->
                     IF k = 1 THEN points[1] ELSE Copy(points[k], at[k - 1])]
           S == {n \in Nat : \E f : f = [k \in 1 .. n |-> Body(f, k)]}
           T == {n \in Nat : n \in 1 .. Len(points) => at[n] \in Int}
<1>1. DOMAIN points = 1 .. Len(points) /\ Len(points) \in Nat
      /\ \A k \in 1 .. Len(points) : points[k] \in Int
  OBVIOUS
<1>2. 0 \in S
  <2>1. PICK f : f = [k \in 1 .. 0 |-> 0]
    OBVIOUS
  <2>2. f = [k \in 1 .. 0 |-> Body(f, k)]
    BY <2>1
  <2> QED BY <2>2
<1>3. ASSUME NEW n \in Nat, n \in S PROVE n + 1 \in S
  <2>1. PICK f : f = [k \in 1 .. n |-> Body(f, k)]
    BY <1>3
  <2>2. PICK g : g = [k \in 1 .. n + 1 |-> IF k = n + 1 THEN Body(f, n + 1) ELSE f[k]]
    OBVIOUS
  <2>3. ASSUME NEW k \in 1 .. n + 1 PROVE Body(g, k) = g[k]
    <3>1. CASE k = n + 1
      <4>1. n # 0 => g[n] = f[n]
        BY <2>2
      <4> QED BY <4>1, <2>2, <3>1
    <3>2. CASE k # n + 1
      <4>1. g[k] = f[k] /\ f[k] = Body(f, k) /\ (k # 1 => g[k - 1] = f[k - 1])
        BY <3>2, <2>1, <2>2
      <4> QED BY <4>1, <3>2
    <3> QED BY <3>1, <3>2
  <2>4. g = [k \in 1 .. n + 1 |-> Body(g, k)]
    BY <2>2, <2>3
  <2>5. n + 1 \in Nat
    OBVIOUS
  <2> HIDE DEF Body
  <2> QED BY <2>4, <2>5
<1>4. at = [k \in DOMAIN points |-> Body(at, k)]
  <2>1. Len(points) \in S
    <3> HIDE DEF S
    <3> QED BY <1>1, <1>2, <1>3, Induction
  <2>2. \E f : f = [k \in DOMAIN points |-> Body(f, k)]
    BY <1>1, <2>1
  <2> QED BY <2>2
<1> HIDE DEF at
<1>5. ASSUME NEW n \in Nat, n \in T PROVE n + 1 \in T
  <2> SUFFICES ASSUME n + 1 \in 1 .. Len(points) PROVE at[n + 1] \in Int
    OBVIOUS
  <2>1. CASE n = 0
    BY <1>1, <1>4, <2>1
  <2>2. CASE n # 0
    <3>1. n \in 1 .. Len(points) /\ n + 1 # 1 /\ (n + 1) - 1 = n
      BY <1>1, <2>2
    <3>2. at[n] \in Int /\ points[n + 1] \in Int
      BY <3>1, <1>1, <1>5
    <3>3. at[n + 1] = Copy(points[n + 1], at[n])
      BY <3>1, <1>1, <1>4
    <3> QED BY <3>2, <3>3, CopyIsInt
  <2> QED BY <2>1, <2>2
<1>6. ASSUME NEW k \in 1 .. Len(points) PROVE at[k] \in Int
  <2>1. k \in T
    <3>1. 0 \in T
      OBVIOUS
    <3> HIDE DEF T
    <3>2. \A n \in Nat : n \in T
      BY <3>1, <1>5, Induction
    <3>3. k \in Nat
      OBVIOUS
    <3> QED BY <3>2, <3>3
  <2> QED BY <2>1
<1>7. Unwrapped(points) = [k \in DOMAIN points |-> at[k]]
  BY DEF Unwrapped, at
<1> QED BY <1>1, <1>6, <1>7

\* No leg of a route spans more than half the world, and a part goes on where the
\* one before it ended, at the other edge.
ShortLegs(route) ==
    \A n \in DOMAIN route :
        /\ \A k \in DOMAIN route[n] : k > 1 => Abs(route[n][k] - route[n][k - 1]) <= 180
        /\ n > 1 => LET before == route[n - 1] IN
                    /\ Abs(before[Len(before)]) = 180
                    /\ route[n][1] = -before[Len(before)]

\* A part whose legs are short.
ShortPart(part) == \A k \in DOMAIN part : k > 1 => Abs(part[k] - part[k - 1]) <= 180

\* Parts n - 1 and n of a route meet at opposite edges.
Meet(before, part) ==
    Abs(before[Len(before)]) = 180 /\ part[1] = -before[Len(before)]

\* The legs of a route are short if those of each part are, and the parts meet.
LEMMA ShortByParts ==
    ASSUME NEW route
    PROVE  ShortLegs(route) <=>
              \A n \in DOMAIN route :
                 ShortPart(route[n]) /\ (n > 1 => Meet(route[n - 1], route[n]))
BY DEF ShortLegs, ShortPart, Meet

\* A short part with a point more.
LEMMA PartLonger ==
    ASSUME NEW n \in Nat \ {0}, NEW part, DOMAIN part = 1 .. n, ShortPart(part),
           NEW longer, DOMAIN longer = 1 .. n + 1,
           \A k \in 1 .. n : longer[k] = part[k],
           Abs(longer[n + 1] - part[n]) <= 180
    PROVE  ShortPart(longer)
<1> SUFFICES ASSUME NEW k \in DOMAIN longer, k > 1
             PROVE  Abs(longer[k] - longer[k - 1]) <= 180
  BY DEF ShortPart
<1>1. CASE k = n + 1
  BY <1>1
<1>2. CASE k # n + 1
  <2>1. k \in 1 .. n /\ k - 1 \in 1 .. n
    BY <1>2
  <2> QED BY <2>1 DEF ShortPart
<1> QED BY <1>1, <1>2

\* A leg more on the last part keeps a route short.
LEMMA LegKeepsShort ==
    ASSUME NEW n \in Nat \ {0}, NEW route, DOMAIN route = 1 .. n, ShortLegs(route),
           NEW longer, DOMAIN longer = 1 .. n, \A m \in 1 .. n - 1 : longer[m] = route[m],
           ShortPart(longer[n]), longer[n][1] = route[n][1]
    PROVE  ShortLegs(longer)
<1> SUFFICES ASSUME NEW m \in 1 .. n
             PROVE  ShortPart(longer[m]) /\ (m > 1 => Meet(longer[m - 1], longer[m]))
  BY ShortByParts
<1>1. ShortPart(route[m]) /\ (m > 1 => Meet(route[m - 1], route[m]))
  BY ShortByParts
<1>2. CASE m = n
  <2>1. m > 1 => longer[m - 1] = route[m - 1]
    BY <1>2
  <2> QED BY <1>1, <1>2, <2>1 DEF Meet
<1>3. CASE m # n
  <2>1. longer[m] = route[m] /\ (m > 1 => longer[m - 1] = route[m - 1])
    BY <1>3
  <2> QED BY <1>1, <2>1
<1> QED BY <1>2, <1>3

\* So does a part more, which begins where the last one ends.
LEMMA PartKeepsShort ==
    ASSUME NEW n \in Nat \ {0}, NEW route, DOMAIN route = 1 .. n, ShortLegs(route),
           NEW longer, NEW part, DOMAIN longer = 1 .. n + 1, longer[n + 1] = part,
           \A m \in 1 .. n : longer[m] = route[m], ShortPart(part), Meet(route[n], part)
    PROVE  ShortLegs(longer)
<1> SUFFICES ASSUME NEW m \in 1 .. n + 1
             PROVE  ShortPart(longer[m]) /\ (m > 1 => Meet(longer[m - 1], longer[m]))
  BY ShortByParts
<1>2. CASE m = n + 1
  <2>1. longer[m - 1] = route[n]
    BY <1>2
  <2> QED BY <1>2, <2>1
<1>3. CASE m # n + 1
  <2>1. m \in 1 .. n /\ longer[m] = route[m] /\ (m > 1 => longer[m - 1] = route[m - 1])
    BY <1>3
  <2>2. ShortPart(route[m]) /\ (m > 1 => Meet(route[m - 1], route[m]))
    BY <2>1, ShortByParts
  <2> QED BY <2>1, <2>2
<1> QED BY <1>2, <1>3

\* A route that ends at a longitude of the map.
EndsAt(route, x) ==
    /\ route \in Seq(Seq(Int)) /\ route # <<>>
    /\ \A n \in DOMAIN route : route[n] # <<>>
    /\ LET last == route[Len(route)] IN last[Len(last)] = x
\* A route that ends somewhere has a last part, and that a last point.
LEMMA RouteHas ==
    ASSUME NEW route, NEW x, EndsAt(route, x)
    PROVE  /\ Len(route) \in Nat \ {0} /\ DOMAIN route = 1 .. Len(route)
           /\ route[Len(route)] \in Seq(Int) /\ route[Len(route)] # <<>>
           /\ route[Len(route)][Len(route[Len(route)])] = x
<1>0. PICK n : n = Len(route)
  OBVIOUS
<1>1. route \in Seq(Seq(Int)) /\ Len(route) \in Nat \ {0} /\ DOMAIN route = 1 .. Len(route)
      /\ \A k \in 1 .. Len(route) : route[k] \in Seq(Int)
  BY SeqHas DEF EndsAt
<1>2. n \in DOMAIN route /\ route[n] \in Seq(Int)
  BY <1>0, <1>1
<1>3. route[n] # <<>> /\ route[n][Len(route[n])] = x
  BY <1>0, <1>2 DEF EndsAt
<1> QED BY <1>0, <1>1, <1>2, <1>3

\* A point is added to the last part of a route.
LEMMA LegAdded ==
    ASSUME NEW route, NEW x \in -180 .. 180, NEW y \in -180 .. 180,
           EndsAt(route, x), ShortLegs(route), Abs(y - x) <= 180
    PROVE  LET longer == [route EXCEPT ![Len(route)] = Append(@, y)] IN
           EndsAt(longer, y) /\ ShortLegs(longer)
<1>1. PICK n : n = Len(route)
  OBVIOUS
<1>2. PICK last : last = route[n]
  OBVIOUS
<1>3. /\ route \in Seq(Seq(Int)) /\ route # <<>> /\ n \in Nat \ {0} /\ DOMAIN route = 1 .. n
      /\ last \in Seq(Int) /\ last # <<>> /\ last[Len(last)] = x
  BY <1>1, <1>2, RouteHas DEF EndsAt
<1>4. PICK part : part = Append(last, y)
  OBVIOUS
<1>5. /\ part \in Seq(Int) /\ Len(part) = Len(last) + 1 /\ DOMAIN part = 1 .. Len(last) + 1
      /\ part[Len(last) + 1] = y /\ \A k \in 1 .. Len(last) : part[k] = last[k]
      /\ Len(last) \in Nat \ {0} /\ DOMAIN last = 1 .. Len(last)
  BY <1>3, <1>4, Appended, SeqHas
<1>6. PICK longer : longer = [route EXCEPT ![n] = part]
  OBVIOUS
<1>7. /\ longer \in Seq(Seq(Int)) /\ Len(longer) = n /\ DOMAIN longer = 1 .. n
      /\ longer[n] = part /\ \A m \in 1 .. n - 1 : longer[m] = route[m]
  BY <1>1, <1>3, <1>5, <1>6, LastReplaced
<1>8. EndsAt(longer, y)
  <2>1. longer # <<>> /\ part # <<>>
    BY <1>3, <1>5, <1>7, SeqHas
  <2>2. ASSUME NEW m \in DOMAIN longer PROVE longer[m] # <<>>
    <3>1. m = n \/ m \in 1 .. n - 1
      BY <1>3, <1>7
    <3> QED BY <3>1, <2>1, <1>3, <1>7 DEF EndsAt
  <2> QED BY <2>1, <2>2, <1>5, <1>7 DEF EndsAt
<1>9. ShortPart(part)
  <2>1. n \in DOMAIN route
    BY <1>3
  <2>2. ShortPart(last)
    BY <2>1, <1>2, ShortByParts
  <2> QED BY <2>2, <1>3, <1>5, PartLonger
<1>10. part[1] = last[1]
  BY <1>5
<1>11. ShortLegs(longer)
  BY <1>2, <1>3, <1>7, <1>9, <1>10, LegKeepsShort
<1>12. longer = [route EXCEPT ![Len(route)] = Append(@, y)]
  BY <1>1, <1>2, <1>4, <1>6
<1> QED BY <1>8, <1>11, <1>12

\* A part is added to a route that ends at an edge: it begins at the other.
LEMMA PartAdded ==
    ASSUME NEW route, NEW edge \in {-180, 180}, NEW y \in -180 .. 180,
           EndsAt(route, edge), ShortLegs(route), Abs(y + edge) <= 180
    PROVE  EndsAt(Append(route, <<-edge, y>>), y) /\ ShortLegs(Append(route, <<-edge, y>>))
<1>1. PICK n : n = Len(route)
  OBVIOUS
<1>2. PICK last : last = route[n]
  OBVIOUS
<1>3. /\ route \in Seq(Seq(Int)) /\ route # <<>> /\ n \in Nat \ {0} /\ DOMAIN route = 1 .. n
      /\ last \in Seq(Int) /\ last # <<>> /\ last[Len(last)] = edge
  BY <1>1, <1>2, RouteHas DEF EndsAt
<1>4. PICK part : part = <<-edge, y>>
  OBVIOUS
<1>5. /\ part \in Seq(Int) /\ part # <<>> /\ Len(part) = 2 /\ DOMAIN part = 1 .. 2
      /\ part[1] = -edge /\ part[2] = y
  BY <1>4
<1>6. PICK longer : longer = Append(route, part)
  OBVIOUS
<1>7. /\ longer \in Seq(Seq(Int)) /\ Len(longer) = n + 1 /\ DOMAIN longer = 1 .. n + 1
      /\ longer[n + 1] = part /\ \A m \in 1 .. n : longer[m] = route[m]
  BY <1>1, <1>3, <1>5, <1>6, Appended
<1>8. EndsAt(longer, y)
  <2>1. longer # <<>>
    BY <1>3, <1>7, SeqHas
  <2>2. ASSUME NEW m \in DOMAIN longer PROVE longer[m] # <<>>
    <3>1. m = n + 1 \/ m \in 1 .. n
      BY <1>3, <1>7
    <3> QED BY <3>1, <1>3, <1>5, <1>7 DEF EndsAt
  <2> QED BY <2>1, <2>2, <1>5, <1>7 DEF EndsAt
<1>9. ShortPart(part)
  BY <1>5 DEF ShortPart, Abs
<1>10. Meet(last, part)
  BY <1>3, <1>5 DEF Meet, Abs
<1>11. ShortLegs(longer)
  <2>1. Meet(route[n], part)
    BY <1>2, <1>10
  <2>2. n \in Nat \ {0} /\ DOMAIN route = 1 .. n
    BY <1>3
  <2>3. /\ DOMAIN longer = 1 .. n + 1 /\ longer[n + 1] = part
        /\ \A m \in 1 .. n : longer[m] = route[m]
    BY <1>7
  <2> QED BY <2>1, <2>2, <2>3, <1>9, PartKeepsShort
<1> QED BY <1>4, <1>6, <1>8, <1>11

\* A route begins with one point.
LEMMA RouteBegun ==
    ASSUME NEW z \in Int
    PROVE  EndsAt(<< <<z>> >>, z) /\ ShortLegs(<< <<z>> >>)
<1>1. PICK part : part = <<z>>
  OBVIOUS
<1>2. part \in Seq(Int) /\ part # <<>> /\ Len(part) = 1 /\ part[1] = z /\ DOMAIN part = 1 .. 1
  BY <1>1
<1>3. PICK route : route = <<part>>
  OBVIOUS
<1>4. /\ route \in Seq(Seq(Int)) /\ route # <<>> /\ Len(route) = 1 /\ route[1] = part
      /\ DOMAIN route = 1 .. 1
  BY <1>2, <1>3
<1>5. EndsAt(route, z)
  BY <1>2, <1>4 DEF EndsAt
<1>6. ShortLegs(route)
  <2>1. ShortPart(part)
    BY <1>2 DEF ShortPart
  <2> QED BY <1>4, <2>1, ShortByParts
<1> QED BY <1>1, <1>3, <1>5, <1>6

\* Cutting a route at the antimeridian leaves legs that are short.
LEMMA SplitShort ==
    ASSUME NEW points \in Seq(Int)
    PROVE  ShortLegs(Split(points))
<1> DEFINE x == [k \in DOMAIN points |-> Wrapped(points[k])]
           Edge(k) == IF x[k] > x[k - 1] THEN -180 ELSE 180
           Grown(f, k) ==
              IF Abs(x[k] - x[k - 1]) > 180
              THEN Append([f EXCEPT ![Len(f)] = Append(@, Edge(k))], <<-Edge(k), x[k]>>)
              ELSE [f EXCEPT ![Len(f)] = Append(@, x[k])]
           Body(f, k) == IF k = 1 THEN << <<x[1]>> >> ELSE Grown(f[k - 1], k)
           parts == CHOOSE parts : parts = [k \in DOMAIN points |->
                        IF k = 1 THEN << <<x[1]>> >>
                        ELSE LET n == Len(parts[k - 1]) IN
                             IF Abs(x[k] - x[k - 1]) > 180
                             THEN Append([parts[k - 1] EXCEPT ![n] = Append(@, Edge(k))],
                                         <<-Edge(k), x[k]>>)
                             ELSE [parts[k - 1] EXCEPT ![n] = Append(@, x[k])]]
           S == {n \in Nat : \E f : f = [k \in 1 .. n |-> Body(f, k)]}
           T == {n \in Nat : n \in 1 .. Len(points) =>
                                EndsAt(parts[n], x[n]) /\ ShortLegs(parts[n])}
<1>1. DOMAIN points = 1 .. Len(points) /\ Len(points) \in Nat
      /\ \A k \in 1 .. Len(points) : points[k] \in Int
  OBVIOUS
<1>2. \A k \in 1 .. Len(points) : x[k] \in -180 .. 180
  <2>1. ASSUME NEW k \in 1 .. Len(points) PROVE Wrapped(points[k]) \in -180 .. 180
    <3>1. points[k] \in Int
      BY <1>1
    <3> QED BY <3>1, WrappedRange
  <2> QED BY <1>1, <2>1
<1>3. Split(points) = IF points = <<>> THEN <<>> ELSE parts[Len(points)]
  BY DEF Split
<1>4. 0 \in S
  <2> HIDE DEF Grown
  <2>1. PICK f : f = [k \in 1 .. 0 |-> 0]
    OBVIOUS
  <2>2. f = [k \in 1 .. 0 |-> Body(f, k)]
    BY <2>1
  <2> QED BY <2>2
<1>5. ASSUME NEW n \in Nat, n \in S PROVE n + 1 \in S
  <2> HIDE DEF Grown
  <2>1. PICK f : f = [k \in 1 .. n |-> Body(f, k)]
    BY <1>5
  <2>2. PICK g : g = [k \in 1 .. n + 1 |-> IF k = n + 1 THEN Body(f, n + 1) ELSE f[k]]
    OBVIOUS
  <2>3. ASSUME NEW k \in 1 .. n + 1 PROVE Body(g, k) = g[k]
    <3>1. CASE k = n + 1
      <4>1. n # 0 => g[n] = f[n]
        BY <2>2
      <4> QED BY <4>1, <2>2, <3>1
    <3>2. CASE k # n + 1
      <4>1. k \in 1 .. n /\ g[k] = f[k]
        BY <3>2, <2>2
      <4>2. k # 1 => g[k - 1] = f[k - 1]
        BY <4>1, <2>2
      <4>3. f[k] = Body(f, k)
        <5> HIDE DEF Body
        <5> QED BY <4>1, <2>1
      <4> QED BY <4>1, <4>2, <4>3
    <3> QED BY <3>1, <3>2
  <2>4. g = [k \in 1 .. n + 1 |-> Body(g, k)]
    BY <2>2, <2>3
  <2>5. n + 1 \in Nat
    OBVIOUS
  <2> HIDE DEF Body
  <2> QED BY <2>4, <2>5
<1>6. parts = [k \in DOMAIN points |-> Body(parts, k)]
  <2>1. Len(points) \in S
    <3> HIDE DEF S
    <3> QED BY <1>1, <1>4, <1>5, Induction
  <2>2. \E f : f = [k \in DOMAIN points |-> Body(f, k)]
    <3> HIDE DEF Body
    <3> QED BY <1>1, <2>1
  <2> QED BY <2>2
<1> HIDE DEF parts, x
<1>7. ASSUME NEW n \in Nat, n \in T PROVE n + 1 \in T
  <2> SUFFICES ASSUME n + 1 \in 1 .. Len(points)
               PROVE  EndsAt(parts[n + 1], x[n + 1]) /\ ShortLegs(parts[n + 1])
    OBVIOUS
  <2>1. CASE n = 0
    <3>1. PICK z : z = x[1]
      OBVIOUS
    <3>2. n + 1 = 1 /\ 1 \in DOMAIN points
      BY <1>1, <2>1
    <3>3. z \in Int /\ x[n + 1] = z
      <4>1. x[1] \in -180 .. 180
        BY <1>1, <1>2, <3>2
      <4>2. z \in -180 .. 180
        BY <3>1, <4>1
      <4>3. x[n + 1] = z
        BY <3>1, <3>2
      <4> QED BY <4>2, <4>3
    <3>4. parts[n + 1] = << <<z>> >>
      <4>1. parts[1] = Body(parts, 1)
        <5> HIDE DEF Body
        <5> QED BY <1>6, <3>2
      <4> QED BY <3>1, <3>2, <4>1
    <3> QED BY <3>3, <3>4, RouteBegun
  <2>2. CASE n # 0
    <3>1. n \in 1 .. Len(points) /\ n + 1 # 1 /\ (n + 1) - 1 = n
      BY <1>1, <2>2
    <3>2. EndsAt(parts[n], x[n]) /\ ShortLegs(parts[n])
      BY <3>1, <1>7
    <3>3. parts[n + 1] = Grown(parts[n], n + 1)
      <4> HIDE DEF Grown
      <4> QED BY <3>1, <1>1, <1>6
    <3>4. PICK r, y, z : r = parts[n] /\ y = x[n] /\ z = x[n + 1]
      OBVIOUS
    <3>5. y \in -180 .. 180 /\ z \in -180 .. 180
      BY <3>1, <3>4, <1>2
    <3>6. CASE Abs(z - y) > 180
      <4>1. PICK edge : edge = IF z > y THEN -180 ELSE 180
        OBVIOUS
      <4>2. edge \in {-180, 180} /\ edge \in -180 .. 180
            /\ Abs(edge - y) <= 180 /\ Abs(z + edge) <= 180
        BY <3>5, <3>6, <4>1 DEF Abs
      <4>3. PICK f : f = [r EXCEPT ![Len(r)] = Append(@, edge)]
        OBVIOUS
      <4>4. EndsAt(f, edge) /\ ShortLegs(f)
        <5>1. EndsAt(r, y) /\ ShortLegs(r)
          BY <3>2, <3>4
        <5>2. edge \in -180 .. 180 /\ Abs(edge - y) <= 180
          BY <4>2
        <5>3. /\ EndsAt([r EXCEPT ![Len(r)] = Append(@, edge)], edge)
              /\ ShortLegs([r EXCEPT ![Len(r)] = Append(@, edge)])
          BY <3>5, <5>1, <5>2, LegAdded
        <5> QED BY <4>3, <5>3
      <4>5. EndsAt(Append(f, <<-edge, z>>), z) /\ ShortLegs(Append(f, <<-edge, z>>))
        BY <3>5, <4>2, <4>4, PartAdded
      <4>6. parts[n + 1] = Append(f, <<-edge, z>>)
        BY <3>1, <3>3, <3>4, <3>6, <4>1, <4>3
      <4> QED BY <3>4, <4>5, <4>6
    <3>7. CASE ~(Abs(z - y) > 180)
      <4>1. Abs(z - y) <= 180
        BY <3>5, <3>7 DEF Abs
      <4>2. parts[n + 1] = [r EXCEPT ![Len(r)] = Append(@, z)]
        BY <3>1, <3>3, <3>4, <3>7
      <4>3. /\ EndsAt([r EXCEPT ![Len(r)] = Append(@, z)], z)
            /\ ShortLegs([r EXCEPT ![Len(r)] = Append(@, z)])
        BY <3>2, <3>4, <3>5, <4>1, LegAdded
      <4> QED BY <3>4, <4>2, <4>3
    <3> QED BY <3>6, <3>7
  <2> QED BY <2>1, <2>2
<1>8. points # <<>> => ShortLegs(parts[Len(points)])
  <2>1. Len(points) \in T
    <3>1. 0 \in T
      OBVIOUS
    <3> HIDE DEF T
    <3> QED BY <3>1, <1>1, <1>7, Induction
  <2>2. points # <<>> => Len(points) \in 1 .. Len(points)
    BY <1>1
  <2> HIDE DEF x
  <2> QED BY <2>1, <2>2
<1>9. ShortLegs(<<>>)
  BY DEF ShortLegs
<1> QED BY <1>3, <1>8, <1>9

\* The route of a scene has short legs.
LEMMA RouteShort ==
    ASSUME NEW s \in Scenes
    PROVE  ShortLegs(Route(s))
<1>1. s.points \in Seq(Int)
  BY MapAssumption
<1>2. Points(s) \in Seq(Int)
  BY <1>1, UnwrappedType DEF Points
<1>3. ShortLegs(Split(Points(s)))
  BY <1>2, SplitShort
<1>4. ShortLegs(<<>>)
  BY DEF ShortLegs
<1> QED BY <1>3, <1>4 DEF Route

-----------------------------------------------------------------------------
(* Least and greatest                                                      *)

\* A set of naturals that is not empty has a least element.
LEMMA LeastHas ==
    ASSUME NEW S, S \subseteq Nat, S # {}
    PROVE  Least(S) \in S /\ \A y \in S : Least(S) <= y
<1>1. \E x \in S : \A y \in S : x <= y
  <2> SUFFICES ASSUME \A x \in S : \E y \in S : y < x
               PROVE  FALSE
    <3>1. \A x, y \in Nat : x <= y \/ y < x
      OBVIOUS
    <3> QED BY <3>1
  <2> DEFINE T == {n \in Nat : \A x \in S : n < x}
  <2>1. 0 \in T
    OBVIOUS
  <2>2. ASSUME NEW n \in Nat, n \in T PROVE n + 1 \in T
    <3>1. \A x \in S : n < x
      BY <2>2
    <3>2. n + 1 \notin S
      <4>1. \A y \in Nat : y < n + 1 => ~(n < y)
        OBVIOUS
      <4> QED BY <3>1, <4>1
    <3>3. \A x \in S : n + 1 < x
      BY <3>1, <3>2
    <3> QED BY <3>3
  <2>3. \A n \in Nat : n \in T
    <3> HIDE DEF T
    <3> QED BY <2>1, <2>2, Induction
  <2>4. PICK x : x \in S
    OBVIOUS
  <2>5. x \in T
    BY <2>3, <2>4
  <2>6. x < x
    BY <2>4, <2>5
  <2> QED BY <2>4, <2>6
<1> QED BY <1>1 DEF Least

\* A set of bounded naturals that is not empty has a greatest element.
LEMMA GreatestHas ==
    ASSUME NEW bound \in Nat, NEW S, S \subseteq 0 .. bound, S # {}
    PROVE  Greatest(S) \in S /\ \A y \in S : y <= Greatest(S)
<1> DEFINE T == {n \in Nat : \A y \in S : y <= n}
<1>1. bound \in T
  OBVIOUS
<1>2. T \subseteq Nat /\ T # {}
  BY <1>1
<1>3. PICK x : x = Least(T)
  OBVIOUS
<1>4. x \in Nat /\ (\A y \in S : y <= x) /\ \A n \in T : x <= n
  <2>1. x \in T /\ \A n \in T : x <= n
    <3> HIDE DEF T
    <3> QED BY <1>2, <1>3, LeastHas
  <2> QED BY <2>1
<1>5. x \in S
  <2> SUFFICES ASSUME x \notin S PROVE FALSE
    OBVIOUS
  <2>1. \A y \in S : y < x
    BY <1>4
  <2>2. x - 1 \in Nat
    <3>1. PICK y : y \in S
      OBVIOUS
    <3>2. y \in Nat /\ y < x
      BY <2>1, <3>1
    <3> QED BY <1>4, <3>2
  <2>3. \A y \in S : y <= x - 1
    BY <1>4, <2>1
  <2>4. x - 1 \in T
    BY <2>2, <2>3
  <2>5. x <= x - 1
    BY <1>4, <2>4
  <2> QED BY <1>4, <2>5
<1>6. \E z \in S : \A y \in S : y <= z
  BY <1>4, <1>5
<1> QED BY <1>6 DEF Greatest

-----------------------------------------------------------------------------
(* Frames of the camera                                                    *)

\* Areas as validGeometry lets them through, with west and east in any order.
IsArea(a) ==
    /\ a.west \in Int /\ a.east \in Int
    /\ -180 <= a.west /\ a.west <= 180 /\ -180 <= a.east /\ a.east <= 180

\* The stretches of some areas, where they end and what begins next.
Stretches(areas) == UNION {Intervals(a) : a \in areas}
Starts(areas) == {i[1] : i \in Stretches(areas)}
Ends(areas) ==
    {i[2] : i \in {i \in Stretches(areas) :
                      ~\E j \in Stretches(areas) : j[1] <= i[2] /\ i[2] < j[2]}}
NextStart(areas, e) ==
    IF \E s \in Starts(areas) : s > e THEN Least({s \in Starts(areas) : s > e})
    ELSE Least(Starts(areas)) + 360

\* Each gap runs from the end of an area to the next start.
LEMMA GapsAre ==
    ASSUME NEW areas
    PROVE  Gaps(areas) = {<<e, NextStart(areas, e)>> : e \in Ends(areas)}
BY DEF Gaps, Ends, Starts, Stretches, NextStart

\* The width of an area, and the stretches of its interval.
LEMMA AreaHas ==
    ASSUME NEW a, IsArea(a)
    PROVE  /\ Width(a) \in 0 .. 360 /\ a.west % 360 \in 0 .. 359
           /\ \A i \in Intervals(a) : i[1] \in Nat /\ i[2] \in Nat /\ i[1] <= i[2] /\ i[2] <= 360
           /\ Intervals(a) # {}
<1>1. Width(a) \in 0 .. 360
  BY DEF IsArea, Width
<1>2. a.west % 360 \in 0 .. 359
  BY DEF IsArea
<1>3. PICK w, start : w = Width(a) /\ start = a.west % 360
  OBVIOUS
<1>4. w \in 0 .. 360 /\ start \in 0 .. 359
  BY <1>1, <1>2, <1>3
<1>5. Intervals(a) = IF w >= 360 THEN {<<0, 360>>}
                     ELSE IF start + w <= 360 THEN {<<start, start + w>>}
                     ELSE {<<start, 360>>, <<0, start + w - 360>>}
  BY <1>3 DEF Intervals
<1>6. \A i \in Intervals(a) : i[1] \in Nat /\ i[2] \in Nat /\ i[1] <= i[2] /\ i[2] <= 360
  <2> SUFFICES ASSUME NEW i \in Intervals(a)
               PROVE  i[1] \in Nat /\ i[2] \in Nat /\ i[1] <= i[2] /\ i[2] <= 360
    OBVIOUS
  <2>1. CASE w >= 360
    <3>1. i = <<0, 360>>
      BY <1>5, <2>1
    <3> QED BY <3>1
  <2>2. CASE ~(w >= 360) /\ start + w <= 360
    <3>1. i = <<start, start + w>>
      BY <1>5, <2>2
    <3> QED BY <1>4, <2>2, <3>1
  <2>3. CASE ~(w >= 360) /\ ~(start + w <= 360)
    <3>1. i = <<start, 360>> \/ i = <<0, start + w - 360>>
      BY <1>5, <2>3
    <3> QED BY <1>4, <2>3, <3>1
  <2> QED BY <2>1, <2>2, <2>3
<1>7. Intervals(a) # {}
  BY <1>5
<1> QED BY <1>1, <1>2, <1>6, <1>7

\* The stretches of areas: numbers from 0 to 360, and one of them ends last.
LEMMA StretchesHave ==
    ASSUME NEW areas, areas # {}, \A a \in areas : IsArea(a)
    PROVE  /\ \A i \in Stretches(areas) : i[1] \in Nat /\ i[2] \in Nat /\ i[1] <= i[2] /\ i[2] <= 360
           /\ Starts(areas) \subseteq 0 .. 360 /\ Starts(areas) # {}
           /\ Ends(areas) \subseteq 0 .. 360 /\ Ends(areas) # {}
<1>1. \A i \in Stretches(areas) : i[1] \in Nat /\ i[2] \in Nat /\ i[1] <= i[2] /\ i[2] <= 360
  BY AreaHas DEF Stretches
<1>2. Stretches(areas) # {}
  BY AreaHas DEF Stretches
<1>3. Starts(areas) \subseteq 0 .. 360 /\ Starts(areas) # {}
  BY <1>1, <1>2 DEF Starts
<1>4. Ends(areas) \subseteq 0 .. 360
  BY <1>1 DEF Ends
<1>5. Ends(areas) # {}
  <2>1. PICK stops : stops = {i[2] : i \in Stretches(areas)}
    OBVIOUS
  <2>2. stops \subseteq 0 .. 360 /\ stops # {}
    BY <1>1, <1>2, <2>1
  <2>3. PICK h \in stops : \A y \in stops : y <= h
    <3>1. 360 \in Nat
      OBVIOUS
    <3> QED BY <2>2, <3>1, GreatestHas
  <2>4. PICK i \in Stretches(areas) : i[2] = h
    BY <2>1, <2>3
  <2>5. ASSUME NEW j \in Stretches(areas), i[2] < j[2] PROVE FALSE
    <3>1. j[2] \in stops
      BY <2>1
    <3>2. j[2] <= i[2]
      BY <2>3, <2>4, <3>1
    <3>3. i[2] \in Nat /\ j[2] \in Nat
      BY <1>1
    <3> QED BY <2>5, <3>2, <3>3
  <2>6. i[2] \in Ends(areas)
    BY <2>4, <2>5 DEF Ends
  <2> QED BY <2>6
<1> QED BY <1>1, <1>3, <1>4, <1>5

\* What begins next: the first start after e or, round the world, the first of all.
LEMMA NextHas ==
    ASSUME NEW areas, areas # {}, \A a \in areas : IsArea(a), NEW e \in Nat,
           NEW n, n = NextStart(areas, e)
    PROVE  \/ n \in Starts(areas) /\ n > e /\ \A s \in Starts(areas) : s > e => n <= s
           \/ \E s \in Starts(areas) :
                 n = s + 360 /\ \A t \in Starts(areas) : s <= t /\ t <= e
<1>1. Starts(areas) \subseteq Nat /\ Starts(areas) # {}
  BY StretchesHave
<1>2. CASE \E s \in Starts(areas) : s > e
  <2>1. PICK later : later = {s \in Starts(areas) : s > e}
    OBVIOUS
  <2>2. n = Least(later)
    BY <1>2, <2>1 DEF NextStart
  <2>3. later \subseteq Nat /\ later # {}
    BY <1>1, <1>2, <2>1
  <2>4. Least(later) \in later /\ \A y \in later : Least(later) <= y
    BY <2>3, LeastHas
  <2> QED BY <2>1, <2>2, <2>4
<1>3. CASE ~\E s \in Starts(areas) : s > e
  <2>1. n = Least(Starts(areas)) + 360
    BY <1>3 DEF NextStart
  <2>2. PICK s : s = Least(Starts(areas))
    OBVIOUS
  <2>3. s \in Starts(areas) /\ \A t \in Starts(areas) : s <= t
    BY <1>1, <2>2, LeastHas
  <2>4. \A t \in Starts(areas) : t <= e
    BY <1>1, <1>3
  <2> QED BY <2>1, <2>2, <2>3, <2>4
<1> QED BY <1>2, <1>3

\* Between an end and what begins next there is nothing.
LEMMA GapIsFree ==
    ASSUME NEW areas, areas # {}, \A a \in areas : IsArea(a), NEW e \in Ends(areas),
           NEW n, n = NextStart(areas, e)
    PROVE  /\ n \in Nat /\ e \in 0 .. 360 /\ e <= n /\ n <= e + 360 /\ n <= 720
           /\ \A i \in Stretches(areas) : (i[2] <= e /\ n - 360 <= i[1]) \/ n <= i[1]
<1>1. e \in 0 .. 360
  BY StretchesHave
<1>2. PICK i \in Stretches(areas) : i[2] = e /\ ~\E j \in Stretches(areas) : j[1] <= e /\ e < j[2]
  BY DEF Ends
<1>3. ASSUME NEW j \in Stretches(areas)
      PROVE  /\ j[1] \in Nat /\ j[2] \in Nat /\ j[1] <= j[2] /\ j[2] <= 360 /\ j[1] \in Starts(areas)
             /\ j[1] <= e => j[2] <= e
  <2>1. j[1] \in Nat /\ j[2] \in Nat /\ j[1] <= j[2] /\ j[2] <= 360 /\ j[1] \in Starts(areas)
    BY StretchesHave DEF Starts
  <2> QED BY <1>1, <1>2, <2>1
<1>4. Starts(areas) \subseteq 0 .. 360
  BY StretchesHave
<1>5. CASE n \in Starts(areas) /\ n > e /\ \A s \in Starts(areas) : s > e => n <= s
  <2>1. n \in 0 .. 360 /\ e < n
    BY <1>1, <1>4, <1>5
  <2>2. ASSUME NEW j \in Stretches(areas)
        PROVE  (j[2] <= e /\ n - 360 <= j[1]) \/ n <= j[1]
    <3>1. CASE j[1] <= e
      BY <1>3, <2>1, <3>1
    <3>2. CASE ~(j[1] <= e)
      BY <1>1, <1>3, <1>5, <3>2
    <3> QED BY <3>1, <3>2
  <2> QED BY <1>1, <2>1, <2>2
<1>6. CASE \E s \in Starts(areas) :
              n = s + 360 /\ \A t \in Starts(areas) : s <= t /\ t <= e
  <2>1. PICK s \in Starts(areas) : n = s + 360 /\ \A t \in Starts(areas) : s <= t /\ t <= e
    BY <1>6
  <2>2. s \in 0 .. 360 /\ s <= e
    BY <1>4, <2>1
  <2>3. ASSUME NEW j \in Stretches(areas)
        PROVE  j[2] <= e /\ n - 360 <= j[1]
    <3>1. s <= j[1] /\ j[1] <= e
      BY <1>3, <2>1
    <3> QED BY <1>3, <2>1, <2>2, <3>1
  <2>4. n \in Nat /\ e <= n /\ n <= e + 360 /\ n <= 720
    BY <1>1, <2>1, <2>2
  <2> QED BY <1>1, <2>3, <2>4
<1>7. \/ n \in Starts(areas) /\ n > e /\ \A s \in Starts(areas) : s > e => n <= s
      \/ \E s \in Starts(areas) : n = s + 360 /\ \A t \in Starts(areas) : s <= t /\ t <= e
  <2>1. e \in Nat
    BY <1>1
  <2>2. PICK m : m = NextStart(areas, e)
    OBVIOUS
  <2>3. \/ m \in Starts(areas) /\ m > e /\ \A s \in Starts(areas) : s > e => m <= s
        \/ \E s \in Starts(areas) : m = s + 360 /\ \A t \in Starts(areas) : s <= t /\ t <= e
    BY <2>1, <2>2, NextHas
  <2> QED BY <2>2, <2>3
<1> QED BY <1>5, <1>6, <1>7

\* The gap that is left out of the frame is one, and none is longer.
LEMMA LongestHas ==
    ASSUME NEW areas, areas # {}, \A a \in areas : IsArea(a)
    PROVE  \E e \in Ends(areas) :
              /\ Longest(Gaps(areas)) = <<e, NextStart(areas, e)>>
              /\ \A f \in Ends(areas) : NextStart(areas, f) - f <= NextStart(areas, e) - e
<1>1. ASSUME NEW f \in Ends(areas)
      PROVE  /\ f \in Nat /\ NextStart(areas, f) \in Nat
             /\ NextStart(areas, f) - f \in Nat /\ NextStart(areas, f) - f <= 360
  <2>1. PICK n : n = NextStart(areas, f)
    OBVIOUS
  <2>2. n \in Nat /\ f \in 0 .. 360 /\ f <= n /\ n <= f + 360
    BY <2>1, GapIsFree
  <2>3. f \in Nat /\ n - f \in Nat /\ n - f <= 360
    BY <2>2
  <2> QED BY <2>1, <2>2, <2>3
<1>2. Ends(areas) # {}
  BY StretchesHave
<1>3. PICK lengths : lengths = {NextStart(areas, f) - f : f \in Ends(areas)}
  OBVIOUS
<1>4. PICK l \in lengths : \A y \in lengths : y <= l
  <2>1. lengths \subseteq 0 .. 360 /\ lengths # {} /\ 360 \in Nat
    BY <1>1, <1>2, <1>3
  <2> QED BY <2>1, GreatestHas
<1>5. PICK first : first = {f \in Ends(areas) : NextStart(areas, f) - f = l}
  OBVIOUS
<1>6. PICK e \in first : \A f \in first : e <= f
  <2>1. first \subseteq Nat /\ first # {}
    BY <1>1, <1>3, <1>4, <1>5
  <2> QED BY <2>1, LeastHas
<1> DEFINE Best(g) == \A h \in Gaps(areas) :
        h[2] - h[1] < g[2] - g[1] \/ (h[2] - h[1] = g[2] - g[1] /\ g[1] <= h[1])
<1>7. \E g \in Gaps(areas) : Best(g)
  <2>1. PICK g : g = <<e, NextStart(areas, e)>>
    OBVIOUS
  <2>2. e \in Ends(areas) /\ g \in Gaps(areas) /\ g[1] = e /\ g[2] - g[1] = l
    BY <1>5, <1>6, <2>1, GapsAre
  <2>3. ASSUME NEW h \in Gaps(areas)
        PROVE  h[2] - h[1] < l \/ (h[2] - h[1] = l /\ e <= h[1])
    <3>1. PICK f \in Ends(areas) : h = <<f, NextStart(areas, f)>>
      BY GapsAre
    <3>2. h[2] - h[1] = NextStart(areas, f) - f /\ h[1] = f
      BY <3>1
    <3>3. PICK y : y = NextStart(areas, f) - f
      OBVIOUS
    <3>4. y \in Nat /\ l \in Nat /\ y <= l
      BY <1>1, <1>3, <1>4, <3>3
    <3>5. y = l => e <= f
      BY <1>5, <1>6, <3>3
    <3> QED BY <3>2, <3>3, <3>4, <3>5
  <2> QED BY <2>2, <2>3
<1>8. PICK g : g = Longest(Gaps(areas))
  OBVIOUS
<1>9. g \in Gaps(areas) /\ Best(g)
  <2>1. g = CHOOSE x \in Gaps(areas) : Best(x)
    BY <1>8 DEF Longest
  <2> HIDE DEF Best
  <2> QED BY <1>7, <2>1
<1>10. PICK d \in Ends(areas) : g = <<d, NextStart(areas, d)>>
  BY <1>9, GapsAre
<1>11. ASSUME NEW f \in Ends(areas)
       PROVE  NextStart(areas, f) - f <= NextStart(areas, d) - d
  <2>1. PICK h : h = <<f, NextStart(areas, f)>>
    OBVIOUS
  <2>2. h \in Gaps(areas) /\ h[1] = f /\ h[2] = NextStart(areas, f)
    BY <2>1, GapsAre
  <2>3. PICK p, q : p = NextStart(areas, f) - f /\ q = NextStart(areas, d) - d
    OBVIOUS
  <2>4. p \in Nat /\ q \in Nat
    BY <1>1, <2>3
  <2>5. p < q \/ p = q
    BY <1>9, <1>10, <2>2, <2>3
  <2> QED BY <2>3, <2>4, <2>5
<1> QED BY <1>8, <1>10, <1>11

\* The frame round the longest gap.
LEMMA FrameAround ==
    ASSUME NEW areas, areas # {}, \A a \in areas : IsArea(a),
           NEW frame, frame = Frame(areas)
    PROVE  \E e \in Ends(areas), n \in Nat, west \in Int :
              /\ n = NextStart(areas, e) /\ e \in Nat /\ e <= n
              /\ \A f \in Ends(areas) : NextStart(areas, f) - f <= n - e
              /\ frame.east - frame.west = 360 - (n - e)
              /\ \/ e = n
                 \/ /\ e < n /\ frame.west = west /\ frame.east = west + 360 - (n - e)
                    /\ west \in {n - 720, n - 360, n} /\ -180 < west /\ west <= 180
<1>1. PICK e \in Ends(areas) :
         /\ Longest(Gaps(areas)) = <<e, NextStart(areas, e)>>
         /\ \A f \in Ends(areas) : NextStart(areas, f) - f <= NextStart(areas, e) - e
  BY LongestHas
<1>2. PICK n : n = NextStart(areas, e)
  OBVIOUS
<1>3. n \in Nat /\ e \in Nat /\ e <= n /\ n <= 720
  <2>1. n \in Nat /\ e \in 0 .. 360 /\ e <= n /\ n <= 720
    BY <1>2, GapIsFree
  <2> QED BY <2>1
<1>4. PICK gap : gap = Longest(Gaps(areas))
  OBVIOUS
<1>5. gap[1] = e /\ gap[2] = n
  BY <1>1, <1>2, <1>4
<1>6. PICK west : west = IF n % 360 > 180 THEN (n % 360) - 360 ELSE n % 360
  OBVIOUS
<1>7. /\ west \in Int /\ -180 < west /\ west <= 180
      /\ west = n - 720 \/ west = n - 360 \/ west = n \/ west = n - 1080
  BY <1>3, <1>6
<1>8. frame = IF n = e THEN [west |-> 0, east |-> 360]
                     ELSE [west |-> west, east |-> west + 360 - (n - e)]
  BY <1>4, <1>5, <1>6 DEF Frame
<1>9. frame.east - frame.west = 360 - (n - e)
  <2>1. CASE n = e
    BY <1>3, <1>8, <2>1
  <2>2. CASE n # e
    <3>1. frame.west = west /\ frame.east = west + 360 - (n - e)
      BY <1>8, <2>2
    <3> QED BY <1>3, <1>7, <3>1
  <2> QED BY <2>1, <2>2
<1>10. ASSUME e < n
       PROVE  /\ frame.west = west /\ frame.east = west + 360 - (n - e)
              /\ west \in {n - 720, n - 360, n}
  <2>1. n # e
    BY <1>3, <1>10
  <2>2. frame.west = west /\ frame.east = west + 360 - (n - e)
    BY <1>8, <2>1
  <2> QED BY <1>3, <1>7, <2>2
<1>11. \A f \in Ends(areas) : NextStart(areas, f) - f <= n - e
  BY <1>1, <1>2
<1> QED BY <1>2, <1>3, <1>7, <1>9, <1>10, <1>11

\* A frame begins within the world and ends where its width takes it.
LEMMA FrameShape ==
    ASSUME NEW areas, areas # {}, \A a \in areas : IsArea(a),
           NEW frame, frame = Frame(areas)
    PROVE  /\ frame.west \in -180 .. 180 /\ frame.east \in Int
           /\ frame = [west |-> frame.west, east |-> frame.east]
<1>1. PICK e \in Ends(areas) : Longest(Gaps(areas)) = <<e, NextStart(areas, e)>>
  BY LongestHas
<1>2. PICK n : n = NextStart(areas, e)
  OBVIOUS
<1>3. n \in Nat /\ e \in Nat
  <2>1. n \in Nat /\ e \in 0 .. 360
    BY <1>2, GapIsFree
  <2> QED BY <2>1
<1>4. PICK gap : gap = Longest(Gaps(areas))
  OBVIOUS
<1>5. gap[1] = e /\ gap[2] = n
  BY <1>1, <1>2, <1>4
<1>6. PICK west : west = IF n % 360 > 180 THEN (n % 360) - 360 ELSE n % 360
  OBVIOUS
<1>7. west \in Int /\ -180 <= west /\ west <= 180
  BY <1>3, <1>6
<1>8. PICK east : east = west + 360 - (n - e)
  OBVIOUS
<1>9. frame = IF n = e THEN [west |-> 0, east |-> 360] ELSE [west |-> west, east |-> east]
  BY <1>4, <1>5, <1>6, <1>8 DEF Frame
<1>10. east \in Int
  BY <1>3, <1>7, <1>8
<1> QED BY <1>7, <1>9, <1>10

\* Each area lies on one side of the gap, in one copy of the world or the next.
LEMMA AreaBesideGap ==
    ASSUME NEW areas, areas # {}, \A x \in areas : IsArea(x), NEW a \in areas,
           NEW e \in Ends(areas), NEW n, n = NextStart(areas, e), e < n,
           NEW start, start = a.west % 360, NEW w, w = Width(a)
    PROVE  \E k \in {0, 360} : n <= start + k /\ start + w + k <= e + 360
<1>1. n \in Nat /\ e \in Nat
  <2>1. n \in Nat /\ e \in 0 .. 360
    BY GapIsFree
  <2> QED BY <2>1
<1>2. start \in Nat /\ start < 360 /\ w \in Nat /\ w <= 360
  <2>1. w \in 0 .. 360 /\ start \in 0 .. 359
    BY AreaHas
  <2> QED BY <2>1
<1>3. \A i \in Intervals(a) : (i[2] <= e /\ n - 360 <= i[1]) \/ n <= i[1]
  <2>1. \A i \in Intervals(a) : i \in Stretches(areas)
    BY DEF Stretches
  <2> QED BY <2>1, GapIsFree
<1>4. Intervals(a) = IF w >= 360 THEN {<<0, 360>>}
                     ELSE IF start + w <= 360 THEN {<<start, start + w>>}
                     ELSE {<<start, 360>>, <<0, start + w - 360>>}
  BY DEF Intervals
<1>5. CASE w >= 360
  <2>1. <<0, 360>> \in Intervals(a)
    BY <1>4, <1>5
  <2>2. (360 <= e /\ n - 360 <= 0) \/ n <= 0
    BY <1>3, <2>1
  <2> QED BY <1>1, <2>2
<1>6. CASE ~(w >= 360) /\ start + w <= 360
  <2>1. <<start, start + w>> \in Intervals(a)
    BY <1>4, <1>6
  <2>2. (start + w <= e /\ n - 360 <= start) \/ n <= start
    BY <1>3, <2>1
  <2> QED BY <1>1, <1>2, <1>6, <2>2
<1>7. CASE ~(w >= 360) /\ ~(start + w <= 360)
  <2>1. <<start, 360>> \in Intervals(a) /\ <<0, start + w - 360>> \in Intervals(a)
    BY <1>4, <1>7
  <2>2. (360 <= e /\ n - 360 <= start) \/ n <= start
    BY <1>3, <2>1
  <2>3. (start + w - 360 <= e /\ n - 360 <= 0) \/ n <= 0
    BY <1>3, <2>1
  <2> QED BY <1>1, <1>2, <1>7, <2>2, <2>3
<1> QED BY <1>5, <1>6, <1>7

\* The frame holds every target, or is the whole world.
LEMMA FrameHolds ==
    ASSUME NEW areas, areas # {}, \A x \in areas : IsArea(x), NEW a \in areas,
           NEW frame, frame = Frame(areas)
    PROVE  Holds(frame, a)
<1>1. PICK e \in Ends(areas), n \in Nat, west \in Int :
         /\ n = NextStart(areas, e) /\ e \in Nat /\ e <= n
         /\ frame.east - frame.west = 360 - (n - e)
         /\ \/ e = n
            \/ /\ e < n /\ frame.west = west /\ frame.east = west + 360 - (n - e)
               /\ west \in {n - 720, n - 360, n} /\ -180 < west /\ west <= 180
  BY FrameAround
<1>2. CASE e = n
  <2>1. frame.east - frame.west = 360
    BY <1>1, <1>2
  <2> QED BY <2>1 DEF Holds
<1>3. CASE e < n /\ frame.west = west /\ frame.east = west + 360 - (n - e)
           /\ west \in {n - 720, n - 360, n} /\ -180 < west /\ west <= 180
  <2>1. PICK start, w, at : start = a.west % 360 /\ w = Width(a) /\ at = a.west
    OBVIOUS
  <2>2. /\ w \in Nat /\ w <= 360 /\ at \in Int /\ -180 <= at /\ at <= 180
        /\ start \in Nat
        /\ start = at \/ start = at + 360
    <3>1. w \in 0 .. 360
      BY <2>1, AreaHas
    <3>2. at \in Int /\ -180 <= at /\ at <= 180
      BY <2>1 DEF IsArea
    <3>3. start = at % 360
      BY <2>1
    <3> QED BY <3>1, <3>2, <3>3
  <2>3. PICK k \in {0, 360} : n <= start + k /\ start + w + k <= e + 360
    BY <1>1, <1>3, <2>1, AreaBesideGap
  <2>4. PICK turn \in Int : turn = start + k - (n - west) - at
    BY <2>2
  <2>5. e \in Nat
    BY <1>1
  <2>6. west <= at + turn
    BY <2>2, <2>3, <2>4
  <2>7. at + w + turn <= west + 360 - (n - e)
    BY <2>2, <2>3, <2>4, <2>5
  <2>8. turn \in {0, 360}
    BY <1>3, <2>2, <2>3, <2>4, <2>5, <2>6, <2>7
  <2>9. frame.west <= a.west + turn
    BY <1>3, <2>1, <2>6
  <2>10. a.west + Width(a) + turn <= frame.east
    BY <1>3, <2>1, <2>7
  <2>11. turn \in {-360, 0, 360}
    BY <2>8
  <2>12. \E v \in {-360, 0, 360} : frame.west <= a.west + v /\ a.west + Width(a) + v <= frame.east
    BY <2>9, <2>10, <2>11
  <2> QED BY <2>12 DEF Holds
<1> QED BY <1>1, <1>2, <1>3

\* Round the world from where an area begins: no area reaches further than the
\* frame needs, so what lies beyond is a gap.
LEMMA FrameIsNarrow ==
    ASSUME NEW areas, areas # {}, \A x \in areas : IsArea(x), NEW a \in areas,
           NEW frame, frame = Frame(areas)
    PROVE  frame.east - frame.west <= Needed(a.west, areas)
<1>1. PICK e \in Ends(areas), n \in Nat, west \in Int :
         /\ n = NextStart(areas, e) /\ e \in Nat /\ e <= n
         /\ \A f \in Ends(areas) : NextStart(areas, f) - f <= n - e
         /\ frame.east - frame.west = 360 - (n - e)
  BY FrameAround
<1>2. PICK start, needed : start = a.west % 360 /\ needed = Needed(a.west, areas)
  OBVIOUS
<1>3. start \in Nat /\ start < 360
  <2>1. start \in 0 .. 359
    BY <1>2, AreaHas
  <2> QED BY <2>1
<1>4. PICK reach : reach = {((b.west - a.west) % 360) + Width(b) : b \in areas}
  OBVIOUS
<1>5. needed \in reach /\ needed \in Nat /\ \A y \in reach : y <= needed
  <2>1. reach \subseteq 0 .. 720
    <3>1. ASSUME NEW b \in areas
          PROVE  ((b.west - a.west) % 360) + Width(b) \in 0 .. 720
      <4>1. PICK w, d : w = Width(b) /\ d = b.west - a.west
        OBVIOUS
      <4>2. w \in 0 .. 360
        BY <4>1, AreaHas
      <4>3. d \in Int
        BY <4>1 DEF IsArea
      <4>4. PICK r : r = d % 360
        OBVIOUS
      <4>5. r \in 0 .. 359
        BY <4>3, <4>4
      <4>6. r + w \in 0 .. 720
        BY <4>2, <4>5
      <4> QED BY <4>1, <4>4, <4>6
    <3> QED BY <1>4, <3>1
  <2>2. reach # {} /\ 720 \in Nat
    BY <1>4
  <2>3. needed = Greatest(reach)
    BY <1>2, <1>4 DEF Needed
  <2>4. Greatest(reach) \in reach /\ \A y \in reach : y <= Greatest(reach)
    BY <2>1, <2>2, GreatestHas
  <2>5. needed \in reach /\ \A y \in reach : y <= needed
    BY <2>3, <2>4
  <2>6. needed \in 0 .. 720
    BY <2>1, <2>5
  <2> QED BY <2>5, <2>6
<1>6. SUFFICES ASSUME needed < 360 - (n - e) PROVE FALSE
  <2>1. n - e \in Nat
    BY <1>1
  <2> QED BY <1>1, <1>2, <1>5, <2>1
\* Nothing lies beyond start + needed, in this copy of the world and the next.
<1> DEFINE last == start + needed
<1>7. last \in Nat /\ needed < 360
  BY <1>1, <1>3, <1>5, <1>6
<1>8. ASSUME NEW b \in areas
      PROVE  \E from \in Nat, w \in Nat :
                /\ w = Width(b) /\ start <= from /\ from + w <= last
                /\ IF from < 360 THEN b.west % 360 = from ELSE b.west % 360 = from - 360
  <2>1. PICK w, p, q : w = Width(b) /\ p = a.west /\ q = b.west
    OBVIOUS
  <2>2. /\ w \in Nat /\ p \in Int /\ q \in Int
    <3>1. w \in 0 .. 360
      BY <2>1, AreaHas
    <3>2. p \in Int /\ q \in Int
      BY <2>1 DEF IsArea
    <3> QED BY <3>1, <3>2
  <2>3. PICK from : from = start + ((q - p) % 360)
    OBVIOUS
  <2>4. from \in Nat /\ start <= from
    BY <1>3, <2>2, <2>3
  <2>5. ((b.west - a.west) % 360) + Width(b) \in reach
    BY <1>4
  <2>6. ((q - p) % 360) + w <= needed
    BY <1>5, <2>1, <2>5
  <2>7. from + w <= last
    BY <1>3, <1>5, <2>2, <2>3, <2>6
  <2>8. start = p % 360
    BY <1>2, <2>1
  <2>9. IF from < 360 THEN q % 360 = from ELSE q % 360 = from - 360
    BY <2>2, <2>3, <2>8
  <2> QED BY <2>1, <2>2, <2>4, <2>7, <2>9
\* Every stretch lies between start and last, or before last in the next copy.
<1>9. ASSUME NEW b \in areas, NEW i \in Intervals(b)
      PROVE  /\ i[1] \in Nat /\ i[2] \in Nat /\ i[1] <= i[2]
             /\ (start <= i[1] /\ i[2] <= 360 /\ i[2] <= last) \/ i[2] <= last - 360
  <2>1. PICK from \in Nat, w \in Nat :
           /\ w = Width(b) /\ start <= from /\ from + w <= last
           /\ IF from < 360 THEN b.west % 360 = from ELSE b.west % 360 = from - 360
    BY <1>8
  <2>2. PICK s : s = b.west % 360
    OBVIOUS
  <2>3. w < 360
    BY <1>3, <1>5, <1>7, <2>1
  <2>4. Intervals(b) = IF s + w <= 360 THEN {<<s, s + w>>}
                       ELSE {<<s, 360>>, <<0, s + w - 360>>}
    BY <2>1, <2>2, <2>3 DEF Intervals
  <2>5. CASE from < 360 /\ from + w <= 360
    <3>1. i = <<from, from + w>>
      BY <2>1, <2>2, <2>4, <2>5
    <3> QED BY <2>1, <2>5, <3>1
  <2>6. CASE from < 360 /\ ~(from + w <= 360)
    <3>1. i = <<from, 360>> \/ i = <<0, from + w - 360>>
      BY <2>1, <2>2, <2>4, <2>6
    <3>2. CASE i = <<from, 360>>
      BY <1>7, <2>1, <2>6, <3>2
    <3>3. CASE i = <<0, from + w - 360>>
      BY <1>7, <2>1, <2>6, <3>3
    <3> QED BY <3>1, <3>2, <3>3
  <2>7. CASE ~(from < 360)
    <3>1. s = from - 360
      BY <2>1, <2>2, <2>7
    <3>2. s + w <= 360
      BY <1>3, <1>5, <1>7, <2>1, <3>1
    <3>3. i = <<s, s + w>>
      BY <2>4, <3>2
    <3> QED BY <1>7, <2>1, <2>7, <3>1, <3>3
  <2> QED BY <2>5, <2>6, <2>7
<1>10. ASSUME NEW i \in Stretches(areas)
       PROVE  /\ i[1] \in Nat /\ i[2] \in Nat /\ i[1] <= i[2]
              /\ (start <= i[1] /\ i[2] <= 360 /\ i[2] <= last) \/ i[2] <= last - 360
  <2>1. PICK b \in areas : i \in Intervals(b)
    BY DEF Stretches
  <2> QED BY <1>9, <2>1
\* One of them reaches it.
<1>11. \E i \in Stretches(areas) : i[2] = last - 360 \/ (last <= 360 /\ i[2] = last)
  <2>1. PICK b \in areas : needed = ((b.west - a.west) % 360) + Width(b)
    BY <1>4, <1>5
  <2>2. PICK w, p, q : w = Width(b) /\ p = a.west /\ q = b.west
    OBVIOUS
  <2>3. w \in Nat /\ p \in Int /\ q \in Int
    <3>1. w \in 0 .. 360
      BY <2>2, AreaHas
    <3>2. p \in Int /\ q \in Int
      BY <2>2 DEF IsArea
    <3> QED BY <3>1, <3>2
  <2>4. PICK d : d = (q - p) % 360
    OBVIOUS
  <2>5. d \in Nat /\ d < 360 /\ needed = d + w
    BY <2>1, <2>2, <2>3, <2>4
  <2>6. PICK s : s = q % 360
    OBVIOUS
  <2>7. s = start + d \/ s = start + d - 360
    <3>1. start = p % 360
      BY <1>2, <2>2
    <3> QED BY <2>3, <2>4, <2>6, <3>1
  <2>8. s \in Nat /\ s < 360
    BY <2>3, <2>6
  <2>9. w < 360 /\ last = start + d + w
    BY <1>3, <1>7, <2>3, <2>5
  <2>10. Intervals(b) = IF s + w <= 360 THEN {<<s, s + w>>}
                        ELSE {<<s, 360>>, <<0, s + w - 360>>}
    BY <2>2, <2>3, <2>6, <2>9 DEF Intervals
  <2>11. \E i \in Intervals(b) : i[2] = last - 360 \/ (last <= 360 /\ i[2] = last)
    <3>1. CASE s + w <= 360
      <4>1. <<s, s + w>> \in Intervals(b)
        BY <2>10, <3>1
      <4>2. s + w = last - 360 \/ (last <= 360 /\ s + w = last)
        BY <1>3, <2>3, <2>5, <2>7, <2>8, <2>9, <3>1
      <4> QED BY <4>1, <4>2
    <3>2. CASE ~(s + w <= 360)
      <4>1. <<0, s + w - 360>> \in Intervals(b)
        BY <2>10, <3>2
      <4>2. s + w - 360 = last - 360
        BY <1>3, <1>5, <1>7, <2>3, <2>5, <2>7, <2>8, <2>9, <3>2
      <4> QED BY <4>1, <4>2
    <3> QED BY <3>1, <3>2
  <2> QED BY <2>11 DEF Stretches
<1>12. ASSUME NEW f \in Ends(areas), f \in Nat, NEW m, m = NextStart(areas, f),
              m \in Nat, 360 - needed <= m - f
       PROVE  FALSE
  <2>1. m - f <= n - e
    BY <1>1, <1>12
  <2> QED BY <1>1, <1>5, <1>6, <1>12, <2>1
<1>13. \A s \in Starts(areas) : \E i \in Stretches(areas) : s = i[1]
  BY DEF Starts
\* It ends in the next copy, before start.
<1>14. CASE \E i \in Stretches(areas) : i[2] = last - 360
  <2>1. PICK f : f = last - 360
    OBVIOUS
  <2>2. f \in Nat /\ f < start
    BY <1>3, <1>5, <1>7, <1>10, <1>14, <2>1
  <2>3. f \in Ends(areas)
    <3>1. ASSUME NEW j \in Stretches(areas), j[1] <= f, f < j[2] PROVE FALSE
      BY <1>3, <1>7, <1>10, <2>1, <2>2, <3>1
    <3> QED BY <1>14, <2>1, <3>1 DEF Ends
  <2>4. PICK m : m = NextStart(areas, f)
    OBVIOUS
  <2>5. \/ m \in Starts(areas) /\ m > f
        \/ \E s \in Starts(areas) : m = s + 360
    BY <2>2, <2>4, NextHas
  <2>6. m \in Nat /\ 360 - needed <= m - f
    <3>1. CASE m \in Starts(areas) /\ m > f
      <4>1. PICK i \in Stretches(areas) : m = i[1]
        BY <1>13, <3>1
      <4>2. m \in Nat /\ start <= m
        BY <1>3, <1>7, <1>10, <2>1, <2>2, <3>1, <4>1
      <4> QED BY <1>3, <1>5, <2>1, <4>2
    <3>2. CASE \E s \in Starts(areas) : m = s + 360
      <4>1. PICK i \in Stretches(areas) : m = i[1] + 360
        BY <1>13, <3>2
      <4>2. i[1] \in Nat
        BY <1>10
      <4> QED BY <1>3, <1>5, <2>1, <4>1, <4>2
    <3> QED BY <2>5, <3>1, <3>2
  <2> QED BY <1>12, <2>2, <2>3, <2>4, <2>6
\* It ends in this copy, and nothing begins before start.
<1>15. CASE ~\E i \in Stretches(areas) : i[2] = last - 360
  <2>1. last <= 360 /\ \E i \in Stretches(areas) : i[2] = last
    BY <1>11, <1>15
  <2>2. ASSUME NEW i \in Stretches(areas)
        PROVE  i[1] \in Nat /\ i[2] \in Nat /\ i[1] <= i[2] /\ start <= i[1] /\ i[2] <= last
    <3>1. i[2] \in Nat /\ i[2] # last - 360
      BY <1>10, <1>15
    <3> QED BY <1>7, <1>10, <2>1, <3>1
  <2>3. PICK f : f = last
    OBVIOUS
  <2>4. f \in Ends(areas) /\ f \in Nat
    <3>1. ASSUME NEW j \in Stretches(areas), f < j[2] PROVE FALSE
      BY <1>7, <2>2, <2>3, <3>1
    <3> QED BY <1>7, <2>1, <2>3, <3>1 DEF Ends
  <2>5. PICK m : m = NextStart(areas, f)
    OBVIOUS
  <2>6. \/ m \in Starts(areas) /\ m > f
        \/ \E s \in Starts(areas) : m = s + 360
    BY <2>4, <2>5, NextHas
  <2>7. m \in Nat /\ 360 - needed <= m - f
    <3>1. CASE m \in Starts(areas) /\ m > f
      <4>1. PICK i \in Stretches(areas) : m = i[1]
        BY <1>13, <3>1
      <4> QED BY <1>7, <2>2, <2>3, <3>1, <4>1
    <3>2. CASE \E s \in Starts(areas) : m = s + 360
      <4>1. PICK i \in Stretches(areas) : m = i[1] + 360
        BY <1>13, <3>2
      <4>2. i[1] \in Nat /\ start <= i[1]
        BY <2>2
      <4> QED BY <1>3, <1>5, <2>3, <4>1, <4>2
    <3> QED BY <2>6, <3>1, <3>2
  <2> QED BY <1>12, <2>4, <2>5, <2>7
<1> QED BY <1>14, <1>15

-----------------------------------------------------------------------------
(* The surface and its map                                                 *)

MapTypeOK ==
    /\ scene \in Scenes /\ request \in 0 .. MaxMotions
    /\ status \in {"gone", "loading", "ready", "error"}
    /\ DOMAIN surface = {"moved", "operation", "geography", "fallback"}
    /\ DOMAIN map = {"snapshot", "drawn", "pending", "markers", "styled", "sequence", "motion",
                     "waiting", "gesture", "centre"}
    /\ surface.operation \in Nat /\ map.sequence \in Nat

\* A map that is not ready shows nothing, and nothing has been moved.
FreshUntilReady == status # "ready" => surface = FreshSurface /\ map = FreshMap

\* The surface remembers the scene it shows and the request it answered.
MovedIsShown == status = "ready" => surface.moved = <<scene.id, request>>

\* Overlays are kept under the key of the scene they are of.
KeptUnderKey ==
    map.snapshot.key = Unset
    \/ \E x \in Scenes : map.snapshot.key = Key(x) /\ map.snapshot.route = Route(x)

\* What is drawn are the overlays that were kept, or those of a scene before.
RoutesAreShort == ShortLegs(map.snapshot.route) /\ ShortLegs(map.drawn)

SurfaceInv == MapTypeOK /\ FreshUntilReady /\ MovedIsShown /\ KeptUnderKey /\ RoutesAreShort

\* The route drawn is that of the scene, unless its overlays were answered pending.
DrawnOrPending(s, m) == m.pending \/ m.drawn = Route(s)

\* What is left of a scene that resolves is all its own, the geography a moveend
\* projects again included.
OfScene(s, u, m) ==
    Resolves(s) =>
        /\ m.snapshot.key = Key(s) /\ m.snapshot.route = Route(s)
        /\ DrawnOrPending(s, m)
        /\ m.markers = Markers(s)
        /\ u.geography = u.fallback /\ u.fallback = IF s.path THEN Points(s) ELSE <<>>
        /\ s.targets # {} /\ ~s.holds => m.centre = Centre(s.targets)

HeldInv == status = "ready" => OfScene(scene, surface, map)

\* Every scene of the scripts has an identifier of its own.
OwnIds == \A s, t \in Scenes : s.id = t.id => s = t

\* The effect of a scene, on a surface and a map that satisfy the invariant.
LEMMA PresentKeeps ==
    ASSUME SurfaceInv, NEW s \in Scenes, NEW r \in 0 .. MaxMotions, Present(s, r, surface, map)
    PROVE  /\ DOMAIN surface' = {"moved", "operation", "geography", "fallback"}
           /\ DOMAIN map' = {"snapshot", "drawn", "pending", "markers", "styled", "sequence", "motion",
                             "waiting", "gesture", "centre"}
           /\ surface'.operation \in Nat /\ map'.sequence \in Nat
           /\ surface'.moved = <<s.id, r>>
           /\ KeptUnderKey' /\ RoutesAreShort'
           /\ map'.sequence > map.sequence => surface.moved # <<s.id, r>>
<1>1. /\ DOMAIN surface' = {"moved", "operation", "geography", "fallback"}
      /\ surface'.operation \in Nat /\ surface'.moved = <<s.id, r>>
  <2>1. surface' = Here(s, r, surface)
    BY DEF Present
  <2> QED BY <2>1 DEF Here, SurfaceInv, MapTypeOK
<1> DEFINE m == WithOverlays(map, s)
<1>2. /\ DOMAIN m = DOMAIN map /\ m.sequence = map.sequence /\ m.motion = map.motion
      /\ m.waiting = map.waiting /\ m.gesture = map.gesture
      /\ m.drawn \in {m.snapshot.route, map.drawn}
      /\ m.snapshot = IF map.snapshot.key = Key(s) THEN map.snapshot
                      ELSE [key |-> Key(s), route |-> Route(s)]
  BY DEF WithOverlays, Overlaid, Reconciled, SurfaceInv, MapTypeOK
<1>3. m.snapshot.key = Key(s) /\ \E x \in Scenes : m.snapshot.key = Key(x) /\ m.snapshot.route = Route(x)
  <2>1. Key(s) # Unset
    BY MapAssumption DEF Key
  <2> QED BY <1>2, <2>1 DEF SurfaceInv, KeptUnderKey
<1>4. ShortLegs(m.snapshot.route) /\ ShortLegs(m.drawn)
  BY <1>2, <1>3, RouteShort DEF SurfaceInv, RoutesAreShort
<1> HIDE DEF m
<1>5. CASE map' = map
  BY <1>1, <1>5 DEF SurfaceInv, MapTypeOK, KeptUnderKey, RoutesAreShort
<1>6. CASE map' = m
  BY <1>1, <1>2, <1>3, <1>4, <1>6 DEF SurfaceInv, MapTypeOK, KeptUnderKey, RoutesAreShort
<1>7. CASE Moves(s, r, surface) /\ \E animated \in BOOLEAN :
              map' = WithMotion(m, s, animated, surface'.operation)
  <2>1. PICK animated \in BOOLEAN : map' = WithMotion(m, s, animated, surface'.operation)
    BY <1>7
  <2>2. /\ DOMAIN map' = DOMAIN m /\ map'.sequence = m.sequence + 1
        /\ map'.snapshot = m.snapshot /\ map'.drawn = m.drawn
    BY <2>1, <1>2 DEF WithMotion, SurfaceInv, MapTypeOK
  <2>3. surface.moved # <<s.id, r>>
    BY <1>7 DEF Moves, ShouldMove
  <2> QED BY <1>1, <1>2, <1>3, <1>4, <2>2, <2>3
          DEF SurfaceInv, MapTypeOK, KeptUnderKey, RoutesAreShort
<1> QED BY <1>5, <1>6, <1>7 DEF Present, m

\* Two runs of the effect that moved the camera alike were of the same scene.
LEMMA PresentHolds ==
    ASSUME SurfaceInv, HeldInv, OwnIds, NEW s \in Scenes, NEW r \in 0 .. MaxMotions,
           Present(s, r, surface, map)
    PROVE  OfScene(s, surface', map')
<1> SUFFICES ASSUME Resolves(s)
             PROVE  OfScene(s, surface', map')
  BY DEF OfScene
<1>1. /\ surface'.geography = surface'.fallback
      /\ surface'.fallback = IF s.path THEN Points(s) ELSE <<>>
  <2>1. surface' = Here(s, r, surface)
    BY DEF Present
  <2> QED BY <2>1 DEF Here, SurfaceInv, MapTypeOK
<1> DEFINE m == WithOverlays(map, s)
<1>2. m.snapshot.key = Key(s) /\ m.snapshot.route = Route(s) /\ m.markers = Markers(s)
      /\ DOMAIN m = DOMAIN map /\ m.centre = map.centre
  <2>1. /\ DOMAIN m = DOMAIN map /\ m.markers = Markers(s) /\ m.centre = map.centre
        /\ m.snapshot = IF map.snapshot.key = Key(s) THEN map.snapshot
                        ELSE [key |-> Key(s), route |-> Route(s)]
    BY DEF WithOverlays, Overlaid, Reconciled, SurfaceInv, MapTypeOK
  <2>2. Key(s) # Unset
    BY MapAssumption DEF Key
  <2>3. map.snapshot.key = Key(s) => map.snapshot.route = Route(s)
    BY <2>2 DEF SurfaceInv, KeptUnderKey, OwnIds, Key
  <2> QED BY <2>1, <2>3
<1>3. DrawnOrPending(s, m)
  <2>1. m.pending = ~map.styled
        /\ m.drawn = IF map.styled THEN Overlaid(map, s).route ELSE map.drawn
    BY DEF WithOverlays, Reconciled, SurfaceInv, MapTypeOK
  <2>2. Overlaid(map, s) = m.snapshot
    BY DEF WithOverlays, SurfaceInv, MapTypeOK
  <2> QED BY <1>2, <2>1, <2>2 DEF DrawnOrPending
<1> HIDE DEF m
<1>4. CASE ~Moves(s, r, surface)
  <2>1. map' = m
    BY <1>4 DEF Present, m
  <2>2. ASSUME s.targets # {}, ~s.holds PROVE map.centre = Centre(s.targets)
    <3>1. surface.moved = <<s.id, r>>
      BY <1>4, <2>2 DEF Moves, ShouldMove
    <3>2. status = "ready"
      <4>1. <<s.id, r>> # Unset
        BY MapAssumption
      <4>2. status # "ready" => surface.moved = Unset
        BY DEF SurfaceInv, FreshUntilReady, FreshSurface
      <4> QED BY <3>1, <4>1, <4>2
    <3>3. scene = s
      <4>1. scene.id = s.id
        BY <3>1, <3>2 DEF SurfaceInv, MovedIsShown
      <4> QED BY <4>1 DEF OwnIds, SurfaceInv, MapTypeOK
    <3> QED BY <2>2, <3>2, <3>3 DEF HeldInv, OfScene
  <2>3. DrawnOrPending(s, map')
    BY <1>3, <2>1 DEF DrawnOrPending
  <2> QED BY <1>1, <1>2, <2>1, <2>2, <2>3 DEF OfScene
<1>5. CASE Moves(s, r, surface)
  <2>1. PICK animated \in BOOLEAN : map' = WithMotion(m, s, animated, surface'.operation)
    BY <1>5 DEF Present, m
  <2>2. /\ map'.snapshot = m.snapshot /\ map'.markers = m.markers
        /\ map'.drawn = m.drawn /\ map'.pending = m.pending
        /\ map'.centre = Centre(s.targets)
    BY <2>1, <1>2 DEF WithMotion, SurfaceInv, MapTypeOK
  <2>3. DrawnOrPending(s, map')
    BY <1>3, <2>2 DEF DrawnOrPending
  <2> QED BY <1>1, <1>2, <2>2, <2>3 DEF OfScene
<1> QED BY <1>4, <1>5

\* Resuming projects the route again and changes nothing else.
LEMMA ResumedHas ==
    ASSUME NEW waiting, DOMAIN surface = {"moved", "operation", "geography", "fallback"}
    PROVE  LET u == Resumed(waiting, surface) IN
           /\ DOMAIN u = DOMAIN surface /\ u.moved = surface.moved
           /\ u.operation = surface.operation /\ u.geography = surface.geography
           /\ u.fallback \in {surface.fallback, surface.geography}
BY DEF Resumed

\* A step that shows no scene keeps scene, request and what was moved.
LEMMA QuietKeeps ==
    ASSUME SurfaceInv, UNCHANGED <<scene, request, status>>, status = "ready",
           DOMAIN surface' = DOMAIN surface, DOMAIN map' = DOMAIN map,
           surface'.moved = surface.moved, surface'.operation = surface.operation,
           surface'.geography = surface.geography,
           surface'.fallback \in {surface.fallback, surface.geography},
           map'.snapshot = map.snapshot, map'.drawn = map.drawn,
           map'.pending = map.pending, map'.markers = map.markers,
           map'.centre = map.centre, map'.sequence \in Nat
    PROVE  SurfaceInv' /\ (HeldInv => HeldInv')
<1>1. SurfaceInv'
  BY DEF SurfaceInv, MapTypeOK, FreshUntilReady, MovedIsShown, KeptUnderKey, RoutesAreShort
<1>2. HeldInv => HeldInv'
  BY DEF HeldInv, OfScene, DrawnOrPending
<1> QED BY <1>1, <1>2

\* A map that is empty satisfies the invariant as long as it is not ready.
LEMMA FreshKeeps ==
    ASSUME scene' \in Scenes, request' \in 0 .. MaxMotions,
           status' \in {"gone", "loading", "error"},
           surface' = FreshSurface, map' = FreshMap
    PROVE  SurfaceInv' /\ HeldInv'
<1>1. MapTypeOK'
  BY DEF MapTypeOK, FreshSurface, FreshMap
<1>2. KeptUnderKey' /\ RoutesAreShort'
  <2>1. map'.snapshot.key = Unset /\ map'.snapshot.route = <<>> /\ map'.drawn = <<>>
    BY DEF FreshMap
  <2> QED BY <2>1 DEF KeptUnderKey, RoutesAreShort, ShortLegs
<1> QED BY <1>1, <1>2 DEF SurfaceInv, FreshUntilReady, MovedIsShown, HeldInv

\* The effect of a scene on a map that is ready then.
LEMMA PresentedKeeps ==
    ASSUME SurfaceInv, scene' \in Scenes, request' \in 0 .. MaxMotions, status' = "ready",
           Present(scene', request', surface, map)
    PROVE  SurfaceInv' /\ (OwnIds /\ HeldInv => HeldInv')
<1>1. PICK s, r : s = scene' /\ r = request'
  OBVIOUS
<1>2. /\ s \in Scenes /\ r \in 0 .. MaxMotions /\ Present(s, r, surface, map)
  BY <1>1
<1>3. SurfaceInv'
  <2>1. /\ DOMAIN surface' = {"moved", "operation", "geography", "fallback"}
        /\ DOMAIN map' = {"snapshot", "drawn", "pending", "markers", "styled", "sequence", "motion",
                          "waiting", "gesture", "centre"}
        /\ surface'.operation \in Nat /\ map'.sequence \in Nat
        /\ surface'.moved = <<s.id, r>> /\ KeptUnderKey' /\ RoutesAreShort'
    BY <1>2, PresentKeeps
  <2> QED BY <1>1, <2>1 DEF SurfaceInv, MapTypeOK, FreshUntilReady, MovedIsShown
<1>4. ASSUME OwnIds, HeldInv PROVE HeldInv'
  <2>1. OfScene(s, surface', map')
    BY <1>2, <1>4, PresentHolds
  <2> QED BY <1>1, <2>1 DEF HeldInv, OfScene
<1> QED BY <1>3, <1>4

\* Every step.
LEMMA MapStepKeeps ==
    ASSUME SurfaceInv, [MapNext]_mapVars
    PROVE  SurfaceInv' /\ (OwnIds /\ HeldInv => HeldInv')
<1> USE DEF SurfaceInv, MapTypeOK
<1>1. CASE \E s \in Scenes : Show(s)
  <2>1. PICK s \in Scenes : Show(s)
    BY <1>1
  <2>2. scene' = s /\ request' = request
    BY <2>1 DEF Show
  <2>3. CASE status = "gone"
    <3>1. status' = "loading" /\ surface' = FreshSurface /\ map' = FreshMap
      BY <2>1, <2>3 DEF Show
    <3> QED BY <2>2, <3>1, FreshKeeps
  <2>4. CASE status \in {"loading", "error"}
    <3>1. status' = status /\ surface' = FreshSurface /\ map' = FreshMap
      BY <2>1, <2>4 DEF Show, FreshUntilReady
    <3> QED BY <2>2, <2>4, <3>1, FreshKeeps
  <2>5. CASE status = "ready"
    <3>1. Present(s, request, surface, map) /\ status' = "ready"
      BY <2>1, <2>5 DEF Show
    <3>2. Present(scene', request', surface, map)
      BY <2>2, <3>1
    <3> QED BY <2>2, <3>1, <3>2, PresentedKeeps
  <2> QED BY <2>3, <2>4, <2>5
<1>2. CASE Leave
  BY <1>2, FreshKeeps DEF Leave
<1>3. CASE ReplayMotion
  <2>1. request' = request + 1 /\ request' \in 0 .. MaxMotions
        /\ scene' = scene /\ status' = status
    BY <1>3, MapAssumption DEF ReplayMotion
  <2>2. CASE status = "ready"
    <3>1. Present(scene', request', surface, map)
      BY <1>3, <2>1, <2>2 DEF ReplayMotion
    <3> QED BY <2>1, <2>2, <3>1, PresentedKeeps
  <2>3. CASE status # "ready"
    <3>1. surface' = FreshSurface /\ map' = FreshMap
      BY <1>3, <2>3 DEF ReplayMotion, FreshUntilReady
    <3> QED BY <2>1, <2>3, <3>1, FreshKeeps
  <2> QED BY <2>2, <2>3
<1>4. CASE Loaded
  <2>1. scene' = scene /\ request' = request /\ status' = "ready"
        /\ Present(scene, request, surface, map)
    BY <1>4 DEF Loaded
  <2>2. Present(scene', request', surface, map)
    BY <2>1
  <2> QED BY <2>1, <2>2, PresentedKeeps
<1>5. CASE LoadFails
  <2>1. surface' = FreshSurface /\ map' = FreshMap
    BY <1>5 DEF LoadFails, FreshUntilReady
  <2> QED BY <1>5, <2>1, FreshKeeps DEF LoadFails
<1>6. CASE RetryLoading
  <2>1. surface' = FreshSurface /\ map' = FreshMap
    BY <1>6 DEF RetryLoading, FreshUntilReady
  <2> QED BY <1>6, <2>1, FreshKeeps DEF RetryLoading
<1>7. CASE MoveEnd
  <2>1. /\ UNCHANGED <<scene, request, status>> /\ status = "ready"
        /\ surface' = Resumed(map.waiting, surface)
    BY <1>7 DEF MoveEnd
  <2>2. /\ DOMAIN map' = DOMAIN map /\ map'.snapshot = map.snapshot /\ map'.drawn = map.drawn
        /\ map'.pending = map.pending /\ map'.markers = map.markers
        /\ map'.centre = map.centre /\ map'.sequence = map.sequence
    BY <1>7 DEF MoveEnd
  <2> QED BY <2>1, <2>2, ResumedHas, QuietKeeps
<1>8. CASE Gesture
  <2>1. /\ UNCHANGED <<scene, request, status>> /\ status = "ready"
        /\ surface' = Resumed(map.waiting, surface) \/ surface' = surface
    BY <1>8 DEF Gesture
  <2>2. /\ DOMAIN map' = DOMAIN map /\ map'.snapshot = map.snapshot /\ map'.drawn = map.drawn
        /\ map'.pending = map.pending /\ map'.markers = map.markers
        /\ map'.centre = map.centre /\ map'.sequence \in Nat
    BY <1>8 DEF Gesture
  <2> QED BY <2>1, <2>2, ResumedHas, QuietKeeps
<1>9. CASE CameraChanges
  BY <1>9, QuietKeeps DEF CameraChanges
<1>10. CASE Tiles
  BY <1>10, QuietKeeps DEF Tiles
<1>11. CASE UNCHANGED mapVars
  <2>1. SurfaceInv'
    BY <1>11 DEF mapVars, FreshUntilReady, MovedIsShown, KeptUnderKey, RoutesAreShort
  <2>2. HeldInv => HeldInv'
    BY <1>11 DEF mapVars, HeldInv, OfScene
  <2> QED BY <2>1, <2>2
<1> QED BY <1>1, <1>2, <1>3, <1>4, <1>5, <1>6, <1>7, <1>8, <1>9, <1>10, <1>11 DEF MapNext

\* At first the map holds nothing.
LEMMA MapStarts == ASSUME MapInit PROVE SurfaceInv /\ HeldInv
<1>1. MapTypeOK
  BY MapAssumption DEF MapInit, MapTypeOK, FreshSurface, FreshMap
<1>2. map.snapshot.key = Unset /\ map.snapshot.route = <<>> /\ map.drawn = <<>>
  BY DEF MapInit, FreshMap
<1>3. KeptUnderKey /\ RoutesAreShort
  BY <1>2 DEF KeptUnderKey, RoutesAreShort, ShortLegs
<1> QED BY <1>1, <1>3 DEF MapInit, SurfaceInv, FreshUntilReady, MovedIsShown, HeldInv

\* Whatever is shown, replaced, moved, dragged or loaded again, surface and map
\* agree on the scene that moved the camera and on the key of the overlays.
THEOREM SurfaceInvariant == MapSpec => []SurfaceInv
<1>1. MapInit => SurfaceInv
  BY MapStarts
<1>2. SurfaceInv /\ [MapNext]_mapVars => SurfaceInv'
  BY MapStepKeeps
<1> QED BY <1>1, <1>2, PTL DEF MapSpec

\* Where every scene has an identifier of its own, a map that is ready shows the
\* scene it was given (MapSurface.tsx:92): its markers, its projected fallback, its
\* centre and its route, unless the style was not loaded when the overlays were
\* applied and the route drawn before stayed (maplibre-adapter.ts:130).
THEOREM SceneIsHeldHolds ==
    ASSUME OwnIds
    PROVE  MapSpec => []SceneIsHeld
<1>1. MapInit => SurfaceInv /\ HeldInv
  BY MapStarts
<1>2. (SurfaceInv /\ HeldInv) /\ [MapNext]_mapVars => (SurfaceInv /\ HeldInv)'
  BY OwnIds, MapStepKeeps
<1>3. HeldInv => SceneIsHeld
  BY DEF HeldInv, OfScene, DrawnOrPending, SceneIsHeld, OverlaysRefresh
<1> QED BY <1>1, <1>2, <1>3, PTL DEF MapSpec

\* Only another scene or a request of the player sets a ready map in motion
\* (MapSurface.tsx:96), also when scripts replace each other under the same
\* identifiers.
THEOREM OnlyNewsMovesHolds == MapSpec => OnlyNewsMoves
<1> DEFINE Moved == status = "ready" /\ map'.sequence > map.sequence
                      /\ surface'.operation > surface.operation
                    => scene'.id # scene.id \/ request' # request
<1>1. SurfaceInv /\ [MapNext]_mapVars => [Moved]_mapVars
  <2> SUFFICES ASSUME SurfaceInv, MapNext, status = "ready",
                      map'.sequence > map.sequence,
                      surface'.operation > surface.operation
               PROVE  scene'.id # scene.id \/ request' # request
    OBVIOUS
  <2>1. surface.moved = <<scene.id, request>> /\ scene \in Scenes
        /\ request \in 0 .. MaxMotions
        /\ DOMAIN surface = {"moved", "operation", "geography", "fallback"}
        /\ surface.operation \in Nat /\ map.sequence \in Nat
    BY DEF SurfaceInv, MapTypeOK, MovedIsShown
  <2>2. CASE \E s \in Scenes : Show(s)
    <3>1. PICK s \in Scenes : Show(s)
      BY <2>2
    <3>2. scene' = s /\ request' = request /\ Present(s, request, surface, map)
      BY <3>1 DEF Show
    <3>3. surface.moved # <<s.id, request>>
      BY <2>1, <3>2, PresentKeeps
    <3> QED BY <2>1, <3>2, <3>3
  <2>3. CASE ReplayMotion
    BY <2>1, <2>3 DEF ReplayMotion
  <2>4. CASE ~(\E s \in Scenes : Show(s)) /\ ~ReplayMotion
    <3>1. surface'.operation = surface.operation \/ surface'.operation = 0
      BY <2>1, <2>4, ResumedHas DEF MapNext, Leave, Loaded, LoadFails, RetryLoading,
         MoveEnd, Gesture, CameraChanges, Tiles, FreshSurface
    <3> QED BY <2>1, <3>1
  <2> QED BY <2>2, <2>3, <2>4
<1> QED BY <1>1, SurfaceInvariant, PTL DEF MapSpec, OnlyNewsMoves

\* Whatever scene is shown, a route is drawn without a leg across the map and goes on
\* at the other edge where it is cut (maplibre-adapter.ts:50), and the camera is sent to
\* the middle of a stretch that holds all targets, whichever side of the antimeridian
\* they lie on, and is no wider than they need (camera-target-resolver.ts:42).
THEOREM GeometryIsSoundHolds == MapSpec => []GeometryIsSound
<1>1. SurfaceInv => LegsAreShort
  BY DEF SurfaceInv, RoutesAreShort, ShortLegs, LegsAreShort
<1>2. FrameFits
  <2> SUFFICES ASSUME NEW s \in Scenes, s.targets # {}, map.centre = Centre(s.targets)
               PROVE  \E west \in -180 .. 180 :
                        LET frame == [west |-> west, east |-> map.centre - west] IN
                        \A a \in s.targets :
                            /\ Holds(frame, a)
                            /\ frame.east - frame.west <= Needed(a.west, s.targets)
    BY DEF FrameFits
  <2>1. ASSUME NEW x \in s.targets PROVE IsArea(x)
    <3>1. x.west \in -180 .. 180 /\ x.east \in -180 .. 180
      BY MapAssumption
    <3>2. PICK p, q : p = x.west /\ q = x.east
      OBVIOUS
    <3>3. p \in Int /\ q \in Int /\ -180 <= p /\ p <= 180 /\ -180 <= q /\ q <= 180
      BY <3>1, <3>2
    <3> QED BY <3>2, <3>3 DEF IsArea
  <2>2. PICK areas, frame : areas = s.targets /\ frame = Frame(areas)
    OBVIOUS
  <2>3. frame.west \in -180 .. 180 /\ frame.east \in Int
        /\ frame = [west |-> frame.west, east |-> frame.east]
    BY <2>1, <2>2, FrameShape
  <2>4. PICK west, centre : west = frame.west /\ centre = map.centre
    OBVIOUS
  <2>5. west \in -180 .. 180 /\ frame = [west |-> west, east |-> centre - west]
    <3>1. PICK east : east = frame.east
      OBVIOUS
    <3>2. centre = west + east
      BY <2>2, <2>4, <3>1 DEF Centre
    <3>3. centre - west = east
      BY <2>3, <2>4, <3>1, <3>2
    <3> QED BY <2>3, <2>4, <3>1, <3>3
  <2>6. \A a \in s.targets :
          Holds(frame, a) /\ frame.east - frame.west <= Needed(a.west, s.targets)
    BY <2>1, <2>2, FrameHolds, FrameIsNarrow
  <2> QED BY <2>4, <2>5, <2>6
<1>3. SurfaceInv => GeometryIsSound
  BY <1>1, <1>2 DEF GeometryIsSound
<1> QED BY <1>3, SurfaceInvariant, PTL
=============================================================================
