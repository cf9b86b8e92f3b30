------------------------------ MODULE MapSurface ------------------------------
(***************************************************************************)
(* The map of the briefing (map/MapSurface.tsx) on its MapLibre adapter    *)
(* (map/maplibre-adapter.ts, motion-planner.ts): scenes that come and are  *)
(* replaced, motions that run while they do, and a user who takes hold of  *)
(* the map.                                                                *)
(*                                                                         *)
(* A step is what runs until the next event of the browser.  The adapter   *)
(* answers applyOverlays and a jump without waiting, so the effect of a    *)
(* scene runs on to its animation; only an animation is waited for.        *)
(***************************************************************************)
EXTENDS MapGeometry

CONSTANTS
    Scenes,         \* [id, path: is it the impact path, flow: is it a route,
                    \*  points: <<>> if a location does not resolve,
                    \*  targets: the areas its camera aims at, holds: no motion]
    MaxMotions,     \* bound: motions and gestures of one map, requests for motion
    MaxEffects,     \* bound: scenes a mounted surface is shown
    Unset           \* no scene, overlays or camera yet

\* Longitudes are those validGeometry lets through.
ASSUME MapAssumption ==
    /\ MaxMotions \in Nat /\ MaxEffects \in Nat
    /\ \A s \in Scenes :
        /\ s.points \in Seq(Int)
        /\ IsFiniteSet(s.targets)
        /\ \A a \in s.targets : a.west \in -180 .. 180 /\ a.east \in -180 .. 180
        /\ s.id # Unset /\ \A r \in 0 .. MaxMotions : <<s.id, r>> # Unset

VARIABLES
    scene, request,     \* the props: the scene shown, the player's motionRequestId
    status,             \* of the map: "gone", "loading", "ready" or "error"
    surface,            \* the refs and state of the component
    map                 \* the adapter and the map it draws

mapVars == <<scene, request, status, surface, map>>

\* moved: lastMotionIdentity; operation: sceneOperationId.
FreshSurface == [moved |-> Unset, operation |-> 0, geography |-> <<>>, fallback |-> <<>>]

\* snapshot: OverlaySnapshotStore; drawn: the data of the overlay source; pending:
\* applyOverlays last answered that it drew nothing, which the surface ignores;
\* motion: the gate's active motion, 0 if none; waiting: what awaits a moveend, with
\* the operation it belongs to; centre: twice the longitude the script last sent the
\* camera to (its zoom is a table's entry for the framing of the scene).
FreshMap == [snapshot |-> [key |-> Unset, route |-> <<>>], drawn |-> <<>>, pending |-> FALSE,
             markers |-> <<>>, styled |-> TRUE, sequence |-> 0, motion |-> 0, waiting |-> {},
             gesture |-> FALSE, centre |-> Unset]

-----------------------------------------------------------------------------
\* resolveOverlays, buildOverlayFeatureCollection and buildMarkerModels: only a
\* route is drawn.
Resolves(s) == s.points # <<>>
Points(s) == IF s.flow THEN Unwrapped(s.points) ELSE s.points
Route(s) == IF s.flow /\ Len(s.points) >= 2 THEN Split(Points(s)) ELSE <<>>
Markers(s) == IF s.flow THEN [k \in DOMAIN s.points |-> Wrapped(Points(s)[k])] ELSE <<>>

\* The key the surface gives the overlays of a scene.
Key(s) == s.id

\* OverlaySnapshotStore.apply: data of a key that is there already stays.
Overlaid(m, s) == IF m.snapshot.key = Key(s) THEN m.snapshot
              ELSE [key |-> Key(s), route |-> Route(s)]

\* reconcileOverlayStyle: while the style is not loaded, what was drawn before stays.
Reconciled(m, route) == IF m.styled THEN route ELSE m.drawn

\* Mutant: The style is reconciled before the snapshot takes the new overlays.
ReconciledFirst(m, s) ==
    [m EXCEPT !.drawn = Reconciled(m, m.snapshot.route), !.pending = ~m.styled,
              !.snapshot = Overlaid(m, s), !.markers = Markers(s)]

\* applyOverlays: what could not be drawn is answered pending.
WithOverlays(m, s) ==
    [m EXCEPT !.snapshot = Overlaid(m, s), !.markers = Markers(s),
              !.drawn = Reconciled(m, Overlaid(m, s).route), !.pending = ~m.styled]

\* applyMotion: it ends the motion that is active.  A jump is there at once, an
\* animation waits for its moveend.
WithMotion(m, s, animated, operation) ==
    LET stopped == IF m.motion # 0 THEN [m EXCEPT !.waiting = {}, !.gesture = FALSE] ELSE m
        begun == [stopped EXCEPT !.sequence = @ + 1, !.centre = Centre(s.targets)] IN
    IF animated
    THEN [begun EXCEPT !.motion = begun.sequence,
                       !.waiting = @ \cup {[motion |-> begun.sequence, operation |-> operation]}]
    ELSE [begun EXCEPT !.motion = 0, !.waiting = {}, !.gesture = FALSE]

\* Mutant: Every run of the effect moves the camera.
MovesAlways(u, s, r) == TRUE

\* shouldMoveCamera.
ShouldMove(u, s, r) == u.moved # <<s.id, r>>

\* The surface after the effect of a scene: what an impact path projects is gone
\* with the path, and is replaced by the next one that resolves.
Here(s, r, u) ==
    LET here == [u EXCEPT !.operation = @ + 1, !.moved = <<s.id, r>>] IN
    IF s.path /\ ~Resolves(s) THEN here
    ELSE [here EXCEPT !.geography = IF s.path THEN Points(s) ELSE <<>>,
                      !.fallback = IF s.path THEN Points(s) ELSE <<>>]

Moves(s, r, u) == Resolves(s) /\ ShouldMove(u, s, r) /\ s.targets # {} /\ ~s.holds

\* The effect of a scene: the run before it is superseded, overlays are applied
\* and, if the scene or the request is new, the camera is moved.
Present(s, r, u, m) ==
    /\ u.operation < MaxEffects
    /\ surface' = Here(s, r, u)
    /\ \/ ~Resolves(s) /\ map' = m
       \/ Resolves(s) /\ ~Moves(s, r, u) /\ map' = WithOverlays(m, s)
       \/ /\ Moves(s, r, u) /\ m.sequence < MaxMotions
          /\ \E animated \in BOOLEAN :
                map' = WithMotion(WithOverlays(m, s), s, animated, surface'.operation)

-----------------------------------------------------------------------------
\* The dispatcher shows a map scene: the surface is mounted, or renders again with
\* another scene, or with the same one of a replaced script.
Show(s) ==
    /\ scene' = s
    /\ \/ /\ status = "gone"
          /\ status' = "loading" /\ surface' = FreshSurface /\ map' = FreshMap
       \/ /\ status \in {"loading", "error"}
          /\ UNCHANGED <<status, surface, map>>
       \/ /\ status = "ready"
          /\ Present(s, request, surface, map)
          /\ UNCHANGED status
    /\ UNCHANGED request

\* A scene without a map: the surface is unmounted and the map removed.
Leave ==
    /\ status # "gone"
    /\ status' = "gone" /\ surface' = FreshSurface /\ map' = FreshMap
    /\ UNCHANGED <<scene, request>>

\* The player asks for the motion of the scene again, or for the script's camera.
ReplayMotion ==
    /\ request < MaxMotions
    /\ request' = request + 1
    /\ IF status = "ready" THEN Present(scene, request + 1, surface, map)
       ELSE UNCHANGED <<surface, map>>
    /\ UNCHANGED <<scene, status>>

\* The load or error event that initialize waits for, and the button to try again.
Loaded ==
    /\ status = "loading" /\ status' = "ready"
    /\ Present(scene, request, surface, map)
    /\ UNCHANGED <<scene, request>>

LoadFails ==
    /\ status = "loading" /\ status' = "error"
    /\ UNCHANGED <<scene, request, surface, map>>

RetryLoading ==
    /\ status = "error" /\ status' = "loading" /\ map' = FreshMap
    /\ UNCHANGED <<scene, request, surface>>

\* What waited for a moveend goes on, unless a later effect superseded it: the
\* route is projected again.
Resumed(waiting, u) ==
    IF scene.path /\ \E w \in waiting : w.operation = u.operation
    THEN [u EXCEPT !.fallback = u.geography] ELSE u

\* The map's moveend.  Each waiting motion completes its own id at the gate.
MoveEnd ==
    /\ status = "ready"
    /\ map.waiting # {} \/ map.gesture
    /\ map' = [map EXCEPT !.waiting = {}, !.gesture = FALSE,
                 !.motion = IF \E w \in map.waiting : w.motion = @ THEN 0 ELSE @]
    /\ surface' = Resumed(map.waiting, surface)
    /\ UNCHANGED <<scene, request, status>>

\* handleMapInteraction: the gate forgets the script's motion, and the first event
\* of a gesture stops it.
Gesture ==
    /\ status = "ready" /\ map.sequence < MaxMotions
    /\ LET stops == ~map.gesture /\ map.motion # 0 IN
       /\ map' = [map EXCEPT !.sequence = @ + 1, !.motion = 0, !.gesture = ~stops,
                             !.waiting = IF stops THEN {} ELSE @]
       /\ surface' = IF stops THEN Resumed(map.waiting, surface) ELSE surface
    /\ UNCHANGED <<scene, request, status>>

\* notifyCameraChange: the surface projects the route it has.
CameraChanges ==
    /\ status = "ready" /\ Len(surface.geography) >= 3
    /\ surface' = [surface EXCEPT !.fallback = surface.geography]
    /\ UNCHANGED <<scene, request, status, map>>

\* isStyleLoaded is false while tiles load, too; no style.load comes of it.
Tiles ==
    /\ status = "ready"
    /\ map' = [map EXCEPT !.styled = ~@]
    /\ UNCHANGED <<scene, request, status, surface>>

MapInit ==
    /\ scene \in Scenes /\ request = 0
    /\ status = "gone" /\ surface = FreshSurface /\ map = FreshMap

MapNext ==
    \/ \E s \in Scenes : Show(s)
    \/ Leave \/ ReplayMotion \/ Loaded \/ LoadFails \/ RetryLoading
    \/ MoveEnd \/ Gesture \/ CameraChanges \/ Tiles

MapSpec == MapInit /\ [][MapNext]_mapVars

-----------------------------------------------------------------------------
\* "map overlays refresh" (Interactive-Renderer-Architecture.md:43): the route a
\* ready map holds is that of the scene it shows, whatever was shown before.
OverlaysRefresh == status = "ready" /\ Resolves(scene) => map.snapshot.route = Route(scene)

\* A ready map shows the scene it was given (MapSurface.tsx:92): the route drawn, the
\* markers, the projected fallback and the centre the camera was sent to are those of
\* the scene, whatever was shown before.  One thing of another scene may stay, the
\* route drawn, and only while applyOverlays found the style not loaded
\* (maplibre-adapter.ts:130); the snapshot holds the route of the scene even then.
SceneIsHeld ==
    status = "ready" /\ Resolves(scene) =>
        /\ OverlaysRefresh
        /\ map.pending \/ map.drawn = Route(scene)
        /\ map.markers = Markers(scene)
        /\ surface.fallback = IF scene.path THEN Points(scene) ELSE <<>>
        /\ scene.targets # {} /\ ~scene.holds => map.centre = Centre(scene.targets)

\* "camera motion does not replay": a map that is ready is set in motion by the
\* script only for another scene or for a request (MapSurface.tsx:96), so that a
\* replaced script leaves the view to a user who has taken hold of it.
OnlyNewsMoves ==
    [][status = "ready" /\ map'.sequence > map.sequence
        /\ surface'.operation > surface.operation
          => scene'.id # scene.id \/ request' # request]_mapVars

\* The camera is sent to the middle of a stretch that holds every target, or is the
\* whole world, and no narrower one would hold them: round the antimeridian, too
\* (camera-target-resolver.ts:42).
Needed(west, areas) ==
    Greatest({((a.west - west) % 360) + Width(a) : a \in areas})
Holds(frame, a) ==
    \/ frame.east - frame.west = 360
    \/ \E turn \in {-360, 0, 360} :
        frame.west <= a.west + turn /\ a.west + Width(a) + turn <= frame.east
FrameFits ==
    \A s \in Scenes : s.targets # {} /\ map.centre = Centre(s.targets) =>
        \E west \in -180 .. 180 :
            LET frame == [west |-> west, east |-> map.centre - west] IN
            \A a \in s.targets :
                /\ Holds(frame, a)
                /\ frame.east - frame.west <= Needed(a.west, s.targets)

\* No leg of a drawn route spans more than half the world, and a route that is cut
\* goes on at the other edge (maplibre-adapter.ts:50).
LegsAreShort ==
    \A n \in DOMAIN map.drawn :
        /\ \A k \in DOMAIN map.drawn[n] : k > 1 =>
              Abs(map.drawn[n][k] - map.drawn[n][k - 1]) <= 180
        /\ n > 1 => LET before == map.drawn[n - 1] IN
                    /\ Abs(before[Len(before)]) = 180
                    /\ map.drawn[n][1] = -before[Len(before)]

\* What is drawn and where the camera is sent is right on both sides of the antimeridian.
GeometryIsSound == FrameFits /\ LegsAreShort
=============================================================================
