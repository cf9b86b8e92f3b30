----------------------------- MODULE MapGeometry -----------------------------
(***************************************************************************)
(* Longitudes of the map (map/camera-target-resolver.ts,                   *)
(* overlay-controller.ts, maplibre-adapter.ts) in whole degrees: what the  *)
(* camera frames and how a route is drawn where the world wraps round.     *)
(* Latitudes do not wrap and are left out.                                 *)
(***************************************************************************)
EXTENDS Integers, Sequences, FiniteSets

Abs(x) == IF x < 0 THEN -x ELSE x
Least(S) == CHOOSE x \in S : \A y \in S : x <= y
Greatest(S) == CHOOSE x \in S : \A y \in S : y <= x

\* normalizeLongitude of the adapter, and closestWorldCopy.
Wrapped(x) == ((x + 180) % 360) - 180
Copy(x, centre) == CHOOSE c \in {x - 360, x, x + 360} : \A d \in {x - 360, x, x + 360} :
    Abs(c - centre) < Abs(d - centre) \/ (Abs(c - centre) = Abs(d - centre) /\ c <= d)

\* unwrapRoute: every point next to the one before it.
Unwrapped(points) ==
    LET at[k \in DOMAIN points] ==
            IF k = 1 THEN points[1] ELSE Copy(points[k], at[k - 1]) IN
    [k \in DOMAIN points |-> at[k]]

\* splitRouteAtAntimeridian: a leg of more than half the world is drawn the other
\* way, in two parts that end and begin at the edge.
Split(points) ==
    LET x == [k \in DOMAIN points |-> Wrapped(points[k])]
        edge(k) == IF x[k] > x[k - 1] THEN -180 ELSE 180
        parts[k \in DOMAIN points] ==
            IF k = 1 THEN << <<x[1]>> >>
            ELSE LET n == Len(parts[k - 1]) IN
                 IF Abs(x[k] - x[k - 1]) > 180
                 THEN Append([parts[k - 1] EXCEPT ![n] = Append(@, edge(k))],
                             <<-edge(k), x[k]>>)
                 ELSE [parts[k - 1] EXCEPT ![n] = Append(@, x[k])] IN
    IF points = <<>> THEN <<>> ELSE parts[Len(points)]

\* longitudeIntervals: an area on a circle that is cut at 0.
Width(area) == IF area.east < area.west THEN area.east - area.west + 360
               ELSE area.east - area.west
Intervals(area) ==
    LET start == area.west % 360
        width == Width(area) IN
    IF width >= 360 THEN {<<0, 360>>}
    ELSE IF start + width <= 360 THEN {<<start, start + width>>}
    ELSE {<<start, 360>>, <<0, start + width - 360>>}

\* combineBounds: the stretches no area covers; the frame is all but the longest,
\* the first of equals.
Gaps(areas) ==
    LET all == UNION {Intervals(a) : a \in areas}
        ends == {i[2] : i \in {i \in all : ~\E j \in all : j[1] <= i[2] /\ i[2] < j[2]}}
        starts == {i[1] : i \in all}
        next(e) == IF \E s \in starts : s > e THEN Least({s \in starts : s > e})
                   ELSE Least(starts) + 360 IN
    {<<e, next(e)>> : e \in ends}

Longest(gaps) ==
    CHOOSE g \in gaps : \A h \in gaps :
        h[2] - h[1] < g[2] - g[1] \/ (h[2] - h[1] = g[2] - g[1] /\ g[1] <= h[1])

\* Mutant: The frame runs from the westmost to the eastmost bound.
FlatFrame(areas) ==
    [west |-> Least({a.west : a \in areas}), east |-> Greatest({a.east : a \in areas})]

Frame(areas) ==
    LET gap == Longest(Gaps(areas))
        west == IF gap[2] % 360 > 180 THEN (gap[2] % 360) - 360 ELSE gap[2] % 360 IN
    IF gap[2] = gap[1] THEN [west |-> 0, east |-> 360]
    ELSE [west |-> west, east |-> west + 360 - (gap[2] - gap[1])]

\* resolveCameraTarget: the middle of the frame, doubled to be whole.
Centre(areas) == Frame(areas).west + Frame(areas).east
=============================================================================
