----------------------------- MODULE MCMapSurface -----------------------------
(***************************************************************************)
(* Scenes for the map: a region with its bounds, a route across the        *)
(* Atlantic, the impact path of the demo across the Pacific and one that   *)
(* does not resolve, a scene that holds the view; and a script replaced    *)
(* under the same scene id.                                                *)
(***************************************************************************)
EXTENDS MapSurface

Place(x) == [west |-> x, east |-> x]
Region == [id |-> 1, path |-> FALSE, flow |-> FALSE, points |-> <<121>>,
           targets |-> {[west |-> 103, east |-> 146]}, holds |-> FALSE]
Pacific == [id |-> 2, path |-> TRUE, flow |-> TRUE, points |-> <<-98, 121, 128>>,
            targets |-> {Place(-98), Place(121), Place(128)}, holds |-> FALSE]
Atlantic == [id |-> 3, path |-> FALSE, flow |-> TRUE, points |-> <<-74, 2, 37>>,
             targets |-> {Place(-74), Place(2), Place(37)}, holds |-> FALSE]
Nowhere == [id |-> 4, path |-> TRUE, flow |-> TRUE, points |-> <<>>,
            targets |-> {}, holds |-> FALSE]
Held == [id |-> 5, path |-> FALSE, flow |-> TRUE, points |-> <<121>>,
         targets |-> {Place(121)}, holds |-> TRUE]

MCScenes == {Region, Pacific, Atlantic, Nowhere, Held}

\* The impact path of a script that replaced the one shown: by way of Japan.
MCReplaced == {Pacific, [Pacific EXCEPT !.points = <<-98, 138, 128>>]}
=============================================================================
