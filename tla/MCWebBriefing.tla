--------------------------- MODULE MCWebBriefing ---------------------------
\* Instances of WebBriefing for TLC: a script of three scenes, its revision, a
\* script that replaces its scenes after the second, one that rebuilds it, and
\* a shorter one of another run, which shares its opening scene.
EXTENDS WebBriefing

FiveScripts == {"first", "revised", "replaced", "rebuilt", "other"}
MCScenesOf == [first |-> <<"a", "b", "c">>, revised |-> <<"a", "b", "c">>,
               replaced |-> <<"a", "b", "d">>, rebuilt |-> <<"x", "y", "z">>,
               other |-> <<"a", "z">>]
MCQuestionOf == [p \in FiveScripts |->
                   IF p \in {"rebuilt", "other"} THEN "q2" ELSE "q1"]

\* For the shortest counterexamples: a script and the one that rebuilds it.
TwoScripts == {"first", "rebuilt"}
TwoScenesOf == [first |-> <<"a", "b">>, rebuilt |-> <<"x", "y">>]
TwoQuestionOf == [p \in TwoScripts |-> "q1"]
=============================================================================
