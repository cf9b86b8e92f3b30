-------------------------- MODULE MCBriefingSession --------------------------
\* Instances of BriefingSession for TLC.
EXTENDS BriefingSession

\* Two scripts that share scene "b" at different places: replacing the first by
\* the second drops the opening scene, and the other way the second scene.
TwoScripts == {"first", "second"}
MCScenesOf == [first |-> <<"a", "b">>, second |-> <<"n", "b", "c">>]
MCQuestionOf == [first |-> "q1", second |-> "q2"]
=============================================================================
