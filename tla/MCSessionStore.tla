--------------------------- MODULE MCSessionStore ---------------------------
\* Two clients of one stored session, over one script of two scenes, which
\* a replan may replace by itself.
EXTENDS SessionStore, TLC

StoreScripts == {"first"}
StoreScenesOf == [first |-> <<"a", "b">>]
StoreQuestionOf == [first |-> "q1"]

\* Navigation, the composer and a failing follow-up.
StoreCommands ==
    {c \in Commands :
        c.type \in {"START_BRIEFING", "NEXT_SCENE", "PREVIOUS_SCENE",
                   "OPEN_COMPOSER", "CLOSE_COMPOSER", "SUBMIT_FOLLOW_UP",
                   "REPLAN_FAILED"}}

ClientSymmetry == Permutations(Clients)
=============================================================================
