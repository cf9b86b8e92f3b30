---------------------------- MODULE AtomicSession ----------------------------
(***************************************************************************)
(* What a session repository promises (the SessionRepository interface):   *)
(* the session, once created, changes only by one accepted command at a    *)
(* time, computed from the session it replaces.                            *)
(***************************************************************************)
CONSTANTS
    Created,        \* the sessions that may be created
    NextOf(_),      \* what one accepted command can make of a session
    None            \* no session yet

VARIABLE session

Init == session = None

Create == session = None /\ session' \in Created

Command == session # None /\ session' \in NextOf(session)

Next == Create \/ Command

Spec == Init /\ [][Next]_session

=============================================================================
