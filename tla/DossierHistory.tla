---------------------------- MODULE DossierHistory ----------------------------
(***************************************************************************)
(* What the dossiers promise, whoever builds and in whatever order: every  *)
(* event has one history, history[e][n] is what its n-th revision says,    *)
(* nothing of it is ever lost or rewritten, and a revision says something  *)
(* that the one before it did not.                                         *)
(***************************************************************************)
EXTENDS Integers, Sequences

CONSTANTS Events, Contents

VARIABLE history

Init == history = [e \in Events |-> <<>>]

Revise(e, c) ==
    /\ Len(history[e]) > 0 => history[e][Len(history[e])] # c
    /\ history' = [history EXCEPT ![e] = Append(@, c)]

Next == \E e \in Events : \E c \in Contents : Revise(e, c)

Spec == Init /\ [][Next]_history
=============================================================================
