--------------------------- MODULE MCSafeRuntime ----------------------------
(***************************************************************************)
(* Two acquisitions of one connector over an https target and an http one  *)
(* of different origins: a downgrade and both kinds of loop are possible.  *)
(***************************************************************************)
EXTENDS SafeRuntime

CONSTANTS A1, A2, C1, T1, T2, O1, O2

MCConnectorOf == [a \in {A1, A2} |-> C1]
MCOriginOf == [t \in {T1, T2} |-> IF t = T1 THEN O1 ELSE O2]

=============================================================================
