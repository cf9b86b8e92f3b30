--------------------------- MODULE MCRawArtifacts ---------------------------
\* Two processes; two artifacts of the same bytes from different sources; a
\* deletable policy, a legal hold and one under which nothing is kept.
EXTENDS RawArtifacts, TLC

CONSTANTS a1, a2

RawHashOf == a1 :> "h" @@ a2 :> "h"
RawTriggers == [plain |-> {"explicit-request", "expired"},
                hold |-> {"explicit-request"}, ephemeral |-> {}]

RawSymmetry == Permutations(Processes) \cup Permutations(Artifacts)
               \cup Permutations(AcquisitionIds)
=============================================================================
