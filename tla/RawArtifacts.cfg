CONSTANTS
    a1 = a1
    a2 = a2
    Artifacts = {a1, a2}
    Hashes = {"h"}
    HashOf <- RawHashOf
    AcquisitionIds = {q1, q2}
    Policies = {"plain", "hold", "ephemeral"}
    Persistable = {"plain", "hold"}
    Held = {"hold"}
    Reasons = {"explicit-request", "expired"}
    Triggers <- RawTriggers
    Processes = {p1, p2}
    MaxStored = 2
    None = None
SYMMETRY RawSymmetry
SPECIFICATION Spec
INVARIANTS
    RawInv
PROPERTIES
    AcquisitionsNeverRebind
    OnlyStaleDeletesBreakHold
