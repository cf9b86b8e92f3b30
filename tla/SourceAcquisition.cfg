CONSTANTS
    Executions = {e1, e2}
    Workers = {w}
    Requests = {q1, q2}
    Bodies <- MCBodies
    Policies <- MCPolicies
    OfferedGrants <- MCGrants
    Hints <- MCHints
    Reasons = {"scheduled-expiry"}
    MaxStored = 2
    None = None
SYMMETRY AcquisitionSymmetry
SPECIFICATION Spec
INVARIANTS
    StoredIsReported
    AccessIsGranted
    DocumentsAreFaithful
CHECK_DEADLOCK FALSE
