SPECIFICATION Spec
CONSTANTS
    None = None
    Processes = {p1, p2}
    Inputs <- MCInputs
    DossierIds = {i1, i2}
    MaxRevisions = 2
SYMMETRY Alike
INVARIANTS
    OneHistory
    RevisionsAreTrue
    OpenedIsMigrated
PROPERTY
    HistoriesOnlyGrow
