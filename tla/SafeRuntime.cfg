CONSTANTS
    A1 = A1
    A2 = A2
    C1 = C1
    T1 = T1
    T2 = T2
    O1 = O1
    O2 = O2
    None = None
    Acquisitions = {A1, A2}
    Connectors = {C1}
    ConnectorOf <- MCConnectorOf
    Targets = {T1, T2}
    Origins = {O1, O2}
    OriginOf <- MCOriginOf
    Secure = {T1}
    MaxAttempts = 2
    MaxRedirects = 1
    ConnectorLimit = 2
    OriginLimit = 1
SPECIFICATION Spec
INVARIANTS
    RuntimeInv
    TargetsAreSpared
PROPERTIES
    StoppedIsFinal
    AcquisitionsEnd
CHECK_DEADLOCK FALSE
