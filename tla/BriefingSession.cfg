CONSTANTS
    SceneIds = {"a", "b", "c", "n"}
    Scripts <- TwoScripts
    ScenesOf <- MCScenesOf
    Questions = {"q1", "q2"}
    QuestionOf <- MCQuestionOf
    OperationIds = {"op1", "op2"}
    FollowUps = {"f1"}
    Viewports = {"v1"}
    MaxSceneIndex = 2
    None = None
    CallersNameScenes = TRUE
SPECIFICATION Spec
INVARIANTS
    SessionCoherent
    FailureCanAlwaysReturn
PROPERTIES
    ReturnsToOpened
    OwnersAloneComplete
    OnlyResetLeavesTheScript
