CONSTANTS
    SceneIds = {"a", "b", "c", "d", "x", "y", "z"}
    Scripts <- FiveScripts
    ScenesOf <- MCScenesOf
    Questions = {"q1", "q2"}
    QuestionOf <- MCQuestionOf
    OperationIds = {"op1"}
    FollowUps = {"f1"}
    Viewports = {"v1"}
    MaxSceneIndex = 2
    None = None
SPECIFICATION Spec
INVARIANTS
    SessionOnScript
    NavigationIsFollowed
    ReplacementsCommit
PROPERTIES
    UnappliedKeepsBriefing
