CONSTANTS
    SceneIds = {"a", "b"}
    Scripts <- StoreScripts
    ScenesOf <- StoreScenesOf
    Questions = {"q1"}
    QuestionOf <- StoreQuestionOf
    OperationIds = {"op1"}
    FollowUps = {"f1"}
    Viewports = {}
    MaxSceneIndex = 1
    None = None
    Clients = {k1, k2}
    ClientCommands <- StoreCommands
SYMMETRY ClientSymmetry
SPECIFICATION StoreSpec
PROPERTIES
    ImplementsAtomicSession
