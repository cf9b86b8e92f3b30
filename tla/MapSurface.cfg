SPECIFICATION MapSpec
CONSTANTS
    Unset = Unset
    Scenes <- MCScenes
    MaxMotions = 5
    MaxEffects = 5
INVARIANTS
    SceneIsHeld
    GeometryIsSound
PROPERTY OnlyNewsMoves
