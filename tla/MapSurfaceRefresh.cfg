SPECIFICATION MapSpec
CONSTANTS
    Unset = Unset
    Scenes <- MCReplaced
    MaxMotions = 3
    MaxEffects = 3
INVARIANT OverlaysRefresh
