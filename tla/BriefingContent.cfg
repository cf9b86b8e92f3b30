SPECIFICATION ContentSpec
CONSTANTS
    AskedQuestions <- MCQuestions
    Corpora <- MCCorpora
    Preferences <- MCPreferences
    MaxPerSource = 3
    MaxPerSection = 6
    MaxItems = 7
    MaxExcerpts = 6
INVARIANTS
    RefusalsAreKnown
    ScriptsAreHonest
    GapsAreReal
CHECK_DEADLOCK FALSE
