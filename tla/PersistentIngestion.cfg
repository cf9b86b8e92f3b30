CONSTANTS
    Calls = {c1, c2, c3}
    Documents = {"u1t1", "u1t2", "u1t3", "u2t1"}
    Urls = {"u1", "u2"}
    UrlOf <- IngestedUrlOf
    Null = Null
SPECIFICATION IngestionSpec
INVARIANTS
    IngestionInv
    AnswersAreTrue
PROPERTIES
    HistoryOnlyGrows
    JobsFinish
