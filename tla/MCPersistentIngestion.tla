----------------------- MODULE MCPersistentIngestion ------------------------
\* Three calls; four documents, three of them of one URL.
EXTENDS PersistentIngestion, TLC

IngestedUrlOf == [u1t1 |-> "u1", u1t2 |-> "u1", u1t3 |-> "u1", u2t1 |-> "u2"]
=============================================================================
