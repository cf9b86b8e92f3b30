-------------------------- MODULE PersistenceProofs --------------------------
(***************************************************************************)
(* The two stores behind an acquisition.                                   *)
(*                                                                         *)
(* RawArtifacts: the tables stay consistent for any number of processes,   *)
(* artifacts and policies, whatever delete calls interleave with whatever  *)
(* insertions.  The inductive invariant is RawInv; its part                *)
(* CheckedIsCurrent is what the legal hold rests on.                       *)
(*                                                                         *)
(* PersistentIngestion: the tables stay consistent for any number of calls *)
(* and documents, under crashes, outages and rolled back transactions.     *)
(* IngestionInv is inductive; HistoryHasALatest is there because a new     *)
(* revision is numbered after the latest one.                              *)
(***************************************************************************)
EXTENDS RawArtifacts, PersistentIngestion, TLAPS

-----------------------------------------------------------------------------
(* Raw artifacts                                                           *)

(* Process steps: what a call in progress may become. *)

\* Ending a call, with any answer, keeps the types of the calls.
LEMMA AnswerTyped ==
    ASSUME TypeOK, NEW p \in Processes, NEW answer \in Answers, Answer(p, answer)
    PROVE  process' \in [Processes -> CallState]
  BY DEF TypeOK, Answer, Idle, CallState

\* Ending a call that leaves the tables alone keeps the invariant.
LEMMA AnswerKeeps ==
    ASSUME RawInv, NEW p \in Processes, NEW answer \in Answers,
           Answer(p, answer), UNCHANGED tables
    PROVE  RawInv'
<1>1. process' \in [Processes -> CallState]
  BY AnswerTyped DEF RawInv
<1>2. TypeOK'
  BY <1>1 DEF RawInv, TypeOK, tables
<1>3. CheckedIsCurrent'
  BY DEF RawInv, TypeOK, CheckedIsCurrent, tables, Answer, Idle
<1>4. BytesFollowArtifacts' /\ OccurrencesFollowArtifacts' /\ RemovalsAreAudited'
  BY DEF RawInv, BytesFollowArtifacts, OccurrencesFollowArtifacts,
         RemovalsAreAudited, Referenced, Active, tables
<1> QED BY <1>2, <1>3, <1>4 DEF RawInv

-----------------------------------------------------------------------------
(* The actions. *)

\* Nothing is stored, and nobody works.
LEMMA InitHolds == Init => RawInv
  BY RawAssumption DEF Init, RawInv, TypeOK, BytesFollowArtifacts, Referenced,
     OccurrencesFollowArtifacts, Active, CheckedIsCurrent, RemovalsAreAudited,
     Idle, CallState, Answers

\* An occurrence is added to an artifact that is there.
LEMMA InsertOccurrenceKeeps ==
    ASSUME RawInv, NEW p \in Processes, NEW a \in Artifacts,
           NEW policy \in Policies, NEW q \in AcquisitionIds,
           InsertOccurrence(a, policy, q), Answer(p, "stored")
    PROVE  RawInv'
<1>1. process' \in [Processes -> CallState]
  BY AnswerTyped DEF RawInv, Answers
<1>2. /\ UNCHANGED <<artifacts, blobs, tombstones, stored, deleted>>
      /\ occurrences' = [occurrences EXCEPT ![q] = a]
      /\ Active(a)
  BY DEF InsertOccurrence
<1>3. TypeOK'
  BY <1>1, <1>2 DEF RawInv, TypeOK
<1>4. OccurrencesFollowArtifacts'
  <2>1. \A r \in AcquisitionIds :
           occurrences'[r] # None => artifacts'[occurrences'[r]] # None
    BY <1>2 DEF RawInv, TypeOK, OccurrencesFollowArtifacts, Active
  <2>2. ASSUME NEW b \in Artifacts, Active(b)'
        PROVE  \E r \in AcquisitionIds : occurrences'[r] = b
    <3>1. PICK r \in AcquisitionIds : occurrences[r] = b
      BY <2>2, <1>2 DEF RawInv, OccurrencesFollowArtifacts, Active
    <3>2. CASE b = a
      BY <3>2, <1>2 DEF RawInv, TypeOK
    <3>3. CASE b # a
      <4>1. r # q
        BY <3>1, <3>3, RawAssumption, <2>2, <1>2
        DEF InsertOccurrence, Bindable, Active
      <4> QED BY <4>1, <3>1, <1>2 DEF RawInv, TypeOK
    <3> QED BY <3>2, <3>3
  <2> QED BY <2>1, <2>2 DEF OccurrencesFollowArtifacts, Active
<1>5. CheckedIsCurrent'
  BY <1>2 DEF RawInv, TypeOK, CheckedIsCurrent, Answer, Idle
<1>6. BytesFollowArtifacts' /\ RemovalsAreAudited'
  BY <1>2 DEF RawInv, BytesFollowArtifacts, RemovalsAreAudited, Referenced, Active
<1> QED BY <1>3, <1>4, <1>5, <1>6 DEF RawInv

\* An artifact is added with its blob and its first occurrence.
LEMMA InsertArtifactKeeps ==
    ASSUME RawInv, NEW p \in Processes, NEW a \in Artifacts,
           NEW policy \in Policies, NEW q \in AcquisitionIds,
           InsertArtifact(a, policy, q), Answer(p, "stored")
    PROVE  RawInv'
<1>1. process' \in [Processes -> CallState]
  BY AnswerTyped DEF RawInv, Answers
<1>2. /\ ~Active(a)
      /\ artifacts' = [artifacts EXCEPT ![a] = policy]
      /\ blobs' = blobs \cup {HashOf[a]}
      /\ occurrences' = [occurrences EXCEPT ![q] = a]
      /\ stored' = [stored EXCEPT ![a] = @ + 1]
      /\ UNCHANGED <<tombstones, deleted>>
  BY DEF InsertArtifact
<1>3. occurrences[q] = None
  BY <1>2 DEF InsertArtifact, Bindable
<1>4. HashOf \in [Artifacts -> Hashes] /\ policy # None
  BY RawAssumption
<1>5. TypeOK'
  <2>1. artifacts' \in [Artifacts -> Policies \cup {None}] /\ blobs' \subseteq Hashes
    BY <1>2, <1>4 DEF RawInv, TypeOK
  <2>2. occurrences' \in [AcquisitionIds -> Artifacts \cup {None}]
    BY <1>2 DEF RawInv, TypeOK
  <2>3. stored' \in [Artifacts -> Nat] /\ deleted' \in [Artifacts -> Nat]
    BY <1>2 DEF RawInv, TypeOK
  <2> QED BY <2>1, <2>2, <2>3, <1>1, <1>2 DEF RawInv, TypeOK
<1>6. BytesFollowArtifacts'
  BY <1>2, <1>4 DEF RawInv, TypeOK, BytesFollowArtifacts, Referenced, Active
<1>7. OccurrencesFollowArtifacts'
  BY <1>2, <1>3, <1>4, RawAssumption
  DEF RawInv, TypeOK, OccurrencesFollowArtifacts, Active
<1>8. CheckedIsCurrent'
  BY <1>2, <1>4, RawAssumption
  DEF RawInv, TypeOK, CheckedIsCurrent, Answer, Idle, Active
<1>9. RemovalsAreAudited'
  <2> SUFFICES ASSUME NEW b \in Artifacts
               PROVE  stored'[b] <= deleted'[b]
                                    + (IF artifacts'[b] # None THEN 1 ELSE 0)
    BY DEF RemovalsAreAudited, Active
  <2>1. stored[b] \in Nat /\ deleted[b] \in Nat /\ artifacts[a] = None
    BY <1>2 DEF RawInv, TypeOK, Active
  <2>2. stored[b] <= deleted[b] + (IF artifacts[b] # None THEN 1 ELSE 0)
    BY DEF RawInv, RemovalsAreAudited, Active
  <2>3. artifacts'[b] = (IF b = a THEN policy ELSE artifacts[b])
    BY <1>2 DEF RawInv, TypeOK
  <2>4. stored'[b] = (IF b = a THEN stored[b] + 1 ELSE stored[b])
    BY <1>2 DEF RawInv, TypeOK
  <2> QED BY <2>1, <2>2, <2>3, <2>4, <1>2, <1>4
<1> QED BY <1>5, <1>6, <1>7, <1>8, <1>9 DEF RawInv

\* Looking for a tombstone starts a delete call or answers it.
LEMMA FindTombstoneKeeps ==
    ASSUME RawInv, NEW p \in Processes, NEW a \in Artifacts,
           NEW reason \in Reasons, FindTombstone(p, a, reason)
    PROVE  RawInv'
<1>1. CASE tombstones[a] # None
  BY <1>1, AnswerKeeps DEF FindTombstone, Answers
<1>2. CASE tombstones[a] = None
  <2> DEFINE entry == [phase |-> "looked", artifact |-> a, reason |-> reason,
                       policy |-> None, answer |-> "none"]
  <2>1. process' = [process EXCEPT ![p] = entry] /\ UNCHANGED tables
    BY <1>2 DEF FindTombstone, Idle
  <2>2. TypeOK'
    BY <2>1 DEF RawInv, TypeOK, tables, CallState, Answers
  <2>3. CheckedIsCurrent'
    BY <2>1 DEF RawInv, TypeOK, CheckedIsCurrent, tables
  <2>4. BytesFollowArtifacts' /\ OccurrencesFollowArtifacts' /\ RemovalsAreAudited'
    BY <2>1 DEF RawInv, BytesFollowArtifacts, OccurrencesFollowArtifacts,
           RemovalsAreAudited, Referenced, Active, tables
  <2> QED BY <2>2, <2>3, <2>4 DEF RawInv
<1> QED BY <1>1, <1>2

\* The check of the active record: what passes is stored, and not on hold.
LEMMA CheckRecordKeeps ==
    ASSUME RawInv, NEW p \in Processes, CheckRecord(p)
    PROVE  RawInv'
<1>1. CASE Answer(p, "refused")
  BY <1>1, AnswerKeeps DEF CheckRecord, Answers
<1>2. CASE ~Answer(p, "refused")
  <2> DEFINE row == artifacts[process[p].artifact]
  <2>1. PICK policy \in Policies :
           /\ Deletable(policy, row, process[p].reason)
           /\ process' = [process EXCEPT ![p] =
                             [@ EXCEPT !.phase = "checked", !.policy = row]]
    BY <1>2 DEF CheckRecord
  <2>2. row \in Policies \ Held
    BY <2>1 DEF Deletable
  <2>3. process[p] \in CallState /\ process[p].phase = "looked" /\ UNCHANGED tables
    BY DEF RawInv, TypeOK, CheckRecord
  <2>4. PICK entry : entry = [process[p] EXCEPT !.phase = "checked", !.policy = row]
    OBVIOUS
  <2>5. /\ entry \in CallState /\ entry.phase = "checked" /\ entry.policy = row
        /\ entry.artifact = process[p].artifact /\ entry.reason = process[p].reason
    BY <2>2, <2>3, <2>4 DEF CallState
  <2>6. process' = [process EXCEPT ![p] = entry]
    BY <2>1, <2>4
  <2>7. TypeOK'
    BY <2>3, <2>5, <2>6 DEF RawInv, TypeOK, tables
  <2>8. CheckedIsCurrent'
    BY <2>2, <2>3, <2>5, <2>6 DEF RawInv, TypeOK, CheckedIsCurrent, tables
  <2>9. BytesFollowArtifacts' /\ OccurrencesFollowArtifacts' /\ RemovalsAreAudited'
    BY <2>3 DEF RawInv, BytesFollowArtifacts, OccurrencesFollowArtifacts,
           RemovalsAreAudited, Referenced, Active, tables
  <2> QED BY <2>7, <2>8, <2>9 DEF RawInv
<1> QED BY <1>1, <1>2

\* The transaction removes the row, its occurrences and, when no other active
\* artifact has the same bytes, the blob; the tombstone and the event stay.
LEMMA DeleteTransactionKeeps ==
    ASSUME RawInv, NEW p \in Processes, DeleteTransaction(p)
    PROVE  RawInv'
<1> DEFINE a == process[p].artifact
<1> DEFINE stone == [policy |-> process[p].policy, reason |-> process[p].reason]
<1>1. a \in Artifacts /\ stone \in Tombstone
  BY DEF RawInv, TypeOK, CheckedIsCurrent, DeleteTransaction, Tombstone
<1>2. process' \in [Processes -> CallState]
  BY AnswerTyped DEF RawInv, Answers, DeleteTransaction
<1>3. /\ DeleteToTombstone(a, stone)
      /\ deleted' = [deleted EXCEPT ![a] = @ + 1]
      /\ UNCHANGED stored
      /\ Answer(p, "deleted")
  BY DEF DeleteTransaction, Audited
<1> HIDE DEF a, stone
<1>4. CASE ~Active(a)
  <2>1. UNCHANGED <<artifacts, blobs, occurrences, tombstones>>
    BY <1>3, <1>4 DEF DeleteToTombstone
  <2>2. TypeOK'
    BY <2>1, <1>1, <1>2, <1>3 DEF RawInv, TypeOK
  <2>3. CheckedIsCurrent'
    BY <2>1, <1>3 DEF RawInv, TypeOK, CheckedIsCurrent, Answer, Idle
  <2>4. BytesFollowArtifacts' /\ OccurrencesFollowArtifacts'
    BY <2>1 DEF RawInv, BytesFollowArtifacts, OccurrencesFollowArtifacts,
           Referenced, Active
  <2>5. RemovalsAreAudited'
    BY <2>1, <1>1, <1>3 DEF RawInv, TypeOK, RemovalsAreAudited, Active
  <2> QED BY <2>2, <2>3, <2>4, <2>5 DEF RawInv
<1>5. CASE Active(a)
  <2>1. /\ artifacts' = [artifacts EXCEPT ![a] = None]
        /\ blobs' = IF Unreferenced([artifacts EXCEPT ![a] = None], HashOf[a])
                    THEN blobs \ {HashOf[a]} ELSE blobs
        /\ occurrences' = [q \in AcquisitionIds |->
                              IF occurrences[q] = a THEN None ELSE occurrences[q]]
        /\ tombstones' = [tombstones EXCEPT ![a] = Entombed(a, stone)]
    BY <1>3, <1>5 DEF DeleteToTombstone, Cascade
  <2>2. Entombed(a, stone) \in Tombstone /\ Entombed(a, stone) # None
    BY <1>1, RawAssumption DEF Entombed, RawInv, TypeOK
  <2>3. TypeOK'
    BY <2>1, <2>2, <1>1, <1>2, <1>3 DEF RawInv, TypeOK
  <2>4. \A b \in Artifacts : artifacts'[b] = (IF b = a THEN None ELSE artifacts[b])
    BY <2>1, <1>1 DEF RawInv, TypeOK
  <2>5. BytesFollowArtifacts'
    <3>1. blobs' = IF Referenced(artifacts', HashOf[a]) THEN blobs
                   ELSE blobs \ {HashOf[a]}
      BY <2>1 DEF Unreferenced
    <3>2. \A h \in Hashes : h # HashOf[a] =>
             (Referenced(artifacts', h) <=> Referenced(artifacts, h))
      BY <2>4, <1>1 DEF Referenced
    <3>3. Referenced(artifacts, HashOf[a])
      BY <1>1, <1>5 DEF Referenced, Active
    <3> QED BY <3>1, <3>2, <3>3 DEF RawInv, BytesFollowArtifacts
  <2>6. OccurrencesFollowArtifacts'
    BY <2>1, <2>4, <1>1, RawAssumption
    DEF RawInv, TypeOK, OccurrencesFollowArtifacts, Active
  <2>7. CheckedIsCurrent'
    BY <2>1, <2>2, <2>4, <1>1, <1>3
    DEF RawInv, TypeOK, CheckedIsCurrent, Answer, Idle
  <2>8. RemovalsAreAudited'
    <3> SUFFICES ASSUME NEW b \in Artifacts
                 PROVE  stored'[b] <= deleted'[b]
                                      + (IF artifacts'[b] # None THEN 1 ELSE 0)
      BY DEF RemovalsAreAudited, Active
    <3>1. stored[b] \in Nat /\ deleted[b] \in Nat
      BY DEF RawInv, TypeOK
    <3>2. stored[b] <= deleted[b] + (IF artifacts[b] # None THEN 1 ELSE 0)
      BY DEF RawInv, RemovalsAreAudited, Active
    <3>3. deleted'[b] = (IF b = a THEN deleted[b] + 1 ELSE deleted[b])
      BY <1>1, <1>3 DEF RawInv, TypeOK
    <3> QED BY <3>1, <3>2, <3>3, <2>4, <1>3
  <2> QED BY <2>3, <2>5, <2>6, <2>7, <2>8 DEF RawInv
<1> QED BY <1>4, <1>5

-----------------------------------------------------------------------------
(* The theorems. *)

\* Every step keeps the invariant.
LEMMA NextKeeps == RawInv /\ [Next]_vars => RawInv'
<1> SUFFICES ASSUME RawInv, [Next]_vars PROVE RawInv'
  OBVIOUS
<1>1. CASE UNCHANGED vars
  BY <1>1 DEF vars, tables, RawInv, TypeOK, BytesFollowArtifacts, Referenced,
     OccurrencesFollowArtifacts, Active, CheckedIsCurrent, RemovalsAreAudited
<1>2. ASSUME NEW p \in Processes, NEW a \in Artifacts, NEW policy \in Policies,
             NEW q \in AcquisitionIds, Persist(p, a, policy, q)
      PROVE  RawInv'
  BY <1>2, InsertOccurrenceKeeps, InsertArtifactKeeps, AnswerKeeps
  DEF Persist, Answers
<1>3. ASSUME NEW p \in Processes, Fail(p) PROVE RawInv'
  BY <1>3, AnswerKeeps DEF Fail, Answers
<1> QED BY <1>1, <1>2, <1>3, FindTombstoneKeeps, CheckRecordKeeps,
           DeleteTransactionKeeps DEF Next

\* For any number of processes, artifacts and policies: bytes, occurrences
\* and artifacts stay together, and no removal escapes the log.
THEOREM RawIsConsistent == Spec => []RawInv
  BY InitHolds, NextKeeps, PTL DEF Spec

\* What any step does to the artifact rows: only the transaction of a delete
\* call removes one, and only an insertion makes one.
LEMMA RowsChange ==
    ASSUME RawInv, Next, NEW a \in Artifacts, artifacts[a] # None,
           artifacts'[a] # artifacts[a]
    PROVE  \E p \in Processes :
              /\ process[p].phase = "checked" /\ process[p].artifact = a
              /\ artifacts'[a] = None
<1>1. ASSUME NEW p \in Processes, NEW b \in Artifacts, NEW policy \in Policies,
             NEW q \in AcquisitionIds, Persist(p, b, policy, q)
      PROVE  FALSE
  BY <1>1 DEF Persist, InsertOccurrence, InsertArtifact, Active, tables,
              RawInv, TypeOK
<1>2. ASSUME NEW p \in Processes, DeleteTransaction(p)
      PROVE  /\ process[p].phase = "checked" /\ process[p].artifact = a
             /\ artifacts'[a] = None
  BY <1>2 DEF DeleteTransaction, DeleteToTombstone, RawInv, TypeOK,
              CheckedIsCurrent
<1> QED BY <1>1, <1>2 DEF Next, FindTombstone, CheckRecord, Fail, tables

\* The legal hold of an artifact is broken by nothing but a delete call whose
\* check is older than the copy under hold.
THEOREM HoldIsKept == Spec => OnlyStaleDeletesBreakHold
<1>1. RawInv /\ [Next]_vars =>
         [\A a \in Artifacts : artifacts[a] \in Held /\ artifacts'[a] # artifacts[a]
             => /\ tombstones[a] # None
                /\ \E p \in Processes : /\ process[p].phase = "checked"
                                        /\ process[p].artifact = a
                                        /\ process[p].policy \notin Held]_vars
  <2> SUFFICES ASSUME RawInv, Next, NEW a \in Artifacts, artifacts[a] \in Held,
                      artifacts'[a] # artifacts[a]
               PROVE  /\ tombstones[a] # None
                      /\ \E p \in Processes : /\ process[p].phase = "checked"
                                              /\ process[p].artifact = a
                                              /\ process[p].policy \notin Held
    BY DEF vars
  <2>1. artifacts[a] # None
    BY RawAssumption
  <2>2. PICK p \in Processes :
           process[p].phase = "checked" /\ process[p].artifact = a
    BY <2>1, RowsChange
  <2>3. /\ process[p].policy \notin Held
        /\ tombstones[a] = None => artifacts[a] = process[p].policy
    BY <2>2 DEF RawInv, CheckedIsCurrent
  <2> QED BY <2>2, <2>3
<1> QED BY <1>1, RawIsConsistent, PTL DEF Spec, OnlyStaleDeletesBreakHold

\* An acquisition id is bound to one artifact until that artifact is deleted.
THEOREM AcquisitionsAreKept == Spec => AcquisitionsNeverRebind
<1>1. RawInv /\ [Next]_vars =>
         [\A q \in AcquisitionIds : occurrences[q] # None =>
             \/ occurrences'[q] = occurrences[q]
             \/ occurrences'[q] = None /\ artifacts'[occurrences[q]] = None]_vars
  <2> SUFFICES ASSUME RawInv, Next, NEW r \in AcquisitionIds,
                      occurrences[r] # None, occurrences'[r] # occurrences[r]
               PROVE  occurrences'[r] = None /\ artifacts'[occurrences[r]] = None
    BY DEF vars
  <2>1. occurrences \in [AcquisitionIds -> Artifacts \cup {None}]
    BY DEF RawInv, TypeOK
  <2>2. ASSUME NEW p \in Processes, NEW a \in Artifacts, NEW policy \in Policies,
               NEW q \in AcquisitionIds, Persist(p, a, policy, q)
        PROVE  FALSE
    BY <2>1, <2>2 DEF Persist, InsertOccurrence, InsertArtifact, Bindable, tables
  <2>3. ASSUME NEW p \in Processes, DeleteTransaction(p)
        PROVE  occurrences'[r] = None /\ artifacts'[occurrences[r]] = None
    <3> DEFINE a == process[p].artifact
    <3>1. /\ occurrences' = Cascade(a)
          /\ artifacts' = [artifacts EXCEPT ![a] = None]
      BY <2>3 DEF DeleteTransaction, DeleteToTombstone
    <3>2. occurrences[r] = a
      BY <3>1 DEF Cascade
    <3> QED BY <2>1, <3>1, <3>2 DEF Cascade, RawInv, TypeOK
  <2> QED BY <2>2, <2>3 DEF Next, FindTombstone, CheckRecord, Fail, tables
<1> QED BY <1>1, RawIsConsistent, PTL DEF Spec, AcquisitionsNeverRebind

\* The first tombstone of an artifact stays, whoever deletes it again.
THEOREM TombstonesAreKept == Spec => TombstonesArePermanent
<1>1. RawInv /\ [Next]_vars =>
         [\A a \in Artifacts : tombstones[a] # None
             => tombstones'[a] = tombstones[a]]_vars
  <2> SUFFICES ASSUME RawInv, Next, NEW b \in Artifacts, tombstones[b] # None
               PROVE  tombstones'[b] = tombstones[b]
    BY DEF vars
  <2>1. ASSUME NEW p \in Processes, DeleteTransaction(p)
        PROVE  tombstones'[b] = tombstones[b]
    BY <2>1 DEF DeleteTransaction, DeleteToTombstone, Entombed, RawInv, TypeOK
  <2>2. ASSUME NEW p \in Processes, NEW a \in Artifacts, NEW policy \in Policies,
               NEW q \in AcquisitionIds, Persist(p, a, policy, q)
        PROVE  tombstones'[b] = tombstones[b]
    BY <2>2 DEF Persist, InsertOccurrence, InsertArtifact, tables
  <2> QED BY <2>1, <2>2 DEF Next, FindTombstone, CheckRecord, Fail, tables
<1> QED BY <1>1, RawIsConsistent, PTL DEF Spec, TombstonesArePermanent

-----------------------------------------------------------------------------
(* Persistent ingestion                                                    *)

\* What the tables promise, without the calls in progress.
TablesInv == HistoryIsAChain /\ HistoryHasALatest /\ DocumentsHaveAHistory
             /\ OutcomesAreObserved /\ OneJobStores

\* No job exists, and no call is made.
LEMMA IngestionInitHolds == IngestionInit => IngestionInv
  BY IngestionAssumption
  DEF IngestionInit, IngestionInv, IngestionTypeOK, Statuses, JobRecord, CallRecord, HistoryIsAChain,
      HistoryHasALatest, DocumentsHaveAHistory, JobsFollowCalls,
      OutcomesAreObserved, OneJobStores

\* A step that moves one job between states that are no success, and leaves
\* documents, revisions and observations alone, keeps what the tables promise.
LEMMA JobMoves ==
    ASSUME IngestionInv, NEW c \in Calls, NEW status \in Statuses,
           jobs[c].status \notin {"succeeded", "duplicate"},
           status \notin {"succeeded", "duplicate"},
           jobs' = [jobs EXCEPT ![c].status = status],
           UNCHANGED <<documents, revisions, observations>>
    PROVE  /\ TablesInv'
           /\ jobs' \in [Calls -> JobRecord]
           /\ jobs'[c].status = status
           /\ \A b \in Calls \ {c} : jobs'[b] = jobs[b]
<1>1. jobs \in [Calls -> JobRecord]
  BY DEF IngestionInv, IngestionTypeOK
<1>2. /\ jobs' \in [Calls -> JobRecord]
      /\ jobs'[c].status = status
      /\ \A b \in Calls \ {c} : jobs'[b] = jobs[b]
  BY <1>1 DEF JobRecord
<1>3. HistoryIsAChain' /\ HistoryHasALatest' /\ DocumentsHaveAHistory'
  BY DEF IngestionInv, HistoryIsAChain, HistoryHasALatest,
         DocumentsHaveAHistory, RevisionsOf, IsLatest
<1>4. OutcomesAreObserved'
  <2> SUFFICES ASSUME NEW b \in Calls
               PROVE  {o \in observations : o.job = b} =
                        IF jobs'[b].status \in {"succeeded", "duplicate"}
                        THEN {[job |-> b, document |-> jobs'[b].document,
                               duplicate |-> jobs'[b].status = "duplicate"]}
                        ELSE {}
    BY DEF OutcomesAreObserved
  <2>1. CASE b = c
    BY <2>1, <1>2 DEF IngestionInv, OutcomesAreObserved
  <2>2. CASE b # c
    BY <2>2, <1>2 DEF IngestionInv, OutcomesAreObserved
  <2> QED BY <2>1, <2>2
<1>5. OneJobStores'
  BY <1>2 DEF IngestionInv, OneJobStores
<1> QED BY <1>2, <1>3, <1>4, <1>5 DEF TablesInv

\* The same for a step that leaves every table alone.
LEMMA TablesStay ==
    ASSUME IngestionInv, UNCHANGED ingestionTables
    PROVE  TablesInv'
  BY DEF IngestionInv, TablesInv, ingestionTables, HistoryIsAChain, HistoryHasALatest,
         DocumentsHaveAHistory, OutcomesAreObserved, OneJobStores, RevisionsOf,
         IsLatest

\* A job that completes with a document that is stored, and one observation.
LEMMA JobCompletes ==
    ASSUME IngestionInv, NEW c \in Calls, NEW d \in Documents,
           NEW status \in {"succeeded", "duplicate"},
           jobs[c].status = "running",
           d \in documents',
           documents \subseteq documents',
           status = "succeeded" => d \notin documents,
           jobs' = Completed(c, status, d),
           observations' = Observed(c, d, status = "duplicate")
    PROVE  OutcomesAreObserved' /\ OneJobStores'
<1>1. /\ jobs'[c] = [status |-> status, document |-> d]
      /\ \A b \in Calls \ {c} : jobs'[b] = jobs[b]
  BY DEF IngestionInv, IngestionTypeOK, Completed
<1>2. OutcomesAreObserved'
  <2> SUFFICES ASSUME NEW b \in Calls
               PROVE  {o \in observations' : o.job = b} =
                        IF jobs'[b].status \in {"succeeded", "duplicate"}
                        THEN {[job |-> b, document |-> jobs'[b].document,
                               duplicate |-> jobs'[b].status = "duplicate"]}
                        ELSE {}
    BY DEF OutcomesAreObserved
  <2>1. CASE b = c
    <3>1. {o \in observations : o.job = c} = {}
      BY DEF IngestionInv, OutcomesAreObserved
    <3> QED BY <2>1, <3>1, <1>1 DEF Observed
  <2>2. CASE b # c
    <3>1. {o \in observations' : o.job = b} = {o \in observations : o.job = b}
      BY <2>2 DEF Observed
    <3> QED BY <2>2, <3>1, <1>1 DEF IngestionInv, OutcomesAreObserved
  <2> QED BY <2>1, <2>2
<1>3. OneJobStores'
  BY <1>1 DEF IngestionInv, OneJobStores
<1> QED BY <1>2, <1>3

\* One call moves on, its job as the phase demands.
LEMMA CallGoes ==
    ASSUME IngestionInv, NEW c \in Calls, NEW phase \in
              {"created", "running", "failing", "gone"}, Goes(c, phase),
           \A b \in Calls \ {c} : jobs'[b] = jobs[b],
           phase = "created" => jobs'[c].status = "pending",
           phase \in {"running", "failing"} => jobs'[c].status = "running"
    PROVE  JobsFollowCalls' /\ call' \in [Calls -> CallRecord]
<1>1. call \in [Calls -> CallRecord]
  BY DEF IngestionInv, IngestionTypeOK
<1>2. call' \in [Calls -> CallRecord] /\ call'[c].phase = phase
      /\ \A b \in Calls \ {c} : call'[b] = call[b]
  BY <1>1 DEF Goes, CallRecord
<1>3. JobsFollowCalls'
  BY <1>2 DEF IngestionInv, JobsFollowCalls
<1> QED BY <1>2, <1>3

\* One call ends.
LEMMA CallEnds ==
    ASSUME IngestionInv, NEW c \in Calls, NEW answer \in
              {"stored", "revision", "duplicate", "failed"}, Returns(c, answer),
           \A b \in Calls \ {c} : jobs'[b] = jobs[b]
    PROVE  JobsFollowCalls' /\ call' \in [Calls -> CallRecord]
<1>1. call \in [Calls -> CallRecord]
  BY DEF IngestionInv, IngestionTypeOK
<1>2. call' \in [Calls -> CallRecord] /\ call'[c].phase = "done"
      /\ \A b \in Calls \ {c} : call'[b] = call[b]
  BY <1>1 DEF Returns, CallRecord
<1>3. JobsFollowCalls'
  BY <1>2 DEF IngestionInv, JobsFollowCalls
<1> QED BY <1>2, <1>3

-----------------------------------------------------------------------------
(* The actions. *)

\* Creating a job keeps the invariant.
LEMMA CreateJobKeeps ==
    ASSUME IngestionInv, NEW c \in Calls, CreateJob(c) PROVE IngestionInv'
<1>1. IngestionTypeOK /\ call[c].phase = "new" /\ jobs[c].status = "none"
  BY DEF CreateJob, IngestionInv, JobsFollowCalls
<1>3. CASE storage = "up"
  <2>1. /\ jobs' = [jobs EXCEPT ![c].status = "pending"] /\ Goes(c, "created")
        /\ UNCHANGED <<storage, documents, revisions, observations>>
    BY <1>3 DEF CreateJob
  <2>2. /\ TablesInv'
        /\ jobs' \in [Calls -> JobRecord]
        /\ jobs'[c].status = "pending" /\ \A b \in Calls \ {c} : jobs'[b] = jobs[b]
    BY <2>1, <1>1, JobMoves DEF Statuses
  <2>3. JobsFollowCalls' /\ call' \in [Calls -> CallRecord]
    BY <2>1, <2>2, CallGoes
  <2> QED BY <2>1, <2>2, <2>3 DEF IngestionInv, TablesInv, IngestionTypeOK
<1>4. CASE storage # "up"
  <2>1. UNCHANGED <<storage, ingestionTables>> /\ Returns(c, "failed")
    BY <1>4 DEF CreateJob, ingestionTables
  <2>2. JobsFollowCalls' /\ call' \in [Calls -> CallRecord]
    BY <2>1, CallEnds DEF ingestionTables
  <2> QED BY <2>1, <2>2, TablesStay DEF IngestionInv, TablesInv, IngestionTypeOK, ingestionTables
<1> QED BY <1>3, <1>4

\* So does starting it.
LEMMA StartJobKeeps ==
    ASSUME IngestionInv, NEW c \in Calls, StartJob(c) PROVE IngestionInv'
<1>1. IngestionTypeOK /\ call[c].phase = "created" /\ jobs[c].status = "pending"
  BY DEF StartJob, IngestionInv, JobsFollowCalls
<1>3. CASE jobs' = [jobs EXCEPT ![c].status = "running"] /\ Goes(c, "running")
  <2>1. UNCHANGED <<storage, documents, revisions, observations>>
    BY DEF StartJob
  <2>2. /\ TablesInv'
        /\ jobs' \in [Calls -> JobRecord]
        /\ jobs'[c].status = "running" /\ \A b \in Calls \ {c} : jobs'[b] = jobs[b]
    BY <2>1, <1>1, <1>3, JobMoves DEF Statuses
  <2>3. JobsFollowCalls' /\ call' \in [Calls -> CallRecord]
    BY <2>2, <1>3, CallGoes
  <2> QED BY <2>1, <2>2, <2>3 DEF IngestionInv, TablesInv, IngestionTypeOK
<1>4. CASE UNCHANGED jobs /\ Returns(c, "failed")
  <2>1. UNCHANGED <<storage, ingestionTables>>
    BY <1>4 DEF StartJob, ingestionTables
  <2>2. JobsFollowCalls' /\ call' \in [Calls -> CallRecord]
    BY <2>1, <1>4, CallEnds DEF ingestionTables
  <2> QED BY <2>1, <2>2, TablesStay DEF IngestionInv, TablesInv, IngestionTypeOK, ingestionTables
<1> QED BY <1>3, <1>4 DEF StartJob

\* So does failing it.
LEMMA FailJobKeeps ==
    ASSUME IngestionInv, NEW c \in Calls, FailJob(c) PROVE IngestionInv'
<1>1. IngestionTypeOK /\ call[c].phase = "failing" /\ jobs[c].status = "running"
      /\ Returns(c, "failed")
  BY DEF FailJob, IngestionInv, JobsFollowCalls
<1>2. UNCHANGED <<storage, documents, revisions, observations>>
  BY DEF FailJob
<1>3. CASE jobs' = [jobs EXCEPT ![c].status = "failed"]
  <2>1. /\ TablesInv'
        /\ jobs' \in [Calls -> JobRecord]
        /\ \A b \in Calls \ {c} : jobs'[b] = jobs[b]
    BY <1>1, <1>2, <1>3, JobMoves DEF Statuses
  <2>2. JobsFollowCalls' /\ call' \in [Calls -> CallRecord]
    BY <2>1, <1>1, CallEnds
  <2> QED BY <1>2, <2>1, <2>2 DEF IngestionInv, TablesInv, IngestionTypeOK
<1>4. CASE jobs' = jobs
  <2>1. JobsFollowCalls' /\ call' \in [Calls -> CallRecord]
    BY <1>1, <1>4, CallEnds
  <2> QED BY <1>2, <1>4, <2>1, TablesStay DEF IngestionInv, TablesInv, IngestionTypeOK, ingestionTables
<1> QED BY <1>3, <1>4 DEF FailJob

\* The steps that touch no table: the pipeline, a rollback, a crash.
LEMMA QuietKeeps ==
    ASSUME IngestionInv, NEW c \in Calls,
           PipelineSettles(c) \/ Rollback(c) \/ Crash(c)
    PROVE  IngestionInv'
<1>1. IngestionTypeOK /\ UNCHANGED <<storage, ingestionTables>> /\ jobs' = jobs
  BY DEF IngestionInv, PipelineSettles, Rollback, Crash, ingestionTables
<1>2. PipelineSettles(c) \/ Rollback(c) => jobs[c].status = "running"
  BY DEF PipelineSettles, Rollback, IngestionInv, JobsFollowCalls
<1>3. CASE \E d \in Documents : /\ PipelineSettles(c)
               /\ call' = [call EXCEPT ![c].phase = "ingested", ![c].document = d]
  <2>1. PICK d \in Documents :
           call' = [call EXCEPT ![c].phase = "ingested", ![c].document = d]
    BY <1>3
  <2>2. /\ call' \in [Calls -> CallRecord]
        /\ call'[c].phase = "ingested" /\ call'[c].document = d
        /\ \A b \in Calls \ {c} : call'[b] = call[b]
    BY <2>1, <1>1 DEF IngestionTypeOK, CallRecord
  <2>3. JobsFollowCalls'
    BY <2>2, <1>1, <1>2, <1>3 DEF IngestionInv, JobsFollowCalls
  <2> QED BY <1>1, <2>2, <2>3, TablesStay
          DEF IngestionInv, TablesInv, IngestionTypeOK, ingestionTables
<1>4. CASE \/ Goes(c, "failing") /\ (PipelineSettles(c) \/ Rollback(c))
           \/ Goes(c, "gone")
  <2>1. JobsFollowCalls' /\ call' \in [Calls -> CallRecord]
    BY <1>1, <1>2, <1>4, CallGoes
  <2> QED BY <1>1, <2>1, TablesStay DEF IngestionInv, TablesInv, IngestionTypeOK, ingestionTables
<1> QED BY <1>3, <1>4 DEF PipelineSettles, Rollback, AfterRollback, Crash

\* The transaction that finds the fingerprint.
LEMMA CompleteDuplicateKeeps ==
    ASSUME IngestionInv, NEW c \in Calls, Commit(c), CompleteDuplicate(c)
    PROVE  IngestionInv'
<1> DEFINE d == call[c].document
<1>1. /\ IngestionTypeOK /\ call[c].phase = "ingested" /\ jobs[c].status = "running"
      /\ d \in Documents
  BY DEF Commit, IngestionInv, JobsFollowCalls
<1>2. /\ d \in documents /\ Returns(c, "duplicate")
      /\ observations' = Observed(c, d, TRUE)
      /\ jobs' = Completed(c, "duplicate", d)
      /\ UNCHANGED <<documents, revisions, storage>>
  BY DEF CompleteDuplicate, Commit
<1> HIDE DEF d
<1>3. jobs' \in [Calls -> JobRecord]
      /\ \A b \in Calls \ {c} : jobs'[b] = jobs[b]
  BY <1>1, <1>2 DEF IngestionTypeOK, Completed, Statuses, JobRecord
<1>4. observations' \subseteq Observation
  <2>1. [job |-> c, document |-> d, duplicate |-> TRUE] \in Observation
    BY <1>1, Zenon DEF Observation
  <2> QED BY <2>1, <1>1, <1>2 DEF IngestionTypeOK, Observed
<1>5. OutcomesAreObserved' /\ OneJobStores'
  BY <1>1, <1>2, JobCompletes
<1>6. JobsFollowCalls' /\ call' \in [Calls -> CallRecord]
  BY <1>2, <1>3, CallEnds
<1>7. HistoryIsAChain' /\ HistoryHasALatest' /\ DocumentsHaveAHistory'
  BY <1>2 DEF IngestionInv, HistoryIsAChain, HistoryHasALatest,
              DocumentsHaveAHistory, RevisionsOf, IsLatest
<1> QED BY <1>1, <1>2, <1>3, <1>4, <1>5, <1>6, <1>7 DEF IngestionInv, IngestionTypeOK

\* The revision a new document gets: one record, after every other of its URL,
\* and after the one it names.
LEMMA NextRevision ==
    ASSUME IngestionInv, NEW d \in Documents
    PROVE  \E r \in Revision :
              /\ NewRevisions(d) = {r}
              /\ r.url = UrlOf[d] /\ r.document = d
              /\ \A s \in RevisionsOf(UrlOf[d]) : s.number < r.number
              /\ IF r.number = 1 THEN r.previous = Null
                 ELSE \E s \in revisions : /\ s.url = r.url
                                           /\ s.number = r.number - 1
                                           /\ s.document = r.previous
<1>1. UrlOf[d] \in Urls /\ revisions \subseteq Revision
  BY IngestionAssumption DEF IngestionInv, IngestionTypeOK
<1>2. CASE RevisionsOf(UrlOf[d]) = {}
  <2>1. FirstRevision(d) \in Revision
    BY <1>1 DEF FirstRevision, Revision
  <2> QED BY <1>2, <2>1 DEF NewRevisions, FirstRevision
<1>3. CASE RevisionsOf(UrlOf[d]) # {}
  <2>1. PICK l \in RevisionsOf(UrlOf[d]) : IsLatest(l)
    BY <1>3 DEF IngestionInv, HistoryHasALatest, RevisionsOf
  <2>2. l \in revisions /\ l \in Revision /\ l.url = UrlOf[d]
    BY <2>1, <1>1 DEF RevisionsOf
  <2>3. {s \in RevisionsOf(UrlOf[d]) : IsLatest(s)} = {l}
    <3> SUFFICES ASSUME NEW s \in RevisionsOf(UrlOf[d]), IsLatest(s) PROVE s = l
      BY <2>1
    <3>1. s \in revisions /\ s \in Revision /\ s.url = l.url
      BY <2>2, <1>1 DEF RevisionsOf
    <3>2. s.number <= l.number /\ l.number <= s.number
      BY <3>1, <2>1, <2>2 DEF IsLatest
    <3>3. s.number = l.number
      BY <3>1, <3>2, <2>2 DEF Revision
    <3> QED BY <3>1, <3>3, <2>2 DEF IngestionInv, HistoryIsAChain
  <2> DEFINE r == [url |-> UrlOf[d], number |-> l.number + 1, document |-> d,
                   previous |-> l.document]
  <2>4. NewRevisions(d) = {r}
    BY <1>3, <2>3 DEF NewRevisions, Following
  <2>5. r \in Revision /\ r.number # 1 /\ r.number - 1 = l.number
    BY <1>1, <2>2 DEF Revision
  <2>6. \A s \in RevisionsOf(UrlOf[d]) : s.number < r.number
    BY <2>1, <2>2, <1>1 DEF IsLatest, RevisionsOf, Revision
  <2> QED BY <2>2, <2>4, <2>5, <2>6
<1> QED BY <1>2, <1>3

\* The transaction that stores a new document.
LEMMA StoreNewKeeps ==
    ASSUME IngestionInv, NEW c \in Calls, Commit(c), StoreNew(c)
    PROVE  IngestionInv'
<1> DEFINE d == call[c].document
<1>1. /\ IngestionTypeOK /\ call[c].phase = "ingested" /\ jobs[c].status = "running"
      /\ d \in Documents
  BY DEF Commit, IngestionInv, JobsFollowCalls
<1>2. /\ d \notin documents /\ documents' = documents \cup {d}
      /\ revisions' = revisions \cup NewRevisions(d)
      /\ observations' = Observed(c, d, FALSE)
      /\ jobs' = Completed(c, "succeeded", d)
      /\ UNCHANGED storage
  BY DEF StoreNew, Commit
<1>3. PICK answer \in {"stored", "revision"} : Returns(c, answer)
  BY DEF StoreNew
<1>4. JobsFollowCalls' /\ call' \in [Calls -> CallRecord]
  <2>1. \A b \in Calls \ {c} : jobs'[b] = jobs[b]
    BY <1>1, <1>2 DEF IngestionTypeOK, Completed
  <2> QED BY <2>1, <1>3, CallEnds
<1> HIDE DEF d
<1>5. jobs' \in [Calls -> JobRecord]
  BY <1>1, <1>2 DEF IngestionTypeOK, Completed, Statuses, JobRecord
<1>6. observations' \subseteq Observation /\ documents' \subseteq Documents
  <2>1. [job |-> c, document |-> d, duplicate |-> FALSE] \in Observation
    BY <1>1, Zenon DEF Observation
  <2> QED BY <2>1, <1>1, <1>2 DEF IngestionTypeOK, Observed
<1>7. OutcomesAreObserved' /\ OneJobStores'
  BY <1>1, <1>2, JobCompletes
<1>8. PICK r \in Revision :
         /\ NewRevisions(d) = {r}
         /\ r.url = UrlOf[d] /\ r.document = d
         /\ \A s \in RevisionsOf(UrlOf[d]) : s.number < r.number
         /\ IF r.number = 1 THEN r.previous = Null
            ELSE \E s \in revisions : /\ s.url = r.url
                                      /\ s.number = r.number - 1
                                      /\ s.document = r.previous
  BY <1>1, NextRevision
<1>9. revisions' = revisions \cup {r} /\ revisions \subseteq Revision
  BY <1>1, <1>2, <1>8 DEF IngestionTypeOK
<1>10. \A s \in revisions : s.url = r.url => s.number < r.number
  BY <1>8 DEF RevisionsOf
<1>11. HistoryIsAChain'
  <2>1. ASSUME NEW s \in revisions', NEW t \in revisions', s.url = t.url,
               s.number = t.number
        PROVE  s = t
    BY <2>1, <1>9, <1>10 DEF IngestionInv, HistoryIsAChain, Revision
  <2>2. ASSUME NEW s \in revisions'
        PROVE  IF s.number = 1 THEN s.previous = Null
               ELSE \E t \in revisions' : /\ t.url = s.url
                                          /\ t.number = s.number - 1
                                          /\ t.document = s.previous
    BY <1>8, <1>9 DEF IngestionInv, HistoryIsAChain
  <2> QED BY <2>1, <2>2 DEF HistoryIsAChain
<1>12. HistoryHasALatest'
  <2> SUFFICES ASSUME NEW s \in revisions'
               PROVE  \E t \in revisions' : /\ t.url = s.url
                         /\ \A u \in revisions' : u.url = t.url => u.number <= t.number
    BY DEF HistoryHasALatest, RevisionsOf, IsLatest
  <2>1. CASE s.url = r.url
    BY <2>1, <1>9, <1>10 DEF Revision
  <2>2. CASE s.url # r.url
    <3>1. PICK t \in RevisionsOf(s.url) : IsLatest(t)
      BY <2>2, <1>9 DEF IngestionInv, HistoryHasALatest
    <3> QED BY <2>2, <3>1, <1>9 DEF RevisionsOf, IsLatest
  <2> QED BY <2>1, <2>2
<1>13. DocumentsHaveAHistory'
  <2>1. \A s \in revisions' : s.document \in documents' /\ UrlOf[s.document] = s.url
    BY <1>2, <1>8, <1>9 DEF IngestionInv, DocumentsHaveAHistory
  <2>2. \A e \in documents' : \E s \in revisions' : s.document = e
    BY <1>2, <1>8, <1>9 DEF IngestionInv, DocumentsHaveAHistory
  <2>3. \A s, t \in revisions' : s.document = t.document => s = t
    BY <1>2, <1>8, <1>9 DEF IngestionInv, DocumentsHaveAHistory
  <2> QED BY <2>1, <2>2, <2>3 DEF DocumentsHaveAHistory
<1> QED BY <1>1, <1>2, <1>4, <1>5, <1>6, <1>7, <1>9, <1>11, <1>12, <1>13
        DEF IngestionInv, IngestionTypeOK

-----------------------------------------------------------------------------
(* The theorems. *)

\* So does every step.
LEMMA IngestionNextKeeps == IngestionInv /\ [IngestionNext]_ingestionVars => IngestionInv'
<1> SUFFICES ASSUME IngestionInv, [IngestionNext]_ingestionVars PROVE IngestionInv'
  OBVIOUS
<1>1. CASE UNCHANGED ingestionVars \/ StorageToggles
  <2>1. UNCHANGED <<ingestionTables, call>> /\ storage' \in {"up", "down"}
    BY <1>1 DEF ingestionVars, StorageToggles, IngestionInv, IngestionTypeOK
  <2> QED BY <2>1, TablesStay
          DEF IngestionInv, TablesInv, IngestionTypeOK, JobsFollowCalls, ingestionTables
<1>2. ASSUME NEW c \in Calls, Commit(c) PROVE IngestionInv'
  BY <1>2, CompleteDuplicateKeeps, StoreNewKeeps DEF Commit
<1> QED BY <1>1, <1>2, CreateJobKeeps, StartJobKeeps, FailJobKeeps, QuietKeeps
        DEF IngestionNext, Step

\* Whatever crashes, fails or interleaves: history is a chain, documents and
\* outcomes agree, and each document was stored by one job.
THEOREM IngestionIsConsistent == IngestionSpec => []IngestionInv
  BY IngestionInitHolds, IngestionNextKeeps, PTL DEF IngestionSpec

\* Documents, observations and revisions are never removed, and each revision
\* is numbered after those there were.
THEOREM HistoryIsAppendOnly == IngestionSpec => HistoryOnlyGrows
<1>1. IngestionInv /\ [IngestionNext]_ingestionVars =>
       [/\ documents \subseteq documents' /\ observations \subseteq observations'
        /\ revisions \subseteq revisions'
        /\ \A r \in revisions' \ revisions, s \in revisions :
              r.url = s.url => s.number < r.number]_ingestionVars
  <2> SUFFICES ASSUME IngestionInv, IngestionNext
       PROVE  /\ documents \subseteq documents' /\ observations \subseteq observations'
              /\ revisions \subseteq revisions'
              /\ \A r \in revisions' \ revisions, s \in revisions :
                    r.url = s.url => s.number < r.number
    BY DEF ingestionVars
  <2>1. CASE UNCHANGED <<documents, revisions, observations>>
    BY <2>1
  <2>2. ASSUME NEW c \in Calls, Commit(c), CompleteDuplicate(c)
        PROVE  documents' = documents /\ revisions' = revisions
               /\ observations \subseteq observations'
    BY <2>2 DEF CompleteDuplicate, Observed
  <2>3. ASSUME NEW c \in Calls, Commit(c), StoreNew(c)
        PROVE  /\ documents \subseteq documents' /\ observations \subseteq observations'
               /\ revisions \subseteq revisions'
               /\ \A r \in revisions' \ revisions, s \in revisions :
                     r.url = s.url => s.number < r.number
    <3>1. call[c].document \in Documents
      BY <2>3 DEF Commit, IngestionInv, JobsFollowCalls
    <3>2. revisions' = revisions \cup NewRevisions(call[c].document)
          /\ documents \subseteq documents' /\ observations \subseteq observations'
      BY <2>3 DEF StoreNew, Observed
    <3> QED BY <3>1, <3>2, NextRevision DEF RevisionsOf
  <2>4. IngestionNext => \/ UNCHANGED <<documents, revisions, observations>>
                \/ \E c \in Calls : Commit(c) /\ (CompleteDuplicate(c) \/ StoreNew(c))
    BY DEF IngestionNext, Step, CreateJob, StartJob, PipelineSettles, Commit, Rollback,
           FailJob, Crash, StorageToggles, ingestionTables
  <2> QED BY <2>1, <2>2, <2>3, <2>4
<1> QED BY <1>1, IngestionIsConsistent, PTL DEF IngestionSpec, HistoryOnlyGrows

\* A call other than the one that steps keeps its answer, its job and the
\* first revision it may have made.
LEMMA OthersKeepTheirAnswer ==
    ASSUME IngestionInv, AnswersAreTrue, NEW c \in Calls, Step(c) \/ Crash(c),
           NEW b \in Calls, b # c
    PROVE  call'[b] = call[b] /\ jobs'[b] = jobs[b] /\ revisions \subseteq revisions'
  BY DEF Step, CreateJob, StartJob, PipelineSettles, Commit, CompleteDuplicate,
     StoreNew, Rollback, AfterRollback, FailJob, Crash, Goes, Returns, Completed,
     ingestionTables, IngestionInv, IngestionTypeOK

\* Callers are told what the job records, and a caller told of a failure has
\* left no document behind.
THEOREM AnswersHold == IngestionSpec => []AnswersAreTrue
<1>1. IngestionInit => AnswersAreTrue
  BY DEF IngestionInit, AnswersAreTrue
<1>2. IngestionInv /\ AnswersAreTrue /\ [IngestionNext]_ingestionVars => AnswersAreTrue'
  <2> SUFFICES ASSUME IngestionInv, AnswersAreTrue, [IngestionNext]_ingestionVars
               PROVE  AnswersAreTrue'
    OBVIOUS
  <2>1. CASE UNCHANGED ingestionVars \/ StorageToggles
    BY <2>1 DEF ingestionVars, ingestionTables, StorageToggles, AnswersAreTrue, FirstRevision
  <2>2. ASSUME NEW c \in Calls, Step(c) \/ Crash(c) PROVE AnswersAreTrue'
    <3> SUFFICES ASSUME NEW b \in Calls, call'[b].phase = "done"
         PROVE  /\ call'[b].answer \in {"stored", "revision"}
                       <=> jobs'[b].status = "succeeded"
                /\ call'[b].answer = "duplicate" <=> jobs'[b].status = "duplicate"
                /\ call'[b].answer = "stored" =>
                      FirstRevision(jobs'[b].document) \in revisions'
      BY DEF AnswersAreTrue, FirstRevision
    <3>1. CASE b # c
      BY <2>2, <3>1, OthersKeepTheirAnswer DEF AnswersAreTrue
    <3>2. CASE b = c
      <4>1. /\ jobs \in [Calls -> JobRecord] /\ call \in [Calls -> CallRecord]
            /\ JobsFollowCalls
        BY DEF IngestionInv, IngestionTypeOK
      <4>2. CASE CreateJob(c) \/ StartJob(c) \/ FailJob(c)
        <5>1. Returns(c, "failed")
          BY <3>2, <4>1, <4>2 DEF CreateJob, StartJob, FailJob, Goes, CallRecord
        <5>2. call'[c].answer = "failed" /\ jobs[c].status \notin {"succeeded", "duplicate"}
          BY <4>1, <4>2, <5>1
          DEF CreateJob, StartJob, FailJob, JobsFollowCalls, Returns, CallRecord
        <5>3. jobs'[c].status \notin {"succeeded", "duplicate"}
          BY <4>1, <4>2, <5>2 DEF CreateJob, StartJob, FailJob, JobRecord
        <5> QED BY <3>2, <5>2, <5>3
      <4>3. CASE PipelineSettles(c) \/ Rollback(c) \/ Crash(c)
        <5>1. call'[c].phase # "done"
          BY <4>1, <4>3 DEF PipelineSettles, Rollback, AfterRollback, Crash, Goes,
                            CallRecord
        <5> QED BY <3>2, <5>1
      <4>4. CASE Commit(c) /\ CompleteDuplicate(c)
        BY <3>2, <4>1, <4>4 DEF CompleteDuplicate, Completed, Returns, CallRecord
      <4>5. CASE Commit(c) /\ StoreNew(c)
        <5>1. jobs'[c] = [status |-> "succeeded", document |-> call[c].document]
          BY <4>1, <4>5 DEF StoreNew, Completed
        <5>2. call'[c].answer =
                 IF RevisionsOf(UrlOf[call[c].document]) = {} THEN "stored" ELSE "revision"
          BY <4>1, <4>5 DEF StoreNew, Returns, CallRecord
        <5>3. RevisionsOf(UrlOf[call[c].document]) = {} =>
                 FirstRevision(call[c].document) \in revisions'
          BY <4>5 DEF StoreNew, NewRevisions
        <5> QED BY <3>2, <5>1, <5>2, <5>3
      <4> QED BY <2>2, <4>2, <4>3, <4>4, <4>5 DEF Step, Commit
    <3> QED BY <3>1, <3>2
  <2> QED BY <2>1, <2>2 DEF IngestionNext
<1> QED BY <1>1, <1>2, IngestionIsConsistent, PTL DEF IngestionSpec

=============================================================================
