------------------------ MODULE PersistentIngestion -------------------------
(***************************************************************************)
(* Persistent ingestion (persistence/service.ts over sqlite-adapter.ts).   *)
(* A call of ingest creates a job, marks it running, awaits the ingestion  *)
(* pipeline, and then decides in one transaction whether the result is a   *)
(* new document, a new revision of a canonical URL or a duplicate.  Calls  *)
(* of one process interleave at the await, those of several processes at   *)
(* every statement; a process may stop anywhere, and storage may be out.   *)
(*                                                                         *)
(* A document is identified by its fingerprint, which is UNIQUE: canonical *)
(* URL and text.  Because the lookup is made under BEGIN IMMEDIATE it sees *)
(* every committed document, so the recovery of a lost insert race         *)
(* (service.ts:195-216) is never reached over these adapters.              *)
(***************************************************************************)
EXTENDS Integers, FiniteSets

CONSTANTS
    Calls,      \* calls of ingest; each names its job
    Documents,  \* fingerprints of the documents the pipeline may produce
    Urls,
    UrlOf,      \* the canonical URL of each document
    Null

ASSUME IngestionAssumption ==
    /\ UrlOf \in [Documents -> Urls]
    /\ Null \notin Documents

VARIABLES
    storage,        \* whether statements succeed: "up" or "down"
    jobs,           \* ingestion_jobs
    documents,      \* source_documents, by fingerprint
    revisions,      \* document_revisions
    observations,   \* document_observations
    call            \* where each call is, what it ingested and answered

ingestionTables == <<jobs, documents, revisions, observations>>
ingestionVars == <<storage, ingestionTables, call>>

Statuses == {"none", "pending", "running", "succeeded", "duplicate", "failed"}
Terminal == {"succeeded", "duplicate", "failed"}
Revision == [url : Urls, number : Nat \ {0}, document : Documents,
             previous : Documents \cup {Null}]
Observation == [job : Calls, document : Documents, duplicate : BOOLEAN]

\* assertJobTransition
Allowed(from, to) ==
    \/ from = "pending" /\ to = "running"
    \/ from = "running" /\ to \in Terminal

JobRecord == [status : Statuses, document : Documents \cup {Null}]
CallRecord == [phase : {"new", "created", "running", "ingested", "failing",
                        "done", "gone"},
               document : Documents \cup {Null},
               answer : {"none", "stored", "revision", "duplicate", "failed"}]

RevisionsOf(url) == {r \in revisions : r.url = url}

\* findLatestRevision: the revision with the greatest number.
IsLatest(r) == \A s \in RevisionsOf(r.url) : s.number <= r.number

Goes(c, phase) == call' = [call EXCEPT ![c].phase = phase]
Returns(c, answer) == call' = [call EXCEPT ![c].phase = "done", ![c].answer = answer]

-----------------------------------------------------------------------------

IngestionInit ==
    /\ storage = "up"
    /\ jobs = [c \in Calls |-> [status |-> "none", document |-> Null]]
    /\ documents = {} /\ revisions = {} /\ observations = {}
    /\ call = [c \in Calls |->
                  [phase |-> "new", document |-> Null, answer |-> "none"]]

\* jobs.create, a statement of its own.
CreateJob(c) ==
    /\ call[c].phase = "new"
    /\ IF storage = "up"
       THEN jobs' = [jobs EXCEPT ![c].status = "pending"] /\ Goes(c, "created")
       ELSE UNCHANGED jobs /\ Returns(c, "failed")
    /\ UNCHANGED <<storage, documents, revisions, observations>>

\* jobs.transition to running; when it fails the job stays pending.
StartJob(c) ==
    /\ call[c].phase = "created"
    /\ IF storage = "up" /\ Allowed(jobs[c].status, "running")
       THEN jobs' = [jobs EXCEPT ![c].status = "running"] /\ Goes(c, "running")
       ELSE UNCHANGED jobs /\ Returns(c, "failed")
    /\ UNCHANGED <<storage, documents, revisions, observations>>

\* The pipeline settles: with a document, or with an error.
PipelineSettles(c) ==
    /\ call[c].phase = "running"
    /\ \/ \E d \in Documents :
             call' = [call EXCEPT ![c].phase = "ingested", ![c].document = d]
       \/ Goes(c, "failing")
    /\ UNCHANGED <<storage, ingestionTables>>

\* Mutant: duplicates are not observed.
ObservedNew(c, d, duplicate) ==
    IF duplicate THEN observations
    ELSE observations \cup {[job |-> c, document |-> d, duplicate |-> FALSE]}

Observed(c, d, duplicate) ==
    observations \cup {[job |-> c, document |-> d, duplicate |-> duplicate]}

\* Mutant: a duplicate is recorded as a success of its own.
AlwaysSucceeded(c, status, d) ==
    [jobs EXCEPT ![c] = [status |-> "succeeded", document |-> d]]

Completed(c, status, d) ==
    [jobs EXCEPT ![c] = [status |-> status, document |-> d]]

\* #completeDuplicate: the fingerprint is stored already.
CompleteDuplicate(c) ==
    LET d == call[c].document
    IN  /\ d \in documents
        /\ observations' = Observed(c, d, TRUE)
        /\ jobs' = Completed(c, "duplicate", d)
        /\ Returns(c, "duplicate")
        /\ UNCHANGED <<documents, revisions>>

\* Mutant: the number of the latest revision is used again.
Repeated(d) ==
    {[url |-> UrlOf[d], number |-> r.number, document |-> d,
      previous |-> r.document] : r \in {s \in RevisionsOf(UrlOf[d]) : IsLatest(s)}}

\* The revision after the latest of the same canonical URL.
Following(d) ==
    {[url |-> UrlOf[d], number |-> r.number + 1, document |-> d,
      previous |-> r.document] : r \in {s \in RevisionsOf(UrlOf[d]) : IsLatest(s)}}

FirstRevision(d) ==
    [url |-> UrlOf[d], number |-> 1, document |-> d, previous |-> Null]

NewRevisions(d) ==
    IF RevisionsOf(UrlOf[d]) = {} THEN {FirstRevision(d)} ELSE Following(d)

\* The fingerprint is new: document, revision, observation and job together.
StoreNew(c) ==
    LET d == call[c].document
    IN  /\ d \notin documents
        /\ documents' = documents \cup {d}
        /\ revisions' = revisions \cup NewRevisions(d)
        /\ observations' = Observed(c, d, FALSE)
        /\ jobs' = Completed(c, "succeeded", d)
        /\ Returns(c, IF RevisionsOf(UrlOf[d]) = {} THEN "stored" ELSE "revision")

\* The transaction commits as a whole, or nothing of it happens.
Commit(c) ==
    /\ call[c].phase = "ingested"
    /\ storage = "up"
    /\ Allowed(jobs[c].status, "succeeded")
    /\ CompleteDuplicate(c) \/ StoreNew(c)
    /\ UNCHANGED storage

\* Mutant: the caller is answered before the failure is recorded.
AnswerAtOnce(c) == Returns(c, "failed")

AfterRollback(c) == Goes(c, "failing")

\* It may also be refused while storage is up: busy beyond the timeout.
Rollback(c) ==
    /\ call[c].phase = "ingested"
    /\ AfterRollback(c)
    /\ UNCHANGED <<storage, ingestionTables>>

\* #failJob: best effort, swallowed when storage is out.
FailJob(c) ==
    /\ call[c].phase = "failing"
    /\ jobs' = IF storage = "up" /\ Allowed(jobs[c].status, "failed")
               THEN [jobs EXCEPT ![c].status = "failed"] ELSE jobs
    /\ Returns(c, "failed")
    /\ UNCHANGED <<storage, documents, revisions, observations>>

\* The process of the call stops: the tables stay, the call is gone.
Crash(c) ==
    /\ call[c].phase \notin {"new", "done", "gone"}
    /\ Goes(c, "gone")
    /\ UNCHANGED <<storage, ingestionTables>>

StorageToggles ==
    /\ storage' \in {"up", "down"} \ {storage}
    /\ UNCHANGED <<ingestionTables, call>>

Step(c) == CreateJob(c) \/ StartJob(c) \/ PipelineSettles(c) \/ Commit(c)
           \/ Rollback(c) \/ FailJob(c)

IngestionNext == (\E c \in Calls : Step(c) \/ Crash(c)) \/ StorageToggles

\* The event loop runs every continuation and the pipeline settles, because
\* its resolver bounds every fetch by a timeout.
Fairness == \A c \in Calls : WF_ingestionVars(Step(c))

IngestionSpec == IngestionInit /\ [][IngestionNext]_ingestionVars /\ Fairness

-----------------------------------------------------------------------------
(* Properties *)

\* Tables and calls have their types.
IngestionTypeOK ==
    /\ storage \in {"up", "down"}
    /\ jobs \in [Calls -> JobRecord]
    /\ documents \subseteq Documents
    /\ revisions \subseteq Revision
    /\ observations \subseteq Observation
    /\ call \in [Calls -> CallRecord]

\* The revisions of a canonical URL form one chain from number 1: numbers are
\* not repeated and not skipped, and each names the document before it.
HistoryIsAChain ==
    /\ \A r, s \in revisions : r.url = s.url /\ r.number = s.number => r = s
    /\ \A r \in revisions :
          IF r.number = 1 THEN r.previous = Null
          ELSE \E s \in revisions : /\ s.url = r.url
                                    /\ s.number = r.number - 1
                                    /\ s.document = r.previous

\* A URL with a history has a latest revision.
HistoryHasALatest ==
    \A r \in revisions : \E s \in RevisionsOf(r.url) : IsLatest(s)

\* Every document is in the history of its own URL, once, and nothing else is.
DocumentsHaveAHistory ==
    /\ \A r \in revisions : r.document \in documents /\ UrlOf[r.document] = r.url
    /\ \A d \in documents : \E r \in revisions : r.document = d
    /\ \A r, s \in revisions : r.document = s.document => r = s

\* How far a call has come is how far its job has come, as long as its
\* process runs: nobody else moves the job.
JobsFollowCalls ==
    \A c \in Calls :
        /\ call[c].phase = "new" => jobs[c].status = "none"
        /\ call[c].phase = "created" => jobs[c].status = "pending"
        /\ call[c].phase \in {"running", "ingested", "failing"} =>
              jobs[c].status = "running"
        /\ call[c].phase = "ingested" => call[c].document \in Documents

\* Every successful execution has one observation, of the document its job
\* names, and a failed or interrupted one has none.
OutcomesAreObserved ==
    \A c \in Calls :
        {o \in observations : o.job = c} =
            IF jobs[c].status \in {"succeeded", "duplicate"}
            THEN {[job |-> c, document |-> jobs[c].document,
                   duplicate |-> jobs[c].status = "duplicate"]}
            ELSE {}

\* Two jobs never both claim to have stored the same document, and what is
\* claimed is there.
OneJobStores ==
    /\ \A c \in Calls : jobs[c].status \in {"succeeded", "duplicate"} =>
          jobs[c].document \in documents
    /\ \A b, c \in Calls :
          /\ jobs[b].status = "succeeded" /\ jobs[c].status = "succeeded"
          /\ jobs[b].document = jobs[c].document
          => b = c

IngestionInv == IngestionTypeOK /\ HistoryIsAChain /\ HistoryHasALatest
                /\ DocumentsHaveAHistory
                /\ JobsFollowCalls /\ OutcomesAreObserved /\ OneJobStores

\* What a caller is told is what the job records; a caller told of a failure
\* has left no document behind.
AnswersAreTrue ==
    \A c \in Calls : call[c].phase = "done" =>
        /\ call[c].answer \in {"stored", "revision"} <=> jobs[c].status = "succeeded"
        /\ call[c].answer = "duplicate" <=> jobs[c].status = "duplicate"
        /\ call[c].answer = "stored" =>
              FirstRevision(jobs[c].document) \in revisions

\* The audit history only grows, and a new revision becomes the latest.
HistoryOnlyGrows ==
    [][/\ documents \subseteq documents' /\ observations \subseteq observations'
       /\ revisions \subseteq revisions'
       /\ \A r \in revisions' \ revisions, s \in revisions :
             r.url = s.url => s.number < r.number]_ingestionVars

\* "Pipeline failures and persistence failures finish the job as failed
\* whenever job storage remains available": every job of a process that keeps
\* running reaches a terminal state.
JobsFinish ==
    [](storage = "up") =>
        \A c \in Calls : call[c].phase = "created" ~>
            (jobs[c].status \in Terminal \/ call[c].phase = "gone")

=============================================================================
