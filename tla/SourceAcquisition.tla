-------------------------- MODULE SourceAcquisition --------------------------
(***************************************************************************)
(* Acquisition orchestration (acquisition-orchestration/orchestrator.ts,   *)
(* source-acquisition-security/runtime-source-connector.ts,                *)
(* live-source-connectors.ts, safe-network-ingestion.ts) of one locator    *)
(* whose page may change: executions that acquire a body through the safe  *)
(* runtime, keep its bytes if the caller asks for it, and ingest its text. *)
(* They share the raw store of RawArtifacts with a retention worker.       *)
(*                                                                         *)
(* The runtime (SafeRuntime) is awaited; what follows up to the ingestion  *)
(* is one step, in which the store is written in a transaction of its own. *)
(* The ingestion is awaited again.                                         *)
(*                                                                         *)
(* A body is the page behind it, the hash of its bytes, the digest of its  *)
(* text (another one when decoding removed a byte order mark) and whether  *)
(* the text is neither blank nor beyond the limit of the contract.         *)
(***************************************************************************)
EXTENDS Governance, Ingestion

CONSTANTS
    Executions, Workers,
    Requests,       \* request ids
    Bodies,         \* records: hash, digest, legible, kind, page
    Policies,       \* lifecycle policies a caller names
    OfferedGrants,  \* the credentials and consents a caller presents
    Hints,          \* the sets of hints a caller gives
    Reasons, MaxStored

Hashes == {body.hash : body \in Bodies}

VARIABLES
    execution,
    artifacts, blobs, occurrences, tombstones, stored, deleted, process

\* One source: an artifact is the hash of its bytes.
Raw == INSTANCE RawArtifacts WITH
    Artifacts <- Hashes, HashOf <- [h \in Hashes |-> h], AcquisitionIds <- Requests,
    Persistable <- {policy \in Policies : ValidPolicy(policy) /\ Satisfiable(policy, TRUE)},
    Held <- {policy \in Policies : policy.retention = "legal-hold"},
    Triggers <- [policy \in Policies |-> policy.triggers],
    Processes <- Workers

tables == <<artifacts, blobs, occurrences, tombstones, stored, deleted>>
vars == <<execution, tables, process>>

ASSUME AcquisitionAssumption ==
    /\ Policies \subseteq LifecyclePolicies /\ OfferedGrants \subseteq Grants
    /\ \A body, other \in Bodies : body.hash = other.hash => body = other
    /\ \A body \in Bodies : \A field \in Fields :
          body.page.found[field] \subseteq HtmlEvidence(field)
    /\ \A hints \in Hints : hints \subseteq Hintable
    /\ None \notin Policies \cup Raw!Tombstone

-----------------------------------------------------------------------------
(* The connectors                                                          *)

Connectors == {"fixture", "live"}
ContentKinds == {"text", "html"}
Unasked == "unasked"    \* no content kind is requested

SupportedContentKinds(connector) == IF connector = "live" THEN {"html"} ELSE {"text", "html"}

\* The result names the stage that failed, or none, and what became of the
\* bytes and of the text as far as it tells.
Result(stage, persistence, ingestion) ==
    [stage |-> stage, persistence |-> persistence, ingestion |-> ingestion]

Idle == [at |-> "idle", connector |-> "none", request |-> "none", access |-> "none",
         asked |-> Unasked, body |-> None, kept |-> None, result |-> Result("none", "none", "none"),
         selected |-> {}]

\* The promise resolves, or is rejected, before there is a body.
NotAcquired == [Idle EXCEPT !.at = "ended", !.result = Result("acquisition", "none", "none")]
Rejected == [Idle EXCEPT !.at = "rejected"]

Becomes(e, record) == execution' = [execution EXCEPT ![e] = record]

\* LiveWebSourceConnector.acquireDetailed.
Refuses(connector, access, asked) ==
    connector = "live" /\ (access # "public-only" \/ asked # "html")

\* assessConnectorInvocation of a request that names the connector.
Supports(connector, asked) == asked \in SupportedContentKinds(connector) \cup {Unasked}

\* execute, up to the call of the runtime.  A request the schema or the
\* connector refuses is answered without it.
Start(e) ==
    /\ execution[e].at = "idle"
    /\ \E connector \in Connectors, request \in Requests, access \in Levels,
          asked \in ContentKinds \cup {Unasked}, valid \in BOOLEAN :
         Becomes(e, IF valid /\ ~Refuses(connector, access, asked) /\ Supports(connector, asked)
                    THEN [Idle EXCEPT !.at = "acquiring", !.connector = connector,
                             !.request = request, !.access = access, !.asked = asked]
                    ELSE NotAcquired)
    /\ UNCHANGED <<tables, process>>

\* The runtime authorizes each attempt.  The connectors pass it no credential
\* and no consent.
Authorized(e) == MayAcquire("web", execution[e].access, Nothing, "none")

\* What acquireBoundedBody makes of the page: a body of the kind asked for.
Answers(e) == {body \in Bodies : execution[e].asked \in {Unasked, body.kind}}

\* Mutant: The acquired text is taken as it is.
ContractUnchecked(body) == TRUE

\* SourceAcquisitionResultSchema: the text is not blank, within its limit,
\* and is the text whose bytes were hashed and counted.
SatisfiesContract(body) == body.legible /\ body.digest = body.hash

\* The runtime fails, or brings no body, or one of a kind that the connector
\* does not support.
AcquisitionFails(e) ==
    /\ execution[e].at = "acquiring"
    /\ Becomes(e, NotAcquired)
    /\ UNCHANGED <<tables, process>>

\* acquireDetailed parses its own result: the promise is rejected when that
\* throws.
AcquisitionRejects(e) ==
    /\ execution[e].at = "acquiring" /\ Authorized(e)
    /\ \E body \in Answers(e) :
         /\ body.kind \in SupportedContentKinds(execution[e].connector)
         /\ ~SatisfiesContract(body)
    /\ Becomes(e, Rejected)
    /\ UNCHANGED <<tables, process>>

-----------------------------------------------------------------------------
(* Persistence, bridge and ingestion                                       *)

\* Mutant: A bridge that refuses is reported without the persistence.
OnlyTheBridge(persistence) == Result("bridge", "none", "none")
BridgeFailure(persistence) == Result("bridge", persistence, "none")

\* The bridge is a port: it projects the acquisition or refuses it.  Its own
\* refusals do not occur for a result that satisfies the contract.
Bridged(e, body, persistence, kept) ==
    LET had == [Idle EXCEPT !.request = execution[e].request, !.access = execution[e].access,
                            !.body = body, !.kept = kept] IN
    \/ Becomes(e, [had EXCEPT !.at = "ingesting", !.result.persistence = persistence])
    \/ Becomes(e, [had EXCEPT !.at = "ended", !.result = BridgeFailure(persistence)])

\* persist in the store: an occurrence of an active artifact, or the artifact
\* with its first occurrence.  What it conflicts with refuses it, an error of
\* the store fails it.
Store(h, policy, q) == Raw!InsertOccurrence(h, policy, q) \/ Raw!InsertArtifact(h, policy, q)

\* RawPersistencePort.persist, in the context of the request: the answer to
\* the caller and what is kept.
Persist(e, body) ==
    \E policy \in Policies, grant \in OfferedGrants, protected \in BOOLEAN :
      LET request == execution[e].request
          admitted == MayPersist("web", execution[e].access, policy, grant, protected) IN
      \/ /\ admitted /\ Store(body.hash, policy, request)
         /\ Bridged(e, body, "stored", [artifact |-> body.hash, class |-> policy.class, grant |-> grant])
      \/ /\ admitted => Raw!InsertConflicts(body.hash, policy, request)
         /\ Bridged(e, body, "refused", None) /\ UNCHANGED tables
      \/ admitted /\ Bridged(e, body, "failed", None) /\ UNCHANGED tables

\* The acquisition succeeds.  Without a persistence request (always so in
\* SafeNetworkIngestionService) nothing is kept.
Acquired(e) ==
    /\ execution[e].at = "acquiring" /\ Authorized(e)
    /\ \E body \in Answers(e) :
         /\ body.kind \in SupportedContentKinds(execution[e].connector)
         /\ SatisfiesContract(body)
         /\ Persist(e, body) \/ (Bridged(e, body, "none", None) /\ UNCHANGED tables)
    /\ UNCHANGED process

\* The stage of the result: a persistence that was asked for and did not
\* succeed comes before the ingestion.
Stage(persistence, error) ==
    IF persistence \in {"refused", "failed"} THEN "persistence"
    ELSE IF error # "none" THEN "ingestion" ELSE "success"

\* The text is ingested with the hints of the caller.
Ingested(e) ==
    /\ execution[e].at = "ingesting"
    /\ \E hints \in Hints :
         LET ingested == Ingest(execution[e].body.page, hints)
             persistence == execution[e].result.persistence
             outcome == IF ingested.error = "none" THEN "document" ELSE "error" IN
         Becomes(e, [execution[e] EXCEPT !.at = "ended", !.selected = ingested.selected,
                        !.result = Result(Stage(persistence, ingested.error), persistence, outcome)])
    /\ UNCHANGED <<tables, process>>

-----------------------------------------------------------------------------
Init == Raw!Init /\ execution = [e \in Executions |-> Idle]

Execute(e) ==
    Start(e) \/ AcquisitionFails(e) \/ AcquisitionRejects(e) \/ Acquired(e) \/ Ingested(e)

\* The delete calls of a retention worker, step by step.
Retention(w) ==
    /\ \/ \E h \in Hashes, reason \in Reasons : Raw!FindTombstone(w, h, reason)
       \/ Raw!CheckRecord(w)
       \/ Raw!DeleteTransaction(w)
       \/ Raw!Fail(w)
    /\ UNCHANGED execution

Next == (\E e \in Executions : Execute(e)) \/ (\E w \in Workers : Retention(w))

Spec == Init /\ [][Next]_vars

-----------------------------------------------------------------------------
(* Properties                                                              *)

\* Bytes are never kept behind the caller's back: an execution that stored
\* them says so in its result, wherever it failed afterwards, never rejects,
\* and what it says it stored is there or was deleted with a tombstone.
StoredIsReported ==
    \A e \in Executions : execution[e].kept # None =>
       /\ execution[e].at \in {"ingesting", "ended"}
       /\ execution[e].result.persistence = "stored"
       /\ LET h == execution[e].kept.artifact IN
          artifacts[h] # None \/ tombstones[h] # None

\* Nothing is acquired that asks for a credential, for the connectors have
\* none; bytes under a private policy are kept with consent and a credential
\* of the connector that is available, and no credential is used beyond the
\* consent its scope asks for.
AccessIsGranted ==
    \A e \in Executions :
       /\ execution[e].body # None => execution[e].access = "public-only"
       /\ execution[e].kept # None =>
            LET grant == execution[e].kept.grant
                class == execution[e].kept.class IN
            /\ class = "consented-private-source" => grant.consent
            /\ class # "public-source" => grant.credential # None
            /\ grant.credential # None =>
                 /\ grant.credential.connector = "web" /\ grant.availability = "available"
                 /\ grant.credential.scope = "none" \/ grant.consent

\* A document is made of the text of the very bytes that the acquisition
\* names and that were kept.
TextIsOfTheBytes ==
    \A e \in Executions : execution[e].result.ingestion = "document" =>
       /\ execution[e].body.digest = execution[e].body.hash
       /\ execution[e].kept # None => execution[e].kept.artifact = execution[e].body.digest

\* A hint of the caller is used only where the page itself says nothing as
\* sure, and then the document has no surer value either.
HintsAreFallbacks ==
    \A e \in Executions : execution[e].result.ingestion = "document" =>
       \A s \in execution[e].selected :
          \A c \in Extracted(execution[e].body.page, s[1]) :
             /\ s[2] = "hint" => Confidence[s[1]][c] < 90
             /\ Confidence[s[1]][c] <= Confidence[s[1]][s[2]]

\* A document says what its page says, and nothing of another page or a guess.
DocumentsAreFaithful == TextIsOfTheBytes /\ HintsAreFallbacks
=============================================================================
