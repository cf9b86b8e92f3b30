---------------------------- MODULE RawArtifacts ----------------------------
(***************************************************************************)
(* Raw artifact persistence (raw-persistence/service.ts over               *)
(* sqlite-adapter.ts): several processes, each with its own connection to  *)
(* one SQLite file.  A transaction (BEGIN IMMEDIATE) is one step; what a   *)
(* method reads before its transaction is a step of its own.  A            *)
(* transaction that fails rolls back, and a process may stop anywhere.     *)
(*                                                                         *)
(* SHA-256 is taken to be injective: a content hash stands for its bytes.  *)
(* The fingerprinted governance record is a function of artifact and       *)
(* policy, so an artifact row is the policy it is kept under.  Audits of   *)
(* denials and of reads are best effort and are left out; those of the     *)
(* transactions are counted.                                               *)
(***************************************************************************)
EXTENDS Integers, FiniteSets

CONSTANTS
    Artifacts,      \* identities: source and content hash
    Hashes,
    HashOf,         \* the content hash of an artifact
    AcquisitionIds, \* occurrence identities, globally unique
    Policies,
    Persistable,    \* the policies under which raw bytes may be kept
    Held,           \* the policies that are a legal hold
    Reasons,
    Triggers,       \* the deletion reasons each policy lists
    Processes,
    MaxStored,      \* bound: insertions of one artifact
    None

Tombstone == [policy : Policies, reason : Reasons]

ASSUME RawAssumption ==
    /\ HashOf \in [Artifacts -> Hashes]
    /\ Persistable \subseteq Policies /\ Held \subseteq Policies
    /\ Triggers \in [Policies -> SUBSET Reasons]
    /\ None \notin Policies \cup Artifacts
    /\ None \notin Tombstone

VARIABLES
    artifacts,      \* raw_artifacts: the policy of each active artifact
    blobs,          \* raw_artifact_blobs: the hashes whose bytes are kept
    occurrences,    \* raw_artifact_acquisitions: the artifact of each id
    tombstones,     \* raw_artifact_tombstones
    stored,         \* audit events of insertions, per artifact
    deleted,        \* RAW_DELETED audit events, per artifact
    process         \* the delete call each process is in, and the last answer

tables == <<artifacts, blobs, occurrences, tombstones, stored, deleted>>
vars == <<tables, process>>

Idle(answer) == [phase |-> "idle", artifact |-> None, reason |-> None,
                 policy |-> None, answer |-> answer]
Answers == {"none", "stored", "refused", "failed", "deleted", "already-deleted"}

Active(a) == artifacts[a] # None
Referenced(rows, h) == \E a \in Artifacts : rows[a] # None /\ HashOf[a] = h

Answer(p, answer) == process' = [process EXCEPT ![p] = Idle(answer)]

-----------------------------------------------------------------------------

Init ==
    /\ artifacts = [a \in Artifacts |-> None]
    /\ blobs = {}
    /\ occurrences = [q \in AcquisitionIds |-> None]
    /\ tombstones = [a \in Artifacts |-> None]
    /\ stored = [a \in Artifacts |-> 0]
    /\ deleted = [a \in Artifacts |-> 0]
    /\ process = [p \in Processes |-> Idle("none")]

(* persist *)

\* What persist checks of the candidate before it opens a transaction;
\* authorized stands for credentials, consent and platform protection.
Admitted(policy, authorized) == policy \in Persistable /\ authorized

\* Mutant: an acquisition id already bound is bound again.
Rebinds(a, q) == TRUE

\* An acquisition id is free, or bound to this artifact by an earlier call.
\* insert refuses to bind it to another.
Bindable(a, q) ==
    occurrences[q] = None \/ (Active(a) /\ occurrences[q] = a)

\* insert on an artifact that is active: the same policy, or a conflict.
InsertOccurrence(a, policy, q) ==
    /\ Active(a)
    /\ artifacts[a] = policy
    /\ Bindable(a, q)
    /\ occurrences' = [occurrences EXCEPT ![q] = a]
    /\ UNCHANGED <<artifacts, blobs, tombstones, stored, deleted>>

\* insert on an artifact that is not active.  Tombstones are not consulted.
InsertArtifact(a, policy, q) ==
    /\ ~Active(a)
    /\ Bindable(a, q)
    /\ stored[a] < MaxStored
    /\ artifacts' = [artifacts EXCEPT ![a] = policy]
    /\ blobs' = blobs \cup {HashOf[a]}
    /\ occurrences' = [occurrences EXCEPT ![q] = a]
    /\ stored' = [stored EXCEPT ![a] = @ + 1]
    /\ UNCHANGED <<tombstones, deleted>>

InsertConflicts(a, policy, q) ==
    \/ Active(a) /\ artifacts[a] # policy
    \/ ~Bindable(a, q)

Persist(p, a, policy, q) ==
    /\ process[p].phase = "idle"
    /\ \E authorized \in BOOLEAN :
          \/ /\ Admitted(policy, authorized)
             /\ \/ InsertOccurrence(a, policy, q) \/ InsertArtifact(a, policy, q)
             /\ Answer(p, "stored")
          \/ /\ Admitted(policy, authorized) => InsertConflicts(a, policy, q)
             /\ Answer(p, "refused")
             /\ UNCHANGED tables
          \/ /\ Admitted(policy, authorized)
             /\ Answer(p, "failed")
             /\ UNCHANGED tables

(* delete *)

\* findTombstone, the first of the two reads outside the transaction.
FindTombstone(p, a, reason) ==
    /\ process[p].phase = "idle"
    /\ IF tombstones[a] # None
       THEN Answer(p, "already-deleted")
       ELSE process' = [process EXCEPT ![p] =
                           [Idle("none") EXCEPT !.phase = "looked",
                               !.artifact = a, !.reason = reason]]
    /\ UNCHANGED tables

\* Mutant: the policy named by the caller is not compared with the stored one.
AnyPolicy(policy, row, reason) == reason \in Triggers[policy] /\ policy \notin Held

\* The caller's policy lists the reason, is the one the artifact is kept
\* under, and is no legal hold.
Deletable(policy, row, reason) ==
    /\ reason \in Triggers[policy]
    /\ policy = row
    /\ policy \notin Held

\* findActiveById, and the checks of delete on what it returned.
CheckRecord(p) ==
    /\ process[p].phase = "looked"
    /\ LET row == artifacts[process[p].artifact]
       IN  \E policy \in Policies, authorized \in BOOLEAN :
             IF row # None /\ authorized /\ Deletable(policy, row, process[p].reason)
             THEN process' = [process EXCEPT ![p] =
                                 [@ EXCEPT !.phase = "checked", !.policy = row]]
             ELSE Answer(p, "refused")
    /\ UNCHANGED tables

\* Mutant: the blob goes with the artifact, whoever else refers to it.
DropBlob(rows, h) == TRUE

Unreferenced(rows, h) == ~Referenced(rows, h)

\* INSERT OR IGNORE: the first tombstone stays.
Entombed(a, stone) == IF tombstones[a] = None THEN stone ELSE tombstones[a]

\* ON DELETE CASCADE.
Cascade(a) == [q \in AcquisitionIds |->
                  IF occurrences[q] = a THEN None ELSE occurrences[q]]

\* deleteToTombstone: nothing when the artifact is gone meanwhile.  It does
\* not look at the row again.
DeleteToTombstone(a, stone) ==
    IF ~Active(a)
    THEN UNCHANGED <<artifacts, blobs, occurrences, tombstones>>
    ELSE /\ artifacts' = [artifacts EXCEPT ![a] = None]
         /\ blobs' = IF Unreferenced([artifacts EXCEPT ![a] = None], HashOf[a])
                     THEN blobs \ {HashOf[a]} ELSE blobs
         /\ occurrences' = Cascade(a)
         /\ tombstones' = [tombstones EXCEPT ![a] = Entombed(a, stone)]

Audited(a) == [deleted EXCEPT ![a] = @ + 1]

DeleteTransaction(p) ==
    /\ process[p].phase = "checked"
    /\ DeleteToTombstone(process[p].artifact,
            [policy |-> process[p].policy, reason |-> process[p].reason])
    /\ deleted' = Audited(process[p].artifact)
    /\ UNCHANGED stored
    /\ Answer(p, "deleted")

\* A read fails, a transaction rolls back, or the process stops and restarts.
Fail(p) ==
    /\ process[p].phase # "idle"
    /\ Answer(p, "failed")
    /\ UNCHANGED tables

Next ==
    \E p \in Processes :
        \/ \E a \in Artifacts, policy \in Policies, q \in AcquisitionIds :
              Persist(p, a, policy, q)
        \/ \E a \in Artifacts, reason \in Reasons : FindTombstone(p, a, reason)
        \/ CheckRecord(p)
        \/ DeleteTransaction(p)
        \/ Fail(p)

Spec == Init /\ [][Next]_vars

-----------------------------------------------------------------------------
(* Properties *)

CallState == [phase : {"idle", "looked", "checked"}, artifact : Artifacts \cup {None},
          reason : Reasons \cup {None}, policy : Policies \cup {None},
          answer : Answers]

\* Every table and every call in progress has its type.
TypeOK ==
    /\ artifacts \in [Artifacts -> Policies \cup {None}]
    /\ blobs \subseteq Hashes
    /\ occurrences \in [AcquisitionIds -> Artifacts \cup {None}]
    /\ tombstones \in [Artifacts -> Tombstone \cup {None}]
    /\ stored \in [Artifacts -> Nat]
    /\ deleted \in [Artifacts -> Nat]
    /\ process \in [Processes -> CallState]

\* Bytes are kept exactly while an active artifact refers to them: deleting
\* one artifact neither strands a blob nor takes it from another artifact.
BytesFollowArtifacts ==
    \A h \in Hashes : h \in blobs <=> Referenced(artifacts, h)

\* Every occurrence belongs to an active artifact and every active artifact
\* has one: the cascade and the insertion leave no half behind.
OccurrencesFollowArtifacts ==
    /\ \A q \in AcquisitionIds : occurrences[q] # None => Active(occurrences[q])
    /\ \A a \in Artifacts :
          Active(a) => \E q \in AcquisitionIds : occurrences[q] = a

\* While the artifact has no tombstone, what a delete call checked is what is
\* still stored: a row is only removed together with leaving one.
CheckedIsCurrent ==
    \A p \in Processes :
        /\ process[p].phase # "idle" => /\ process[p].artifact \in Artifacts
                                        /\ process[p].reason \in Reasons
        /\ process[p].phase = "checked" =>
              /\ process[p].policy \in Policies \ Held
              /\ tombstones[process[p].artifact] = None =>
                    artifacts[process[p].artifact] = process[p].policy

\* The log misses no removal: an insertion that is not followed by a
\* deletion event is an artifact that is still there.
RemovalsAreAudited ==
    \A a \in Artifacts : stored[a] <= deleted[a] + (IF Active(a) THEN 1 ELSE 0)

RawInv == TypeOK /\ BytesFollowArtifacts /\ OccurrencesFollowArtifacts
          /\ CheckedIsCurrent /\ RemovalsAreAudited

\* An acquisition id is never bound to another artifact, and it is only
\* released by the deletion of its artifact.
AcquisitionsNeverRebind ==
    [][\A q \in AcquisitionIds : occurrences[q] # None =>
          \/ occurrences'[q] = occurrences[q]
          \/ occurrences'[q] = None /\ artifacts'[occurrences[q]] = None]_vars

\* An artifact under legal hold is only removed by a delete call that checked
\* an earlier copy of it, kept under another policy, and that found this copy
\* in its transaction: the artifact was deleted and stored again in between.
\* Without such a deletion no interleaving of calls breaks the hold.
OnlyStaleDeletesBreakHold ==
    [][\A a \in Artifacts : artifacts[a] \in Held /\ artifacts'[a] # artifacts[a]
          => /\ tombstones[a] # None
             /\ \E p \in Processes : /\ process[p].phase = "checked"
                                     /\ process[p].artifact = a
                                     /\ process[p].policy \notin Held]_vars

\* A tombstone is the record of the first deletion for ever, also when the
\* artifact is stored and deleted again or two deletions race.
TombstonesArePermanent ==
    [][\A a \in Artifacts : tombstones[a] # None => tombstones'[a] = tombstones[a]]_vars

=============================================================================
