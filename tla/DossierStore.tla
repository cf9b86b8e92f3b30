----------------------------- MODULE DossierStore -----------------------------
(***************************************************************************)
(* The dossiers of events in one SQLite database (dossier/service.ts,      *)
(* sqlite-adapter.ts) that several processes open, migrate                 *)
(* (persistence/migrations.ts) and write revisions to.                     *)
(*                                                                         *)
(* A process runs one buildAndPersist at a time and reads outside of the   *)
(* transaction that saves, so other processes come between its statements. *)
(* A transaction is one step: BEGIN IMMEDIATE keeps other writers out, and *)
(* a crash or an error inside it leaves nothing.                           *)
(***************************************************************************)
EXTENDS DossierBuilder

CONSTANTS
    Processes,
    Inputs,         \* what a process may be asked to build a dossier from
    DossierIds,     \* the ids createId makes: one for each instant of the clock
    MaxRevisions    \* bound: revisions of one event

Latest == 3         \* LATEST_SCHEMA_VERSION
Events == {i.event : i \in Inputs}
Drafts == [i \in Inputs |-> Draft(i)]

VARIABLES
    schema,         \* the migrations whose tables and version row exist
    dossiers,       \* event_dossiers: rows [dossier, event, number, snapshot]
    revisions,      \* dossier_revisions: rows as Revision makes them
    process         \* the call each process is in

vars == <<schema, dossiers, revisions, process>>

Closed == [at |-> "closed", read |-> 0, input |-> None, latest |-> None,
           built |-> None, outcome |-> "none"]
Ready(outcome, revision) ==
    [Closed EXCEPT !.at = "ready", !.outcome = outcome, !.built = revision]

Becomes(p, state) == process' = [process EXCEPT ![p] = state]
Database == <<schema, dossiers, revisions>>

-----------------------------------------------------------------------------
\* getSchemaVersion.
Version(S) == IF S = {} THEN 0 ELSE CHOOSE v \in S : \A w \in S : w <= v

\* The constructor, up to BEGIN IMMEDIATE: the version is read before it.
Open(p) ==
    /\ process[p].at \in {"closed", "failed"}
    /\ Becomes(p, CASE Version(schema) = Latest -> Ready("opened", None)
                    [] Version(schema) > Latest -> [Closed EXCEPT !.at = "failed"]
                    [] OTHER -> [Closed EXCEPT !.at = "migrating", !.read = Version(schema)])
    /\ UNCHANGED Database

\* Mutant: Only the newest migration is run.
NewestOnly(v) == {Latest}

\* The migrations a process runs that read version v.
Missing(v) == (v + 1)..Latest

\* The transaction of runMigrations: its CREATE TABLEs and version rows fail if
\* another process has run one of them since.  It may also wait for the lock
\* longer than busy_timeout.
Migrate(p) ==
    /\ process[p].at = "migrating"
    /\ \/ /\ Missing(process[p].read) \cap schema = {}
          /\ schema' = schema \cup Missing(process[p].read)
          /\ Becomes(p, Ready("opened", None))
       \/ UNCHANGED schema /\ Becomes(p, [Closed EXCEPT !.at = "failed"])
    /\ UNCHANGED <<dossiers, revisions>>

-----------------------------------------------------------------------------
\* findLatestByEventId.
RowOf(event) == {r \in dossiers : r.event = event}

Find(p) ==
    /\ process[p].at = "ready"
    /\ \E input \in Inputs :
          Becomes(p, [Closed EXCEPT !.at = "listing", !.input = input,
                        !.latest = IF RowOf(input.event) = {} THEN None
                                   ELSE (CHOOSE r \in RowOf(input.event) : TRUE).dossier])
    /\ UNCHANGED Database

\* listRevisionHistory(...).at(-1).
History(dossier) == {r \in revisions : r.dossier = dossier}
LastOf(dossier) ==
    IF History(dossier) = {} THEN None
    ELSE CHOOSE r \in History(dossier) : \A s \in History(dossier) : s.number <= r.number

\* The history of the dossier found, and the build from it.  Only a created or
\* revised dossier goes on to be saved.
ListAndBuild(p) ==
    LET input == process[p].input
        previous == IF process[p].latest = None THEN None ELSE LastOf(process[p].latest)
        outcome == Outcome(input, Drafts[input], previous) IN
    /\ process[p].at = "listing"
    /\ \E id \in DossierIds :
          Becomes(p,
            CASE outcome \in {"created", "revised"} ->
                   [process[p] EXCEPT !.at = "saving", !.outcome = outcome,
                                      !.built = Revision(Drafts[input], previous, id)]
              [] outcome = "unchanged" -> [Ready(outcome, previous) EXCEPT !.input = input]
              [] OTHER -> Ready(outcome, None))
    /\ UNCHANGED Database

\* The expected number of saveRevision, and the uniqueness its tables keep: one
\* revision of a number, and so of an id, in a dossier, one dossier of an event.
NumberOf(dossier) ==
    LET rows == {r \in dossiers : r.dossier = dossier} IN
    IF rows = {} THEN 0 ELSE (CHOOSE r \in rows : TRUE).number

\* Mutant: The event id of event_dossiers is not unique.
TakenRow(revision) ==
    \E r \in dossiers : r.dossier = revision.dossier /\ r.number = revision.number

TakenEvent(revision) ==
    \E r \in dossiers : r.event = revision.event /\ r.dossier # revision.dossier
TakenNumber(revision) ==
    \E r \in revisions : r.dossier = revision.dossier /\ r.number = revision.number

\* Mutant: The last to save wins.
LastWriteWins(revision, expected) == TakenEvent(revision)

Conflict(revision, expected) ==
    \/ NumberOf(revision.dossier) # expected
    \/ TakenNumber(revision)
    \/ TakenEvent(revision)

RowFor(revision) ==
    [dossier |-> revision.dossier, event |-> revision.event, number |-> revision.number,
     snapshot |-> revision.snapshot]

\* saveRevision: a new row for the revision; the row of its dossier is new, or
\* is updated where it still has the expected number.
SaveRevision(revision, expected) ==
    /\ revisions' = revisions \cup {revision}
    /\ dossiers' = {r \in dossiers : r.dossier # revision.dossier} \cup {RowFor(revision)}

\* What saveRevision throws: an error of its writes is a conflict to it as well
\* (sqlite-adapter.ts:155), one of the transaction around them is not.
SaveFailures == {"REVISION_CONFLICT", "DOSSIER_PERSISTENCE_FAILED"}

\* The transaction of buildAndPersist: it is committed, which no conflict allows, or
\* it fails and leaves nothing.
Save(p) ==
    LET revision == process[p].built
        expected == revision.number - 1 IN
    /\ process[p].at = "saving"
    /\ \/ /\ ~Conflict(revision, expected)
          /\ expected < MaxRevisions
          /\ SaveRevision(revision, expected)
          /\ Becomes(p, Ready(process[p].outcome, None))
       \/ /\ \E failure \in SaveFailures : Becomes(p, Ready(failure, None))
          /\ UNCHANGED <<dossiers, revisions>>
    /\ UNCHANGED schema

\* The process ends, wherever it is.
Crash(p) ==
    /\ process[p].at \notin {"closed", "failed"}
    /\ Becomes(p, Closed)
    /\ UNCHANGED Database

\* A database of any version this program has had, or of a later one, without
\* dossiers.
Init ==
    /\ schema \in {1..v : v \in 0..(Latest + 1)}
    /\ dossiers = {} /\ revisions = {}
    /\ process = [p \in Processes |-> Closed]

Next == \E p \in Processes :
    Open(p) \/ Migrate(p) \/ Find(p) \/ ListAndBuild(p) \/ Save(p) \/ Crash(p)

Spec == Init /\ [][Next]_vars

-----------------------------------------------------------------------------
\* An event has one dossier, its revisions are numbered without a gap, each
\* names the one before it, and the dossier shows the last of them: whatever
\* two processes read before either saved (service.ts:26 to 43).
OneHistory ==
    /\ \A r, s \in dossiers : r.event = s.event \/ r.dossier = s.dossier => r = s
    /\ \A v \in revisions : \E r \in dossiers : r.dossier = v.dossier /\ r.event = v.event
    /\ \A r \in dossiers :
          /\ {v.number : v \in History(r.dossier)} = 1..r.number
          /\ \A v \in History(r.dossier) : v.number = r.number => v.snapshot = r.snapshot
    /\ \A v, w \in revisions : v.dossier = w.dossier /\ v.number = w.number => v = w
    /\ \A v \in revisions : v.after = v.number - 1

\* The change set of a revision leads from what the revision before it shows to
\* what it shows: it was built from that revision and from no other
\* (builder.ts:302, service.ts:35).
ChangesLeadThere ==
    \A v, w \in revisions :
        v.dossier = w.dossier /\ w.after = v.number =>
            \A t \in DOMAIN Named(v.snapshot) :
                LET moved == w.changes.targets[t] IN
                Named(w.snapshot)[t] = (Named(v.snapshot)[t] \ moved.removed) \cup moved.added

\* A dossier answered as unchanged is what a new one would be where readers act
\* on it: its status and its warnings are not in the fingerprint and are right
\* all the same (builder.ts:272, 510).
UnchangedIsCurrent ==
    \A p \in Processes :
        process[p].outcome = "unchanged" =>
            LET draft == Drafts[process[p].input] IN
            /\ process[p].built \in revisions
            /\ process[p].built.snapshot.status = draft.status
            /\ process[p].built.snapshot.warnings = draft.warnings

\* What a revision, or the answer that there is none, says of the one before is
\* true of it.
RevisionsAreTrue == ChangesLeadThere /\ UnchangedIsCurrent

\* Whatever processes open an old database at once, no migration is left half
\* done or skipped, and who has opened it finds every table
\* (migrations.ts:195 reads the version before the transaction).
OpenedIsMigrated ==
    /\ schema = 1..Version(schema)
    /\ \A p \in Processes :
          process[p].at \notin {"closed", "failed", "migrating"} => Version(schema) = Latest

\* The tables hold nothing but a history for each event, to which revisions are
\* added that say something new.
RevisionsOf(event) == {v \in revisions : v.event = event}
Histories == [e \in Events |->
    [n \in 1..Cardinality(RevisionsOf(e)) |->
        Fingerprint((CHOOSE v \in RevisionsOf(e) : v.number = n).snapshot)]]
Contents == {Fingerprint(Drafts[i]) : i \in Inputs}
Promise == INSTANCE DossierHistory WITH history <- Histories
HistoriesOnlyGrow == Promise!Spec
=============================================================================
