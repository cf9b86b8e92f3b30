# Verification of world-news-ai

TLA+ models of the parts of this repository that keep state, checked with TLC
on small instances, with theorems about them checked by TLAPS. Source paths are
relative to the repository root.

## 1. The system

world-news-ai turns sources into an interactive briefing: sources are acquired
under governance and security policies, ingested and persisted, arranged in an
evidence dossier, turned by a briefing run into a validated script, presented by
a web player over a map, and changed by follow-up questions that may replace
the script. Everything is TypeScript: the concurrency is that of `await` (any
other callback may run at one), of several processes on one SQLite file, of
timers and of network answers.

| Component | State it keeps | Operations | What makes it hard |
| --- | --- | --- | --- |
| Session reducer (`src/session/session-reducer.ts`, `session-validator.ts`) | one `BriefingSession` record: status, cursor, manual view, active operation, status to return to | twenty commands, each validated, applied to a clone, checked against the schema again | long command sequences; late completions; a rollback or a commit the schema refuses |
| Session repository (`src/session/in-memory-session-repository.ts`) | sessions by id, audit records | create, getById, save with expected fingerprint | two clients between read and save |
| Follow-up orchestration (`src/application/follow-up/`, `src/follow-up/`, `src/replan/`) | none of its own: a session travels through it | submit, start, classify, prepare, validate, apply or roll back | a failure at any step; atomic replacement |
| Web player and controller (`apps/web/src/app/App.tsx`, `player/`, `features/follow-up/`) | React state: session, script, presentation, outcome; the player's status, index, composer | playback, keyboard, map, composer, follow-up, retry, clarification, end | two copies of the scene index, carried in both directions by effects; updaters that throw |
| Map surface (`apps/web/src/map/`) | operation number, identity of the last motion, overlay snapshot, the gate's active motion | show or replace a scene, replay, load, retry, gesture, moveend | late callbacks of a scene that was left; caches keyed by identity; the antimeridian |
| Briefing run (`src/application/briefing-run/`, `apps/web/src/features/runtime/`) | stage, receipt; the page's current run | run through eight stages with cancellation; start, replace, unmount | cancellation between stages; a late answer of a replaced run; lineage between stage results |
| Generation coordinator (`src/generation/coordinator.ts`) | attempt and repair counters | preflight, call with retry, bounded repair | retry and repair budgets; an abort during a call or a sleep |
| Briefing content stages (`src/briefing/`, `src/context/`, `src/explanation/`, `src/script/`) | none: pure | compile a contract, select evidence, make a plan, make a script, and validate each | each stage has a validator of its own that must accept what the stage before decided by other rules; small quotas that compete |
| Persistent ingestion (`src/persistence/`) | jobs, documents, revisions, schema version | ingest, job transitions, migration | crash between job and document writes; duplicate race; two processes migrating |
| Raw artifact persistence (`src/raw-persistence/`) | artifacts, blobs, tombstones, audits | persist, read, delete, list expiry-eligible | checks before the transaction; re-persist after deletion |
| Secure acquisition runtime (`src/source-acquisition-security/`) | admission counters, leases, deadlines | admit, resolve, connect, redirect, retry, read | leases over retries and redirects; deadlines racing answers |
| Acquisition orchestration (`src/acquisition-orchestration/`) | one acquisition over the raw store | authorize, retrieve, persist, ingest | failure after the bytes were kept; a page that changes; a retention worker |
| Source governance (`src/source-governance/`) | none: pure evaluation | evaluate, authorize | order of checks; consent and credentials |
| Ingestion pipeline (`src/ingestion/`) | none: pure | detect, extract, select, map | order of errors; precedence of page evidence and hints |
| Dossier (`src/dossier/`) | dossiers, revisions | build, compare with the last revision, save | builders that read outside the transaction that saves |
| Schema migrations (`src/persistence/migrations.ts`) | the schema version | open, migrate | two processes opening an old database |
| Impact analysis, generation data, network policy, domain and validation | none: pure | build and validate | see section 7 |

Interactions: the web controller sends commands to the reducer and follow-up
requests to the orchestrator, which drives the reducer with `SUBMIT_FOLLOW_UP`,
`REPLAN_STARTED` and one of `REPLAN_COMPLETED`, `REPLAN_FAILED`,
`REPLAN_RESOLVED`; the effects of `App.tsx` carry the scene between player and
session and the composer between session and player; acquisition orchestration calls governance, the runtime, raw
persistence and persistent ingestion in that order; the briefing run calls the
pure stages and creates the session.

What makes the components correct: the session is always one its schema
accepts, over the scenes of its script, and can always leave a failed follow-up;
the repository loses no update; the web application shows the script its session
is bound to, and its player follows; the tables of ingestion and of raw
persistence are consistent after every interleaving, crash and rollback, and the
log misses nothing; the runtime counts its leases exactly, spares its targets,
and ends; an acquisition never keeps bytes behind its caller's back; a briefing
run completes only with one lineage and never after a cancellation, and the page
shows the run it started last; a generation stays within its budgets; what a
stage makes its own validator accepts, and what is missing in the evidence is
told; an event has one dossier whose revisions form a chain; the map shows the
scene it is given.

## 2. Plan

Done, in this order:

1. `SessionReducer`, `BriefingSession`, `SessionStore` implementing
   `AtomicSession`, with proofs.
2. `RawArtifacts`, `PersistentIngestion` and `SafeRuntime`, with proofs.
3. `WebBriefing`: player, controller, orchestrator and effects over the reducer.
4. `BriefingRun` over `Generation`, with the page that starts and replaces runs,
   and proofs.
5. `SourceAcquisition` over `Governance`, `Ingestion` and an instance of
   `RawArtifacts`.
6. `DossierStore` over `DossierBuilder`, implementing `DossierHistory`, with the
   migrations, and proofs.
7. `MapSurface` over `MapGeometry`.
8. `BriefingContent` over `BriefingContract`, `EvidenceContext`,
   `ExplanationPlan` and `BriefingScript`.
9. Proofs of `WebBriefing`, `SourceAcquisition`, the refinement of `DossierHistory`
   and `MapSurface` with its geometry.

10. Proofs about the stages of `BriefingContent`.

Left: the reads and
the expiry list of the raw store; the rate windows of the admission gate over a
clock; the impact analysis as a stage of `BriefingContent`; a refinement that
joins `BriefingRun` and `WebBriefing` at the session.

## 3. Modules

`MC<module>` gives a module's constants values for TLC, the modules `...Proofs` hold the
theorems (section 5). A mutant operator stands before the definition it replaces, marked
`Mutant:`, and is used nowhere in a specification.

### SessionReducer, BriefingSession

`SessionReducer` is the pure reducer: a session is a record, a command another,
`Applied(s, c)` is the set of at most one next session (`{}` when a guard
refuses), and `Accepted(s, c)` drops a next session the schema refuses, as
`reduceBriefingSession` does after `applyCommand`. One operator per `case` of
`applyCommand`. The identities that a replacement changes together (question,
contract, context package, plan, script, fingerprints) are one value, the
script. The fingerprint of a session is the session.

`BriefingSession` is the life of one session: one action per command, and
`Refused` for what the reducer refuses or ignores as stale. `opened` is a history
variable, the session frozen while the composer is open or a replan runs; `accepted`
and `acted` are type and operation id of the last accepted audit record.
`CallersNameScenes` says whether callers name the scene their script has at the
index they send, as the web player does; the reducer checks the index only.

### AtomicSession, SessionStore

`AtomicSession` promises that a stored session changes by one accepted command
at a time. `SessionStore` is `in-memory-session-repository.ts` under clients whose
`getById`, reduction and `save` are separate steps, and implements it: `save`
compares the stored fingerprint with the one the client read.

### WebBriefing

The application of `apps/web/src` over one briefing. A user event is an action;
`Commit` is a render with the effects whose dependencies changed, which see the
values of that render; events wait for `Settled`, because React flushes the
effects of a discrete event before it handles the next. `rendered` holds the
dependencies of the last render. A follow-up is one step: the controller awaits
promises only, which resolve before the next event with the fixture adapter.
`Outcomes` is `executeFollowUp` as an operator over the reducer: submit, start,
then an answer, a clarification, a refusal, a failure with its rollback, or a
replacement by a script that `replacementVariant` or a run with another personal
context can make. A command refused in an updater that does not catch makes
`alive` false for good. Left out: speed, animation, motion tokens, pause reason,
draft text, analysis panel and focus; so that any event whose control is shown
may come, and any scene may be on the map. The second run of effects on mount
that StrictMode makes in development changes nothing for scripts of two scenes
or more and is left out.

### RawArtifacts

`raw-persistence/service.ts` over `sqlite-adapter.ts` in several processes. A
transaction (`BEGIN IMMEDIATE`) is one step; the lookup of a tombstone and the
check of the record before it are steps of their own. A transaction may fail and
roll back anywhere. A content hash stands for its bytes. `MaxStored` bounds the
insertions of one artifact; the proofs do not need it.

### PersistentIngestion

`persistence/service.ts`: create the job, mark it running, await the pipeline,
decide in one transaction between new document, revision and duplicate, record a
failure in a separate statement. Storage may be out at any statement and a
process may stop between any two. Because the lookup is made under `BEGIN
IMMEDIATE` the recovery of a lost insert race (`service.ts:195-216`) cannot be
reached over the repository's adapters and is not modelled.

### SafeRuntime

`safe-runtime.ts` with `admission.ts`, `timing.ts` and `bounded-body.ts`:
acquisitions in one process over a shared gate. What lies between two awaits is
one step; `phase` names the await. Time is two facts per acquisition, whether its
deadline has passed and whether it was cancelled. A refusal by the rate buckets
is a possible outcome of an attempt.

### BriefingRun, Generation

`briefing-run-service.ts` as a stage machine: a stage polls the cancellation,
calls its port, records what came of it on the receipt and polls again. Ports are
interfaces, so they may answer anything their types allow, fail or throw, and a
cancellation may be requested while they run. The two stages that await, the
impact coordination and the generation, are split there. An artifact that names
another's lineage is `foreign`. `finish` throws when the receipt does not satisfy
its schema; inside the `try` it is called a second time. `Generation` is the
coordinator: preflight, rounds of transport retries with a back-off that listens
for an abort, one repair, the audit's attempts. The controller and the hook of
the page (`useLocalBriefingBootstrap`) start, replace and forget runs.

### SourceAcquisition, Governance, Ingestion

`acquisition-orchestration/orchestrator.ts` for one locator whose page changes:
authorize, retrieve through the runtime's connector, keep the bytes if the caller
asks for it and governance permits it, ingest the text. The retrieval and the
ingestion are awaited; between them lies one step. The raw store is
`INSTANCE RawArtifacts` with its deletion, run by a retention worker. `Governance`
states a decision as the first check that refuses, in the order of the code;
`Ingestion` states which capability takes a page, which evidence fills a field
and which error comes first. The credentials, consents, policies and hints are
records of small sets.

### DossierBuilder, DossierStore, DossierHistory

`DossierBuilder` is `builder.ts` as operators: reference checks, assessments,
contradictions, completeness, the fingerprint, the change set. `DossierStore` is
`service.ts` over the SQLite adapter in several processes: find the dossier of an
event, list its history and build, save in one transaction, each a step, with
crashes anywhere; and the constructor that reads the schema version before it
takes the lock. `DossierHistory` promises that each event has one history that
only grows and says something new with each revision; `DossierStore` implements
it.

### MapGeometry, MapSurface

`MapSurface.tsx` on `maplibre-adapter.ts`: the effect of a scene is one step up
to its animation; a moveend resumes what waits for it, if the operation is still
the last. What `applyOverlays` takes over (`map.snapshot`) and what the source draws
(`map.drawn`) are two things: while the style is not loaded the overlays stay
`map.pending`. `MapGeometry` unwraps, cuts and frames longitudes in whole degrees, by
recursive functions, as the adapter and the camera resolver do.

### BriefingContract, EvidenceContext, ExplanationPlan, BriefingScript, BriefingContent

The pure stages as operators, composed by `BriefingContent` in the order of the
run: the contract of a question (intents, ambiguity, sections), the evidence
(candidates, scores in millionths, the greedy selection with its reserved places
and quotas, gaps), the plan by the rule-based assembler or by the local proposal of
the web runtime, with the plan validator, and the script with its validator. A
question is the set of what its text matches, a text the set of its words. What
the stages refuse is stated as a property (`RefusalsAreKnown`): a validator
refuses what the assembler makes, and scripts, exactly in the cases named there, and
local proposals in no others.

## 4. Runs

| Run | States | What it shows |
| --- | --- | --- |
| `session` | two scripts that share a scene at different places, so that replacing drops the opening scene one way and the other scene the other way; two operation ids | every sequence of the twenty commands keeps operation, remembered status and manual view consistent; a failed replan can always return; composing and failing leave the briefing as it was; a late completion ends no other operation, and a replacement is whole |
| `session-store` | two clients, one script, seven commands, symmetric clients | no lost update, and the refinement of `AtomicSession` |
| `web` | five scripts of two or three scenes: a revision, a change of the remaining scenes, a rebuild, and a script of another run | session, script and player belong together; nothing is left locked; every replacement that can be prepared commits; a follow-up without replacement changes nothing |
| `raw` | two processes, two artifacts of the same bytes, three policies, symmetric | bytes, occurrences, tombstones and log in every interleaving |
| `ingestion` | three calls, four documents, three of one URL | the revision history is a chain; answers are true; jobs of living processes finish |
| `runtime` | two acquisitions, an https and an http target of two origins, limits of one or two | leases, attempts, no downgrade, finality of a stop, and termination |
| `briefing` | two runs, the second replacing the first at any stage; one transport retry, one repair | a run completes with one lineage and as it was asked; every run is answered; the page shows the last run; provider calls stay in the budgets; a cancelled run goes nowhere; loading ends |
| `acquisition` | two executions, two request ids, six bodies, three lifecycle policies, six offers of credentials, one worker | kept bytes are reported and there or tombstoned; nothing is kept without the consent it needs; a document is of its bytes, and no hint overrides a page |
| `dossier` | two processes, two events, nine inputs, two revisions | one gapless history for each event, change sets that lead there, an unchanged answer that is current, no half migration, and the refinement of `DossierHistory` |
| `map` | five scenes, five motions, five effects of a mounted surface | what a ready map draws, marks and is centred on is of the scene shown, but for a route drawn before while overlays are pending; routes and centres fit round the antimeridian; only another scene or a request moves the camera |
| `map-refresh` (violation) | one impact path replaced under its id | overlays of a replaced script stay |
| `content` | fourteen questions of every intent; corpora of up to three of twelve records, or two of them with the places of the local fixture; both routes; five preferences | validators refuse what is named and nothing else; scripts are grounded and disclose; gaps are real |

Why the bounds are enough: every session hazard needs one operation
in flight and one that is over and completes late; the reducer tells identifiers
apart by equality only, so two of them do, and
three scenes have a first, a middle and a last one; two scripts that replace one
another give every mapping a target that survives and one that does not. Races
in the stores are between two writers; a third adds no new order of two
transactions on one row, and ingestion has three calls because a chain of three
revisions is the shortest with a middle. In the runtime two targets make both
kinds of loop and a downgrade possible. A page has one run to be replaced and one
that replaces it; retries and repairs have a first and a last with a budget of
one. The dossier inputs make every outcome of the builder and every field of a
change set; a third revision would repeat what the second does, and the proof
needs no bound. Of the map's scenes one crosses the antimeridian, one aims at
an area with bounds, one does not resolve and one holds the view, so that every
pair of kinds follows one another; the proofs are for any routes and targets. In
the content run three records suffice for every reserved place to be contested;
its quotas (`MaxPerSource` 3, `MaxPerSection` 6, `MaxItems` 7, `MaxExcerpts` 6)
are the code's 3, 8, 30 and 21 scaled down, so that the five places of the
fixture with two records more exceed all four.

Deadlock is checked except in `runtime`, `briefing`, `acquisition` and
`content`, whose acquisitions, runs and briefings really end and leave nothing to
do.

Fairness. Three modules state it. `SafeRuntime` assumes that timers fire
(`WF(DeadlinePasses)`) and that a step that needs nobody outside the process, such
as the rejection of an await by its timer, happens (`WF(Timely)`); it assumes
nothing of resolver, server or caller. `PersistentIngestion` assumes that the
pipeline's promise settles and that a living process goes on; it assumes nothing
of storage, so a job may end in a call that could not record its failure.
`BriefingRun` assumes that the first effect of a mounted page runs and that
what a run awaits settles: providers have a timeout, the back-off is a timer, and
the analyzer is synchronous behind its promise. `LoadingEnds` needs the clock not
to be set back (`ClockStepsBack = FALSE` in the run; section 6).

## 5. Proofs

TLAPS checks, for every value of the constants that satisfies the modules'
assumptions:

- `SessionReducerProofs`: `Accepted` preserves the session invariant, one lemma per
  command. `SessionInv` joins what the schema checks with what it leaves to the
  reducer: an operation exists exactly while one runs, a status to return to
  exactly while composing, and that status fits the manual view. The last part is
  what makes a rollback acceptable to the schema, and none of the parts is
  inductive alone: the rollback reads the remembered status, the manual view and
  the operation together.
- `SessionProofs`: type correctness, `SessionCoherent`,
  `FailureCanAlwaysReturn` and, with the frozen session added to the same
  invariant, `ReturnsToOpened`; that the scene moves only by navigation, a committed
  replacement or a reset. They hold for any callers, also those that name no
  scene of the script; `OnlyResetLeavesTheScript` is proved for callers that name it
  (`CallersNameScenes`). `OwnersAloneComplete` rests on `OperationBelongs` for the operations, since a
  command that starts one finds none running, and for the replaced script on what the
  visited list keeps of the scenes that survive: the filter is a recursion over the list, and its
  lemmas are proved by induction over its length. Every copy a client of the
  repository holds satisfies `SessionInv`, and the repository implements
  `AtomicSession`: initial states map to initial states, and a save that passes the
  comparison is a step of the promise because the copy it was reduced from equals
  the stored session.
- `WebProofs`, the application: session, script and player stay together
  (`SessionOnScript`), a navigation has reached the session once the effects have run
  (`NavigationIsFollowed`), whatever replacement can be prepared over a reachable
  session commits (`ReplacementsCommit`), and a follow-up without one changes
  nothing (`UnappliedKeepsBriefing`), for any scripts, scenes and classifications.
  The invariant `WebInv` says that between two events the session is bound to the
  script shown and runs no operation, that the player counts the scenes of the
  script it was rendered with last, and that a navigation the session does not know
  yet is one it will take. None of them is inductive alone: the effect that tells the session about
  a navigation is accepted only because the scene it names is the one its script has
  at that index, and the script of the player is the session's only because no
  follow-up is left half applied. The longest lemmas follow `executeFollowUp` through
  the reducer and show that every mapping it prepares names a scene of the
  replacement.
- `WebProofs`, the map: what a ready map draws, marks and is centred on is of its
  scene, the route drawn unless overlays are pending (`SceneIsHeld`), and only
  news sets it in motion (`OnlyNewsMoves`), for any scenes. The invariant says that
  the route drawn is that of the snapshot whenever nothing is pending; it ties the
  identity of the last motion to the scene and request shown, and the geography
  that a late moveend projects again to the path shown. `SceneIsHeld` has the
  hypothesis that scenes with one id are one scene (`OwnIds`): without it the code
  does not do it (`map-refresh`), and `OnlyNewsMoves` is proved without it.
  `GeometryIsSound` is proved for every route and every set of targets that
  `validGeometry` lets through: cutting a route is a recursion over its points,
  so its legs are short by induction over them; the frame is all but the longest gap
  between the stretches of a circle cut at 0, so each target lies beside the gap,
  and a narrower frame round the same targets would leave a longer gap.
- `PersistenceProofs`: the tables of raw persistence agree (`RawInv`), acquisition
  ids are not rebound, a held copy is removed by
  nothing but a delete call that checked an earlier copy of it
  (`OnlyStaleDeletesBreakHold`), tombstones stay. The
  invariant says in addition that what a process checked before its transaction
  is the stored row as long as the artifact was never deleted: this is exactly
  what fails for a second copy. Of ingestion: revisions of a URL are a chain with
  one latest, documents and jobs agree, answers are true, history only grows. The
  strengthening ties the phase of a call to the row of its job.
- `SafeRuntimeProofs`: counters are leases (as cardinalities of the sets of
  acquisitions that hold one), limits hold, connections are made under a lease,
  targets are spared, https is kept, a stop is final. The invariant ties the phase
  of an acquisition to its lease and its connection.
- `SourceAcquisitionProofs`: what an acquisition keeps is reported and is there or
  tombstoned (`StoredIsReported`), what was acquired and kept was granted
  (`AccessIsGranted`), a document says what its page says (`DocumentsAreFaithful`), for
  any executions, workers, policies and pages. The invariant `AcqInv` is what an
  execution carries from one await to the next: the access it decided on, the
  body it then received and the copy it kept of it, of which the workers meanwhile
  bury no more than they record. What governance checks in which order and which
  candidate the ingestion selects are lemmas about the operators. The assumptions are
  that the evidence of a page is of the kinds the HTML parser finds, that hints are
  of the fields that take hints, that the hash of a body is its own, and that
  no policy or tombstone is the value for none.
- `DossierStoreProofs`: one gapless history for each event, true change sets and
  whole migrations, for any number of processes, inputs and revisions. The
  invariant adds what a process in the middle of a call knows: the row it found
  is there, and what it is about to save follows a revision that is; both last
  because rows keep their event and no revision is removed, and the comparison in
  the transaction does the rest. A second invariant (`NewsInv`) says that a revision
  differs from the one it follows and that a call which is about to answer
  "unchanged" compared with a revision that is still there (`RevisionsAreTrue`). With
  both the store implements `DossierHistory` (`HistoriesOnlyGrow`): the mapping
  counts the revisions of an event and picks them by number, so a save appends one
  snapshot to one history, and every other step changes none.
- `BriefingProofs`, the run: every safety property of the briefing run, for any number of
  runs, whatever their ports and the provider answer. A run completes with one
  lineage and as it was asked (`CompletedIsSound`), and the page shows the run it
  started last (`ShownIsLatest`): the invariant says at which stage a run may have
  met something foreign and still go on (only between a context of another contract
  and the compiler that refuses it), and when the use of an impact analysis is
  recorded. A generation stays within its two budgets and its audit accounts for
  every request (`BudgetsHold`): the invariant counts the requests as those of the
  finished rounds and the tries of this one. A cancelled run stops
  (`CancelledRunsStop`). Every run is answered (`RunsAreAnswered`), from the
  assumption that the clock is not set back: the invariant says what the receipt
  holds at each stage, so that one of the two finishes satisfies the schema.
- `BriefingProofs`, the content: whatever is asked and found, a package that says
  primary, contradicting or quantitative evidence is missing says so truly
  (`GapsAreReal`). The ranking puts every relevant candidate at exactly one place,
  because the merits are totally ordered and differ; what is reserved of a kind comes
  among the first three, where no limit is reached, and the keys of the three kinds
  never equal one another. And whatever is
  asked, found and preferred, a script stands on a primary document and two
  independent ones and tells what is missing (`ScriptsAreHonest`): the section on
  what is uncertain opens a scene of its own for each of the three lengths a contract
  has, by the rules as in the local proposal, and nothing else on the way to the script
  takes its disclosure. And each of the two validators refuses only what is named
  (`RefusalsAreKnown`): a plan the assembler makes of answerable evidence is valid
  exactly when its contract has a section on what is uncertain; a local proposal is
  refused in four cases only (its places are not those of the evidence, nothing is
  measured, a map it requires is optional and no impact is planned, an impact is
  through an unknown channel); and a valid plan becomes a script unless its evidence is
  undocumented or a map must move and may not, or has nowhere to go. The proof goes
  through the validators clause by clause and the bounds they check: the assembler
  shows one visual at most and a local proposal one per group of sections, of five,
  so the limits on scenes and causal steps are never reached. The invariant `ContentInv` says that what a stage was
  handed is what the one before it makes. The assumptions are that each limit of the
  selection is at least the three places that are reserved (`ContextAssumption`; the
  code has 3, 8, 30 and 21), that a question has finitely many search terms and
  that records are numbered (`ContentAssumption`). The 120 candidates the provider
  cuts at are no limit in the model, so of more the theorem says nothing; the
  characters of a package cannot run out (21 excerpts of 700 of 24000).

The assumptions of the modules are on constants only (nothing is assumed of an
operator or of a state), each named `...Assumption` where the constants are declared,
and TLC evaluates every one in a run.

Model-checked only: the liveness properties `JobsFinish`, `AcquisitionsEnd` and
`LoadingEnds` (liveness under fairness is out of the prover's reach).
No module uses a recursive operator; foldings are the community modules' or
recursive functions. Where a proof needs an induction (least elements, routes,
visited lists, selections) it is one over sets of naturals, from the library's
theorem that they are well founded.

## 6. Disagreements found

`map-refresh` is checked: the surface gives the scene id as the fingerprint of
its overlays, so a script replaced under the same scene id keeps the route drawn
before, which the renderer's design says is refreshed.

Noted while modelling, without a run of their own; the models do what the code
does, and the properties are stated so that they hold with it:

Session and page
- `RESET_SESSION` takes the first visited scene for the opening one, also after a
  replacement that dropped it (`session-reducer.ts:384`), and so
  leaves the script; `OnlyResetLeavesTheScript` says that no other command does.
- The schema refuses a replacement while a manual view returns to the briefing
  (`session-reducer.ts:292`); the page cannot get there (`ReplacementsCommit`).
- After a replacement that restarts the briefing the session follows the player's
  old index (`App.tsx:94`); a refused command throws out of a state updater
  (`use-follow-up-session-controller.ts:165`); replay and previous at the closing
  move the player only (`App.tsx:121`).
- The reducer does not compare the scene identifier of a jump with its index;
  the page always sends matching ones (`SessionOnScript`).

Stores
- A delete decides on a record it read before its transaction, so a held copy
  that was stored in between is removed, and an artifact stored again is
  reported already deleted (`raw-persistence/service.ts:206`, `:242`;
  `OnlyStaleDeletesBreakHold` says that nothing else breaks a hold).
- A duplicate of an older revision is answered with the number of the latest
  revision of its URL (`persistence/service.ts:277`).
- Any SQL error while a dossier is saved is answered `REVISION_CONFLICT`
  (`dossier/sqlite-adapter.ts:155`), so a caller cannot tell a full disk from another
  writer. A build that repeats a claim or a link of the latest revision fails its
  validation, though it says nothing new (`builder.ts:510`).
- The second of two processes that open an old database fails with
  `MIGRATION_FAILED` although the database is then current; two events first
  built at one instant share a dossier id, and the second is a conflict
  (`builder.ts:374`).
- The order of a dossier's input makes another revision (`builder.ts:128`), though
  ADR-007 says the fingerprint excludes it; change sets may be empty. A claim
  refuted by a document that makes no claim itself is no contradiction, so a
  dossier may be ready with a contradicted claim.

Acquisition
- The back-off sleeps with its lease held (`safe-runtime.ts:390`); the rate
  tables fail closed when they are full (`admission.ts:58`).
- A page that begins with a byte order mark, is blank or is too long rejects the
  acquisition after the runtime succeeded (`runtime-source-connector.ts:151`).
- An HTML fragment without a doctype is taken for XML and matches no capability;
  a date that was selected and cannot be read fails the document though another
  candidate could be read; a character reference beyond Unicode fails the
  mapping (`normalize.ts:35`); a `ScholarlyArticle` is typed as an article
  (`capabilities.ts:109`); the warnings of hints are lost on failure.

Briefing
- When the wall clock is set back during a run, the receipt of every outcome is
  invalid, `finish` throws, `execute` rejects, and the hook, which does not catch,
  stays loading (`briefing-run-service.ts`, `use-local-briefing-bootstrap.ts`).
- A personalized question whose subject is unclear is asked for a personal
  context it has (`briefing-run-service.ts:149`). The audit's repair count
  counts the transport retries of a repair.
- A comparison planned by the rules is always invalid, for its contract asks for
  no uncertainty section, and the assembler answers "ready" for that plan and
  "partial" for every valid one; the proposal of the local route is refused for
  four named reasons (`ProposalsAreRefusedFor`). Whichever it is, the answer is
  `REPAIR_EXHAUSTED` (`coordinator.ts:99`, `:147`): the local provider answers the
  one repair with the same proposal.
- A script with an item that names no document is refused by its own validator,
  and so is a map visual in automatic mode with animation disabled.
- All statements of a dossier share one duplicate key, so one of them is selected
  (`selection.ts:73`); what the selection reports as excluded duplicates includes
  the reserved items. Quantitative and timeline sections of a contract never
  reach a plan.
- A personal scenario bound to the uncertainty step replaces its kind, and with
  it the scene that names the gaps (`Disclosed` excepts it; `script/compiler.ts`).

Map
- A scene that holds the view or does not resolve neither stops the running
  motion nor, in the latter case, clears the overlays of the scene before; any
  error event before the load fails the map; overlays applied while the style is
  not loaded are not drawn and the route of the scene before stays, until the style
  is found loaded for another scene (`maplibre-adapter.ts:130`; `map.pending` in
  `SceneIsHeld`). The frame of several targets gives the camera only its
  middle; the zoom is that of the framing (`camera-target-resolver.ts:36`).

## 7. Not modelled

- Impact analysis (`src/personalization/`): a pure assessment; what matters to
  control is its outcome, which `BriefingRun` takes from a set.
- Generation data (`src/generation/` schemas, hydration): pure records.
- Network policy (`src/source-acquisition-security/` addresses, sockets): data
  without state, and I/O.
- Domain and validation (`src/domain/`, `src/validation/`): schemas.
- Rendering, texts, fingerprints' bytes and timestamps, everywhere.

`PROJECT.json` names each component with what is left out of it and why, and
every hazard with the properties that cover it.
