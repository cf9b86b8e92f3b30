-------------------------- MODULE DossierStoreProofs --------------------------
(***************************************************************************)
(* An event has one history of its dossier, whatever processes read before *)
(* others save, for any number of processes, inputs and revisions.  The    *)
(* invariant adds to OneHistory what a process in the middle of a call     *)
(* knows: the row it found is still there, and what it is about to save    *)
(* follows a revision that is.  Both last, for rows keep their event and   *)
(* no revision is ever removed.                                            *)
(*                                                                         *)
(* A second invariant says that what a process is about to save is news,   *)
(* and true of what it found; with it the store implements the promise of  *)
(* DossierHistory, one step of a call at a time.                           *)
(***************************************************************************)
EXTENDS DossierStore, FiniteSetTheorems, TLAPS

Fields == {"at", "read", "input", "latest", "built", "outcome"}
States == {"closed", "failed", "migrating", "ready", "listing", "saving"}

\* A process is in one of its states.
ProcessOK ==
    /\ process = [p \in Processes |-> process[p]]
    /\ \A p \in Processes : DOMAIN process[p] = Fields /\ process[p].at \in States

\* The migrations that have been run are the first ones, and who is at work has
\* seen all of them run.
Working == {"ready", "listing", "saving"}
SchemaKnown(p) ==
    /\ process[p].at = "migrating" =>
          process[p].read \in 0..(Latest - 1) /\ 1..process[p].read \subseteq schema
    /\ process[p].at \in Working => schema = 1..Latest
SchemaInv ==
    /\ \E w \in Nat : schema = 1..w
    /\ \A p \in Processes : SchemaKnown(p)

\* A revision is the first of its dossier, or there is the one it was built from.
Follows(v) ==
    /\ v.number \in Nat \ {0}
    /\ v.after = v.number - 1
    /\ \/ v.number = 1
       \/ \E u \in revisions :
             /\ u.dossier = v.dossier /\ u.event = v.event /\ u.number = v.after
             /\ v.changes = Changes(u.snapshot, v.snapshot)

FoundRow(p) ==
    process[p].at = "listing" =>
        /\ process[p].input \in Inputs
        /\ \/ process[p].latest = None
           \/ \E r \in dossiers :
                 r.dossier = process[p].latest /\ r.event = process[p].input.event

WillFollow(p) == process[p].at = "saving" => Follows(process[p].built)

TablesInv ==
    /\ \A r \in dossiers : r.number \in Nat \ {0}
    /\ \A v \in revisions : Follows(v)
    /\ OneHistory

CallsInv == \A p \in Processes : FoundRow(p) /\ WillFollow(p)

StoreInv == ProcessOK /\ SchemaInv /\ TablesInv /\ CallsInv

-----------------------------------------------------------------------------
\* The version of a database is the number of its migrations.
LEMMA VersionIsLast == \A w \in Nat : Version(1..w) = w
<1> SUFFICES ASSUME NEW w \in Nat PROVE Version(1..w) = w
  OBVIOUS
<1>1. CASE w = 0
  BY <1>1 DEF Version
<1>2. CASE w # 0
  <2>1. w \in 1..w /\ \A v \in 1..w : v <= w
    BY <1>2
  <2>2. \A u \in 1..w : (\A v \in 1..w : v <= u) => u = w
    BY <2>1
  <2>3. 1..w # {}
    BY <2>1
  <2> QED BY <2>1, <2>2, <2>3 DEF Version
<1> QED BY <1>1, <1>2

\* Nothing is stored, and nobody calls.
LEMMA InitHolds == Init => StoreInv
<1> SUFFICES ASSUME Init PROVE StoreInv
  OBVIOUS
<1>1. process = [p \in Processes |-> Closed]
  BY DEF Init
<1>2. DOMAIN Closed = Fields /\ Closed.at = "closed"
  BY DEF Closed, Fields
<1>3. \A p \in Processes : process[p] = Closed
  BY <1>1
<1>4. ProcessOK
  BY <1>1, <1>2, <1>3 DEF ProcessOK, States
<1>5. SchemaInv
  <2>1. PICK v \in 0..(Latest + 1) : schema = 1..v
    BY DEF Init
  <2>2. v \in Nat
    BY DEF Latest
  <2>3. \A p \in Processes : SchemaKnown(p)
    BY <1>2, <1>3 DEF SchemaKnown, Working
  <2> QED BY <2>1, <2>2, <2>3 DEF SchemaInv
<1>6. TablesInv
  BY DEF Init, TablesInv, OneHistory
<1>7. CallsInv
  BY <1>2, <1>3 DEF CallsInv, FoundRow, WillFollow
<1> QED BY <1>4, <1>5, <1>6, <1>7 DEF StoreInv

-----------------------------------------------------------------------------
\* A step of one process that leaves the tables alone: what has to be known of
\* its new state, for the other processes know what they knew.
LEMMA ProcessGoes ==
    ASSUME StoreInv, NEW p \in Processes, NEW state,
           DOMAIN state = Fields, state.at \in States,
           Becomes(p, state)
    PROVE  /\ ProcessOK'
           /\ process'[p] = state
           /\ \A q \in Processes \ {p} : process'[q] = process[q]
  BY DEF StoreInv, ProcessOK, Becomes

\* The tables stay sound where nothing is written.
LEMMA TablesStay ==
    ASSUME StoreInv, UNCHANGED <<dossiers, revisions>>
    PROVE  TablesInv'
  BY DEF StoreInv, TablesInv, OneHistory, Follows, History

\* So do the calls, if the one that moves is sound.
LEMMA CallsStay ==
    ASSUME StoreInv, UNCHANGED <<dossiers, revisions>>, NEW p \in Processes,
           \A q \in Processes \ {p} : process'[q] = process[q],
           FoundRow(p)', WillFollow(p)'
    PROVE  CallsInv'
<1> SUFFICES ASSUME NEW q \in Processes PROVE FoundRow(q)' /\ WillFollow(q)'
  BY DEF CallsInv
<1>1. CASE q = p
  BY <1>1
<1>2. CASE q # p
  BY <1>2 DEF StoreInv, CallsInv, FoundRow, WillFollow, Follows
<1> QED BY <1>1, <1>2

\* So does what is known of the schema.
LEMMA SchemaStays ==
    ASSUME StoreInv, UNCHANGED schema, NEW p \in Processes,
           \A q \in Processes \ {p} : process'[q] = process[q],
           SchemaKnown(p)'
    PROVE  SchemaInv'
<1>1. \A q \in Processes : SchemaKnown(q)'
  BY DEF StoreInv, SchemaInv, SchemaKnown
<1> QED BY <1>1 DEF StoreInv, SchemaInv

\* A process that does nothing, or is ready for its next call.
LEMMA Resting ==
    ASSUME StoreInv, NEW p \in Processes, NEW state,
           DOMAIN state = Fields,
           state.at \in {"closed", "failed"}
             \/ (state.at = "ready" /\ process[p].at \in Working),
           Becomes(p, state), UNCHANGED Database
    PROVE  StoreInv'
<1>1. /\ ProcessOK' /\ process'[p] = state
      /\ \A q \in Processes \ {p} : process'[q] = process[q]
  BY ProcessGoes DEF States
<1>2. UNCHANGED <<dossiers, revisions>> /\ UNCHANGED schema
  BY DEF Database
<1>3. SchemaKnown(p)'
  BY <1>1, <1>2 DEF SchemaKnown, Working, StoreInv, SchemaInv
<1>4. FoundRow(p)' /\ WillFollow(p)'
  BY <1>1 DEF FoundRow, WillFollow
<1> QED BY <1>1, <1>2, <1>3, <1>4, SchemaStays, TablesStay, CallsStay DEF StoreInv

\* A call that is over has the fields of a call, and is over.
LEMMA ReadyIs ==
    \A outcome, revision :
        DOMAIN Ready(outcome, revision) = Fields /\ Ready(outcome, revision).at = "ready"
  BY DEF Ready, Closed, Fields

-----------------------------------------------------------------------------
\* A process that opens the database: it knows the version before the lock.
LEMMA OpenKeeps ==
    ASSUME StoreInv, NEW p \in Processes, Open(p)
    PROVE  StoreInv'
<1> DEFINE reading == [Closed EXCEPT !.at = "migrating", !.read = Version(schema)]
<1>1. PICK w \in Nat : schema = 1..w
  BY DEF StoreInv, SchemaInv
<1>2. Version(schema) = w
  BY <1>1, VersionIsLast
<1>3. UNCHANGED <<dossiers, revisions>> /\ UNCHANGED schema /\ UNCHANGED Database
  BY DEF Open, Database
<1>4. CASE w = Latest
  <2>1. Becomes(p, Ready("opened", None))
    BY <1>2, <1>4 DEF Open
  <2>2. /\ ProcessOK' /\ process'[p] = Ready("opened", None)
        /\ \A q \in Processes \ {p} : process'[q] = process[q]
    BY <2>1, ReadyIs, ProcessGoes DEF States
  <2>3. SchemaKnown(p)' /\ FoundRow(p)' /\ WillFollow(p)'
    BY <2>2, <1>1, <1>3, <1>4, ReadyIs DEF SchemaKnown, FoundRow, WillFollow
  <2> QED BY <1>3, <2>2, <2>3, SchemaStays, TablesStay, CallsStay DEF StoreInv
<1>5. CASE w > Latest
  <2>1. Becomes(p, [Closed EXCEPT !.at = "failed"])
    BY <1>2, <1>5 DEF Open, Latest
  <2>2. LET closed == [Closed EXCEPT !.at = "failed"] IN
        DOMAIN closed = Fields /\ closed.at = "failed"
    BY DEF Closed, Fields
  <2> QED BY <1>3, <2>1, <2>2, Resting
<1>6. CASE w < Latest
  <2>1. Becomes(p, reading)
    BY <1>2, <1>6 DEF Open, Latest
  <2>2. DOMAIN reading = Fields /\ reading.at = "migrating" /\ reading.read = w
    BY <1>2 DEF Closed, Fields
  <2> HIDE DEF reading
  <2>3. /\ ProcessOK' /\ process'[p] = reading
        /\ \A q \in Processes \ {p} : process'[q] = process[q]
    BY <2>1, <2>2, ProcessGoes DEF States
  <2>4. SchemaKnown(p)' /\ FoundRow(p)' /\ WillFollow(p)'
    BY <2>2, <2>3, <1>1, <1>3, <1>6 DEF SchemaKnown, FoundRow, WillFollow, Working, Latest
  <2> QED BY <1>3, <2>3, <2>4, SchemaStays, TablesStay, CallsStay DEF StoreInv
<1> QED BY <1>4, <1>5, <1>6 DEF Latest

\* The migrations run all of what is missing or nothing: what has been run since
\* the version was read makes them fail.
LEMMA MigrateKeeps ==
    ASSUME StoreInv, NEW p \in Processes, Migrate(p)
    PROVE  StoreInv'
<1>1. PICK w \in Nat : schema = 1..w
  BY DEF StoreInv, SchemaInv
<1>2. /\ process[p].read \in 0..(Latest - 1) /\ 1..process[p].read \subseteq schema
  BY DEF Migrate, StoreInv, SchemaInv, SchemaKnown
<1>3. UNCHANGED <<dossiers, revisions>>
  BY DEF Migrate
<1>4. CASE /\ Missing(process[p].read) \cap schema = {}
           /\ schema' = schema \cup Missing(process[p].read)
           /\ Becomes(p, Ready("opened", None))
  <2> DEFINE r == process[p].read
  <2>1. r \in 0..2 /\ Missing(r) = (r + 1)..3
    BY <1>2 DEF Latest, Missing
  <2>2. r <= w
    <3>1. CASE r = 0
      BY <3>1
    <3>2. CASE r # 0
      <4>1. r \in 1..r
        BY <2>1, <3>2
      <4> QED BY <4>1, <1>1, <1>2
    <3> QED BY <3>1, <3>2
  <2>3. w <= r
    <3> SUFFICES ASSUME w > r PROVE FALSE
      BY <2>1
    <3>1. r + 1 \in (r + 1)..3 /\ r + 1 \in 1..w
      BY <2>1
    <3> QED BY <3>1, <2>1, <1>1, <1>4
  <2>4. w = r
    BY <2>1, <2>2, <2>3
  <2>5. schema' = 1..Latest
    BY <2>1, <2>4, <1>1, <1>4 DEF Latest
  <2>6. /\ ProcessOK' /\ process'[p] = Ready("opened", None)
        /\ \A q \in Processes \ {p} : process'[q] = process[q]
    BY <1>4, ReadyIs, ProcessGoes DEF States
  <2>7. \A q \in Processes : SchemaKnown(q)'
    <3> SUFFICES ASSUME NEW q \in Processes PROVE SchemaKnown(q)'
      OBVIOUS
    <3>1. CASE q = p
      BY <3>1, <2>5, <2>6, ReadyIs DEF SchemaKnown
    <3>2. CASE q # p
      <4>1. SchemaKnown(q) /\ process'[q] = process[q]
        BY <3>2, <2>6 DEF StoreInv, SchemaInv
      <4>2. schema \subseteq schema'
        BY <1>4
      <4> QED BY <4>1, <4>2, <2>5 DEF SchemaKnown
    <3> QED BY <3>1, <3>2
  <2>8. Latest \in Nat
    BY DEF Latest
  <2>9. SchemaInv'
    BY <2>5, <2>7, <2>8 DEF SchemaInv
  <2>10. FoundRow(p)' /\ WillFollow(p)'
    BY <2>6, ReadyIs DEF FoundRow, WillFollow
  <2> QED BY <1>3, <2>6, <2>9, <2>10, TablesStay, CallsStay DEF StoreInv
<1>5. CASE UNCHANGED schema /\ Becomes(p, [Closed EXCEPT !.at = "failed"])
  <2>1. LET closed == [Closed EXCEPT !.at = "failed"] IN
        DOMAIN closed = Fields /\ closed.at = "failed"
    BY DEF Closed, Fields
  <2> QED BY <1>3, <1>5, <2>1, Resting DEF Database
<1> QED BY <1>4, <1>5 DEF Migrate

-----------------------------------------------------------------------------
\* Looking for the dossier of an event keeps the invariant.
LEMMA FindKeeps ==
    ASSUME StoreInv, NEW p \in Processes, Find(p)
    PROVE  StoreInv'
<1>1. PICK input \in Inputs :
          Becomes(p, [Closed EXCEPT !.at = "listing", !.input = input,
                        !.latest = IF RowOf(input.event) = {} THEN None
                                   ELSE (CHOOSE r \in RowOf(input.event) : TRUE).dossier])
  BY DEF Find
<1> DEFINE state == [Closed EXCEPT !.at = "listing", !.input = input,
                        !.latest = IF RowOf(input.event) = {} THEN None
                                   ELSE (CHOOSE r \in RowOf(input.event) : TRUE).dossier]
<1>2. /\ DOMAIN state = Fields /\ state.at = "listing" /\ state.input = input
      /\ state.latest = IF RowOf(input.event) = {} THEN None
                        ELSE (CHOOSE r \in RowOf(input.event) : TRUE).dossier
  BY DEF Closed, Fields
<1> HIDE DEF state
<1>3. UNCHANGED <<dossiers, revisions>> /\ UNCHANGED schema
  BY DEF Find, Database
<1>4. /\ ProcessOK' /\ process'[p] = state
      /\ \A q \in Processes \ {p} : process'[q] = process[q]
  BY <1>1, <1>2, ProcessGoes DEF States, state
<1>5. SchemaKnown(p)'
  BY <1>2, <1>3, <1>4 DEF Find, SchemaKnown, Working, StoreInv, SchemaInv
<1>6. FoundRow(p)'
  <2>1. CASE RowOf(input.event) = {}
    BY <2>1, <1>2, <1>3, <1>4 DEF FoundRow
  <2>2. CASE RowOf(input.event) # {}
    <3>1. PICK r \in RowOf(input.event) : r = (CHOOSE x \in RowOf(input.event) : TRUE)
      BY <2>2
    <3>2. r \in dossiers /\ r.event = input.event /\ r.dossier = state.latest
      BY <2>2, <3>1, <1>2 DEF RowOf
    <3> QED BY <3>2, <1>2, <1>3, <1>4 DEF FoundRow
  <2> QED BY <2>1, <2>2
<1>7. WillFollow(p)'
  BY <1>2, <1>4 DEF WillFollow
<1> QED BY <1>3, <1>4, <1>5, <1>6, <1>7, SchemaStays, TablesStay, CallsStay DEF StoreInv

-----------------------------------------------------------------------------
\* The last revision of a dossier that has a row is there, of the row's event.
LEMMA LastIsThere ==
    ASSUME TablesInv, NEW r \in dossiers
    PROVE  LET last == LastOf(r.dossier) IN
           last \in revisions /\ last.dossier = r.dossier /\ last.event = r.event
<1> DEFINE H == History(r.dossier)
<1>1. {v.number : v \in H} = 1..r.number /\ r.number \in Nat \ {0}
  BY DEF TablesInv, OneHistory
<1>2. r.number \in 1..r.number
  BY <1>1
<1>3. PICK top \in H : top.number = r.number
  BY <1>1, <1>2
<1>4. \A s \in H : s.number <= top.number
  BY <1>1, <1>3
<1>5. LastOf(r.dossier) \in H
  BY <1>3, <1>4 DEF LastOf
<1>6. \A v \in H : v \in revisions /\ v.dossier = r.dossier
  BY DEF History
<1>7. \A v \in H : v.event = r.event
  <2> SUFFICES ASSUME NEW v \in H PROVE v.event = r.event
    OBVIOUS
  <2>1. PICK s \in dossiers : s.dossier = v.dossier /\ s.event = v.event
    BY <1>6 DEF TablesInv, OneHistory
  <2>2. s = r
    BY <2>1, <1>6 DEF TablesInv, OneHistory
  <2> QED BY <2>1, <2>2
<1> QED BY <1>5, <1>6, <1>7

\* A revision built from what the tables held follows what they hold.
LEMMA BuiltFollows ==
    ASSUME TablesInv, NEW input \in Inputs, NEW previous, NEW id,
           previous = None \/ (previous \in revisions /\ previous.event = input.event)
    PROVE  Follows(Revision(Drafts[input], previous, id))
<1> DEFINE built == Revision(Drafts[input], previous, id)
<1>1. Drafts[input].event = input.event
  BY DEF Drafts, Draft
<1>2. CASE previous = None
  BY <1>2 DEF Revision, Follows
<1>3. CASE previous # None
  <2>1. previous \in revisions /\ previous.event = input.event
    BY <1>3
  <2>2. previous.number \in Nat \ {0}
    BY <2>1 DEF TablesInv, Follows
  <2>3. /\ built.dossier = previous.dossier /\ built.event = input.event
        /\ built.number = previous.number + 1 /\ built.after = previous.number
        /\ built.changes = Changes(previous.snapshot, built.snapshot)
    BY <1>1, <1>3 DEF Revision
  <2> HIDE DEF built
  <2>4. Follows(built)
    BY <2>1, <2>2, <2>3 DEF Follows
  <2> QED BY <2>4 DEF built
<1> QED BY <1>2, <1>3

\* The revision a listed dossier is built from is there, of the event asked for.
PreviousOf(p) ==
    IF process[p].latest = None THEN None ELSE LastOf(process[p].latest)

\* The revision a build starts from is none, or a stored one of its event.
LEMMA PreviousIsThere ==
    ASSUME StoreInv, NEW p \in Processes, process[p].at = "listing"
    PROVE  /\ process[p].input \in Inputs
           /\ \/ PreviousOf(p) = None
              \/ PreviousOf(p) \in revisions /\ PreviousOf(p).event = process[p].input.event
<1>1. FoundRow(p) /\ TablesInv
  BY DEF StoreInv, CallsInv
<1>2. CASE process[p].latest = None
  BY <1>1, <1>2 DEF FoundRow, PreviousOf
<1>3. CASE process[p].latest # None
  <2>1. PICK r \in dossiers :
            r.dossier = process[p].latest /\ r.event = process[p].input.event
    BY <1>1, <1>3 DEF FoundRow
  <2> QED BY <1>1, <1>3, <2>1, LastIsThere DEF FoundRow, PreviousOf
<1> QED BY <1>2, <1>3

\* Listing and building keeps the invariant.
LEMMA ListAndBuildKeeps ==
    ASSUME StoreInv, NEW p \in Processes, ListAndBuild(p)
    PROVE  StoreInv'
<1> DEFINE input == process[p].input
           previous == IF process[p].latest = None THEN None ELSE LastOf(process[p].latest)
           outcome == Outcome(input, Drafts[input], previous)
           built(id) == Revision(Drafts[input], previous, id)
           saving(id) == [process[p] EXCEPT !.at = "saving", !.outcome = outcome,
                                            !.built = built(id)]
           unchanged == [Ready(outcome, previous) EXCEPT !.input = input]
<1>1. /\ process[p].at = "listing" /\ UNCHANGED Database
      /\ DOMAIN process[p] = Fields
  BY DEF ListAndBuild, StoreInv, ProcessOK
<1>2. PICK id \in DossierIds :
          \/ Becomes(p, saving(id))
          \/ Becomes(p, unchanged)
          \/ Becomes(p, Ready(outcome, None))
  BY DEF ListAndBuild
<1>3. process[p].at \in Working
  BY <1>1 DEF Working
<1>4. CASE Becomes(p, Ready(outcome, None))
  BY <1>1, <1>3, <1>4, ReadyIs, Resting
<1>5. CASE Becomes(p, unchanged)
  <2>1. DOMAIN unchanged = Fields /\ unchanged.at = "ready"
    BY ReadyIs DEF Fields
  <2> QED BY <1>1, <1>3, <1>5, <2>1, Resting
<1>6. CASE Becomes(p, saving(id))
  <2>1. DOMAIN saving(id) = Fields /\ saving(id).at = "saving" /\ saving(id).built = built(id)
    BY <1>1 DEF Fields
  <2>2. input \in Inputs
        /\ (previous = None \/ (previous \in revisions /\ previous.event = input.event))
    BY <1>1, PreviousIsThere DEF PreviousOf
  <2> HIDE DEF input, previous
  <2>3. Follows(built(id))
    BY <2>2, BuiltFollows DEF StoreInv
  <2> HIDE DEF built, outcome, saving
  <2>4. /\ ProcessOK' /\ process'[p] = saving(id)
        /\ \A q \in Processes \ {p} : process'[q] = process[q]
    BY <1>6, <2>1, ProcessGoes DEF States
  <2>5. UNCHANGED <<dossiers, revisions>> /\ UNCHANGED schema
    BY <1>1 DEF Database
  <2>6. SchemaKnown(p)'
    BY <1>3, <2>1, <2>4, <2>5 DEF SchemaKnown, Working, StoreInv, SchemaInv
  <2>7. FoundRow(p)'
    BY <2>1, <2>4 DEF FoundRow
  <2>8. WillFollow(p)'
    BY <2>1, <2>3, <2>4, <2>5 DEF WillFollow, Follows
  <2> QED BY <2>4, <2>5, <2>6, <2>7, <2>8, SchemaStays, TablesStay, CallsStay DEF StoreInv
<1> QED BY <1>2, <1>4, <1>5, <1>6

-----------------------------------------------------------------------------
\* The row of a saved revision takes the place of a row of the same event with
\* the number before, or of none where the revision is the first.
LEMMA RowIsNext ==
    ASSUME TablesInv, NEW rev, Follows(rev), ~Conflict(rev, rev.number - 1)
    PROVE  /\ \A r \in dossiers : r.dossier = rev.dossier =>
                  r.number = rev.number - 1 /\ r.event = rev.event
           /\ (\A r \in dossiers : r.dossier # rev.dossier) => rev.number = 1
<1> DEFINE rows == {r \in dossiers : r.dossier = rev.dossier}
<1>1. NumberOf(rev.dossier) = rev.number - 1 /\ rev.number \in Nat \ {0}
  BY DEF Conflict, Follows
<1>2. ASSUME NEW r \in dossiers, r.dossier = rev.dossier
      PROVE  r.number = rev.number - 1 /\ r.event = rev.event
  <2>1. r \in rows /\ \A s \in rows : s = r
    BY <1>2 DEF TablesInv, OneHistory
  <2>2. (CHOOSE s \in rows : TRUE) = r
    BY <2>1
  <2>3. r.number = rev.number - 1
    BY <1>1, <2>1, <2>2 DEF NumberOf
  <2>4. rev.number # 1
    BY <1>1, <2>3 DEF TablesInv
  <2>5. PICK u \in revisions : u.dossier = rev.dossier /\ u.event = rev.event
    BY <2>4 DEF Follows
  <2>6. PICK s \in dossiers : s.dossier = u.dossier /\ s.event = u.event
    BY DEF TablesInv, OneHistory
  <2>7. s = r
    BY <1>2, <2>5, <2>6 DEF TablesInv, OneHistory
  <2> QED BY <2>3, <2>5, <2>6, <2>7
<1>3. (\A r \in dossiers : r.dossier # rev.dossier) => rev.number = 1
  <2> SUFFICES ASSUME \A r \in dossiers : r.dossier # rev.dossier PROVE rev.number = 1
    OBVIOUS
  <2>1. rows = {}
    OBVIOUS
  <2> QED BY <1>1, <2>1 DEF NumberOf
<1> QED BY <1>2, <1>3

\* A revision saved without a conflict makes one history longer.
LEMMA SavedHistory ==
    ASSUME TablesInv, NEW rev, Follows(rev), ~Conflict(rev, rev.number - 1),
           SaveRevision(rev, rev.number - 1)
    PROVE  TablesInv'
<1> DEFINE row == RowFor(rev)
<1>1. /\ row.dossier = rev.dossier /\ row.event = rev.event
      /\ row.number = rev.number /\ row.snapshot = rev.snapshot
  BY DEF RowFor
<1>2. /\ revisions' = revisions \cup {rev}
      /\ dossiers' = {r \in dossiers : r.dossier # rev.dossier} \cup {row}
  BY DEF SaveRevision
<1> HIDE DEF row
<1>3. rev.number \in Nat \ {0} /\ rev.after = rev.number - 1
  BY DEF Follows
<1>4. /\ \A r \in dossiers : r.number \in Nat \ {0}
      /\ \A v \in revisions : Follows(v)
      /\ \A r, s \in dossiers : r.event = s.event \/ r.dossier = s.dossier => r = s
      /\ \A v \in revisions : \E r \in dossiers : r.dossier = v.dossier /\ r.event = v.event
      /\ \A v, w \in revisions : v.dossier = w.dossier /\ v.number = w.number => v = w
      /\ \A v \in revisions : v.after = v.number - 1
  BY DEF TablesInv, OneHistory
<1>5. \A r \in dossiers' : r.number \in Nat \ {0}
  BY <1>1, <1>2, <1>3, <1>4
<1>6. \A v \in revisions' : Follows(v)'
  BY <1>2, <1>4 DEF Follows
<1>7. \A r, s \in dossiers' : r.event = s.event \/ r.dossier = s.dossier => r = s
  BY <1>1, <1>2, <1>4 DEF Conflict, TakenEvent
<1>8. ASSUME NEW v \in revisions'
      PROVE  \E r \in dossiers' : r.dossier = v.dossier /\ r.event = v.event
  <2>1. CASE v = rev
    BY <2>1, <1>1, <1>2
  <2>2. CASE v \in revisions
    <3>1. PICK r \in dossiers : r.dossier = v.dossier /\ r.event = v.event
      BY <2>2, <1>4
    <3>2. CASE r.dossier = rev.dossier
      <4>1. r.event = rev.event
        BY <3>2, RowIsNext
      <4> QED BY <4>1, <3>1, <3>2, <1>1, <1>2
    <3> QED BY <3>1, <3>2, <1>2
  <2> QED BY <2>1, <2>2, <1>2
<1>9. ASSUME NEW r \in dossiers'
      PROVE  /\ {v.number : v \in History(r.dossier)'} = 1..r.number
             /\ \A v \in History(r.dossier)' : v.number = r.number => v.snapshot = r.snapshot
  <2>1. CASE r \in dossiers /\ r.dossier # rev.dossier
    <3>1. History(r.dossier)' = History(r.dossier)
      BY <2>1, <1>2 DEF History
    <3> QED BY <2>1, <3>1 DEF TablesInv, OneHistory
  <2>2. CASE r = row
    <3> DEFINE H == History(rev.dossier)
    <3>1. History(r.dossier)' = H \cup {rev}
      BY <2>2, <1>1, <1>2 DEF History
    <3>2. {v.number : v \in H} = 1..(rev.number - 1)
      <4>1. CASE \E s \in dossiers : s.dossier = rev.dossier
        <5>1. PICK s \in dossiers : s.dossier = rev.dossier
          BY <4>1
        <5>2. s.number = rev.number - 1
          BY <5>1, RowIsNext
        <5>3. {v.number : v \in History(s.dossier)} = 1..s.number
          BY DEF TablesInv, OneHistory
        <5> QED BY <5>1, <5>2, <5>3
      <4>2. CASE \A s \in dossiers : s.dossier # rev.dossier
        <5>1. rev.number = 1
          BY <4>2, RowIsNext
        <5>2. H = {}
          BY <4>2, <1>4 DEF History
        <5> QED BY <5>1, <5>2
      <4> QED BY <4>1, <4>2
    <3>3. \A v \in H : v.number # rev.number
      BY DEF Conflict, TakenNumber, History
    <3> HIDE DEF H
    <3>4. {v.number : v \in H \cup {rev}} = {v.number : v \in H} \cup {rev.number}
      OBVIOUS
    <3>5. (1..(rev.number - 1)) \cup {rev.number} = 1..rev.number
      BY <1>3
    <3> QED BY <2>2, <3>1, <3>2, <3>3, <3>4, <3>5, <1>1
  <2> QED BY <2>1, <2>2, <1>2
<1>10. \A v, w \in revisions' : v.dossier = w.dossier /\ v.number = w.number => v = w
  BY <1>2, <1>4 DEF Conflict, TakenNumber
<1>11. \A v \in revisions' : v.after = v.number - 1
  BY <1>2, <1>3, <1>4
<1>12. OneHistory'
  BY <1>7, <1>8, <1>9, <1>10, <1>11 DEF OneHistory
<1> QED BY <1>5, <1>6, <1>12 DEF TablesInv

\* What the other processes know of the tables is true of the longer history.
LEMMA SaveKeeps ==
    ASSUME StoreInv, NEW p \in Processes, Save(p)
    PROVE  StoreInv'
<1> DEFINE rev == process[p].built
           after == Ready(process[p].outcome, None)
<1>1. process[p].at = "saving" /\ UNCHANGED schema /\ process[p].at \in Working
  BY DEF Save, Working
<1>2. Follows(rev)
  BY <1>1 DEF StoreInv, CallsInv, WillFollow
<1>3. CASE /\ ~Conflict(rev, rev.number - 1) /\ SaveRevision(rev, rev.number - 1)
           /\ Becomes(p, after)
  <2>1. /\ ProcessOK' /\ process'[p] = after
        /\ \A q \in Processes \ {p} : process'[q] = process[q]
    BY <1>3, ReadyIs, ProcessGoes DEF States
  <2>2. after.at = "ready"
    BY ReadyIs
  <2>3. TablesInv'
    BY <1>2, <1>3, SavedHistory DEF StoreInv
  <2>4. SchemaKnown(p)'
    BY <1>1, <2>1, <2>2 DEF SchemaKnown, StoreInv, SchemaInv
  <2>5. SchemaInv'
    BY <1>1, <2>1, <2>4, SchemaStays
  <2> HIDE DEF rev, after
  <2>6. ASSUME NEW q \in Processes PROVE FoundRow(q)' /\ WillFollow(q)'
    <3>1. CASE q = p
      BY <3>1, <2>1, <2>2 DEF FoundRow, WillFollow
    <3>2. CASE q # p
      <4>1. process'[q] = process[q] /\ FoundRow(q) /\ WillFollow(q)
        BY <3>2, <2>1 DEF StoreInv, CallsInv
      <4>2. revisions \subseteq revisions'
        BY <1>3 DEF SaveRevision
      <4>3. WillFollow(q)'
        BY <4>1, <4>2 DEF WillFollow, Follows
      <4>4. \A r \in dossiers : \E s \in dossiers' : s.dossier = r.dossier /\ s.event = r.event
        <5>1. RowFor(rev).dossier = rev.dossier /\ RowFor(rev).event = rev.event
          BY DEF RowFor
        <5>2. \A r \in dossiers : r.dossier = rev.dossier => r.event = rev.event
          BY <1>2, <1>3, RowIsNext DEF StoreInv
        <5> QED BY <5>1, <5>2, <1>3 DEF SaveRevision
      <4>5. FoundRow(q)'
        BY <4>1, <4>4 DEF FoundRow
      <4> QED BY <4>3, <4>5
    <3> QED BY <3>1, <3>2
  <2>7. CallsInv'
    BY <2>6 DEF CallsInv
  <2> QED BY <2>1, <2>3, <2>5, <2>7 DEF StoreInv
<1>4. CASE UNCHANGED <<dossiers, revisions>>
           /\ \E failure \in SaveFailures : Becomes(p, Ready(failure, None))
  <2>1. PICK failure \in SaveFailures : Becomes(p, Ready(failure, None))
    BY <1>4
  <2> QED BY <1>1, <1>4, <2>1, ReadyIs, Resting DEF Database, SaveFailures
<1> QED BY <1>3, <1>4 DEF Save

\* So does a crash.
LEMMA CrashKeeps ==
    ASSUME StoreInv, NEW p \in Processes, Crash(p)
    PROVE  StoreInv'
<1>1. DOMAIN Closed = Fields /\ Closed.at = "closed"
  BY DEF Closed, Fields
<1> QED BY <1>1, Resting DEF Crash

-----------------------------------------------------------------------------
\* So does every step.
LEMMA StepKeeps == StoreInv /\ [Next]_vars => StoreInv'
<1> SUFFICES ASSUME StoreInv, [Next]_vars PROVE StoreInv'
  OBVIOUS
<1>1. CASE UNCHANGED vars
  <2>1. TablesInv'
    BY <1>1, TablesStay DEF vars
  <2> QED BY <1>1, <2>1 DEF vars, StoreInv, ProcessOK, SchemaInv, SchemaKnown, CallsInv,
                            FoundRow, WillFollow, Follows
<1>2. CASE Next
  <2>1. PICK p \in Processes :
            Open(p) \/ Migrate(p) \/ Find(p) \/ ListAndBuild(p) \/ Save(p) \/ Crash(p)
    BY <1>2 DEF Next
  <2> QED BY <2>1, OpenKeeps, MigrateKeeps, FindKeeps, ListAndBuildKeeps, SaveKeeps, CrashKeeps
<1> QED BY <1>1, <1>2

\* The tables and what each process knows of them agree in every reachable state
\* (service.ts:26 to 43, migrations.ts:195).
THEOREM StoreAgrees == Spec => []StoreInv
BY InitHolds, StepKeeps, PTL DEF Spec

\* Of all processes that build dossiers of one event at once, no two make two
\* dossiers of it, two revisions of a number or a revision of a lost one
\* (service.ts:26 to 43).
THEOREM OneHistoryHolds == Spec => []OneHistory
<1>1. StoreInv => OneHistory
  BY DEF StoreInv, TablesInv
<1> QED BY <1>1, StoreAgrees, PTL

\* No migration is skipped or left half done, and a process that has opened the
\* database finds every table of this version (migrations.ts:195).
THEOREM OpenedIsMigratedHolds == Spec => []OpenedIsMigrated
<1>1. StoreInv => OpenedIsMigrated
  <2> SUFFICES ASSUME StoreInv PROVE OpenedIsMigrated
    OBVIOUS
  <2>1. PICK w \in Nat : schema = 1..w
    BY DEF StoreInv, SchemaInv
  <2>2. Version(schema) = w
    BY <2>1, VersionIsLast
  <2>3. Latest \in Nat
    BY DEF Latest
  <2>4. ASSUME NEW p \in Processes, process[p].at \notin {"closed", "failed", "migrating"}
        PROVE  Version(schema) = Latest
    <3>1. process[p].at \in Working
      BY <2>4 DEF StoreInv, ProcessOK, States, Working
    <3>2. schema = 1..Latest
      BY <3>1 DEF StoreInv, SchemaInv, SchemaKnown
    <3> QED BY <3>2, <2>3, VersionIsLast
  <2> QED BY <2>1, <2>2, <2>4 DEF OpenedIsMigrated
<1> QED BY <1>1, StoreAgrees, PTL

\* The change set kept with a revision leads from the revision before it, as the
\* tables show that one, to what it shows (builder.ts:302, service.ts:35).
THEOREM ChangesLeadThereHolds == Spec => []ChangesLeadThere
<1>1. StoreInv => ChangesLeadThere
  <2> SUFFICES ASSUME StoreInv, NEW v \in revisions, NEW w \in revisions,
                      v.dossier = w.dossier, w.after = v.number,
                      NEW t \in DOMAIN Named(v.snapshot)
               PROVE  Named(w.snapshot)[t] =
                        (Named(v.snapshot)[t] \ w.changes.targets[t].removed)
                          \cup w.changes.targets[t].added
    BY DEF ChangesLeadThere
  <2>1. Follows(v) /\ Follows(w)
    BY DEF StoreInv, TablesInv
  <2>2. w.number # 1
    BY <2>1 DEF Follows
  <2>3. PICK u \in revisions :
            /\ u.dossier = w.dossier /\ u.number = w.after
            /\ w.changes = Changes(u.snapshot, w.snapshot)
    BY <2>1, <2>2 DEF Follows
  <2>4. u = v
    BY <2>3 DEF StoreInv, TablesInv, OneHistory
  <2>5. t \in DOMAIN Named(w.snapshot)
    BY DEF Named
  <2>6. /\ w.changes.targets[t].added = Named(w.snapshot)[t] \ Named(v.snapshot)[t]
        /\ w.changes.targets[t].removed = Named(v.snapshot)[t] \ Named(w.snapshot)[t]
    BY <2>3, <2>4, <2>5 DEF Changes
  <2> QED BY <2>6
<1> QED BY <1>1, StoreAgrees, PTL

-----------------------------------------------------------------------------
\* What the revisions say.  A revision shows the draft of an input and is the
\* first of its dossier or says something the one before it did not.
IsDraft(v) == \E i \in Inputs : v.snapshot = Drafts[i] /\ v.event = i.event
IsNews(v) ==
    \/ v.number = 1
    \/ \E u \in revisions :
          /\ u.dossier = v.dossier /\ u.number = v.after
          /\ Fingerprint(u.snapshot) # Fingerprint(v.snapshot)

\* So will what a process is about to save, and what it answers as unchanged has
\* the fingerprint of the draft.
SaysNews(p) ==
    process[p].at = "saving" =>
        /\ process[p].outcome # "unchanged"
        /\ IsDraft(process[p].built) /\ IsNews(process[p].built)
SaysTruly(p) ==
    process[p].outcome = "unchanged" =>
        /\ process[p].input \in Inputs /\ process[p].built \in revisions
        /\ Fingerprint(process[p].built.snapshot) = Fingerprint(Drafts[process[p].input])

NewsInv ==
    /\ \A v \in revisions : IsDraft(v) /\ IsNews(v)
    /\ \A p \in Processes : SaysNews(p) /\ SaysTruly(p)

\* A call of one process that leaves the revisions as they are.
LEMMA NewsStay ==
    ASSUME NewsInv, UNCHANGED revisions, NEW p \in Processes,
           \A q \in Processes \ {p} : process'[q] = process[q],
           SaysNews(p)', SaysTruly(p)'
    PROVE  NewsInv'
<1>1. \A v : (IsDraft(v) <=> IsDraft(v)') /\ (IsNews(v) <=> IsNews(v)')
  BY DEF IsDraft, IsNews
<1>2. ASSUME NEW q \in Processes, q # p PROVE SaysNews(q)' /\ SaysTruly(q)'
  <2>1. process'[q] = process[q] /\ SaysNews(q) /\ SaysTruly(q)
    BY <1>2 DEF NewsInv
  <2>2. SaysNews(q)'
    BY <1>1, <2>1 DEF SaysNews
  <2>3. SaysTruly(q)'
    BY <2>1 DEF SaysTruly
  <2> QED BY <2>2, <2>3
<1> QED BY <1>1, <1>2 DEF NewsInv

\* A process that neither saves nor answers "unchanged" has nothing to show.
Quiet(state) ==
    /\ DOMAIN state = Fields /\ state.at \in States \ {"saving"}
    /\ state.outcome # "unchanged"

\* A step that stores nothing leaves what is new as it was.
LEMMA NothingSaid ==
    ASSUME StoreInv, NewsInv, NEW p \in Processes, NEW state,
           Quiet(state), Becomes(p, state), UNCHANGED revisions
    PROVE  NewsInv'
<1>1. /\ process'[p] = state
      /\ \A q \in Processes \ {p} : process'[q] = process[q]
  BY ProcessGoes DEF Quiet
<1>2. SaysNews(p)' /\ SaysTruly(p)'
  BY <1>1 DEF SaysNews, SaysTruly, Quiet
<1> QED BY <1>1, <1>2, NewsStay

\* An opened or a failed connection, a crash, a search: none of them says
\* anything of the revisions.
LEMMA QuietStates ==
    /\ \A outcome, revision : outcome # "unchanged" => Quiet(Ready(outcome, revision))
    /\ Quiet(Closed)
    /\ Quiet([Closed EXCEPT !.at = "failed"])
    /\ \A version : Quiet([Closed EXCEPT !.at = "migrating", !.read = version])
    /\ \A input, latest :
          Quiet([Closed EXCEPT !.at = "listing", !.input = input, !.latest = latest])
  BY DEF Quiet, Ready, Closed, Fields, States

\* The steps that write no revision are such steps.
LEMMA QuietKeepsNews ==
    ASSUME StoreInv, NewsInv, NEW p \in Processes,
           Open(p) \/ Migrate(p) \/ Find(p) \/ Crash(p)
    PROVE  NewsInv'
<1>1. UNCHANGED revisions
  BY DEF Open, Migrate, Find, Crash, Database
<1>2. CASE Open(p)
  <2>1. \/ Becomes(p, Ready("opened", None))
        \/ Becomes(p, [Closed EXCEPT !.at = "failed"])
        \/ Becomes(p, [Closed EXCEPT !.at = "migrating", !.read = Version(schema)])
    BY <1>2 DEF Open
  <2> QED BY <1>1, <2>1, QuietStates, NothingSaid
<1>3. CASE Migrate(p)
  <2>1. \/ Becomes(p, Ready("opened", None))
        \/ Becomes(p, [Closed EXCEPT !.at = "failed"])
    BY <1>3 DEF Migrate
  <2> QED BY <1>1, <2>1, QuietStates, NothingSaid
<1>4. CASE Find(p)
  <2>1. PICK input, latest :
            Becomes(p, [Closed EXCEPT !.at = "listing", !.input = input, !.latest = latest])
    BY <1>4 DEF Find
  <2> QED BY <1>1, <2>1, QuietStates, NothingSaid
<1>5. CASE Crash(p)
  BY <1>1, <1>5, QuietStates, NothingSaid DEF Crash
<1> QED BY <1>2, <1>3, <1>4, <1>5

\* A dossier built from the last revision is built to say something new, and one
\* answered as unchanged shows that revision.
LEMMA BuildKeepsNews ==
    ASSUME StoreInv, NewsInv, NEW p \in Processes, ListAndBuild(p)
    PROVE  NewsInv'
<1> DEFINE input == process[p].input
           draft == Drafts[input]
           previous == PreviousOf(p)
           outcome == Outcome(input, draft, previous)
           built(id) == Revision(draft, previous, id)
           saving(id) == [process[p] EXCEPT !.at = "saving", !.outcome = outcome,
                                            !.built = built(id)]
           unchanged == [Ready(outcome, previous) EXCEPT !.input = input]
<1>1. /\ process[p].at = "listing" /\ UNCHANGED revisions
      /\ DOMAIN process[p] = Fields
  BY DEF ListAndBuild, StoreInv, ProcessOK, Database
<1>2. PICK id \in DossierIds :
          \/ outcome \in {"created", "revised"} /\ Becomes(p, saving(id))
          \/ outcome = "unchanged" /\ Becomes(p, unchanged)
          \/ outcome # "unchanged" /\ Becomes(p, Ready(outcome, None))
  BY DEF ListAndBuild, PreviousOf
<1>3. /\ input \in Inputs
      /\ \/ previous = None
         \/ previous \in revisions /\ previous.event = input.event
  BY <1>1, PreviousIsThere
<1> HIDE DEF input, previous
<1>4. CASE outcome # "unchanged" /\ Becomes(p, Ready(outcome, None))
  BY <1>1, <1>4, QuietStates, NothingSaid
<1>5. CASE outcome = "unchanged" /\ Becomes(p, unchanged)
  <2>1. /\ DOMAIN unchanged = Fields /\ unchanged.at = "ready" /\ unchanged.input = input
        /\ unchanged.outcome = outcome /\ unchanged.built = previous
    BY DEF Ready, Closed, Fields
  <2>2. Unchanged(draft, previous)
    <3>1. outcome \notin {"DOSSIER_VALIDATION_FAILED", "created", "revised"}
      BY <1>5
    <3>2. Refusal(input) # "unchanged"
      BY DEF Refusal
    <3> QED BY <1>5, <3>1, <3>2 DEF Outcome
  <2>3. previous \in revisions /\ Fingerprint(previous.snapshot) = Fingerprint(Drafts[input])
    BY <1>3, <2>2 DEF Unchanged
  <2> HIDE DEF unchanged, outcome
  <2>4. /\ process'[p] = unchanged
        /\ \A q \in Processes \ {p} : process'[q] = process[q]
    BY <1>5, <2>1, ProcessGoes DEF States
  <2>5. SaysNews(p)' /\ SaysTruly(p)'
    BY <1>1, <1>3, <2>1, <2>3, <2>4 DEF SaysNews, SaysTruly
  <2> QED BY <1>1, <2>4, <2>5, NewsStay
<1>6. CASE outcome \in {"created", "revised"} /\ Becomes(p, saving(id))
  <2>1. /\ DOMAIN saving(id) = Fields /\ saving(id).at = "saving"
        /\ saving(id).outcome = outcome /\ saving(id).built = built(id)
    BY <1>1 DEF Fields
  <2>2. ~Unchanged(draft, previous)
    <3>1. Refusal(input) = "none" \/ outcome = Refusal(input)
      BY DEF Outcome
    <3>2. Refusal(input) \notin {"created", "revised"}
      BY DEF Refusal
    <3> QED BY <1>6, <3>1, <3>2 DEF Outcome
  <2>3. draft.event = input.event
    BY <1>3 DEF Drafts, Draft
  <2>4. /\ built(id).snapshot = draft /\ built(id).event = draft.event
        /\ previous = None => built(id).number = 1
        /\ previous # None =>
              built(id).dossier = previous.dossier /\ built(id).after = previous.number
    BY DEF Revision
  <2> HIDE DEF built
  <2>5. IsDraft(built(id))
    BY <1>3, <2>3, <2>4 DEF IsDraft
  <2>6. IsNews(built(id))
    BY <1>3, <2>2, <2>4 DEF IsNews, Unchanged
  <2> HIDE DEF saving, outcome, draft
  <2>7. /\ process'[p] = saving(id)
        /\ \A q \in Processes \ {p} : process'[q] = process[q]
    BY <1>6, <2>1, ProcessGoes DEF States
  <2>8. SaysNews(p)'
    BY <1>1, <1>6, <2>1, <2>5, <2>6, <2>7 DEF SaysNews, IsDraft, IsNews
  <2>9. SaysTruly(p)'
    BY <1>6, <2>1, <2>7 DEF SaysTruly
  <2> QED BY <1>1, <2>7, <2>8, <2>9, NewsStay
<1> QED BY <1>2, <1>4, <1>5, <1>6

\* A saved revision says what its process was about to, and takes nothing from
\* what the others were told.
LEMMA SaveKeepsNews ==
    ASSUME StoreInv, NewsInv, NEW p \in Processes, Save(p)
    PROVE  NewsInv'
<1> DEFINE rev == process[p].built
           after == Ready(process[p].outcome, None)
<1>1. process[p].at = "saving" /\ process[p].outcome # "unchanged"
      /\ IsDraft(rev) /\ IsNews(rev)
  BY DEF Save, NewsInv, SaysNews
<1>2. Quiet(after) /\ \A failure \in SaveFailures : Quiet(Ready(failure, None))
  BY <1>1, QuietStates DEF SaveFailures
<1>3. CASE revisions' = revisions \cup {rev} /\ Becomes(p, after)
  <2> HIDE DEF rev, after
  <2>1. /\ process'[p] = after
        /\ \A q \in Processes \ {p} : process'[q] = process[q]
    BY <1>2, <1>3, ProcessGoes DEF Quiet
  <2>2. \A v : (IsDraft(v) => IsDraft(v)') /\ (IsNews(v) => IsNews(v)')
    BY <1>3 DEF IsDraft, IsNews
  <2>3. ASSUME NEW q \in Processes PROVE SaysNews(q)' /\ SaysTruly(q)'
    <3>1. CASE q = p
      BY <3>1, <1>2, <2>1 DEF SaysNews, SaysTruly, Quiet
    <3>2. CASE q # p
      <4>1. process'[q] = process[q] /\ SaysNews(q) /\ SaysTruly(q)
        BY <3>2, <2>1 DEF NewsInv
      <4>2. SaysNews(q)'
        BY <4>1, <2>2 DEF SaysNews
      <4>3. SaysTruly(q)'
        BY <4>1, <1>3 DEF SaysTruly
      <4> QED BY <4>2, <4>3
    <3> QED BY <3>1, <3>2
  <2> QED BY <1>1, <1>3, <2>2, <2>3 DEF NewsInv
<1>4. CASE UNCHANGED revisions /\ \E failure \in SaveFailures : Becomes(p, Ready(failure, None))
  <2>1. PICK failure \in SaveFailures : Becomes(p, Ready(failure, None))
    BY <1>4
  <2> QED BY <1>2, <1>4, <2>1, NothingSaid
<1> QED BY <1>3, <1>4 DEF Save, SaveRevision

\* At first there is no news.
LEMMA NewsInitHolds == Init => NewsInv
<1> SUFFICES ASSUME Init PROVE NewsInv
  OBVIOUS
<1>1. \A p \in Processes : process[p] = Closed
  BY DEF Init
<1>2. \A p \in Processes : SaysNews(p) /\ SaysTruly(p)
  BY <1>1, QuietStates DEF SaysNews, SaysTruly, Quiet
<1> QED BY <1>2 DEF Init, NewsInv

\* Every step keeps what is said of the news.
LEMMA NewsStepKeeps == StoreInv /\ NewsInv /\ [Next]_vars => NewsInv'
<1> SUFFICES ASSUME StoreInv, NewsInv, [Next]_vars PROVE NewsInv'
  OBVIOUS
<1>1. CASE UNCHANGED vars
  <2>1. \A v : (IsDraft(v) <=> IsDraft(v)') /\ (IsNews(v) <=> IsNews(v)')
    BY <1>1 DEF vars, IsDraft, IsNews
  <2>2. UNCHANGED <<process, revisions>>
    BY <1>1 DEF vars
  <2> QED BY <2>1, <2>2 DEF NewsInv, SaysNews, SaysTruly
<1>2. CASE Next
  <2>1. PICK p \in Processes :
            Open(p) \/ Migrate(p) \/ Find(p) \/ ListAndBuild(p) \/ Save(p) \/ Crash(p)
    BY <1>2 DEF Next
  <2> QED BY <2>1, QuietKeepsNews, BuildKeepsNews, SaveKeepsNews
<1> QED BY <1>1, <1>2

\* Every revision shows the draft of an input and something the one before it did
\* not, and so does every one a process is about to save.
THEOREM RevisionsSayNews == Spec => []NewsInv
BY InitHolds, StepKeeps, NewsInitHolds, NewsStepKeeps, PTL DEF Spec

\* Drafts of one fingerprint have the status and the warnings of one another,
\* which the fingerprint leaves out: they are computed from what it is of.
LEMMA FingerprintTells ==
    ASSUME NEW i \in Inputs, NEW j \in Inputs,
           Fingerprint(Drafts[i]) = Fingerprint(Drafts[j])
    PROVE  /\ Drafts[i].warnings = Drafts[j].warnings
           /\ Drafts[i].status = Drafts[j].status
<1>1. /\ Draft(i).assessments = Draft(j).assessments
      /\ Draft(i).contradictions = Draft(j).contradictions
      /\ Draft(i).questions = Draft(j).questions
      /\ Draft(i).completeness = Draft(j).completeness
  <2>1. \A f \in Semantic : Fingerprint(Drafts[i])[f] = Drafts[i][f]
                            /\ Fingerprint(Drafts[j])[f] = Drafts[j][f]
    BY DEF Fingerprint
  <2>2. \A f \in Semantic : Draft(i)[f] = Draft(j)[f]
    BY <2>1 DEF Drafts
  <2> QED BY <2>2 DEF Semantic
<1>2. /\ Assessments(i) = Assessments(j) /\ Contradictions(i) = Contradictions(j)
      /\ i.questions = j.questions /\ Completeness(i) = Completeness(j)
  BY <1>1 DEF Draft
<1>3. Critical(i) = Critical(j)
  BY <1>2 DEF Critical
<1>4. Warnings(i) = Warnings(j)
  BY <1>2, <1>3 DEF Warnings
<1>5. Draft(i).warnings = Draft(j).warnings /\ Draft(i).status = Draft(j).status
  BY <1>2, <1>4 DEF Draft
<1> QED BY <1>5 DEF Drafts

\* What a revision says of the one before it, and what is answered in place of a
\* revision, is true: the change set leads from the one to the other, and a
\* dossier answered as unchanged has the status and the warnings that a new one
\* would have, though its fingerprint has neither (builder.ts:272, 302, 510).
THEOREM RevisionsAreTrueHolds == Spec => []RevisionsAreTrue
<1>1. NewsInv => UnchangedIsCurrent
  <2> SUFFICES ASSUME NewsInv, NEW p \in Processes, process[p].outcome = "unchanged"
               PROVE  /\ process[p].built \in revisions
                      /\ process[p].built.snapshot.status = Drafts[process[p].input].status
                      /\ process[p].built.snapshot.warnings = Drafts[process[p].input].warnings
    BY DEF UnchangedIsCurrent
  <2>1. SaysTruly(p)
    BY DEF NewsInv
  <2>2. PICK i \in Inputs : process[p].built.snapshot = Drafts[i]
    BY <2>1 DEF SaysTruly, NewsInv, IsDraft
  <2> QED BY <2>1, <2>2, FingerprintTells DEF SaysTruly
<1> QED BY <1>1, ChangesLeadThereHolds, RevisionsSayNews, PTL DEF RevisionsAreTrue

-----------------------------------------------------------------------------
\* A set whose members are numbered 1 to n has n of them.
LEMMA Numbered ==
    ASSUME NEW S, NEW n \in Nat, {v.number : v \in S} = 1..n,
           \A v, w \in S : v.number = w.number => v = w
    PROVE  Cardinality(S) = n
<1> DEFINE f == [k \in 1..n |-> CHOOSE v \in S : v.number = k]
<1>1. ASSUME NEW k \in 1..n PROVE f[k] \in S /\ f[k].number = k
  <2>1. \E v \in S : v.number = k
    OBVIOUS
  <2> QED BY <2>1
<1>2. \A v \in S : v.number \in 1..n /\ f[v.number] = v
  BY <1>1
<1> HIDE DEF f
<1>3. f \in [1..n -> S]
  BY <1>1 DEF f
<1>4. f \in Bijection(1..n, S)
  BY <1>1, <1>2, <1>3 DEF Bijection, Injection, Surjection, IsInjective
<1> QED BY <1>4, FS_CountingElements DEF ExistsBijection

\* The revisions of the event of a revision that can be saved are numbered up to
\* the one before it.
LEMMA NumberedSoFar ==
    ASSUME TablesInv, NEW rev, Follows(rev), ~Conflict(rev, rev.number - 1)
    PROVE  /\ {v.number : v \in RevisionsOf(rev.event)} = 1..(rev.number - 1)
           /\ \A v, w \in RevisionsOf(rev.event) : v.number = w.number => v = w
           /\ \A v \in RevisionsOf(rev.event) : v.dossier = rev.dossier
<1>1. /\ \A r, s \in dossiers : r.event = s.event \/ r.dossier = s.dossier => r = s
      /\ \A v \in revisions : \E r \in dossiers : r.dossier = v.dossier /\ r.event = v.event
      /\ \A v, w \in revisions : v.dossier = w.dossier /\ v.number = w.number => v = w
  BY DEF TablesInv, OneHistory
<1>2. CASE \E r \in dossiers : r.dossier = rev.dossier
  <2>1. PICK r \in dossiers : r.dossier = rev.dossier
    BY <1>2
  <2>2. r.number = rev.number - 1 /\ r.event = rev.event
    BY <2>1, RowIsNext
  <2>3. RevisionsOf(rev.event) = History(r.dossier)
    BY <1>1, <2>1, <2>2 DEF RevisionsOf, History
  <2>4. {v.number : v \in History(r.dossier)} = 1..r.number
    BY DEF TablesInv, OneHistory
  <2> QED BY <1>1, <2>1, <2>2, <2>3, <2>4 DEF History
<1>3. CASE \A r \in dossiers : r.dossier # rev.dossier
  <2>1. rev.number = 1
    BY <1>3, RowIsNext
  <2>2. \A r \in dossiers : r.event # rev.event
    BY <1>3 DEF Conflict, TakenEvent
  <2>3. RevisionsOf(rev.event) = {}
    BY <1>1, <2>2 DEF RevisionsOf
  <2> QED BY <2>1, <2>3
<1> QED BY <1>2, <1>3

\* One more of them.
LEMMA NumberedOnceMore ==
    ASSUME NEW S, NEW n \in Nat, {v.number : v \in S} = 1..n,
           \A v, w \in S : v.number = w.number => v = w,
           NEW rev, rev.number = n + 1
    PROVE  LET T == S \cup {rev} IN
           /\ Cardinality(S) = n /\ Cardinality(T) = n + 1
           /\ \A k \in 1..n : (CHOOSE v \in T : v.number = k) = (CHOOSE v \in S : v.number = k)
           /\ (CHOOSE v \in T : v.number = n + 1) = rev
<1> DEFINE T == S \cup {rev}
<1>1. \A v \in S : v.number \in 1..n
  OBVIOUS
<1>2. \A v \in S : v.number # n + 1
  BY <1>1
<1>3. \A v, w \in T : v.number = w.number => v = w
  BY <1>2
<1>4. {v.number : v \in T} = 1..(n + 1)
  <2>1. {v.number : v \in T} = {v.number : v \in S} \cup {n + 1}
    OBVIOUS
  <2>2. (1..n) \cup {n + 1} = 1..(n + 1)
    OBVIOUS
  <2> QED BY <2>1, <2>2
<1>5. Cardinality(S) = n /\ Cardinality(T) = n + 1
  <2>1. n + 1 \in Nat
    OBVIOUS
  <2> HIDE DEF T
  <2> QED BY <2>1, <1>3, <1>4, Numbered
<1>6. ASSUME NEW k \in 1..n
      PROVE  (CHOOSE v \in T : v.number = k) = (CHOOSE v \in S : v.number = k)
  <2>1. PICK u \in S : u.number = k
    OBVIOUS
  <2>2. (CHOOSE v \in S : v.number = k) = u
    BY <2>1
  <2>3. (CHOOSE v \in T : v.number = k) = u
    BY <2>1, <1>3
  <2> QED BY <2>2, <2>3
<1>7. (CHOOSE v \in T : v.number = n + 1) = rev
  BY <1>3
<1> QED BY <1>5, <1>6, <1>7

\* What a set of revisions says, in order.
Said(S) == [n \in 1..Cardinality(S) |->
               Fingerprint((CHOOSE v \in S : v.number = n).snapshot)]
Of(R, e) == {v \in R : v.event = e}

\* A history is what the revisions of its event say, before and after a step.
LEMMA HistoriesAreSaid ==
    /\ Histories = [e \in Events |-> Said(Of(revisions, e))]
    /\ Histories' = [e \in Events |-> Said(Of(revisions', e))]
  BY DEF Histories, Said, Of, RevisionsOf

\* A sequence that is one longer than another and goes on like it.
LEMMA Appended ==
    ASSUME NEW T, NEW n \in Nat, NEW s \in [1..n -> T], NEW t \in [1..(n + 1) -> T],
           \A k \in 1..n : t[k] = s[k]
    PROVE  t = Append(s, t[n + 1])
<1>1. s \in Seq(T) /\ t \in Seq(T) /\ Len(s) = n /\ Len(t) = n + 1
  OBVIOUS
<1>2. n + 1 \in 1..(n + 1)
  OBVIOUS
<1>3. t[n + 1] \in T
  BY <1>2
<1>4. /\ Append(s, t[n + 1]) \in Seq(T) /\ Len(Append(s, t[n + 1])) = n + 1
      /\ \A k \in 1..(n + 1) : Append(s, t[n + 1])[k] = t[k]
  BY <1>1, <1>3
<1> QED BY <1>1, <1>4

\* A revision that is saved is the next of its event's history, and news.
LEMMA SavedRevises ==
    ASSUME TablesInv, NewsInv, NEW rev, Follows(rev), IsDraft(rev), IsNews(rev),
           ~Conflict(rev, rev.number - 1), SaveRevision(rev, rev.number - 1)
    PROVE  Promise!Next
<1>1. PICK e, n, c, S :
          /\ e = rev.event /\ n = rev.number - 1 /\ c = Fingerprint(rev.snapshot)
          /\ S = Of(revisions, e)
  OBVIOUS
<1>2. e \in Events /\ c \in Contents
  BY <1>1 DEF IsDraft, Events, Contents
<1>3. n \in Nat /\ rev.number = n + 1 /\ rev.after = n
  BY <1>1 DEF Follows
<1>4. /\ {v.number : v \in S} = 1..n
      /\ \A v, w \in S : v.number = w.number => v = w
      /\ \A v \in S : v.dossier = rev.dossier
  BY <1>1, NumberedSoFar DEF RevisionsOf, Of
<1>5. /\ Of(revisions', e) = S \cup {rev}
      /\ \A d \in Events \ {e} : Of(revisions', d) = Of(revisions, d)
  BY <1>1 DEF SaveRevision, Of
<1>6. /\ Cardinality(S) = n /\ Cardinality(S \cup {rev}) = n + 1
      /\ \A k \in 1..n : (CHOOSE v \in S \cup {rev} : v.number = k)
                           = (CHOOSE v \in S : v.number = k)
      /\ (CHOOSE v \in S \cup {rev} : v.number = n + 1) = rev
  BY <1>3, <1>4, NumberedOnceMore
<1>7. Said(S) = [k \in 1..n |-> Fingerprint((CHOOSE v \in S : v.number = k).snapshot)]
  BY <1>6 DEF Said
<1>8. Said(S \cup {rev}) = Append(Said(S), c)
  <2>1. Said(S \cup {rev}) = [k \in 1..(n + 1) |->
            Fingerprint((CHOOSE v \in S \cup {rev} : v.number = k).snapshot)]
    BY <1>6 DEF Said
  <2>2. \A k \in 1..n : Said(S \cup {rev})[k] = Said(S)[k]
    BY <1>3, <1>6, <1>7, <2>1
  <2>3. Said(S \cup {rev})[n + 1] = c
    BY <1>1, <1>3, <1>6, <2>1
  <2>4. PICK s, t, T : /\ s = Said(S) /\ t = Said(S \cup {rev})
                       /\ T = {t[k] : k \in 1..(n + 1)}
    OBVIOUS
  <2>5. t \in [1..(n + 1) -> T]
    <3>1. \A k \in 1..(n + 1) : t[k] \in T
      BY <2>4
    <3> QED BY <2>1, <2>4, <3>1
  <2>6. s \in [1..n -> T]
    <3>1. ASSUME NEW k \in 1..n PROVE s[k] \in T
      <4>1. k \in 1..(n + 1)
        BY <1>3
      <4> QED BY <4>1, <2>2, <2>4, <2>5
    <3> QED BY <1>7, <2>4, <3>1
  <2>7. \A k \in 1..n : t[k] = s[k]
    BY <2>2, <2>4
  <2>8. t = Append(s, t[n + 1])
    BY <1>3, <2>5, <2>6, <2>7, Appended
  <2> QED BY <2>3, <2>4, <2>8
<1>9. n > 0 => Said(S)[n] # c
  <2> SUFFICES ASSUME n > 0 PROVE Said(S)[n] # c
    OBVIOUS
  <2>1. PICK u \in revisions : /\ u.dossier = rev.dossier /\ u.number = n
                               /\ Fingerprint(u.snapshot) # c
    <3>1. rev.number # 1
      BY <1>3
    <3> QED BY <3>1, <1>1, <1>3 DEF IsNews
  <2>2. PICK w \in S : w.number = n
    BY <1>3, <1>4
  <2>3. w = u
    BY <1>1, <1>4, <2>1, <2>2 DEF Of, TablesInv, OneHistory
  <2>4. (CHOOSE v \in S : v.number = n) = u
    BY <1>4, <2>2, <2>3
  <2> QED BY <1>3, <1>7, <2>1, <2>4
<1>10. Histories[e] = Said(S)
  BY <1>1, <1>2, HistoriesAreSaid
<1>11. Histories' = [Histories EXCEPT ![e] = Append(Histories[e], c)]
  BY <1>1, <1>2, <1>5, <1>8, <1>10, HistoriesAreSaid
<1>12. Len(Histories[e]) = n
  BY <1>3, <1>7, <1>10
<1>13. Promise!Revise(e, c)
  BY <1>9, <1>10, <1>11, <1>12 DEF Promise!Revise
<1> QED BY <1>2, <1>13 DEF Promise!Next

\* No other statement touches a history.
LEMMA StepPromises ==
    StoreInv /\ NewsInv /\ [Next]_vars => Promise!Next \/ UNCHANGED Histories
<1> SUFFICES ASSUME StoreInv, NewsInv, [Next]_vars
             PROVE  Promise!Next \/ UNCHANGED revisions
  BY HistoriesAreSaid
<1>1. CASE UNCHANGED vars
  BY <1>1 DEF vars
<1>2. ASSUME NEW p \in Processes, Save(p) PROVE Promise!Next \/ UNCHANGED revisions
  <2> DEFINE rev == process[p].built
  <2>1. TablesInv /\ Follows(rev) /\ IsDraft(rev) /\ IsNews(rev)
    BY <1>2 DEF Save, StoreInv, CallsInv, WillFollow, NewsInv, SaysNews
  <2> HIDE DEF rev
  <2>2. \/ ~Conflict(rev, rev.number - 1) /\ SaveRevision(rev, rev.number - 1)
        \/ UNCHANGED revisions
    BY <1>2 DEF Save, rev
  <2> QED BY <2>1, <2>2, SavedRevises
<1>3. ASSUME NEW p \in Processes, Open(p) \/ Migrate(p) \/ Find(p) \/ ListAndBuild(p) \/ Crash(p)
      PROVE  UNCHANGED revisions
  BY <1>3 DEF Open, Migrate, Find, ListAndBuild, Crash, Database
<1> QED BY <1>1, <1>2, <1>3 DEF Next

\* However many processes build dossiers of however many events, the tables show
\* one history for each event, which only grows, by revisions that say something
\* new (service.ts:26 to 43, builder.ts:272).
THEOREM HistoriesOnlyGrowHolds == Spec => HistoriesOnlyGrow
<1>1. Init => Promise!Init
  <2> SUFFICES ASSUME Init PROVE Promise!Init
    OBVIOUS
  <2>1. \A e \in Events : RevisionsOf(e) = {}
    BY DEF Init, RevisionsOf
  <2>2. \A e \in Events : Histories[e] = [n \in 1..0 |->
            Fingerprint((CHOOSE v \in {} : v.number = n).snapshot)]
    BY <2>1, FS_EmptySet DEF Histories
  <2>3. \A e \in Events : Histories[e] = <<>>
    BY <2>2
  <2> QED BY <2>3 DEF Promise!Init, Histories
<1> QED
  BY <1>1, StepPromises, StoreAgrees, RevisionsSayNews, PTL
     DEF Spec, HistoriesOnlyGrow, Promise!Spec

=============================================================================
