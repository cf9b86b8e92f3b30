---------------------------- MODULE SessionStore ----------------------------
(***************************************************************************)
(* The session repository (in-memory-session-repository.ts) under several  *)
(* clients.  Every method is asynchronous, so a client reads a copy of the *)
(* session, reduces a command on its copy, and saves the result later,     *)
(* naming the fingerprint it read; the repository refuses the save when    *)
(* the stored fingerprint is another one.  A client may also give up.      *)
(***************************************************************************)
EXTENDS SessionReducer

CONSTANTS
    Clients,            \* the users of the repository
    ClientCommands      \* the commands they send

ASSUME ClientCommandsAssumption == ClientCommands \subseteq Commands

VARIABLES
    stored,     \* the stored session, None before create
    client      \* what each client is doing, and the sessions it holds

storeVars == <<stored, client>>

Idle == [phase |-> "idle", read |-> None, next |-> None]

\* The promise: one accepted command at a time.
Atomic == INSTANCE AtomicSession WITH session <- stored,
              Created <- InitialSessions, NextOf <- NextSessions

-----------------------------------------------------------------------------

StoreInit ==
    /\ stored = None
    /\ client = [k \in Clients |-> Idle]

\* create: refused when the session exists.
Create(k) ==
    /\ client[k].phase = "idle"
    /\ \E initial \in InitialSessions :
          stored' = IF stored = None THEN initial ELSE stored
    /\ UNCHANGED client

\* getById: an isolated copy of the stored session.
GetById(k) ==
    /\ client[k].phase = "idle"
    /\ stored # None
    /\ client' = [client EXCEPT ![k] = [phase |-> "read", read |-> stored,
                                        next |-> None]]
    /\ UNCHANGED stored

\* The client reduces one command on its copy; a refused command is dropped.
Reduce(k) ==
    /\ client[k].phase = "read"
    /\ \E c \in ClientCommands :
          \/ \E t \in Accepted(client[k].read, c) :
                client' = [client EXCEPT ![k] =
                              [phase |-> "reduced", read |-> @.read, next |-> t]]
          \/ /\ Accepted(client[k].read, c) = {}
             /\ client' = [client EXCEPT ![k] = Idle]
    /\ UNCHANGED stored

\* Mutant: the last writer wins.
LastWriterWins(expected) == stored # None

\* The comparison save makes before it replaces the stored session.
MaySave(expected) == stored # None /\ stored = expected

Save(k) ==
    /\ client[k].phase = "reduced"
    /\ stored' = IF MaySave(client[k].read) THEN client[k].next ELSE stored
    /\ client' = [client EXCEPT ![k] = Idle]

\* A client stops between two calls; its copy is lost, the store is not.
GiveUp(k) ==
    /\ client[k].phase # "idle"
    /\ client' = [client EXCEPT ![k] = Idle]
    /\ UNCHANGED stored

StoreNext ==
    \E k \in Clients :
        Create(k) \/ GetById(k) \/ Reduce(k) \/ Save(k) \/ GiveUp(k)

StoreSpec == StoreInit /\ [][StoreNext]_storeVars

-----------------------------------------------------------------------------
(* Properties *)

Holding == [phase : {"idle", "read", "reduced"},
            read : Session \cup {None}, next : Session \cup {None}]

\* The store holds a session or none, and so does every client.
StoreTypeOK ==
    /\ stored \in Session \cup {None}
    /\ client \in [Clients -> Holding]

\* A client that has read holds a valid session; one that has reduced also
\* holds what the reducer made of exactly that session.
HoldsValid(h) ==
    /\ h.phase = "idle" => h = Idle
    /\ h.phase # "idle" => SessionInv(h.read)
    /\ h.phase = "reduced" => h.next \in NextSessions(h.read)

\* Whatever the clients interleave, the stored session satisfies the session
\* invariant and every copy a client holds was reduced from a valid session.
StoreInv ==
    /\ StoreTypeOK
    /\ stored # None => SessionInv(stored)
    /\ \A k \in Clients : HoldsValid(client[k])

\* No update is lost or invented: each change of the stored session is one
\* accepted command applied to the session it replaces.
ImplementsAtomicSession == Atomic!Spec

=============================================================================
