---------------------------- MODULE SafeRuntime -----------------------------
(***************************************************************************)
(* The safe network acquisition runtime                                    *)
(* (source-acquisition-security/safe-runtime.ts, admission.ts, timing.ts,  *)
(* bounded-body.ts).  Acquisitions run concurrently in one process and     *)
(* share an admission gate.  Each follows redirects, asks every target a   *)
(* bounded number of times, and awaits name resolution, the response head, *)
(* the back-off before a retry and the body; what lies between two awaits  *)
(* is one step.                                                            *)
(*                                                                         *)
(* Time is two facts of each acquisition: whether its overall deadline has *)
(* passed, and whether it was cancelled.  Both are read at checkpoints and *)
(* by the timers that race the awaits.  The gate is the one the code       *)
(* builds, with separate rate and concurrency admission; its rate buckets  *)
(* are left out, a refusal by them is a possible outcome of an attempt.    *)
(***************************************************************************)
EXTENDS Integers, FiniteSets

CONSTANTS
    Acquisitions,
    Connectors,
    ConnectorOf,        \* the connector of an acquisition
    Targets,            \* request targets, up to their fingerprint
    Origins,
    OriginOf,           \* the origin key of a target
    Secure,             \* the https targets
    MaxAttempts,        \* maxAttemptsPerTarget
    MaxRedirects,
    ConnectorLimit,     \* maxConcurrentPerConnector
    OriginLimit,        \* maxConcurrentPerOrigin
    None

ASSUME RuntimeAssumption ==
    /\ ConnectorOf \in [Acquisitions -> Connectors]
    /\ OriginOf \in [Targets -> Origins]
    /\ Secure \subseteq Targets
    /\ MaxAttempts \in Nat \ {0} /\ MaxRedirects \in Nat
    /\ ConnectorLimit \in Nat \ {0} /\ OriginLimit \in Nat \ {0}
    /\ None \notin Origins \cup Targets
    /\ IsFiniteSet(Acquisitions)

VARIABLES
    phase,              \* what each acquisition waits for, or how it ended
    target,             \* currentUrl
    visited,            \* visitedTargets
    attempt,            \* attemptNumber
    hop,                \* redirectHop
    requests,           \* how often each target was asked
    connected,          \* whether a request or a response stream is open
    lease,              \* the origin of the concurrency lease held
    connectorActive,    \* #connectorConcurrency
    originActive,       \* #originConcurrency
    cancelled,
    overdue             \* whether the overall deadline has passed

gate == <<lease, connectorActive, originActive>>
chain == <<target, visited, hop>>
signals == <<cancelled, overdue>>
vars == <<phase, chain, attempt, requests, connected, gate, signals>>

Ended == {"succeeded", "failed", "cancelled", "overdue"}
Phases == {"new", "attempting", "resolving", "connecting", "sleeping", "reading"}
          \cup Ended

Goes(a, p) == phase' = [phase EXCEPT ![a] = p]

\* #checkpoint: cancellation is looked at before the deadline.
Stopped(a) == cancelled[a] \/ overdue[a]
Stops(a) == Goes(a, IF cancelled[a] THEN "cancelled" ELSE "overdue")

-----------------------------------------------------------------------------
(* The admission gate *)

Admissible(a, origin) ==
    /\ connectorActive[ConnectorOf[a]] < ConnectorLimit
    /\ originActive[origin] < OriginLimit

Admit(a, origin) ==
    /\ lease' = [lease EXCEPT ![a] = origin]
    /\ connectorActive' = [connectorActive EXCEPT ![ConnectorOf[a]] = @ + 1]
    /\ originActive' = [originActive EXCEPT ![origin] = @ + 1]

\* Mutant: the lease is taken to be one of the current target.
CurrentOrigin(a) == OriginOf[target'[a]]

\* The lease remembers the origin it was admitted for.
LeasedOrigin(a) == lease[a]

\* #decrement never goes below zero.
Decremented(n) == IF n > 0 THEN n - 1 ELSE 0

\* release of a lease: at most once.
Release(a) ==
    IF lease[a] = None
    THEN UNCHANGED gate
    ELSE /\ lease' = [lease EXCEPT ![a] = None]
         /\ connectorActive' =
                [connectorActive EXCEPT ![ConnectorOf[a]] = Decremented(@)]
         /\ originActive' =
                [originActive EXCEPT ![LeasedOrigin(a)] = Decremented(@)]

Disconnect(a) == connected' = [connected EXCEPT ![a] = FALSE]

-----------------------------------------------------------------------------

Init ==
    /\ phase = [a \in Acquisitions |-> "new"]
    /\ target = [a \in Acquisitions |-> None]
    /\ visited = [a \in Acquisitions |-> {}]
    /\ attempt = [a \in Acquisitions |-> 0]
    /\ hop = [a \in Acquisitions |-> 0]
    /\ requests = [a \in Acquisitions |-> [t \in Targets |-> 0]]
    /\ connected = [a \in Acquisitions |-> FALSE]
    /\ lease = [a \in Acquisitions |-> None]
    /\ connectorActive = [c \in Connectors |-> 0]
    /\ originActive = [o \in Origins |-> 0]
    /\ cancelled = [a \in Acquisitions |-> FALSE]
    /\ overdue = [a \in Acquisitions |-> FALSE]

\* execute is called; the overall deadline counts from here.
Start(a, t) ==
    /\ phase[a] = "new"
    /\ target' = [target EXCEPT ![a] = t]
    /\ Goes(a, "attempting")
    /\ UNCHANGED <<visited, hop, attempt, requests, connected, gate, signals>>

\* The first attempt at a target that was visited before.
Loops(a) == attempt[a] = 0 /\ target[a] \in visited[a]

\* The synchronous part of an attempt, up to the resolver: checkpoint,
\* authorization and validation, loop detection, rate admission.
Attempt(a) ==
    /\ phase[a] = "attempting"
    /\ attempt' = [attempt EXCEPT ![a] = @ + 1]
    /\ \/ Stopped(a) /\ Stops(a) /\ UNCHANGED visited
       \/ ~Stopped(a) /\ Goes(a, "failed") /\ UNCHANGED visited
       \/ /\ ~Stopped(a)
          /\ ~Loops(a)
          /\ visited' = [visited EXCEPT ![a] = @ \cup {target[a]}]
          /\ Goes(a, "failed") \/ Goes(a, "resolving")
    /\ UNCHANGED <<target, hop, requests, connected, gate, signals>>

\* Mutant: one attempt too many.
OneMore(a) == attempt[a] <= MaxAttempts

AttemptsLeft(a) == attempt[a] < MaxAttempts

\* retryIfPermitted, up to its sleep.  A delay that would reach the deadline
\* ends the acquisition at once.
RetryOrFail(a, retryable) ==
    \/ cancelled[a] /\ Goes(a, "cancelled")
    \/ /\ ~cancelled[a]
       /\ ~(retryable /\ AttemptsLeft(a))
       /\ Goes(a, "failed")
    \/ /\ ~cancelled[a]
       /\ retryable /\ AttemptsLeft(a)
       /\ Goes(a, "overdue") \/ (~overdue[a] /\ Goes(a, "sleeping"))

\* Mutant: only an answer of the resolver settles the await.
Unbounded(a) == FALSE

\* raceAsyncOperation: whether the deadline timer or the cancellation poll
\* settles the await, with the resolver still running; its late answer is
\* ignored.
Overtaken(a) == Stopped(a)

ResolutionOvertaken(a) ==
    /\ phase[a] = "resolving"
    /\ Overtaken(a)
    /\ Stops(a)
    /\ UNCHANGED <<chain, attempt, requests, connected, gate, signals>>

\* The name does not resolve, or an address is not approved.  No lease is
\* held while names resolve.
ResolutionFails(a) ==
    /\ phase[a] = "resolving"
    /\ ~Stopped(a)
    /\ \E retryable \in BOOLEAN : RetryOrFail(a, retryable)
    /\ UNCHANGED <<chain, attempt, requests, connected, gate, signals>>

\* Concurrency admission and the request, in one step after the approval.
Connect(a) ==
    /\ phase[a] = "resolving"
    /\ ~Stopped(a)
    /\ LET origin == OriginOf[target[a]]
       IN  IF Admissible(a, origin)
           THEN /\ Admit(a, origin)
                /\ requests' = [requests EXCEPT ![a][target[a]] = @ + 1]
                /\ connected' = [connected EXCEPT ![a] = TRUE]
                /\ Goes(a, "connecting")
           ELSE Goes(a, "failed") /\ UNCHANGED <<requests, connected, gate>>
    /\ UNCHANGED <<chain, attempt, signals>>

\* The request fails, is cancelled or reaches the attempt timeout, which is
\* cut to what the deadline leaves.  The lease goes before the back-off.
RequestFails(a) ==
    /\ phase[a] = "connecting"
    /\ UNCHANGED <<chain, attempt, requests, signals>>
    /\ Disconnect(a)
    /\ Release(a)
    /\ \E retryable \in BOOLEAN : RetryOrFail(a, retryable)

\* A head arrives after the deadline or the cancellation.
HeadTooLate(a) ==
    /\ phase[a] = "connecting"
    /\ UNCHANGED <<chain, attempt, requests, signals>>
    /\ Stopped(a)
    /\ Disconnect(a)
    /\ Release(a)
    /\ Stops(a)

\* #redirectTarget
Redirectable(a, next) ==
    /\ hop[a] < MaxRedirects
    /\ target[a] \in Secure => next \in Secure

\* A redirect: to a valid next target, or a failure.
HeadRedirects(a) ==
    /\ phase[a] = "connecting"
    /\ ~Stopped(a)
    /\ Disconnect(a)
    /\ \/ Goes(a, "failed") /\ UNCHANGED <<target, hop, attempt>>
       \/ \E next \in Targets :
             /\ Redirectable(a, next)
             /\ target' = [target EXCEPT ![a] = next]
             /\ hop' = [hop EXCEPT ![a] = @ + 1]
             /\ attempt' = [attempt EXCEPT ![a] = 0]
             /\ Goes(a, "attempting")
    /\ Release(a)
    /\ UNCHANGED <<visited, requests, signals>>

\* 429, 502, 503 or 504: the response is destroyed, and the lease is released
\* when retryIfPermitted returns, that is after the back-off.
HeadAsksToRetry(a) ==
    /\ phase[a] = "connecting"
    /\ UNCHANGED <<chain, attempt, requests, signals>>
    /\ ~Stopped(a)
    /\ Disconnect(a)
    /\ RetryOrFail(a, TRUE)
    /\ IF phase'[a] = "sleeping" THEN UNCHANGED gate ELSE Release(a)

\* A terminal failure status.
HeadFails(a) ==
    /\ phase[a] = "connecting"
    /\ UNCHANGED <<chain, attempt, requests, signals>>
    /\ ~Stopped(a)
    /\ Disconnect(a)
    /\ Release(a)
    /\ Goes(a, "failed")

\* A success status: the body is read under the lease.
HeadAccepted(a) ==
    /\ phase[a] = "connecting"
    /\ ~Stopped(a)
    /\ Goes(a, "reading")
    /\ UNCHANGED <<chain, attempt, requests, connected, gate, signals>>

\* What may cut off a body: the cancellation poll or the deadline timer.
BodyStops(a) == (IF cancelled[a] THEN {"cancelled"} ELSE {})
                \cup (IF overdue[a] THEN {"overdue"} ELSE {})

\* Mutant: a complete body is accepted whatever happened meanwhile.
Accepted(a) == {"failed", "succeeded"} \cup BodyStops(a)

\* acquireBoundedBody: it is refused for its type, size, coding or silence,
\* it is cut off, or it is complete.
BodyOutcomes(a) == {"failed"} \cup BodyStops(a)
                   \cup (IF Stopped(a) THEN {} ELSE {"succeeded"})

BodyEnds(a) ==
    /\ phase[a] = "reading"
    /\ UNCHANGED <<chain, attempt, requests, signals>>
    /\ \E outcome \in BodyOutcomes(a) : Goes(a, outcome)
    /\ Disconnect(a)
    /\ Release(a)

\* The sleeper is done, or its poll sees the cancellation.
Wake(a) ==
    /\ phase[a] = "sleeping"
    /\ UNCHANGED <<chain, attempt, requests, connected, signals>>
    /\ IF Stopped(a) THEN Stops(a) ELSE Goes(a, "attempting")
    /\ Release(a)

(* The environment *)

Cancel(a) ==
    /\ phase[a] \notin Ended
    /\ ~cancelled[a]
    /\ cancelled' = [cancelled EXCEPT ![a] = TRUE]
    /\ UNCHANGED <<phase, chain, attempt, requests, connected, gate, overdue>>

DeadlinePasses(a) ==
    /\ phase[a] \notin Ended \cup {"new"}
    /\ ~overdue[a]
    /\ overdue' = [overdue EXCEPT ![a] = TRUE]
    /\ UNCHANGED <<phase, chain, attempt, requests, connected, gate, cancelled>>

HeadArrives(a) == \/ HeadTooLate(a) \/ HeadRedirects(a) \/ HeadAsksToRetry(a)
                  \/ HeadFails(a) \/ HeadAccepted(a)

\* What the event loop and the timers of the code bring about by themselves.
Timely(a) == \/ Attempt(a) \/ ResolutionOvertaken(a) \/ RequestFails(a)
             \/ BodyEnds(a) \/ Wake(a)

Step(a) == \/ \E t \in Targets : Start(a, t)
           \/ Timely(a)
           \/ ResolutionFails(a) \/ Connect(a) \/ HeadArrives(a)

Next == \E a \in Acquisitions : Step(a) \/ Cancel(a) \/ DeadlinePasses(a)

\* No answer of the network is assumed: time passes, the deadline timer of the
\* resolution, the attempt timeout, the timers of the body and the sleeper
\* fire, and continuations run.
Fairness == \A a \in Acquisitions : /\ WF_vars(Timely(a))
                                    /\ WF_vars(DeadlinePasses(a))

Spec == Init /\ [][Next]_vars /\ Fairness

-----------------------------------------------------------------------------
(* Properties *)

\* Every variable has its type.
TypeOK ==
    /\ phase \in [Acquisitions -> Phases]
    /\ target \in [Acquisitions -> Targets \cup {None}]
    /\ visited \in [Acquisitions -> SUBSET Targets]
    /\ attempt \in [Acquisitions -> Nat]
    /\ hop \in [Acquisitions -> Nat]
    /\ requests \in [Acquisitions -> [Targets -> Nat]]
    /\ connected \in [Acquisitions -> BOOLEAN]
    /\ lease \in [Acquisitions -> Origins \cup {None}]
    /\ connectorActive \in [Connectors -> Nat]
    /\ originActive \in [Origins -> Nat]
    /\ cancelled \in [Acquisitions -> BOOLEAN]
    /\ overdue \in [Acquisitions -> BOOLEAN]

LeasesOfConnector(c) == {a \in Acquisitions : lease[a] # None /\ ConnectorOf[a] = c}
LeasesOfOrigin(o) == {a \in Acquisitions : lease[a] = o}

\* The counters of the gate are the leases held: none leaks and none is
\* returned twice, so that a limit never shrinks and is never passed.
CountersAreLeases ==
    /\ \A c \in Connectors : connectorActive[c] = Cardinality(LeasesOfConnector(c))
    /\ \A o \in Origins : originActive[o] = Cardinality(LeasesOfOrigin(o))

LimitsHold ==
    /\ \A c \in Connectors : connectorActive[c] <= ConnectorLimit
    /\ \A o \in Origins : originActive[o] <= OriginLimit

\* A request or a response stream is open only under a lease for the origin
\* it goes to, and an acquisition that ended holds neither.
ConnectionsAreLeased ==
    \A a \in Acquisitions :
        /\ connected[a] => target[a] # None /\ lease[a] = OriginOf[target[a]]
        /\ connected[a] <=> phase[a] \in {"connecting", "reading"}
        /\ phase[a] \in Ended \cup {"new", "attempting", "resolving"} => lease[a] = None

\* No target is asked more than MaxAttempts times by an acquisition, whatever
\* redirects it is sent through, and there are at most MaxRedirects of them.
TargetsAreSpared ==
    \A a \in Acquisitions :
        /\ hop[a] <= MaxRedirects
        /\ \A t \in Targets : requests[a][t] <= MaxAttempts

\* Once an acquisition has been at an https target it is never at an http one.
NeverDowngraded ==
    \A a \in Acquisitions :
        visited[a] \cap Secure # {} => target[a] \in Secure

RuntimeInv == TypeOK /\ CountersAreLeases /\ LimitsHold /\ ConnectionsAreLeased

\* "The overall deadline always dominates": an acquisition that is overdue or
\* cancelled sends no further request and does not succeed any more.
StoppedIsFinal ==
    [][\A a \in Acquisitions : Stopped(a) =>
          /\ requests'[a] = requests[a]
          /\ phase[a] # "succeeded" => phase'[a] # "succeeded"]_vars

\* Every acquisition ends, even when no resolver and no server ever answers.
AcquisitionsEnd ==
    \A a \in Acquisitions : phase[a] = "attempting" ~> phase[a] \in Ended

=============================================================================
