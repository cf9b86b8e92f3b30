------------------------- MODULE SafeRuntimeProofs --------------------------
(***************************************************************************)
(* The admission gate counts the leases held, connections are made under   *)
(* them, no target is asked more often than the policy allows, and what is *)
(* overdue or cancelled neither asks again nor succeeds.                   *)
(***************************************************************************)
EXTENDS SafeRuntime, FiniteSetTheorems, TLAPS

-----------------------------------------------------------------------------
(* The gate *)

GateInv ==
    /\ lease \in [Acquisitions -> Origins \cup {None}]
    /\ connectorActive \in [Connectors -> Nat]
    /\ originActive \in [Origins -> Nat]
    /\ CountersAreLeases
    /\ LimitsHold

\* Leases are held by finitely many acquisitions.
LEMMA LeasesAreFinite ==
    /\ \A c : IsFiniteSet(LeasesOfConnector(c))
    /\ \A o : IsFiniteSet(LeasesOfOrigin(o))
BY FS_Subset, RuntimeAssumption DEF LeasesOfConnector, LeasesOfOrigin

\* Admission under the limits counts the new lease.
LEMMA GateAdmits ==
    ASSUME GateInv, NEW a \in Acquisitions, NEW origin \in Origins,
           lease[a] = None, Admissible(a, origin), Admit(a, origin)
    PROVE  GateInv'
<1> DEFINE k == ConnectorOf[a]
<1>0. k \in Connectors /\ origin # None
  BY RuntimeAssumption
<1>1. /\ lease' \in [Acquisitions -> Origins \cup {None}]
      /\ connectorActive' \in [Connectors -> Nat]
      /\ originActive' \in [Origins -> Nat]
  BY <1>0 DEF GateInv, Admit
<1>2. LimitsHold'
  BY <1>0, RuntimeAssumption DEF GateInv, Admit, Admissible, LimitsHold
<1>3. ASSUME NEW c \in Connectors
      PROVE  connectorActive'[c] = Cardinality(LeasesOfConnector(c)')
  <2>1. CASE c = k
    <3>1. LeasesOfConnector(c)' = LeasesOfConnector(c) \cup {a}
      BY <1>0, <2>1 DEF GateInv, Admit, LeasesOfConnector
    <3>2. a \notin LeasesOfConnector(c)
      BY DEF LeasesOfConnector
    <3>3. Cardinality(LeasesOfConnector(c)') = Cardinality(LeasesOfConnector(c)) + 1
      BY <3>1, <3>2, LeasesAreFinite, FS_AddElement
    <3> QED
      BY <1>0, <2>1, <3>3 DEF GateInv, Admit, CountersAreLeases
  <2>2. CASE c # k
    <3>1. LeasesOfConnector(c)' = LeasesOfConnector(c)
      BY <2>2 DEF GateInv, Admit, LeasesOfConnector
    <3> QED
      BY <2>2, <3>1 DEF GateInv, Admit, CountersAreLeases
  <2> QED
    BY <2>1, <2>2
<1>4. ASSUME NEW o \in Origins
      PROVE  originActive'[o] = Cardinality(LeasesOfOrigin(o)')
  <2>1. CASE o = origin
    <3>1. LeasesOfOrigin(o)' = LeasesOfOrigin(o) \cup {a}
      BY <2>1 DEF GateInv, Admit, LeasesOfOrigin
    <3>2. a \notin LeasesOfOrigin(o)
      BY <1>0, <2>1 DEF LeasesOfOrigin
    <3>3. Cardinality(LeasesOfOrigin(o)') = Cardinality(LeasesOfOrigin(o)) + 1
      BY <3>1, <3>2, LeasesAreFinite, FS_AddElement
    <3> QED
      BY <2>1, <3>3 DEF GateInv, Admit, CountersAreLeases
  <2>2. CASE o # origin
    <3>1. LeasesOfOrigin(o)' = LeasesOfOrigin(o)
      BY <1>0, <2>2, RuntimeAssumption DEF GateInv, Admit, LeasesOfOrigin
    <3> QED
      BY <2>2, <3>1 DEF GateInv, Admit, CountersAreLeases
  <2> QED
    BY <2>1, <2>2
<1> QED
  BY <1>1, <1>2, <1>3, <1>4 DEF GateInv, CountersAreLeases

\* Release gives back the lease held, or nothing.
LEMMA GateReleases ==
    ASSUME GateInv, NEW a \in Acquisitions, Release(a)
    PROVE  GateInv' /\ lease' = [lease EXCEPT ![a] = None]
<1> DEFINE k == ConnectorOf[a]
<1> DEFINE held == lease[a]
<1>1. CASE held = None
  BY <1>1 DEF Release, gate, GateInv, CountersAreLeases, LimitsHold,
     LeasesOfConnector, LeasesOfOrigin
<1>2. CASE held # None
  <2>0. k \in Connectors /\ held \in Origins
    BY <1>2, RuntimeAssumption DEF GateInv
  <2>1. /\ lease' = [lease EXCEPT ![a] = None]
        /\ connectorActive' = [connectorActive EXCEPT ![k] = Decremented(@)]
        /\ originActive' = [originActive EXCEPT ![held] = Decremented(@)]
    BY <1>2 DEF Release, LeasedOrigin
  <2>2. /\ lease' \in [Acquisitions -> Origins \cup {None}]
        /\ connectorActive' \in [Connectors -> Nat]
        /\ originActive' \in [Origins -> Nat]
    BY <2>0, <2>1 DEF GateInv, Decremented
  <2>3. LimitsHold'
    BY <2>0, <2>1, RuntimeAssumption DEF GateInv, Decremented, LimitsHold
  <2>4. ASSUME NEW c \in Connectors
        PROVE  connectorActive'[c] = Cardinality(LeasesOfConnector(c)')
    <3>1. CASE c = k
      <4>1. LeasesOfConnector(c)' = LeasesOfConnector(c) \ {a}
        BY <2>1, <3>1 DEF GateInv, LeasesOfConnector
      <4>2. a \in LeasesOfConnector(c)
        BY <1>2, <3>1 DEF LeasesOfConnector
      <4>3. Cardinality(LeasesOfConnector(c)') = Cardinality(LeasesOfConnector(c)) - 1
        BY <4>1, <4>2, LeasesAreFinite, FS_RemoveElement
      <4>4. Cardinality(LeasesOfConnector(c)) # 0
        BY <4>2, LeasesAreFinite, FS_EmptySet
      <4>5. connectorActive[c] = Cardinality(LeasesOfConnector(c))
        BY DEF GateInv, CountersAreLeases
      <4>6. connectorActive[c] \in Nat
        BY DEF GateInv
      <4>7. connectorActive'[c] = Decremented(connectorActive[c])
        BY <2>1, <3>1 DEF GateInv
      <4> QED
        BY <4>3, <4>4, <4>5, <4>6, <4>7 DEF Decremented
    <3>2. CASE c # k
      <4>1. LeasesOfConnector(c)' = LeasesOfConnector(c)
        BY <2>1, <3>2 DEF GateInv, LeasesOfConnector
      <4> QED
        BY <2>1, <3>2, <4>1 DEF GateInv, CountersAreLeases
    <3> QED
      BY <3>1, <3>2
  <2>5. ASSUME NEW o \in Origins
        PROVE  originActive'[o] = Cardinality(LeasesOfOrigin(o)')
    <3>1. CASE o = held
      <4>1. LeasesOfOrigin(o)' = LeasesOfOrigin(o) \ {a}
        BY <1>2, <2>1, <3>1 DEF GateInv, LeasesOfOrigin
      <4>2. a \in LeasesOfOrigin(o)
        BY <3>1 DEF LeasesOfOrigin
      <4>3. Cardinality(LeasesOfOrigin(o)') = Cardinality(LeasesOfOrigin(o)) - 1
        BY <4>1, <4>2, LeasesAreFinite, FS_RemoveElement
      <4>4. Cardinality(LeasesOfOrigin(o)) # 0
        BY <4>2, LeasesAreFinite, FS_EmptySet
      <4>5. originActive[o] = Cardinality(LeasesOfOrigin(o))
        BY DEF GateInv, CountersAreLeases
      <4>6. originActive[o] \in Nat
        BY DEF GateInv
      <4>7. originActive'[o] = Decremented(originActive[o])
        BY <2>1, <3>1 DEF GateInv
      <4> QED
        BY <4>3, <4>4, <4>5, <4>6, <4>7 DEF Decremented
    <3>2. CASE o # held
      <4>1. LeasesOfOrigin(o)' = LeasesOfOrigin(o)
        BY <2>1, <3>2, RuntimeAssumption DEF GateInv, LeasesOfOrigin
      <4> QED
        BY <2>1, <3>2, <4>1 DEF GateInv, CountersAreLeases
    <3> QED
      BY <3>1, <3>2
  <2> QED
    BY <2>1, <2>2, <2>3, <2>4, <2>5 DEF GateInv, CountersAreLeases
<1> QED
  BY <1>1, <1>2

\* Steps that leave the gate alone.
LEMMA GateRests ==
    ASSUME GateInv, UNCHANGED gate
    PROVE  GateInv'
BY DEF gate, GateInv, CountersAreLeases, LimitsHold, LeasesOfConnector, LeasesOfOrigin

-----------------------------------------------------------------------------
(* The inductive invariant *)

\* The types of what belongs to the acquisitions.
OwnTypes ==
    /\ phase \in [Acquisitions -> Phases]
    /\ target \in [Acquisitions -> Targets \cup {None}]
    /\ visited \in [Acquisitions -> SUBSET Targets]
    /\ attempt \in [Acquisitions -> Nat]
    /\ hop \in [Acquisitions -> Nat]
    /\ requests \in [Acquisitions -> [Targets -> Nat]]
    /\ connected \in [Acquisitions -> BOOLEAN]
    /\ cancelled \in [Acquisitions -> BOOLEAN]
    /\ overdue \in [Acquisitions -> BOOLEAN]

\* An acquisition under way has a target, and a lease when it is connected.
Leased(a) ==
    /\ phase[a] # "new" => target[a] \in Targets
    /\ connected[a] => target[a] # None /\ lease[a] = OriginOf[target[a]]
    /\ connected[a] <=> phase[a] \in {"connecting", "reading"}
    /\ phase[a] \in Ended \cup {"new", "attempting", "resolving"} => lease[a] = None

\* What was asked of the current target is at most the attempts at it, and
\* what was not visited was not asked.
Counted(a) ==
    /\ hop[a] <= MaxRedirects
    /\ attempt[a] <= MaxAttempts
    /\ \A t \in Targets : /\ requests[a][t] <= MaxAttempts
                          /\ t \notin visited[a] => requests[a][t] = 0
    /\ phase[a] = "new" => attempt[a] = 0
    /\ phase[a] \in {"attempting", "sleeping"} => attempt[a] < MaxAttempts
    /\ phase[a] = "attempting" /\ attempt[a] > 0 => requests[a][target[a]] <= attempt[a]
    /\ phase[a] = "resolving" =>
          target[a] \in visited[a] /\ requests[a][target[a]] < attempt[a]
    /\ phase[a] \in {"connecting", "sleeping"} =>
          attempt[a] > 0 /\ requests[a][target[a]] <= attempt[a]

\* The current target is as secure as every target before it.
Secured(a) ==
    /\ phase[a] = "new" => visited[a] = {}
    /\ visited[a] \cap Secure # {} => target[a] \in Secure

Inv == OwnTypes /\ GateInv /\ \A a \in Acquisitions : Leased(a) /\ Counted(a) /\ Secured(a)

\* Nothing of another acquisition changes.
Others(a) ==
    \A b \in Acquisitions \ {a} :
        /\ phase'[b] = phase[b] /\ target'[b] = target[b] /\ visited'[b] = visited[b]
        /\ attempt'[b] = attempt[b] /\ hop'[b] = hop[b] /\ requests'[b] = requests[b]
        /\ connected'[b] = connected[b] /\ lease'[b] = lease[b]

\* execute is called.
LEMMA StartKeeps ==
    ASSUME Inv, NEW a \in Acquisitions, NEW t \in Targets, Start(a, t)
    PROVE  OwnTypes' /\ GateInv' /\ Leased(a)' /\ Counted(a)' /\ Secured(a)' /\ Others(a)
<1>1. GateInv'
  BY GateRests DEF Inv, Start, Goes, gate
<1>2. UNCHANGED lease
  BY DEF Start, Goes, gate
<1>3. OwnTypes'
  BY RuntimeAssumption DEF Inv, OwnTypes, Phases, Ended, Start, Goes, chain, signals
<1>4. Leased(a)'
  BY <1>1, <1>2, RuntimeAssumption DEF Inv, OwnTypes, Leased, Ended, Start, Goes,
     chain, signals
<1>5. Counted(a)'
  BY RuntimeAssumption DEF Inv, OwnTypes, Leased, Counted, Ended, Start, Goes, chain,
     signals
<1>6. Secured(a)'
  BY DEF Inv, OwnTypes, Leased, Secured, Ended, Start, Goes, chain, signals
<1>7. Others(a)
  BY <1>1, <1>2 DEF Inv, OwnTypes, Others, Start, Goes, chain, signals
<1> QED
  BY <1>1, <1>3, <1>4, <1>5, <1>6, <1>7

\* The synchronous part of an attempt.
LEMMA AttemptKeeps ==
    ASSUME Inv, NEW a \in Acquisitions, Attempt(a)
    PROVE  OwnTypes' /\ GateInv' /\ Leased(a)' /\ Counted(a)' /\ Secured(a)' /\ Others(a)
<1>1. GateInv'
  BY GateRests DEF Inv, Attempt, Goes, Stops, Loops, gate
<1>2. UNCHANGED lease
  BY DEF Attempt, Goes, Stops, Loops, gate
<1>3. OwnTypes'
  <2>1. attempt' \in [Acquisitions -> Nat]
    BY DEF Inv, OwnTypes, Attempt
  <2>2. target[a] \in Targets
    BY DEF Inv, Leased, Attempt
  <2>3. visited' \in [Acquisitions -> SUBSET Targets]
    BY <2>2 DEF Inv, OwnTypes, Attempt
  <2>4. phase' \in [Acquisitions -> Phases]
    BY DEF Inv, OwnTypes, Phases, Ended, Attempt, Goes, Stops
  <2> QED
    BY <2>1, <2>3, <2>4 DEF Inv, OwnTypes, Attempt, signals
<1>4. Leased(a)'
  BY <1>1, <1>2, RuntimeAssumption DEF Inv, OwnTypes, Leased, Ended, Attempt, Goes,
     Stops, Loops, chain, signals
<1>5. Counted(a)'
  BY RuntimeAssumption DEF Inv, OwnTypes, Leased, Counted, Ended, Attempt, Goes,
     Stops, Loops, chain, signals
<1>6. Secured(a)'
  BY DEF Inv, OwnTypes, Leased, Secured, Ended, Attempt, Goes, Stops, Loops, chain,
     signals
<1>7. Others(a)
  BY <1>1, <1>2 DEF Inv, OwnTypes, Others, Attempt, Goes, Stops, Loops, chain, signals
<1> QED
  BY <1>1, <1>3, <1>4, <1>5, <1>6, <1>7

\* The resolution is overtaken.
LEMMA ResolutionOvertakenKeeps ==
    ASSUME Inv, NEW a \in Acquisitions, ResolutionOvertaken(a)
    PROVE  OwnTypes' /\ GateInv' /\ Leased(a)' /\ Counted(a)' /\ Secured(a)' /\ Others(a)
<1>1. GateInv'
  BY GateRests DEF Inv, ResolutionOvertaken, Goes, Stops, gate
<1>2. UNCHANGED lease
  BY DEF ResolutionOvertaken, Goes, Stops, gate
<1>3. OwnTypes'
  BY RuntimeAssumption DEF Inv, OwnTypes, Phases, Ended, ResolutionOvertaken, Goes,
     Stops, chain, signals
<1>4. Leased(a)'
  BY <1>1, <1>2, RuntimeAssumption DEF Inv, OwnTypes, Leased, Ended,
     ResolutionOvertaken, Goes, Stops, chain, signals
<1>5. Counted(a)'
  BY RuntimeAssumption DEF Inv, OwnTypes, Leased, Counted, Ended,
     ResolutionOvertaken, Goes, Stops, chain, signals
<1>6. Secured(a)'
  BY DEF Inv, OwnTypes, Leased, Secured, Ended, ResolutionOvertaken, Goes, Stops,
     chain, signals
<1>7. Others(a)
  BY <1>1, <1>2 DEF Inv, OwnTypes, Others, ResolutionOvertaken, Goes, Stops, chain,
     signals
<1> QED
  BY <1>1, <1>3, <1>4, <1>5, <1>6, <1>7

\* The resolution fails.
LEMMA ResolutionFailsKeeps ==
    ASSUME Inv, NEW a \in Acquisitions, ResolutionFails(a)
    PROVE  OwnTypes' /\ GateInv' /\ Leased(a)' /\ Counted(a)' /\ Secured(a)' /\ Others(a)
<1>1. GateInv'
  BY GateRests DEF Inv, ResolutionFails, RetryOrFail, AttemptsLeft, Goes, gate
<1>2. UNCHANGED lease
  BY DEF ResolutionFails, RetryOrFail, AttemptsLeft, Goes, gate
<1>3. OwnTypes'
  BY RuntimeAssumption DEF Inv, OwnTypes, Phases, Ended, ResolutionFails,
     RetryOrFail, AttemptsLeft, Goes, chain, signals
<1>4. Leased(a)'
  BY <1>1, <1>2, RuntimeAssumption DEF Inv, OwnTypes, Leased, Ended, ResolutionFails,
     RetryOrFail, AttemptsLeft, Goes, chain, signals
<1>5. Counted(a)'
  BY RuntimeAssumption DEF Inv, OwnTypes, Leased, Counted, Ended, ResolutionFails,
     RetryOrFail, AttemptsLeft, Goes, chain, signals
<1>6. Secured(a)'
  BY DEF Inv, OwnTypes, Leased, Secured, Ended, ResolutionFails, RetryOrFail,
     AttemptsLeft, Goes, chain, signals
<1>7. Others(a)
  BY <1>1, <1>2 DEF Inv, OwnTypes, Others, ResolutionFails, RetryOrFail,
     AttemptsLeft, Goes, chain, signals
<1> QED
  BY <1>1, <1>3, <1>4, <1>5, <1>6, <1>7

\* Admission and request.
LEMMA ConnectKeeps ==
    ASSUME Inv, NEW a \in Acquisitions, Connect(a)
    PROVE  OwnTypes' /\ GateInv' /\ Leased(a)' /\ Counted(a)' /\ Secured(a)' /\ Others(a)
<1> DEFINE origin == OriginOf[target[a]]
<1>0. target[a] \in Targets /\ origin \in Origins /\ lease[a] = None
  BY RuntimeAssumption DEF Inv, Leased, Connect
<1>1. CASE Admissible(a, origin)
  <2>1. /\ Admit(a, origin)
        /\ requests' = [requests EXCEPT ![a][target[a]] = @ + 1]
        /\ connected' = [connected EXCEPT ![a] = TRUE]
        /\ phase' = [phase EXCEPT ![a] = "connecting"]
        /\ UNCHANGED <<target, visited, hop, attempt, cancelled, overdue>>
    BY <1>1 DEF Connect, Goes, chain, signals
  <2>2. GateInv'
    BY <1>0, <1>1, <2>1, GateAdmits DEF Inv
  <2>3. /\ lease \in [Acquisitions -> Origins \cup {None}]
        /\ lease' = [lease EXCEPT ![a] = origin]
    BY <2>1 DEF Inv, GateInv, Admit
  <2>4. requests' \in [Acquisitions -> [Targets -> Nat]]
    BY <1>0, <2>1 DEF Inv, OwnTypes
  <2>5. OwnTypes'
    BY <2>1, <2>4 DEF Inv, OwnTypes, Phases
  <2>6. Leased(a)'
    BY <1>0, <2>1, <2>3, RuntimeAssumption DEF Inv, OwnTypes, Leased, Ended
  <2>7. Counted(a)'
    <3>1. /\ requests'[a][target[a]] = requests[a][target[a]] + 1
          /\ \A t \in Targets \ {target[a]} : requests'[a][t] = requests[a][t]
      BY <1>0, <2>1 DEF Inv, OwnTypes
    <3>2. requests[a][target[a]] < attempt[a]
      BY DEF Inv, Counted, Connect
    <3>3. target[a] \in visited[a]
      BY DEF Inv, Counted, Connect
    <3> QED
      BY <1>0, <2>1, <3>1, <3>2, <3>3, RuntimeAssumption DEF Inv, OwnTypes, Counted
  <2>8. Secured(a)'
    BY <2>1 DEF Inv, OwnTypes, Secured
  <2>9. Others(a)
    BY <2>1, <2>3 DEF Inv, OwnTypes, Others
  <2> QED
    BY <2>2, <2>5, <2>6, <2>7, <2>8, <2>9
<1>2. CASE ~Admissible(a, origin)
  <2>1. /\ phase' = [phase EXCEPT ![a] = "failed"]
        /\ UNCHANGED <<target, visited, hop, attempt, requests, connected, gate,
                       cancelled, overdue>>
    BY <1>2 DEF Connect, Goes, chain, signals
  <2>2. GateInv' /\ UNCHANGED lease
    BY <2>1, GateRests DEF Inv, gate
  <2>3. OwnTypes'
    BY <2>1 DEF Inv, OwnTypes, Phases, Ended
  <2>4. Leased(a)' /\ Counted(a)' /\ Secured(a)' /\ Others(a)
    BY <1>0, <2>1, <2>2 DEF Inv, OwnTypes, Leased, Counted, Secured, Others, Ended,
       Connect
  <2> QED
    BY <2>2, <2>3, <2>4
<1> QED
  BY <1>1, <1>2

\* The request fails.
LEMMA RequestFailsKeeps ==
    ASSUME Inv, NEW a \in Acquisitions, RequestFails(a)
    PROVE  OwnTypes' /\ GateInv' /\ Leased(a)' /\ Counted(a)' /\ Secured(a)' /\ Others(a)
<1>1. GateInv' /\ lease' = [lease EXCEPT ![a] = None]
  BY GateReleases DEF Inv, RequestFails
<1>2. lease \in [Acquisitions -> Origins \cup {None}]
  BY DEF Inv, GateInv
<1>3. OwnTypes'
  BY RuntimeAssumption DEF Inv, OwnTypes, Phases, Ended, RequestFails, RetryOrFail,
     AttemptsLeft, Goes, Disconnect, chain, signals
<1>4. Leased(a)'
  BY <1>1, <1>2, RuntimeAssumption DEF Inv, OwnTypes, Leased, Ended, RequestFails,
     RetryOrFail, AttemptsLeft, Goes, Disconnect, chain, signals
<1>5. Counted(a)'
  BY RuntimeAssumption DEF Inv, OwnTypes, Leased, Counted, Ended, RequestFails,
     RetryOrFail, AttemptsLeft, Goes, Disconnect, chain, signals
<1>6. Secured(a)'
  BY DEF Inv, OwnTypes, Leased, Secured, Ended, RequestFails, RetryOrFail,
     AttemptsLeft, Goes, Disconnect, chain, signals
<1>7. Others(a)
  BY <1>1, <1>2 DEF Inv, OwnTypes, Others, RequestFails, RetryOrFail, AttemptsLeft,
     Goes, Disconnect, chain, signals
<1> QED
  BY <1>1, <1>3, <1>4, <1>5, <1>6, <1>7

\* The head is too late.
LEMMA HeadTooLateKeeps ==
    ASSUME Inv, NEW a \in Acquisitions, HeadTooLate(a)
    PROVE  OwnTypes' /\ GateInv' /\ Leased(a)' /\ Counted(a)' /\ Secured(a)' /\ Others(a)
<1>1. GateInv' /\ lease' = [lease EXCEPT ![a] = None]
  BY GateReleases DEF Inv, HeadTooLate
<1>2. lease \in [Acquisitions -> Origins \cup {None}]
  BY DEF Inv, GateInv
<1>3. OwnTypes'
  BY RuntimeAssumption DEF Inv, OwnTypes, Phases, Ended, HeadTooLate, Goes, Stops,
     Disconnect, chain, signals
<1>4. Leased(a)'
  BY <1>1, <1>2, RuntimeAssumption DEF Inv, OwnTypes, Leased, Ended, HeadTooLate,
     Goes, Stops, Disconnect, chain, signals
<1>5. Counted(a)'
  BY RuntimeAssumption DEF Inv, OwnTypes, Leased, Counted, Ended, HeadTooLate, Goes,
     Stops, Disconnect, chain, signals
<1>6. Secured(a)'
  BY DEF Inv, OwnTypes, Leased, Secured, Ended, HeadTooLate, Goes, Stops, Disconnect,
     chain, signals
<1>7. Others(a)
  BY <1>1, <1>2 DEF Inv, OwnTypes, Others, HeadTooLate, Goes, Stops, Disconnect,
     chain, signals
<1> QED
  BY <1>1, <1>3, <1>4, <1>5, <1>6, <1>7

\* A redirect.
LEMMA HeadRedirectsKeeps ==
    ASSUME Inv, NEW a \in Acquisitions, HeadRedirects(a)
    PROVE  OwnTypes' /\ GateInv' /\ Leased(a)' /\ Counted(a)' /\ Secured(a)' /\ Others(a)
<1>1. GateInv' /\ lease' = [lease EXCEPT ![a] = None]
  BY GateReleases DEF Inv, HeadRedirects
<1>2. lease \in [Acquisitions -> Origins \cup {None}]
  BY DEF Inv, GateInv
<1>3. OwnTypes'
  <2>1. phase' \in [Acquisitions -> Phases]
    BY DEF Inv, OwnTypes, Phases, Ended, HeadRedirects, Goes
  <2>2. /\ target' \in [Acquisitions -> Targets \cup {None}]
        /\ hop' \in [Acquisitions -> Nat]
        /\ attempt' \in [Acquisitions -> Nat]
    <3>1. CASE UNCHANGED <<target, hop, attempt>>
      BY <3>1 DEF Inv, OwnTypes
    <3>2. CASE \E next \in Targets :
                  /\ target' = [target EXCEPT ![a] = next]
                  /\ hop' = [hop EXCEPT ![a] = @ + 1]
                  /\ attempt' = [attempt EXCEPT ![a] = 0]
      BY <3>2 DEF Inv, OwnTypes
    <3> QED
      BY <3>1, <3>2 DEF HeadRedirects
  <2> QED
    BY <2>1, <2>2 DEF Inv, OwnTypes, HeadRedirects, Disconnect, signals
<1>4. Leased(a)'
  BY <1>1, <1>2, RuntimeAssumption DEF Inv, OwnTypes, Leased, Ended, HeadRedirects,
     Goes, Redirectable, Disconnect, chain, signals
<1>5. Counted(a)'
  BY RuntimeAssumption DEF Inv, OwnTypes, Leased, Counted, Ended, HeadRedirects,
     Goes, Redirectable, Disconnect, chain, signals
<1>6. Secured(a)'
  BY DEF Inv, OwnTypes, Leased, Secured, Ended, HeadRedirects, Goes, Redirectable,
     Disconnect, chain, signals
<1>7. Others(a)
  BY <1>1, <1>2 DEF Inv, OwnTypes, Others, HeadRedirects, Goes, Redirectable,
     Disconnect, chain, signals
<1> QED
  BY <1>1, <1>3, <1>4, <1>5, <1>6, <1>7

\* A status that asks to retry.
LEMMA HeadAsksToRetryKeeps ==
    ASSUME Inv, NEW a \in Acquisitions, HeadAsksToRetry(a)
    PROVE  OwnTypes' /\ GateInv' /\ Leased(a)' /\ Counted(a)' /\ Secured(a)' /\ Others(a)
<1>1. /\ GateInv'
      /\ phase'[a] # "sleeping" => lease'[a] = None
      /\ \A b \in Acquisitions \ {a} : lease'[b] = lease[b]
  <2>1. CASE phase'[a] = "sleeping"
    BY <2>1, GateRests DEF Inv, HeadAsksToRetry, gate
  <2>2. CASE phase'[a] # "sleeping"
    <3>1. GateInv' /\ lease' = [lease EXCEPT ![a] = None]
      BY <2>2, GateReleases DEF Inv, HeadAsksToRetry
    <3>2. lease \in [Acquisitions -> Origins \cup {None}]
      BY DEF Inv, GateInv
    <3> QED
      BY <3>1, <3>2
  <2> QED
    BY <2>1, <2>2
<1>2. /\ phase'[a] \in {"cancelled", "failed", "overdue", "sleeping"}
      /\ ~connected'[a] /\ target' = target
  BY DEF Inv, OwnTypes, HeadAsksToRetry, RetryOrFail, Goes, Disconnect, chain
<1>3. OwnTypes'
  BY RuntimeAssumption DEF Inv, OwnTypes, Phases, Ended, HeadAsksToRetry,
     RetryOrFail, AttemptsLeft, Goes, Disconnect, chain, signals
<1>4. Leased(a)'
  BY <1>1, <1>2 DEF Inv, Leased, Ended, HeadAsksToRetry
<1>5. Counted(a)'
  BY RuntimeAssumption DEF Inv, OwnTypes, Leased, Counted, Ended, HeadAsksToRetry,
     RetryOrFail, AttemptsLeft, Goes, Disconnect, chain, signals
<1>6. Secured(a)'
  BY DEF Inv, OwnTypes, Leased, Secured, Ended, HeadAsksToRetry, RetryOrFail,
     AttemptsLeft, Goes, Disconnect, chain, signals
<1>7. Others(a)
  BY <1>1 DEF Inv, OwnTypes, Others, HeadAsksToRetry, RetryOrFail, Goes, Disconnect,
     chain
<1> QED
  BY <1>1, <1>3, <1>4, <1>5, <1>6, <1>7

\* A terminal status.
LEMMA HeadFailsKeeps ==
    ASSUME Inv, NEW a \in Acquisitions, HeadFails(a)
    PROVE  OwnTypes' /\ GateInv' /\ Leased(a)' /\ Counted(a)' /\ Secured(a)' /\ Others(a)
<1>1. GateInv' /\ lease' = [lease EXCEPT ![a] = None]
  BY GateReleases DEF Inv, HeadFails
<1>2. lease \in [Acquisitions -> Origins \cup {None}]
  BY DEF Inv, GateInv
<1>3. OwnTypes'
  BY RuntimeAssumption DEF Inv, OwnTypes, Phases, Ended, HeadFails, Goes, Disconnect,
     chain, signals
<1>4. Leased(a)'
  BY <1>1, <1>2, RuntimeAssumption DEF Inv, OwnTypes, Leased, Ended, HeadFails, Goes,
     Disconnect, chain, signals
<1>5. Counted(a)'
  BY RuntimeAssumption DEF Inv, OwnTypes, Leased, Counted, Ended, HeadFails, Goes,
     Disconnect, chain, signals
<1>6. Secured(a)'
  BY DEF Inv, OwnTypes, Leased, Secured, Ended, HeadFails, Goes, Disconnect, chain,
     signals
<1>7. Others(a)
  BY <1>1, <1>2 DEF Inv, OwnTypes, Others, HeadFails, Goes, Disconnect, chain, signals
<1> QED
  BY <1>1, <1>3, <1>4, <1>5, <1>6, <1>7

\* A success status.
LEMMA HeadAcceptedKeeps ==
    ASSUME Inv, NEW a \in Acquisitions, HeadAccepted(a)
    PROVE  OwnTypes' /\ GateInv' /\ Leased(a)' /\ Counted(a)' /\ Secured(a)' /\ Others(a)
<1>1. GateInv'
  BY GateRests DEF Inv, HeadAccepted, Goes, gate
<1>2. UNCHANGED lease
  BY DEF HeadAccepted, Goes, gate
<1>3. OwnTypes'
  BY RuntimeAssumption DEF Inv, OwnTypes, Phases, Ended, HeadAccepted, Goes, chain,
     signals
<1>4. Leased(a)'
  BY <1>1, <1>2, RuntimeAssumption DEF Inv, OwnTypes, Leased, Ended, HeadAccepted,
     Goes, chain, signals
<1>5. Counted(a)'
  BY RuntimeAssumption DEF Inv, OwnTypes, Leased, Counted, Ended, HeadAccepted, Goes,
     chain, signals
<1>6. Secured(a)'
  BY DEF Inv, OwnTypes, Leased, Secured, Ended, HeadAccepted, Goes, chain, signals
<1>7. Others(a)
  BY <1>1, <1>2 DEF Inv, OwnTypes, Others, HeadAccepted, Goes, chain, signals
<1> QED
  BY <1>1, <1>3, <1>4, <1>5, <1>6, <1>7

\* The body ends.
LEMMA BodyEndsKeeps ==
    ASSUME Inv, NEW a \in Acquisitions, BodyEnds(a)
    PROVE  OwnTypes' /\ GateInv' /\ Leased(a)' /\ Counted(a)' /\ Secured(a)' /\ Others(a)
<1>1. GateInv' /\ lease' = [lease EXCEPT ![a] = None]
  BY GateReleases DEF Inv, BodyEnds
<1>2. lease \in [Acquisitions -> Origins \cup {None}]
  BY DEF Inv, GateInv
<1>3. OwnTypes'
  BY RuntimeAssumption DEF Inv, OwnTypes, Phases, Ended, BodyEnds, BodyOutcomes,
     BodyStops, Goes, Disconnect, chain, signals
<1>4. Leased(a)'
  BY <1>1, <1>2, RuntimeAssumption DEF Inv, OwnTypes, Leased, Ended, BodyEnds,
     BodyOutcomes, BodyStops, Goes, Disconnect, chain, signals
<1>5. Counted(a)'
  BY RuntimeAssumption DEF Inv, OwnTypes, Leased, Counted, Ended, BodyEnds,
     BodyOutcomes, BodyStops, Goes, Disconnect, chain, signals
<1>6. Secured(a)'
  BY DEF Inv, OwnTypes, Leased, Secured, Ended, BodyEnds, BodyOutcomes, BodyStops,
     Goes, Disconnect, chain, signals
<1>7. Others(a)
  BY <1>1, <1>2 DEF Inv, OwnTypes, Others, BodyEnds, BodyOutcomes, BodyStops, Goes,
     Disconnect, chain, signals
<1> QED
  BY <1>1, <1>3, <1>4, <1>5, <1>6, <1>7

\* The back-off ends.
LEMMA WakeKeeps ==
    ASSUME Inv, NEW a \in Acquisitions, Wake(a)
    PROVE  OwnTypes' /\ GateInv' /\ Leased(a)' /\ Counted(a)' /\ Secured(a)' /\ Others(a)
<1>1. GateInv' /\ lease' = [lease EXCEPT ![a] = None]
  BY GateReleases DEF Inv, Wake
<1>2. lease \in [Acquisitions -> Origins \cup {None}]
  BY DEF Inv, GateInv
<1>3. OwnTypes'
  BY RuntimeAssumption DEF Inv, OwnTypes, Phases, Ended, Wake, Goes, Stops, chain,
     signals
<1>4. Leased(a)'
  BY <1>1, <1>2, RuntimeAssumption DEF Inv, OwnTypes, Leased, Ended, Wake, Goes,
     Stops, chain, signals
<1>5. Counted(a)'
  BY RuntimeAssumption DEF Inv, OwnTypes, Leased, Counted, Ended, Wake, Goes, Stops,
     chain, signals
<1>6. Secured(a)'
  BY DEF Inv, OwnTypes, Leased, Secured, Ended, Wake, Goes, Stops, chain, signals
<1>7. Others(a)
  BY <1>1, <1>2 DEF Inv, OwnTypes, Others, Wake, Goes, Stops, chain, signals
<1> QED
  BY <1>1, <1>3, <1>4, <1>5, <1>6, <1>7

\* A cancellation.
LEMMA CancelKeeps ==
    ASSUME Inv, NEW a \in Acquisitions, Cancel(a)
    PROVE  OwnTypes' /\ GateInv' /\ Leased(a)' /\ Counted(a)' /\ Secured(a)' /\ Others(a)
<1>1. GateInv'
  BY GateRests DEF Inv, Cancel, gate
<1>2. UNCHANGED lease
  BY DEF Cancel, gate
<1>3. OwnTypes'
  BY RuntimeAssumption DEF Inv, OwnTypes, Phases, Ended, Cancel, chain, signals
<1>4. Leased(a)'
  BY <1>1, <1>2, RuntimeAssumption DEF Inv, OwnTypes, Leased, Ended, Cancel, chain,
     signals
<1>5. Counted(a)'
  BY RuntimeAssumption DEF Inv, OwnTypes, Leased, Counted, Ended, Cancel, chain, signals
<1>6. Secured(a)'
  BY DEF Inv, OwnTypes, Leased, Secured, Ended, Cancel, chain, signals
<1>7. Others(a)
  BY <1>1, <1>2 DEF Inv, OwnTypes, Others, Cancel, chain, signals
<1> QED
  BY <1>1, <1>3, <1>4, <1>5, <1>6, <1>7

\* The deadline passes.
LEMMA DeadlinePassesKeeps ==
    ASSUME Inv, NEW a \in Acquisitions, DeadlinePasses(a)
    PROVE  OwnTypes' /\ GateInv' /\ Leased(a)' /\ Counted(a)' /\ Secured(a)' /\ Others(a)
<1>1. GateInv'
  BY GateRests DEF Inv, DeadlinePasses, gate
<1>2. UNCHANGED lease
  BY DEF DeadlinePasses, gate
<1>3. OwnTypes'
  BY RuntimeAssumption DEF Inv, OwnTypes, Phases, Ended, DeadlinePasses, chain, signals
<1>4. Leased(a)'
  BY <1>1, <1>2, RuntimeAssumption DEF Inv, OwnTypes, Leased, Ended, DeadlinePasses,
     chain, signals
<1>5. Counted(a)'
  BY RuntimeAssumption DEF Inv, OwnTypes, Leased, Counted, Ended, DeadlinePasses,
     chain, signals
<1>6. Secured(a)'
  BY DEF Inv, OwnTypes, Leased, Secured, Ended, DeadlinePasses, chain, signals
<1>7. Others(a)
  BY <1>1, <1>2 DEF Inv, OwnTypes, Others, DeadlinePasses, chain, signals
<1> QED
  BY <1>1, <1>3, <1>4, <1>5, <1>6, <1>7

-----------------------------------------------------------------------------
(* The theorems *)

\* What holds of an acquisition is kept by the steps of the others.
LEMMA OthersKeep ==
    ASSUME Inv, NEW a \in Acquisitions, Others(a), NEW b \in Acquisitions \ {a}
    PROVE  Leased(b)' /\ Counted(b)' /\ Secured(b)'
BY DEF Inv, Others, Leased, Counted, Secured

\* One step of one acquisition.
LEMMA StepKeeps ==
    ASSUME Inv, NEW a \in Acquisitions, Step(a) \/ Cancel(a) \/ DeadlinePasses(a)
    PROVE  OwnTypes' /\ GateInv' /\ Leased(a)' /\ Counted(a)' /\ Secured(a)' /\ Others(a)
<1>1. CASE \E t \in Targets : Start(a, t)
  BY <1>1, StartKeeps
<1>2. CASE Timely(a)
  BY <1>2, AttemptKeeps, ResolutionOvertakenKeeps, RequestFailsKeeps, BodyEndsKeeps,
     WakeKeeps DEF Timely
<1>3. CASE ResolutionFails(a) \/ Connect(a)
  BY <1>3, ResolutionFailsKeeps, ConnectKeeps
<1>4. CASE HeadArrives(a)
  BY <1>4, HeadTooLateKeeps, HeadRedirectsKeeps, HeadAsksToRetryKeeps, HeadFailsKeeps,
     HeadAcceptedKeeps DEF HeadArrives
<1>5. CASE Cancel(a) \/ DeadlinePasses(a)
  BY <1>5, CancelKeeps, DeadlinePassesKeeps
<1> QED
  BY <1>1, <1>2, <1>3, <1>4, <1>5 DEF Step

\* Before anything is acquired no lease is held.
LEMMA InitHolds == Init => Inv
<1> SUFFICES ASSUME Init PROVE Inv
  OBVIOUS
<1>1. OwnTypes
  BY DEF Init, OwnTypes, Phases
<1>2. GateInv
  <2>1. \A c : LeasesOfConnector(c) = {}
    BY DEF Init, LeasesOfConnector
  <2>2. \A o \in Origins : LeasesOfOrigin(o) = {}
    BY RuntimeAssumption DEF Init, LeasesOfOrigin
  <2>3. CountersAreLeases
    BY <2>1, <2>2, FS_EmptySet DEF Init, CountersAreLeases
  <2> QED
    BY <2>3, RuntimeAssumption DEF Init, GateInv, LimitsHold
<1>3. \A a \in Acquisitions : Leased(a) /\ Counted(a) /\ Secured(a)
  BY RuntimeAssumption DEF Init, Leased, Counted, Secured, Ended
<1> QED
  BY <1>1, <1>2, <1>3 DEF Inv

\* Every step keeps the invariant.
LEMMA NextKeeps == Inv /\ [Next]_vars => Inv'
<1> SUFFICES ASSUME Inv, [Next]_vars PROVE Inv'
  OBVIOUS
<1>1. CASE Next
  <2>1. PICK a \in Acquisitions : Step(a) \/ Cancel(a) \/ DeadlinePasses(a)
    BY <1>1 DEF Next
  <2>2. OwnTypes' /\ GateInv' /\ Leased(a)' /\ Counted(a)' /\ Secured(a)' /\ Others(a)
    BY <2>1, StepKeeps
  <2>3. ASSUME NEW b \in Acquisitions
        PROVE  Leased(b)' /\ Counted(b)' /\ Secured(b)'
    BY <2>2, OthersKeep
  <2> QED
    BY <2>2, <2>3 DEF Inv
<1>2. CASE UNCHANGED vars
  <2>1. GateInv'
    BY <1>2, GateRests DEF Inv, vars
  <2>2. OwnTypes'
    BY <1>2 DEF Inv, OwnTypes, vars, chain, signals
  <2>3. \A a \in Acquisitions : (Leased(a) /\ Counted(a) /\ Secured(a))'
    BY <1>2 DEF Inv, Leased, Counted, Secured, vars, chain, gate
  <2> QED
    BY <2>1, <2>2, <2>3 DEF Inv
<1> QED
  BY <1>1, <1>2

\* The invariant holds in every behaviour.
LEMMA Invariant == Spec => []Inv
BY InitHolds, NextKeeps, PTL DEF Spec

\* The counters of the gate are the leases held, the limits hold, and every
\* connection has its lease, in all interleavings of all acquisitions.
THEOREM RuntimeIsSafe == Spec => []RuntimeInv
<1>1. Inv => RuntimeInv
  BY DEF Inv, GateInv, OwnTypes, Leased, RuntimeInv, TypeOK, ConnectionsAreLeased
<1> QED
  BY <1>1, Invariant, PTL

\* No chain of redirects and retries asks a target too often.
THEOREM TargetsAreNeverPressed == Spec => []TargetsAreSpared
<1>1. Inv => TargetsAreSpared
  BY DEF Inv, Counted, TargetsAreSpared
<1> QED
  BY <1>1, Invariant, PTL

\* A chain that was on https stays there.
THEOREM HttpsIsKept == Spec => []NeverDowngraded
<1>1. Inv => NeverDowngraded
  BY DEF Inv, Secured, NeverDowngraded
<1> QED
  BY <1>1, Invariant, PTL

\* After its deadline or its cancellation an acquisition can only fail.
THEOREM StopIsFinal == Spec => StoppedIsFinal
<1> DEFINE Final == \A a \in Acquisitions : Stopped(a) =>
                      /\ requests'[a] = requests[a]
                      /\ phase[a] # "succeeded" => phase'[a] # "succeeded"
<1>1. Inv /\ [Next]_vars => [Final]_vars
  <2> SUFFICES ASSUME Inv, Next, NEW b \in Acquisitions, Stopped(b)
               PROVE  /\ requests'[b] = requests[b]
                      /\ phase[b] # "succeeded" => phase'[b] # "succeeded"
    OBVIOUS
  <2>1. PICK a \in Acquisitions : Step(a) \/ Cancel(a) \/ DeadlinePasses(a)
    BY DEF Next
  <2>2. CASE a # b
    BY <2>1, <2>2, StepKeeps DEF Others
  <2>3. CASE a = b
    <3>1. OwnTypes
      BY DEF Inv
    <3>2. CASE \E t \in Targets : Start(a, t)
      BY <2>3, <3>1, <3>2 DEF OwnTypes, Start, Goes
    <3>3. CASE Attempt(a) \/ ResolutionOvertaken(a) \/ Wake(a)
      BY <2>3, <3>1, <3>3 DEF OwnTypes, Attempt, ResolutionOvertaken, Wake, Goes, Stops
    <3>4. CASE RequestFails(a)
      BY <2>3, <3>1, <3>4 DEF OwnTypes, RequestFails, RetryOrFail, Goes
    <3>5. CASE BodyEnds(a)
      BY <2>3, <3>1, <3>5 DEF OwnTypes, BodyEnds, BodyOutcomes, BodyStops, Goes
    <3>6. CASE ResolutionFails(a) \/ Connect(a) \/ HeadRedirects(a)
               \/ HeadAsksToRetry(a) \/ HeadFails(a) \/ HeadAccepted(a)
      BY <2>3, <3>6 DEF ResolutionFails, Connect, HeadRedirects, HeadAsksToRetry,
         HeadFails, HeadAccepted
    <3>7. CASE HeadTooLate(a)
      BY <2>3, <3>1, <3>7 DEF OwnTypes, HeadTooLate, Goes, Stops
    <3>8. CASE Cancel(a) \/ DeadlinePasses(a)
      BY <2>3, <3>8 DEF Cancel, DeadlinePasses
    <3> QED
      BY <2>1, <3>2, <3>3, <3>4, <3>5, <3>6, <3>7, <3>8 DEF Step, Timely, HeadArrives
  <2> QED
    BY <2>2, <2>3
<1> QED
  BY <1>1, Invariant, PTL DEF Spec, StoppedIsFinal

=============================================================================
