----------------------- MODULE SourceAcquisitionProofs -----------------------
(***************************************************************************)
(* Acquisition with any number of executions and retention workers: what   *)
(* is kept is reported and accounted for, what is acquired and kept was    *)
(* granted, and a document says what its page says.  The invariant is what *)
(* each execution carries from one await to the next; the decisions of     *)
(* governance and of the ingestion are lemmas about their operators.       *)
(***************************************************************************)
EXTENDS SourceAcquisition, WellFoundedInduction, TLAPS

-----------------------------------------------------------------------------
(* The first of the checks that fail                                       *)

\* A set of natural numbers that is not empty has a least one.
LEMMA LeastIsThere ==
    ASSUME NEW I, I \subseteq Nat, I # {}
    PROVE  Min(I) \in I /\ \A i \in I : Min(I) <= i
<1> DEFINE R == {ss \in Nat \X Nat : ss[1] < ss[2]}
<1>1. IsWellFoundedOn(OpToRel(<, Nat), Nat)
  BY NatLessThanWellFounded
<1>2. IsWellFoundedOn(R, Nat)
  BY <1>1 DEF OpToRel
<1>3. \A x, y \in Nat : <<y, x>> \in R <=> y < x
  OBVIOUS
<1> HIDE DEF R
<1>4. PICK x \in I : \A y \in I : ~(<<y, x>> \in R)
  BY <1>2, WFMin
<1>5. \A y \in I : x <= y
  <2> SUFFICES ASSUME NEW y \in I PROVE x <= y
    OBVIOUS
  <2>1. x \in Nat /\ y \in Nat
    OBVIOUS
  <2>2. ~(<<y, x>> \in R)
    BY <1>4
  <2>3. ~(y < x)
    BY <2>1, <2>2, <1>3
  <2> QED BY <2>1, <2>3
<1> QED BY <1>5 DEF Min

\* Where no failing check says "allowed", that answer means that none fails.
LEMMA AllowedPassesAll ==
    ASSUME NEW checks, NEW n \in Nat, Len(checks) = n,
           \A i \in 1..n : checks[i].fails => checks[i].status # "allowed",
           FirstOf(checks) = "allowed"
    PROVE  \A i \in 1..n : ~checks[i].fails
<1> DEFINE first == SelectInSeq(checks, LAMBDA check : check.fails)
           failing == {i \in 1..n : checks[i].fails}
<1>1. first = IF failing # {} THEN Min(failing) ELSE 0
  BY DEF SelectInSeq
<1>2. failing # {} => Min(failing) \in failing
  BY LeastIsThere
<1>3. FirstOf(checks) = IF first = 0 THEN "allowed" ELSE checks[first].status
  BY DEF FirstOf
<1> HIDE DEF first
<1> QED BY <1>1, <1>2, <1>3

\* Credentials and consent: what an authorization that is allowed has.
LEMMA AuthorizedHas ==
    ASSUME NEW connector, NEW access, NEW grant, NEW need,
           Authorize(connector, access, grant, need) = "allowed"
    PROVE  /\ access # "prohibited"
           /\ ConsentRequired(access, grant, need) => grant.consent
           /\ need.credential => grant.credential # None
           /\ grant.credential # None =>
                 grant.credential.connector = connector /\ grant.availability # None
           /\ grant.availability \notin {"unavailable", "denied"}
<1> DEFINE has(test) == grant.credential # None /\ test
           checks == <<
      Check(access = "prohibited", "prohibited"),
      Check(ConsentRequired(access, grant, need) /\ ~grant.consent, "explicit-consent-required"),
      Check((need.credential \/ access = "authenticated-explicit-consent") /\ ~has(TRUE),
            "credential-required"),
      Check(has(grant.credential.connector # connector), "denied"),
      Check(has(need.requirement # "none" /\ grant.credential.requirement # need.requirement), "denied"),
      Check(has(grant.availability = None), "credential-required"),
      Check(grant.availability = "unavailable", "credential-required"),
      Check(grant.availability = "denied", "denied")>>
<1>1. FirstOf(checks) = "allowed"
  BY DEF Authorize
<1>2. Len(checks) = 8
  OBVIOUS
<1>3. \A i \in 1..8 : checks[i].status # "allowed"
  BY DEF Check
<1>4. \A i \in 1..8 : ~checks[i].fails
  <2> HIDE DEF checks
  <2> QED BY <1>1, <1>2, <1>3, AllowedPassesAll
<1>5. /\ ~checks[1].fails /\ ~checks[2].fails /\ ~checks[3].fails /\ ~checks[4].fails
      /\ ~checks[6].fails /\ ~checks[7].fails /\ ~checks[8].fails
  <2> HIDE DEF checks
  <2> QED BY <1>4
<1> QED BY <1>5 DEF Check

\* The connectors, who have no credential and no consent, acquire nothing
\* that asks for one.
LEMMA OnlyPublicIsAcquired ==
    ASSUME NEW access \in Levels, MayAcquire("web", access, Nothing, "none")
    PROVE  access = "public-only"
<1> DEFINE need == [requirement |-> "none", credential |-> FALSE, consent |-> FALSE]
<1>1. Authorize("web", access, Nothing, need) = "allowed"
  BY DEF MayAcquire
<1>2. access # "prohibited" /\ (ConsentRequired(access, Nothing, need) => Nothing.consent)
  <2> HIDE DEF need
  <2> QED BY <1>1, AuthorizedHas
<1>3. access # "authenticated-explicit-consent"
  BY <1>2 DEF ConsentRequired, Nothing
<1> QED BY <1>2, <1>3 DEF Levels

\* What a grant must hold for bytes kept under a class of policy.
GrantServes(class, grant) ==
    /\ class = "consented-private-source" => grant.consent
    /\ class # "public-source" => grant.credential # None
    /\ grant.credential # None =>
         /\ grant.credential.connector = "web" /\ grant.availability = "available"
         /\ grant.credential.scope = "none" \/ grant.consent

\* The evaluation of a persistence asks for that grant.
LEMMA OnlyGrantedIsKept ==
    ASSUME NEW access, NEW policy \in LifecyclePolicies, NEW grant \in Grants, NEW protected,
           MayPersist("web", access, policy, grant, protected)
    PROVE  GrantServes(policy.class, grant)
<1> DEFINE authorized == Authorize("web", access, grant, NeedOf(policy))
           checks == <<
      Check(~ValidPolicy(policy) \/ ~ValidGrant(grant), "denied"),
      Check(authorized = "prohibited", "prohibited"),
      Check("persist" = "delete" /\ policy.retention = "legal-hold", "denied"),
      Check("persist" = "persist" /\ (\/ policy.retention = "ephemeral"
                                      \/ policy.encryption = "not-persisted"
                                      \/ policy.redaction = "discard-after-normalization"), "denied"),
      Check(authorized # "allowed", authorized)>>
<1>1. FirstOf(checks) = "allowed"
  BY DEF MayPersist, Evaluate
<1>2. Len(checks) = 5
  OBVIOUS
<1>3. \A i \in 1..5 : checks[i].fails => checks[i].status # "allowed"
  <2>1. \A i \in 1..4 : checks[i].status # "allowed"
    <3> HIDE DEF authorized
    <3> QED BY DEF Check
  <2>2. checks[5].fails => checks[5].status # "allowed"
    <3> HIDE DEF authorized
    <3> QED BY DEF Check
  <2>3. \A i \in 1..5 : i \in 1..4 \/ i = 5
    OBVIOUS
  <2> HIDE DEF checks
  <2> QED BY <2>1, <2>2, <2>3
<1>4. \A i \in 1..5 : ~checks[i].fails
  <2> HIDE DEF checks
  <2> QED BY <1>1, <1>2, <1>3, AllowedPassesAll
<1>5. authorized = "allowed"
  <2>1. ~checks[5].fails
    <3> HIDE DEF checks
    <3> QED BY <1>4
  <2> HIDE DEF authorized
  <2> QED BY <2>1 DEF Check
<1>6. /\ ConsentRequired(access, grant, NeedOf(policy)) => grant.consent
      /\ NeedOf(policy).credential => grant.credential # None
      /\ grant.credential # None =>
            grant.credential.connector = "web" /\ grant.availability # None
      /\ grant.availability \notin {"unavailable", "denied"}
  BY <1>5, AuthorizedHas
<1>7. policy.class # "public-source" =>
         policy.class \in {"consented-private-source", "restricted-operational"}
  BY DEF LifecyclePolicies
<1>8. grant.availability \in {"available", "unavailable", "denied", None}
      /\ grant.credential \in Credentials \cup {None}
  BY DEF Grants
<1>9. grant.credential # None =>
         grant.credential.scope = "none" \/ grant.credential.scope = "explicit-source-access"
  BY <1>8 DEF Credentials
<1> QED BY <1>6, <1>7, <1>8, <1>9 DEF GrantServes, ConsentRequired, NeedOf

-----------------------------------------------------------------------------
(* The surest candidate                                                    *)

\* One of some ranked things ranks highest.
LEMMA HighestIsThere ==
    ASSUME NEW C, C # {}, NEW rank, \A c \in C : rank[c] \in 0..300
    PROVE  \E e \in C : \A f \in C : rank[f] <= rank[e]
<1> DEFINE below == {300 - rank[c] : c \in C}
<1>1. below \subseteq Nat /\ below # {}
  OBVIOUS
<1>2. PICK m \in below : \A i \in below : m <= i
  <2> HIDE DEF below
  <2> QED BY <1>1, LeastIsThere
<1>3. PICK e \in C : m = 300 - rank[e]
  BY <1>2
<1>4. ASSUME NEW f \in C PROVE rank[f] <= rank[e]
  <2>1. 300 - rank[e] <= 300 - rank[f]
    BY <1>2, <1>3
  <2>2. rank[e] \in Int /\ rank[f] \in Int
    OBVIOUS
  <2> QED BY <2>1, <2>2
<1> QED BY <1>4

\* Candidates of which no two are equally sure, but for the hint.
Distinguished(field, C) ==
    /\ \A e \in C : Confidence[field][e] \in 0..100
    /\ \A e, f \in C : e # f /\ Confidence[field][e] = Confidence[field][f] =>
          e = "hint" \/ f = "hint"

\* Among them selectCandidate has one to select.
LEMMA OnePrecedes ==
    ASSUME NEW field, NEW C, C # {}, Distinguished(field, C)
    PROVE  \E e \in C : \A f \in C \ {e} : Precedes(field, e, f)
<1> DEFINE sure(e) == Confidence[field][e]
           rank == [e \in C |-> 2 * sure(e) + (IF e = "hint" THEN 0 ELSE 1)]
<1>0. \A e \in C : sure(e) \in 0..100
  BY DEF Distinguished
<1>1. \A e \in C : rank[e] \in 0..300
  BY <1>0
<1>2. PICK e \in C : \A f \in C : rank[f] <= rank[e]
  <2> HIDE DEF rank
  <2> QED BY <1>1, HighestIsThere
<1>3. ASSUME NEW f \in C, f # e PROVE Precedes(field, e, f)
  <2>1. 2 * sure(f) + (IF f = "hint" THEN 0 ELSE 1)
           <= 2 * sure(e) + (IF e = "hint" THEN 0 ELSE 1)
    BY <1>2
  <2>2. sure(e) \in Int /\ sure(f) \in Int
    BY <1>0
  <2>3. sure(f) = sure(e) => e = "hint" \/ f = "hint"
    BY <1>3 DEF Distinguished
  <2>4. sure(e) > sure(f) \/ (sure(e) = sure(f) /\ f = "hint")
    <3> HIDE DEF sure
    <3> QED BY <1>3, <2>1, <2>2, <2>3
  <2> QED BY <2>4 DEF Precedes
<1> QED BY <1>3

\* What HTML says of a field, with the hint where a caller may give one.
LEMMA HtmlIsDistinguished ==
    ASSUME NEW field \in Fields, NEW C,
           C \subseteq HtmlEvidence(field) \cup (IF field \in Hintable THEN {"hint"} ELSE {})
    PROVE  Distinguished(field, C)
<1>1. CASE field = "title"
  BY <1>1 DEF Distinguished, HtmlEvidence, Confidence, Hintable
<1>2. CASE field = "body"
  BY <1>2 DEF Distinguished, HtmlEvidence, Confidence, Hintable
<1>3. CASE field = "date"
  BY <1>3 DEF Distinguished, HtmlEvidence, Confidence, Hintable
<1>4. CASE field = "canonical"
  BY <1>4 DEF Distinguished, HtmlEvidence, Confidence, Hintable
<1>5. CASE field = "language"
  BY <1>5 DEF Distinguished, HtmlEvidence, Confidence, Hintable
<1>6. CASE field = "publisher"
  BY <1>6 DEF Distinguished, HtmlEvidence, Confidence, Hintable
<1>7. CASE field = "type"
  BY <1>7 DEF Distinguished, HtmlEvidence, Confidence, Hintable
<1> QED BY <1>1, <1>2, <1>3, <1>4, <1>5, <1>6, <1>7 DEF Fields, Confidence

\* Plain text has one line or the whole to offer.
LEMMA TextIsDistinguished ==
    ASSUME NEW field \in Fields, NEW C,
           C \subseteq (CASE field = "title" -> {"first_line"} [] field = "body" -> {"full"} [] OTHER -> {})
                       \cup (IF field \in Hintable THEN {"hint"} ELSE {})
    PROVE  Distinguished(field, C)
<1>1. CASE field = "title"
  BY <1>1 DEF Distinguished, Confidence, Hintable
<1>2. CASE field = "body"
  BY <1>2 DEF Distinguished, Confidence, Hintable
<1>3. CASE field \notin {"title", "body"}
  <2>1. C \subseteq {"hint"} /\ (C # {} => field \in Hintable)
    BY <1>3
  <2>2. field \in Hintable => Confidence[field]["hint"] = 90
    BY DEF Hintable, Confidence
  <2> QED BY <2>1, <2>2 DEF Distinguished
<1> QED BY <1>1, <1>2, <1>3

\* selectCandidate: what is selected is as sure as anything the page says, and
\* where it is the hint, surer.
LEMMA SelectedIsSurest ==
    ASSUME NEW field \in Fields, NEW hints, hints \subseteq Hintable, NEW page,
           page.found[field] \subseteq HtmlEvidence(field),
           NEW c \in Extracted(page, field)
    PROVE  /\ Selected(page, hints, field) = "hint" => Confidence[field][c] < 90
           /\ Confidence[field][c] <= Confidence[field][Selected(page, hints, field)]
<1> DEFINE C == Extracted(page, field) \cup (IF field \in hints THEN {"hint"} ELSE {})
           chosen == Selected(page, hints, field)
<1>1. Distinguished(field, C)
  <2>1. CASE Format(page) = "plain-text"
    BY <2>1, TextIsDistinguished DEF Extracted
  <2>2. CASE Format(page) # "plain-text"
    <3>1. "json_ld" \in page.found.body /\ field = "body" => "json_ld" \in HtmlEvidence(field)
      OBVIOUS
    <3>2. Extracted(page, field) \subseteq HtmlEvidence(field)
      BY <2>2, <3>1 DEF Extracted
    <3> QED BY <3>2, HtmlIsDistinguished
  <2> QED BY <2>1, <2>2
<1>2. C # {} /\ c \in C
  OBVIOUS
<1>3. chosen = CHOOSE e \in C : \A f \in C \ {e} : Precedes(field, e, f)
  BY <1>2 DEF Selected
<1>4. \E e \in C : \A f \in C \ {e} : Precedes(field, e, f)
  <2> HIDE DEF C
  <2> QED BY <1>1, <1>2, OnePrecedes
<1>5. chosen \in C /\ \A f \in C \ {chosen} : Precedes(field, chosen, f)
  <2> HIDE DEF C, chosen
  <2> QED BY <1>3, <1>4
<1>6. Confidence[field][c] \in 0..100 /\ Confidence[field][chosen] \in 0..100
  <2> HIDE DEF C, chosen
  <2> QED BY <1>1, <1>2, <1>5 DEF Distinguished
<1>7. c # "hint"
  <2>1. "hint" \notin HtmlEvidence(field)
    BY DEF HtmlEvidence
  <2> QED BY <2>1 DEF Extracted
<1>8. Confidence[field][c] <= Confidence[field][chosen]
  <2> HIDE DEF C, chosen
  <2>1. CASE c = chosen
    BY <2>1, <1>6
  <2>2. CASE c # chosen
    <3>1. Precedes(field, chosen, c)
      BY <2>2, <1>2, <1>5
    <3>2. PICK x, y : x = Confidence[field][chosen] /\ y = Confidence[field][c]
      OBVIOUS
    <3>3. x > y \/ x = y
      BY <3>1, <3>2 DEF Precedes
    <3>4. x \in Int /\ y \in Int
      BY <1>6, <3>2
    <3> QED BY <3>2, <3>3, <3>4
  <2> QED BY <2>1, <2>2
<1>9. chosen = "hint" => Confidence[field][c] < 90
  <2> SUFFICES ASSUME chosen = "hint" PROVE Confidence[field][c] < 90
    OBVIOUS
  <2>1. Confidence[field]["hint"] > Confidence[field][c]
    <3> HIDE DEF C, chosen
    <3> QED BY <1>2, <1>5, <1>6, <1>7 DEF Precedes
  <2>2. field \in Hintable
    <3>1. "hint" \notin Extracted(page, field)
      <4>1. "hint" \notin HtmlEvidence(field)
        BY DEF HtmlEvidence
      <4> QED BY <4>1 DEF Extracted
    <3> QED BY <3>1, <1>5
  <2>3. Confidence[field]["hint"] = 90
    BY <2>2 DEF Hintable, Confidence
  <2> QED BY <2>1, <2>3
<1> QED BY <1>8, <1>9

-----------------------------------------------------------------------------
(* The invariant                                                           *)

ChosenOf(page, hints) == {<<field, Selected(page, hints, field)>> : field \in Fields}

\* Between two awaits an execution holds a body only once it was allowed to,
\* has kept only that body and with the grant its class asks for, and makes
\* a document of what the page of the body gives for some hints.
HoldsItsBody(x) ==
    /\ x.at \in {"idle", "acquiring", "ingesting", "ended", "rejected"}
    /\ x.at \in {"idle", "acquiring", "rejected"} => x.body = None /\ x.kept = None
    /\ x.at = "acquiring" => x.access \in Levels
    /\ x.at = "ingesting" => x.body \in Bodies /\ SatisfiesContract(x.body)
    /\ x.body # None => x.access = "public-only"
HasWhatItKept(x) ==
    x.kept # None =>
       /\ x.at \in {"ingesting", "ended"} /\ x.result.persistence = "stored"
       /\ x.body \in Bodies /\ x.kept.artifact = x.body.hash
       /\ GrantServes(x.kept.class, x.kept.grant)
HasItsDocument(x) ==
    /\ x.at # "ended" => x.result.ingestion = "none"
    /\ x.result.ingestion = "document" =>
          /\ x.body \in Bodies /\ SatisfiesContract(x.body)
          /\ \E hints \in Hints : x.selected = ChosenOf(x.body.page, hints)
Carries(x) == HoldsItsBody(x) /\ HasWhatItKept(x) /\ HasItsDocument(x)

\* A retention call knows what it deletes, so it leaves a tombstone.
CallIsKnown(call) ==
    /\ call.phase \in {"looked", "checked"} => call.artifact \in Hashes /\ call.reason \in Reasons
    /\ call.phase = "checked" => call.policy \in Policies

KeptOrBuried(h) == artifacts[h] # None \/ tombstones[h] # None

AcqInv ==
    /\ DOMAIN execution = Executions
    /\ artifacts \in [Hashes -> Policies \cup {None}]
    /\ tombstones \in [Hashes -> Raw!Tombstone \cup {None}]
    /\ DOMAIN process = Workers
    /\ \A w \in Workers : CallIsKnown(process[w])
    /\ \A e \in Executions : Carries(execution[e])
    /\ \A e \in Executions : execution[e].kept # None => KeptOrBuried(execution[e].kept.artifact)

-----------------------------------------------------------------------------
(* Steps of the store and of an execution                                  *)

\* The store forgets nothing that was kept unless it buries it.
StoreGrows ==
    /\ artifacts' \in [Hashes -> Policies \cup {None}]
    /\ tombstones' \in [Hashes -> Raw!Tombstone \cup {None}]
    /\ \A h \in Hashes : KeptOrBuried(h) => KeptOrBuried(h)'

\* A store that is not touched has only grown.
LEMMA QuietStoreGrows ==
    ASSUME AcqInv, UNCHANGED tables
    PROVE  StoreGrows
  BY DEF AcqInv, StoreGrows, tables, KeptOrBuried

\* Storing an artifact loses none, and it is there or buried.
LEMMA StoreKeeps ==
    ASSUME AcqInv, NEW h \in Hashes, NEW policy \in Policies, NEW q, Store(h, policy, q)
    PROVE  StoreGrows /\ KeptOrBuried(h)'
<1>1. policy # None
  BY AcquisitionAssumption
<1>2. CASE Raw!InsertOccurrence(h, policy, q)
  BY <1>1, <1>2 DEF Raw!InsertOccurrence, AcqInv, StoreGrows, KeptOrBuried
<1>3. CASE Raw!InsertArtifact(h, policy, q)
  <2>1. artifacts' = [artifacts EXCEPT ![h] = policy] /\ UNCHANGED tombstones
    BY <1>3 DEF Raw!InsertArtifact
  <2> QED BY <1>1, <2>1 DEF AcqInv, StoreGrows, KeptOrBuried
<1> QED BY <1>2, <1>3 DEF Store

\* A step of one execution keeps the invariant when what it becomes carries
\* what it must and what it keeps is in the store.
LEMMA BecomesKeeps ==
    ASSUME AcqInv, NEW e \in Executions, NEW x, Becomes(e, x), Carries(x),
           UNCHANGED process, StoreGrows,
           x.kept # None => KeptOrBuried(x.kept.artifact)'
    PROVE  AcqInv'
<1>1. DOMAIN execution = Executions /\ \A d \in Executions : Carries(execution[d])
  BY DEF AcqInv
<1>2. /\ DOMAIN execution' = Executions
      /\ \A d \in Executions : execution'[d] = IF d = e THEN x ELSE execution[d]
  BY <1>1 DEF Becomes
<1>3. ASSUME NEW d \in Executions PROVE Carries(execution[d])'
  <2>1. CASE d = e
    BY <1>2, <2>1 DEF Carries, HoldsItsBody, HasWhatItKept, HasItsDocument
  <2>2. CASE d # e
    BY <1>1, <1>2, <2>2 DEF Carries, HoldsItsBody, HasWhatItKept, HasItsDocument
  <2> QED BY <2>1, <2>2
<1>4. ASSUME NEW d \in Executions, execution'[d].kept # None
      PROVE  KeptOrBuried(execution[d].kept.artifact)'
  <2>1. CASE d = e
    BY <1>2, <1>4, <2>1 DEF KeptOrBuried
  <2>2. CASE d # e
    <3>1. execution'[d] = execution[d]
      BY <1>2, <2>2
    <3>2. execution[d].kept.artifact \in Hashes
      BY <1>1, <1>4, <3>1 DEF Carries, HasWhatItKept, Hashes
    <3>3. KeptOrBuried(execution[d].kept.artifact)
      BY <1>4, <3>1 DEF AcqInv
    <3> QED BY <3>1, <3>2, <3>3 DEF StoreGrows, KeptOrBuried
  <2> QED BY <2>1, <2>2
<1>5. DOMAIN process' = Workers /\ \A w \in Workers : CallIsKnown(process[w])'
  BY DEF AcqInv, CallIsKnown
<1> QED BY <1>2, <1>3, <1>4, <1>5 DEF AcqInv, StoreGrows

\* A step of a call keeps it when the call knows what it deletes.
LEMMA CallKeeps ==
    ASSUME AcqInv, NEW w \in Workers, NEW call, CallIsKnown(call),
           process' = [process EXCEPT ![w] = call], UNCHANGED execution, StoreGrows
    PROVE  AcqInv'
<1>1. DOMAIN process = Workers /\ \A v \in Workers : CallIsKnown(process[v])
  BY DEF AcqInv
<1>2. /\ DOMAIN process' = Workers
      /\ \A v \in Workers : process'[v] = IF v = w THEN call ELSE process[v]
  BY <1>1
<1>3. \A v \in Workers : CallIsKnown(process[v])'
  BY <1>1, <1>2 DEF CallIsKnown
<1>4. \A d \in Executions : Carries(execution[d])'
  BY DEF AcqInv, Carries, HoldsItsBody, HasWhatItKept, HasItsDocument
<1>5. ASSUME NEW d \in Executions, execution'[d].kept # None
      PROVE  KeptOrBuried(execution[d].kept.artifact)'
  <2>1. execution[d].kept.artifact \in Hashes
    BY <1>5 DEF AcqInv, Carries, HasWhatItKept, Hashes
  <2>2. KeptOrBuried(execution[d].kept.artifact)
    BY <1>5 DEF AcqInv
  <2> QED BY <2>1, <2>2 DEF StoreGrows, KeptOrBuried
<1> QED BY <1>2, <1>3, <1>4, <1>5 DEF AcqInv, StoreGrows

-----------------------------------------------------------------------------
(* The actions of an execution                                             *)

\* Nothing is acquired, and nothing is stored.
LEMMA InitHolds == Init => AcqInv
  BY DEF Init, Raw!Init, Raw!Idle, Idle, Result, AcqInv, CallIsKnown, Carries,
         HoldsItsBody, HasWhatItKept, HasItsDocument

\* An execution without a response carries nothing that is kept.
LEMMA NotAcquiredCarries == Carries(NotAcquired) /\ NotAcquired.kept = None
  BY DEF NotAcquired, Idle, Result, Carries, HoldsItsBody, HasWhatItKept, HasItsDocument

\* Starting an execution keeps the invariant.
LEMMA StartKeeps ==
    ASSUME AcqInv, NEW e \in Executions, Start(e)
    PROVE  AcqInv'
<1>1. PICK connector \in Connectors, request \in Requests, access \in Levels,
           asked \in ContentKinds \cup {Unasked}, valid \in BOOLEAN :
         Becomes(e, IF valid /\ ~Refuses(connector, access, asked) /\ Supports(connector, asked)
                    THEN [Idle EXCEPT !.at = "acquiring", !.connector = connector,
                             !.request = request, !.access = access, !.asked = asked]
                    ELSE NotAcquired)
  BY DEF Start
<1>2. StoreGrows /\ UNCHANGED process
  BY QuietStoreGrows DEF Start
<1>3. CASE Becomes(e, NotAcquired)
  BY <1>2, <1>3, NotAcquiredCarries, BecomesKeeps
<1>4. CASE ~Becomes(e, NotAcquired)
  <2>1. PICK x : x = [Idle EXCEPT !.at = "acquiring", !.connector = connector,
                         !.request = request, !.access = access, !.asked = asked]
    OBVIOUS
  <2>2. Becomes(e, x)
    BY <1>1, <1>4, <2>1
  <2>3. Carries(x) /\ x.kept = None
    BY <2>1 DEF Idle, Result, Carries, HoldsItsBody, HasWhatItKept, HasItsDocument
  <2> QED BY <1>2, <2>2, <2>3, BecomesKeeps
<1> QED BY <1>3, <1>4

\* So does an acquisition that fails or is rejected.
LEMMA FailsKeeps ==
    ASSUME AcqInv, NEW e \in Executions, AcquisitionFails(e) \/ AcquisitionRejects(e)
    PROVE  AcqInv'
<1>1. StoreGrows /\ UNCHANGED process
  BY QuietStoreGrows DEF AcquisitionFails, AcquisitionRejects
<1>2. Carries(Rejected) /\ Rejected.kept = None
  BY DEF Rejected, Idle, Result, Carries, HoldsItsBody, HasWhatItKept, HasItsDocument
<1>3. Becomes(e, NotAcquired) \/ Becomes(e, Rejected)
  BY DEF AcquisitionFails, AcquisitionRejects
<1> QED BY <1>1, <1>2, <1>3, NotAcquiredCarries, BecomesKeeps

\* What an execution may have kept of a body when it comes to the bridge.
MayHaveKept(body, persistence, kept) ==
    kept # None => /\ persistence = "stored" /\ kept.artifact = body.hash
                   /\ GrantServes(kept.class, kept.grant)

\* Whatever the bridge answers, the execution keeps what it stored.
LEMMA BridgedCarries ==
    ASSUME AcqInv, NEW e \in Executions, NEW body \in Bodies, NEW persistence, NEW kept,
           execution[e].at = "acquiring", Authorized(e), SatisfiesContract(body),
           MayHaveKept(body, persistence, kept), Bridged(e, body, persistence, kept)
    PROVE  \E x : Becomes(e, x) /\ Carries(x) /\ x.kept = kept
<1>1. execution[e].access = "public-only"
  <2>1. execution[e].access \in Levels
    BY DEF AcqInv, Carries, HoldsItsBody
  <2> QED BY <2>1, OnlyPublicIsAcquired DEF Authorized
<1>2. PICK had : had = [Idle EXCEPT !.request = execution[e].request,
                           !.access = execution[e].access, !.body = body, !.kept = kept]
  OBVIOUS
<1>3. \/ Becomes(e, [had EXCEPT !.at = "ingesting", !.result.persistence = persistence])
      \/ Becomes(e, [had EXCEPT !.at = "ended", !.result = BridgeFailure(persistence)])
  BY <1>2 DEF Bridged
<1>4. PICK x : /\ Becomes(e, x)
               /\ \/ x = [had EXCEPT !.at = "ingesting", !.result.persistence = persistence]
                  \/ x = [had EXCEPT !.at = "ended", !.result = BridgeFailure(persistence)]
  BY <1>3
<1>5. /\ x.at \in {"ingesting", "ended"} /\ x.access = "public-only"
      /\ x.body = body /\ x.kept = kept
      /\ x.result.persistence = persistence /\ x.result.ingestion = "none"
  <2>1. had = [at |-> "idle", connector |-> "none", request |-> execution[e].request,
               access |-> "public-only", asked |-> Unasked, body |-> body, kept |-> kept,
               result |-> [stage |-> "none", persistence |-> "none", ingestion |-> "none"],
               selected |-> {}]
    BY <1>1, <1>2 DEF Idle, Result
  <2>2. CASE x = [had EXCEPT !.at = "ingesting", !.result.persistence = persistence]
    BY <2>1, <2>2
  <2>3. CASE x = [had EXCEPT !.at = "ended", !.result = BridgeFailure(persistence)]
    BY <2>1, <2>3 DEF BridgeFailure, Result
  <2> QED BY <1>4, <2>2, <2>3
<1>6. Carries(x)
  BY <1>5 DEF Carries, HoldsItsBody, HasWhatItKept, HasItsDocument, MayHaveKept
<1> QED BY <1>4, <1>5, <1>6

\* So does one that succeeds.
LEMMA AcquiredKeeps ==
    ASSUME AcqInv, NEW e \in Executions, Acquired(e)
    PROVE  AcqInv'
<1>1. PICK body \in Bodies :
         /\ SatisfiesContract(body)
         /\ Persist(e, body) \/ (Bridged(e, body, "none", None) /\ UNCHANGED tables)
  BY DEF Acquired, Answers
<1>2. execution[e].at = "acquiring" /\ Authorized(e) /\ UNCHANGED process
  BY DEF Acquired
<1>3. ASSUME NEW persistence, Bridged(e, body, persistence, None), UNCHANGED tables
      PROVE  AcqInv'
  <2>1. MayHaveKept(body, persistence, None)
    BY DEF MayHaveKept
  <2>2. PICK x : Becomes(e, x) /\ Carries(x) /\ x.kept = None
    BY <1>1, <1>2, <1>3, <2>1, BridgedCarries
  <2> QED BY <1>2, <1>3, <2>2, QuietStoreGrows, BecomesKeeps
<1>4. ASSUME NEW policy \in Policies, NEW grant \in OfferedGrants, NEW protected \in BOOLEAN,
             MayPersist("web", execution[e].access, policy, grant, protected),
             Store(body.hash, policy, execution[e].request),
             Bridged(e, body, "stored",
                     [artifact |-> body.hash, class |-> policy.class, grant |-> grant])
      PROVE  AcqInv'
  <2>1. PICK kept : kept = [artifact |-> body.hash, class |-> policy.class, grant |-> grant]
    OBVIOUS
  <2>2. GrantServes(kept.class, kept.grant) /\ kept.artifact = body.hash
    <3>1. policy \in LifecyclePolicies /\ grant \in Grants
      BY AcquisitionAssumption
    <3> QED BY <1>4, <2>1, <3>1, OnlyGrantedIsKept
  <2>3. Bridged(e, body, "stored", kept) /\ MayHaveKept(body, "stored", kept)
    BY <1>4, <2>1, <2>2 DEF MayHaveKept
  <2>4. PICK x : Becomes(e, x) /\ Carries(x) /\ x.kept = kept
    BY <1>1, <1>2, <2>3, BridgedCarries
  <2>5. body.hash \in Hashes
    BY DEF Hashes
  <2>6. StoreGrows /\ KeptOrBuried(body.hash)'
    BY <1>4, <2>5, StoreKeeps
  <2>7. KeptOrBuried(x.kept.artifact)'
    BY <2>2, <2>4, <2>6 DEF KeptOrBuried
  <2> QED BY <1>2, <2>4, <2>6, <2>7, BecomesKeeps
<1> QED BY <1>1, <1>3, <1>4 DEF Persist

\* A document is what the page gives for the hints of the caller.
LEMMA IngestedKeeps ==
    ASSUME AcqInv, NEW e \in Executions, Ingested(e)
    PROVE  AcqInv'
<1> DEFINE had == execution[e]
<1>1. PICK hints \in Hints :
         Becomes(e, [had EXCEPT !.at = "ended",
                       !.selected = Ingest(had.body.page, hints).selected,
                       !.result = Result(Stage(had.result.persistence,
                                               Ingest(had.body.page, hints).error),
                                         had.result.persistence,
                                         IF Ingest(had.body.page, hints).error = "none"
                                         THEN "document" ELSE "error")])
  BY DEF Ingested
<1>2. had.at = "ingesting" /\ StoreGrows /\ UNCHANGED process
  BY QuietStoreGrows DEF Ingested
<1>3. PICK ingested : ingested = Ingest(had.body.page, hints)
  OBVIOUS
<1>4. ingested.error = "none" => ingested.selected = ChosenOf(had.body.page, hints)
  BY <1>3 DEF Ingest, ChosenOf
<1>5. Carries(had) /\ (had.kept # None => KeptOrBuried(had.kept.artifact))
      /\ DOMAIN execution = Executions
  BY DEF AcqInv
<1>6. PICK x : x = [had EXCEPT !.at = "ended", !.selected = ingested.selected,
                      !.result = Result(Stage(had.result.persistence, ingested.error),
                                        had.result.persistence,
                                        IF ingested.error = "none" THEN "document" ELSE "error")]
  OBVIOUS
<1>7. Becomes(e, x)
  BY <1>1, <1>3, <1>6
<1> HIDE DEF had
<1>8. /\ x.at = "ended" /\ x.access = had.access /\ x.body = had.body /\ x.kept = had.kept
      /\ x.selected = ingested.selected /\ x.result.persistence = had.result.persistence
      /\ x.result.ingestion = IF ingested.error = "none" THEN "document" ELSE "error"
  BY <1>6 DEF Result
<1>9. Carries(x)
  BY <1>2, <1>4, <1>5, <1>8 DEF Carries, HoldsItsBody, HasWhatItKept, HasItsDocument
<1>10. x.kept # None => KeptOrBuried(x.kept.artifact)'
  <2> SUFFICES ASSUME x.kept # None PROVE KeptOrBuried(x.kept.artifact)'
    OBVIOUS
  <2>1. x.kept.artifact \in Hashes /\ KeptOrBuried(x.kept.artifact)
    BY <1>5, <1>8 DEF Carries, HasWhatItKept, Hashes
  <2> QED BY <1>2, <2>1 DEF StoreGrows, KeptOrBuried
<1> QED BY <1>2, <1>7, <1>9, <1>10, BecomesKeeps

-----------------------------------------------------------------------------
(* The retention calls and the theorems                                    *)

\* So does the transaction that deletes an artifact.
LEMMA TransactionKeeps ==
    ASSUME AcqInv, NEW w \in Workers, Raw!DeleteTransaction(w), UNCHANGED execution
    PROVE  AcqInv'
<1> DEFINE h == process[w].artifact
           stone == [policy |-> process[w].policy, reason |-> process[w].reason]
           over == Raw!Idle("deleted")
<1>1. h \in Hashes /\ stone \in Raw!Tombstone /\ stone # None
  BY AcquisitionAssumption DEF AcqInv, CallIsKnown, Raw!DeleteTransaction, Raw!Tombstone
<1>2. Raw!DeleteToTombstone(h, stone) /\ process' = [process EXCEPT ![w] = over]
  BY DEF Raw!DeleteTransaction, Raw!Answer
<1>3. CallIsKnown(over)
  BY DEF Raw!Idle, CallIsKnown
<1>4. StoreGrows
  <2> HIDE DEF h, stone
  <2>1. CASE ~Raw!Active(h)
    BY <1>2, <2>1 DEF Raw!DeleteToTombstone, AcqInv, StoreGrows, KeptOrBuried
  <2>2. CASE Raw!Active(h)
    <3>1. /\ artifacts' = [artifacts EXCEPT ![h] = None]
          /\ tombstones' = [tombstones EXCEPT ![h] = Raw!Entombed(h, stone)]
      BY <1>2, <2>2 DEF Raw!DeleteToTombstone
    <3>2. Raw!Entombed(h, stone) \in Raw!Tombstone \cup {None} /\ Raw!Entombed(h, stone) # None
      BY <1>1 DEF Raw!Entombed, AcqInv
    <3> QED BY <1>1, <3>1, <3>2 DEF AcqInv, StoreGrows, KeptOrBuried
  <2> QED BY <2>1, <2>2
<1> QED BY <1>2, <1>3, <1>4, CallKeeps

\* So does everything a retention worker does.
LEMMA RetentionKeeps ==
    ASSUME AcqInv, NEW w \in Workers, Retention(w)
    PROVE  AcqInv'
<1>1. UNCHANGED execution
  BY DEF Retention
<1>2. ASSUME NEW answer, Raw!Answer(w, answer), UNCHANGED Raw!tables
      PROVE  AcqInv'
  <2>1. PICK call : call = Raw!Idle(answer)
    OBVIOUS
  <2>2. CallIsKnown(call) /\ process' = [process EXCEPT ![w] = call]
    BY <1>2, <2>1 DEF Raw!Answer, Raw!Idle, CallIsKnown
  <2>3. StoreGrows
    BY <1>2, QuietStoreGrows DEF tables, Raw!tables
  <2> QED BY <1>1, <2>2, <2>3, CallKeeps
<1>3. ASSUME NEW h \in Hashes, NEW reason \in Reasons, Raw!FindTombstone(w, h, reason)
      PROVE  AcqInv'
  <2>1. CASE Raw!Answer(w, "already-deleted")
    BY <1>2, <1>3, <2>1 DEF Raw!FindTombstone
  <2>2. CASE ~Raw!Answer(w, "already-deleted")
    <3>1. PICK call : call = [Raw!Idle("none") EXCEPT !.phase = "looked",
                                 !.artifact = h, !.reason = reason]
      OBVIOUS
    <3>2. process' = [process EXCEPT ![w] = call] /\ UNCHANGED Raw!tables
      BY <1>3, <2>2, <3>1 DEF Raw!FindTombstone
    <3>3. CallIsKnown(call)
      BY <3>1 DEF Raw!Idle, CallIsKnown
    <3>4. StoreGrows
      BY <3>2, QuietStoreGrows DEF tables, Raw!tables
    <3> QED BY <1>1, <3>2, <3>3, <3>4, CallKeeps
  <2> QED BY <2>1, <2>2
<1>4. ASSUME Raw!CheckRecord(w) PROVE AcqInv'
  <2>1. CASE Raw!Answer(w, "refused")
    BY <1>2, <1>4, <2>1 DEF Raw!CheckRecord
  <2>2. CASE ~Raw!Answer(w, "refused")
    <3>1. PICK row : row = artifacts[process[w].artifact]
      OBVIOUS
    <3>2. /\ row # None /\ UNCHANGED Raw!tables /\ process[w].phase = "looked"
          /\ process' = [process EXCEPT ![w] = [@ EXCEPT !.phase = "checked", !.policy = row]]
      BY <1>4, <2>2, <3>1 DEF Raw!CheckRecord
    <3>3. PICK call : call = [process[w] EXCEPT !.phase = "checked", !.policy = row]
      OBVIOUS
    <3>4. process' = [process EXCEPT ![w] = call]
      BY <3>2, <3>3
    <3>5. CallIsKnown(process[w])
      BY DEF AcqInv
    <3>6. row \in Policies
      BY <3>1, <3>2, <3>5 DEF AcqInv, CallIsKnown
    <3>7. CallIsKnown(call)
      BY <3>2, <3>3, <3>5, <3>6 DEF CallIsKnown
    <3>8. StoreGrows
      BY <3>2, QuietStoreGrows DEF tables, Raw!tables
    <3> QED BY <1>1, <3>4, <3>7, <3>8, CallKeeps
  <2> QED BY <2>1, <2>2
<1>5. ASSUME Raw!Fail(w) PROVE AcqInv'
  BY <1>2, <1>5 DEF Raw!Fail
<1> QED BY <1>1, <1>3, <1>4, <1>5, TransactionKeeps DEF Retention

\* So does every step.
LEMMA NextKeeps == AcqInv /\ [Next]_vars => AcqInv'
<1> SUFFICES ASSUME AcqInv, [Next]_vars PROVE AcqInv'
  OBVIOUS
<1>1. CASE UNCHANGED vars
  BY <1>1 DEF vars, tables, AcqInv, CallIsKnown, Carries, HoldsItsBody, HasWhatItKept,
              HasItsDocument, KeptOrBuried
<1>2. ASSUME NEW e \in Executions, Execute(e) PROVE AcqInv'
  BY <1>2, StartKeeps, FailsKeeps, AcquiredKeeps, IngestedKeeps DEF Execute
<1> QED BY <1>1, <1>2, RetentionKeeps DEF Next

\* The invariant holds in every behaviour.
LEMMA AcquisitionIsSound == Spec => []AcqInv
  BY InitHolds, NextKeeps, PTL DEF Spec

\* Whatever interleaves with whatever deletion: an execution that kept bytes
\* says so, and they are there or were deleted with a tombstone.
THEOREM StoredIsReportedHolds == Spec => []StoredIsReported
<1>1. AcqInv => StoredIsReported
  BY DEF AcqInv, Carries, HasWhatItKept, StoredIsReported, KeptOrBuried
<1> QED BY <1>1, AcquisitionIsSound, PTL

\* Nothing is acquired, and nothing kept, beyond what was granted for it.
THEOREM AccessIsGrantedHolds == Spec => []AccessIsGranted
<1>1. AcqInv => AccessIsGranted
  BY DEF AcqInv, Carries, HoldsItsBody, HasWhatItKept, GrantServes, AccessIsGranted
<1> QED BY <1>1, AcquisitionIsSound, PTL

\* A document is made of the very bytes that were kept, and no hint of the
\* caller replaces what the page says as surely.
THEOREM DocumentsAreFaithfulHolds == Spec => []DocumentsAreFaithful
<1>1. AcqInv => TextIsOfTheBytes
  BY DEF AcqInv, Carries, HasWhatItKept, HasItsDocument, SatisfiesContract, TextIsOfTheBytes
<1>2. AcqInv => HintsAreFallbacks
  <2> SUFFICES ASSUME AcqInv, NEW e \in Executions,
                      execution[e].result.ingestion = "document",
                      NEW s \in execution[e].selected,
                      NEW c \in Extracted(execution[e].body.page, s[1])
               PROVE  /\ s[2] = "hint" => Confidence[s[1]][c] < 90
                      /\ Confidence[s[1]][c] <= Confidence[s[1]][s[2]]
    BY DEF HintsAreFallbacks
  <2>1. PICK hints \in Hints : execution[e].selected = ChosenOf(execution[e].body.page, hints)
    BY DEF AcqInv, Carries, HasItsDocument
  <2>2. PICK page : page = execution[e].body.page
    OBVIOUS
  <2>3. PICK field \in Fields : s = <<field, Selected(page, hints, field)>>
    BY <2>1, <2>2 DEF ChosenOf
  <2>4. page.found[field] \subseteq HtmlEvidence(field) /\ hints \subseteq Hintable
    <3>1. execution[e].body \in Bodies
      BY DEF AcqInv, Carries, HasItsDocument
    <3> QED BY <2>2, <3>1, AcquisitionAssumption
  <2>5. c \in Extracted(page, field) /\ s[1] = field /\ s[2] = Selected(page, hints, field)
    BY <2>2, <2>3
  <2> QED BY <2>4, <2>5, SelectedIsSurest
<1> QED BY <1>1, <1>2, AcquisitionIsSound, PTL DEF DocumentsAreFaithful
=============================================================================
