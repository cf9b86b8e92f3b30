---------------------------- MODULE DossierBuilder ----------------------------
(***************************************************************************)
(* EventDossierBuilder (dossier/builder.ts, validation.ts): the dossier of *)
(* an event from the records that name it, and whether it says something   *)
(* the previous revision did not.                                          *)
(*                                                                         *)
(* Ids are numbers, in the order localeCompare gives them.  An input has   *)
(* its claims, links and data points in sequences, for their order can     *)
(* show; the rest are sets.  Times are left out, and a confidence is the   *)
(* four counts its score and its level are computed from.                  *)
(***************************************************************************)
EXTENDS Integers, Sequences, FiniteSets

CONSTANT None

Ids(S) == {x.id : x \in S}
Items(s) == {s[k] : k \in DOMAIN s}
Repeats(s) == \E j, k \in DOMAIN s : j < k /\ s[j].id = s[k].id

Primary == {"GovernmentDocument", "StatisticalDataset", "LegalDocument", "CorporateDisclosure"}
Required == {"NewsArticle", "GovernmentDocument", "StatisticalDataset"}

-----------------------------------------------------------------------------
\* validateReferences.
EventMismatch(input) ==
    \E x \in input.documents \cup Items(input.claims) \cup Items(input.points) :
        input.event \notin x.events

BrokenReference(input) ==
    LET here == [documents |-> Ids(input.documents), claims |-> Ids(Items(input.claims)),
                 links |-> Ids(Items(input.links)), points |-> Ids(Items(input.points))] IN
    \/ \E x \in Items(input.claims) \cup Items(input.points) \cup Items(input.links) :
          x.document \notin here.documents
    \/ \E l \in Items(input.links) :
          \/ l.target = "claim" /\ l.of \notin here.claims
          \/ l.target = "data_point" /\ l.of \notin here.points
    \/ \E s \in input.statements : \E f \in DOMAIN here : ~(s[f] \subseteq here[f])

\* DossierStatementSchema: what a statement of its type and author must show.
ValidStatement(s) ==
    LET bare == s.documents = {} /\ s.links = {} /\ s.points = {} IN
    /\ s.type = "confirmed-fact" => ~bare
    /\ s.type = "attributed-claim" => s.claims # {}
    /\ s.type = "forecast" => s.assumes
    /\ s.type = "unknown" => s.unsure
    /\ s.author = "ai" /\ bare => s.type \in {"inference", "unknown"}

-----------------------------------------------------------------------------
\* assessClaims.
LinksOf(input, claim, relations) ==
    {l \in Items(input.links) : l.target = "claim" /\ l.of = claim /\ l.relation \in relations}

Assess(input, claim) ==
    LET supports == LinksOf(input, claim, {"supports"})
        contradicts == LinksOf(input, claim, {"contradicts"})
        context == LinksOf(input, claim, {"contextualizes", "derived_from"})
        links == supports \cup contradicts \cup context
        cited == {d \in input.documents : \E l \in links : l.document = d.id} IN
    [claim |-> claim,
     status |-> CASE contradicts # {} /\ supports # {} -> "disputed"
                  [] contradicts # {} /\ supports = {} -> "contradicted"
                  [] contradicts = {} /\ Cardinality(supports) > 1 -> "supported"
                  [] contradicts = {} /\ Cardinality(supports) = 1 -> "partially-supported"
                  [] OTHER -> "unverified",
     supports |-> Ids(supports), contradicts |-> Ids(contradicts), context |-> Ids(context),
     confidence |-> <<Cardinality(links), Cardinality(cited),
                      Cardinality({d \in cited : d.type \in Primary}),
                      Cardinality(contradicts)>>]

Assessments(input) == {Assess(input, c) : c \in Ids(Items(input.claims))}

\* contradictions, "direct": a link refutes its claim with the first other
\* claim of the document the link is from.
Others(input, l) ==
    {k \in DOMAIN input.claims :
        input.claims[k].id # l.of /\ input.claims[k].document = l.document}
First(S) == CHOOSE k \in S : \A j \in S : k <= j

Refutes(input, k) ==
    LET l == input.links[k] IN
    l.target = "claim" /\ l.relation = "contradicts" /\ Others(input, l) # {}
Refuted(input, k) ==
    {input.links[k].of, input.claims[First(Others(input, input.links[k]))].id}

\* Of two contradictions between the same claims the first stays.
Direct(input) ==
    LET found == {k \in DOMAIN input.links : Refutes(input, k)} IN
    {[type |-> "direct", claims |-> Refuted(input, k), left |-> input.links[k].of,
      links |-> {input.links[k].id}, about |-> None] :
        k \in {k \in found : \A j \in found : j < k => Refuted(input, j) # Refuted(input, k)}}

\* "numerical": values that differ under one name and time, laid to the two
\* first claims whatever they say.
Numerical(input) ==
    LET points == input.points
        claims == Ids(Items(input.claims))
        differing == {k \in DOMAIN points : \E j \in DOMAIN points :
                         /\ points[j].name = points[k].name /\ points[j].at = points[k].at
                         /\ points[j].value # points[k].value} IN
    IF differing = {} \/ Cardinality(claims) < 2 THEN {}
    ELSE {[type |-> "numerical",
           claims |-> {First(claims), First(claims \ {First(claims)})}, left |-> First(claims),
           links |-> {}, about |-> points[First(differing)].name]}

Contradictions(input) == Direct(input) \cup Numerical(input)

\* completeness, in sixtieths: exact for up to six documents and six claims.
Whole == 60
Share(part, all) == IF all = {} THEN 0 ELSE (Cardinality(part) * Whole) \div Cardinality(all)

Critical(input) ==
    {q \in input.questions : q.importance = "critical" /\ q.status = "open"}

Completeness(input) ==
    LET types == {d.type : d \in input.documents}
        assessed == Assessments(input) IN
    [required |-> Share(Required \cap types, Required),
     primary |-> Share({d \in input.documents : d.type \in Primary}, input.documents),
     evidence |-> Share({a \in assessed : a.supports \cup a.contradicts # {}}, assessed),
     timeline |-> IF input.timeline # {} \/ input.started THEN Whole ELSE 0,
     review |-> IF Len(input.claims) < 2 \/ Contradictions(input) # {} THEN Whole
                ELSE Whole \div 2,
     critical |-> Cardinality(Critical(input)),
     missing |-> Required \ types]

\* overallScore, in fiftieths of Whole: the mean of five shares, less a tenth
\* per critical question.
Overall(c) ==
    LET score == 10 * (c.required + c.primary + c.evidence + c.timeline + c.review)
                 - 5 * Whole * c.critical IN
    IF score < 0 THEN 0 ELSE score

-----------------------------------------------------------------------------
\* The draft of build, as its readers see it.
Warnings(input) ==
    {w \in {"unverified", "critical", "contradicting"} :
        \/ w = "unverified" /\ \E a \in Assessments(input) : a.status = "unverified"
        \/ w = "critical" /\ Critical(input) # {}
        \/ w = "contradicting" /\ Contradictions(input) # {}}

Draft(input) ==
    [event |-> input.event, title |-> input.title,
     documents |-> Ids(input.documents), claims |-> Ids(Items(input.claims)),
     evidence |-> Ids(Items(input.links)), points |-> Ids(Items(input.points)),
     entities |-> input.entities, statements |-> input.statements,
     assessments |-> Assessments(input), contradictions |-> Contradictions(input),
     timeline |-> input.timeline, questions |-> input.questions,
     completeness |-> Completeness(input),
     warnings |-> Warnings(input),
     status |-> IF Overall(Completeness(input)) >= 35 * Whole /\ Warnings(input) = {}
                THEN "ready" ELSE "needs-evidence"]

\* semanticView: what the fingerprint is of.
Semantic == {"event", "title", "documents", "claims", "evidence", "points", "entities",
             "statements", "assessments", "contradictions", "timeline", "questions",
             "completeness"}
Fingerprint(draft) == [f \in Semantic |-> draft[f]]

\* changesFrom, by target; a contradiction is named by its type and claims.
Named(draft) ==
    [source_document |-> draft.documents, claim |-> draft.claims, evidence |-> draft.evidence,
     contradiction |-> {<<c.type, c.claims>> : c \in draft.contradictions},
     open_question |-> Ids(draft.questions)]

Reassessed(old, new) ==
    {a.claim : a \in {a \in new.assessments :
        \E b \in old.assessments : b.claim = a.claim /\ b.status # a.status}}

Changes(old, new) ==
    [targets |-> [t \in DOMAIN Named(new) |->
                    [added |-> Named(new)[t] \ Named(old)[t],
                     removed |-> Named(old)[t] \ Named(new)[t]]],
     reassessed |-> Reassessed(old, new),
     completeness |-> Overall(old.completeness) # Overall(new.completeness)]

\* EventDossierSchema: the lists of ids name each claim and each link once.
ValidDraft(input) ==
    ~Repeats(input.claims)
    /\ ~Repeats(SelectSeq(input.links, LAMBDA l : l.target = "claim"))

\* Why build answers nothing but an error, before it compares.
Refusal(input) ==
    CASE EventMismatch(input) -> "EVENT_REFERENCE_MISMATCH"
      [] ~EventMismatch(input) /\ BrokenReference(input) -> "BROKEN_REFERENCE"
      [] ~EventMismatch(input) /\ ~BrokenReference(input)
            /\ (\E s \in input.statements : ~ValidStatement(s))
            -> "INVALID_STATEMENT_CLASSIFICATION"
      [] OTHER -> "none"

\* What a draft becomes: the first revision of a new dossier, or the next after
\* previous.
Revision(draft, previous, freshId) ==
    LET first == previous = None IN
    [dossier |-> IF first THEN freshId ELSE previous.dossier,
     event |-> draft.event,
     number |-> IF first THEN 1 ELSE previous.number + 1,
     after |-> IF first THEN 0 ELSE previous.number,
     changes |-> IF first THEN None ELSE Changes(previous.snapshot, draft),
     snapshot |-> draft]

\* Mutant: The fingerprint contains the time of the build.
NeverTheSame(draft, previous) == FALSE

Unchanged(draft, previous) ==
    previous # None /\ Fingerprint(previous.snapshot) = Fingerprint(draft)

\* What build answers, given the draft of its input.  The code compares before it
\* validates, but the assessments it takes the fingerprint of are lists: where they
\* name a claim or a link twice, the draft is no stored revision's equal.
Outcome(input, draft, previous) ==
    IF Refusal(input) # "none" THEN Refusal(input)
    ELSE IF ~ValidDraft(input) THEN "DOSSIER_VALIDATION_FAILED"
    ELSE IF Unchanged(draft, previous) THEN "unchanged"
    ELSE IF previous = None THEN "created" ELSE "revised"
=============================================================================
