---------------------------- MODULE EvidenceContext ----------------------------
(***************************************************************************)
(* The evidence a question is answered from (context/planner.ts,           *)
(* provider.ts, selection.ts, builder.ts): the candidates among the        *)
(* records, their scores, the few that are selected, and what is missing.  *)
(*                                                                         *)
(* A text is the set of its words.  Records are known by numbers, in the   *)
(* order localeCompare gives, and so are documents, sources, links, events *)
(* and entities; of the documents of a record the first counts.  Scores    *)
(* are millionths; they are exact for questions of one, two or five search *)
(* terms.  The 120 candidates a plan asks for, and the characters of its   *)
(* excerpts, are no limit here.                                            *)
(***************************************************************************)
EXTENDS BriefingContract, SequencesExt

CONSTANTS
    MaxPerSource,       \* maximumItemsPerSource and maximumItemsPerDocument
    MaxPerSection,      \* maximumItemsPerSection
    MaxItems,           \* maximumSelectedItems
    MaxExcerpts         \* maximumExcerpts

\* Each has room for the three that are reserved.
ASSUME ContextAssumption ==
    {MaxPerSource, MaxPerSection, MaxItems, MaxExcerpts} \subseteq Nat \ 0..2

-----------------------------------------------------------------------------
(* The retrieval plan                                                      *)

\* COMMON and INTENT_SECTIONS, each by the section of the package expected to
\* hold it (expectedSection); "asks" keeps them apart where two are held by one.
Common == {<<"directEvidence", 1>>, <<"currentSituation", 1>>, <<"background", 1>>,
           <<"supportingEvidence", 1>>, <<"openQuestions", 1>>, <<"verificationSignals", 1>>}

AsksFor(intent) ==
    CASE intent = "fact-verification" ->
            {<<"background", 2>>, <<"supportingEvidence", 1>>, <<"contradictingEvidence", 1>>,
             <<"background", 3>>, <<"openQuestions", 2>>}
      [] intent = "impact-analysis" ->
            {<<"directEvidence", 2>>, <<"directEvidence", 3>>, <<"directEvidence", 4>>,
             <<"quantitativeData", 1>>, <<"contradictingEvidence", 2>>}
      [] intent = "forecast" ->
            {<<"currentSituation", 2>>, <<"directEvidence", 5>>, <<"directEvidence", 6>>,
             <<"contradictingEvidence", 3>>, <<"verificationSignals", 2>>}
      [] intent = "causal-explanation" ->
            {<<"directEvidence", 1>>, <<"background", 1>>, <<"directEvidence", 7>>,
             <<"contradictingEvidence", 1>>}
      [] intent = "comparison" ->
            {<<"directEvidence", 1>>, <<"supportingEvidence", 1>>, <<"quantitativeData", 1>>,
             <<"background", 3>>}
      [] intent = "personalized-impact" ->
            {<<"directEvidence", 1>>, <<"directEvidence", 4>>, <<"quantitativeData", 1>>,
             <<"contradictingEvidence", 2>>}
      [] OTHER -> {}

RequiredContext(contract) ==
    (IF AsksFor(contract.intent) = {} THEN Common ELSE AsksFor(contract.intent))
    \cup UNION {AsksFor(i) : i \in contract.secondary}
NeedsData(contract) == <<"quantitativeData", 1>> \in RequiredContext(contract)

-----------------------------------------------------------------------------
(* Candidates                                                              *)

Blank == [type |-> "none", id |-> 0, documents |-> <<>>, source |-> 0, events |-> {},
          title |-> {}, words |-> {}, quotes |-> FALSE, primary |-> FALSE, relation |-> "none",
          claims |-> {}, links |-> {}, points |-> {}, entities |-> {}, places |-> {},
          domains |-> {}, key |-> <<>>, revision |-> 0, published |-> 0, foreign |-> FALSE]

PrimaryTypes ==
    {"GovernmentDocument", "StatisticalDataset", "LegalDocument", "CorporateDisclosure"}

\* candidateFromRecord.
FromDocument(r) ==
    [Blank EXCEPT !.type = "source-document", !.id = r.id, !.documents = <<r.id>>,
        !.source = r.source, !.events = r.events, !.title = r.title, !.words = r.words,
        !.quotes = r.quotes, !.primary = r.documentType \in PrimaryTypes,
        !.entities = r.entities, !.key = <<"url", r.url>>, !.published = r.published,
        !.foreign = r.foreign]

FromClaim(r) ==
    [Blank EXCEPT !.type = "claim", !.id = r.id, !.documents = <<r.document>>,
        !.source = r.document, !.events = r.events, !.words = r.words, !.claims = {r.id},
        !.entities = r.entities, !.published = r.published, !.key = <<"claim", r.id>>]

FromLink(r) ==
    [Blank EXCEPT !.type = "evidence-link", !.id = r.id, !.documents = <<r.document>>,
        !.source = r.document, !.events = IF r.target = "event" THEN {r.of} ELSE {},
        !.words = r.words, !.claims = IF r.target = "claim" THEN {r.of} ELSE {},
        !.links = {r.id}, !.points = IF r.target = "data_point" THEN {r.of} ELSE {},
        !.relation = r.relation, !.key = <<"evidence-link", r.id>>]

FromPoint(r) ==
    [Blank EXCEPT !.type = "data-point", !.id = r.id, !.documents = <<r.document>>,
        !.source = r.document, !.events = r.events, !.title = r.title, !.words = r.words,
        !.points = {r.id}, !.entities = r.entities, !.published = r.published,
        !.key = <<"data-point", r.id>>]

FromEntity(r) ==
    [Blank EXCEPT !.type = "entity", !.id = r.id, !.title = r.title, !.words = r.words,
        !.entities = {r.id},
        !.places = IF r.entityType \in {"location", "country"} THEN {r.name} ELSE {},
        !.key = <<"entity", r.id>>]

\* A statement of a dossier: every one of them has the dossier's fingerprint.
FromStatement(r) ==
    [Blank EXCEPT !.type = "dossier-section", !.id = r.id, !.documents = r.documents,
        !.source = r.dossier, !.events = {r.event}, !.title = r.title, !.words = r.words,
        !.entities = r.entities, !.claims = r.claims, !.links = r.links,
        !.points = r.points, !.key = <<"fingerprint", r.dossier>>,
        !.revision = r.revision, !.published = r.published]

\* A candidate the runtime adds of itself stands for a place.
FromPlace(r) ==
    [FromDocument(r) EXCEPT !.title = {r.place}, !.places = {r.place},
        !.domains = {"supply-chain", "technology"}, !.key = <<"place", r.id>>]

CandidateOf(r) ==
    CASE r.record = "document" -> FromDocument(r)
      [] r.record = "claim" -> FromClaim(r)
      [] r.record = "link" -> FromLink(r)
      [] r.record = "point" -> FromPoint(r)
      [] r.record = "entity" -> FromEntity(r)
      [] r.record = "statement" -> FromStatement(r)
      [] r.record = "place" -> FromPlace(r)

\* findCandidates: of statements nothing is filtered.
Found(q, r) ==
    LET c == CandidateOf(r) IN
    r.record = "statement" \/ q.events = {} \/ c.events \cap q.events # {} \/ c.words # {}

Places(q, corpus) == {k \in DOMAIN corpus : Found(q, corpus[k])}
Candidates(q, corpus) == {CandidateOf(corpus[k]) : k \in Places(q, corpus)}

-----------------------------------------------------------------------------
(* Scores                                                                  *)

Category(c) ==
    CASE c.relation = "contradicts" -> "contradicting"
      [] c.relation # "contradicts" /\ c.type = "claim" -> "claim"
      [] c.relation # "contradicts" /\ c.type # "claim" /\ c.primary -> "primary"
      [] OTHER -> "other"

Overlap(terms, words) ==
    IF terms = {} THEN 0
    ELSE (1000 * Cardinality(terms \cap words)) \div Cardinality(terms)

\* In thousandths.
Lexical(q, c) ==
    LET sum == (IF c.quotes THEN 450000 ELSE 0)
               + 250 * Overlap(q.words, c.title) + 300 * Overlap(q.words, c.words) IN
    (IF sum > 1000000 THEN 1000000 ELSE sum) \div 1000

Quality(c) ==
    CASE c.primary -> 100
      [] ~c.primary /\ c.links # {} -> 75
      [] ~c.primary /\ c.links = {} /\ c.claims # {} -> 50
      [] OTHER -> 30

Total(q, c) ==
    LET Shared(S, T, weight) == IF S \cap T # {} THEN weight ELSE 0
        sum == 350 * Lexical(q, c)
               + Shared(c.events, q.events, 150000) + Shared(c.entities, q.entities, 100000)
               + Shared(c.places, q.places, 50000) + Shared(c.domains, q.domains, 100000)
               + 2000 * Quality(c) + (IF c.revision > 0 THEN 40000 ELSE 25000)
               - (IF c.foreign THEN 150000 ELSE 0) IN
    IF sum < 0 THEN 0 ELSE IF sum > 1000000 THEN 1000000 ELSE sum

\* Half of evidenceConfidenceThreshold.
Relevant(q, c) ==
    \/ Total(q, c) >= 200000
    \/ c.primary
    \/ Category(c) = "contradicting"
    \/ c.type = "data-point"

-----------------------------------------------------------------------------
(* selectDiverseCandidates                                                 *)

Rank(b) == IF b THEN 1 ELSE 0

\* Statements come first among the candidates, and what the runtime adds comes
\* before what the caller provides.
Origin(r) == CASE r.record = "statement" -> 1 [] r.record = "place" -> 2 [] OTHER -> 3

\* A stable sort: better scores, then primary, later revised, later published.
Merit(q, corpus, k) ==
    LET c == CandidateOf(corpus[k]) IN
    <<Total(q, c), Rank(c.primary), c.revision, c.published, -c.id, -Origin(corpus[k]), -k>>
Greater(x, y) == \E n \in DOMAIN x : x[n] > y[n] /\ \A m \in 1..(n - 1) : x[m] = y[m]

\* The candidates that are relevant, best first.
Ranked(q, corpus) ==
    LET relevant == {k \in Places(q, corpus) : Relevant(q, CandidateOf(corpus[k]))}
        merit == [k \in relevant |-> Merit(q, corpus, k)]
        ahead == [k \in relevant |-> {j \in relevant : Greater(merit[j], merit[k])}] IN
    [n \in 1..Cardinality(relevant) |->
        CandidateOf(corpus[CHOOSE k \in relevant : Cardinality(ahead[k]) = n - 1])]

\* The first of a sequence that passes, if there is one.
FirstOf(s, Test(_)) ==
    LET passing == {k \in DOMAIN s : Test(s[k])} IN
    IF passing = {} THEN <<>> ELSE <<s[Min(passing)]>>

\* Mutant: Nothing is reserved.
NothingReserved(s, data) == <<>>

Reserved(s, data) ==
    FirstOf(s, LAMBDA c : c.primary)
    \o FirstOf(s, LAMBDA c : Category(c) = "contradicting")
    \o (IF data THEN FirstOf(s, LAMBDA c : c.type = "data-point") ELSE <<>>)

DocumentOf(c) == IF c.documents = <<>> THEN <<"record", c.id>> ELSE <<"document", c.documents[1]>>

Admits(selected, c) ==
    /\ Len(selected) < MaxItems
    /\ \A k \in DOMAIN selected : selected[k].key # c.key
    /\ Cardinality({k \in DOMAIN selected : selected[k].source = c.source}) < MaxPerSource
    /\ Cardinality({k \in DOMAIN selected : DocumentOf(selected[k]) = DocumentOf(c)})
          < MaxPerSource

\* What is taken of a sequence when each element is judged by those taken before it.
Taken(s, Fits(_, _)) ==
    LET taken[n \in 0..Len(s)] ==
            IF n = 0 THEN <<>>
            ELSE LET before == taken[n - 1] IN
                 IF Fits(before, s[n]) THEN Append(before, s[n]) ELSE before IN
    taken[Len(s)]

Selected(q, contract, corpus) ==
    LET ranked == Ranked(q, corpus) IN
    Taken(Reserved(ranked, NeedsData(contract)) \o ranked, Admits)

-----------------------------------------------------------------------------
(* The package                                                             *)

SectionOf(c) ==
    CASE Category(c) = "contradicting" -> "contradictingEvidence"
      [] c.type = "data-point" -> "quantitativeData"
      [] c.type = "dossier-section" -> "currentSituation"
      [] Category(c) # "contradicting" /\ c.type \in {"claim", "evidence-link"} ->
            "supportingEvidence"
      [] OTHER -> "directEvidence"

\* A selected candidate without text, or beyond a limit, makes no item.
Excerpted(items, c) ==
    /\ c.words # {} /\ Len(items) < MaxExcerpts
    /\ Cardinality({k \in DOMAIN items : SectionOf(items[k]) = SectionOf(c)}) < MaxPerSection
ItemsOf(selected) == Taken(selected, Excerpted)

Documents(items) == UNION {ToSet(items[k].documents) : k \in DOMAIN items}
HasCategory(items, category) == \E k \in DOMAIN items : Category(items[k]) = category
HasData(items) == \E k \in DOMAIN items : SectionOf(items[k]) = "quantitativeData"

Gaps(contract, items) ==
    {g \in {"missing-primary-source", "missing-contradicting-evidence",
            "missing-quantitative-data", "insufficient-independent-sources"} :
        \/ g = "missing-primary-source" /\ ~HasCategory(items, "primary")
        \/ g = "missing-contradicting-evidence" /\ ~HasCategory(items, "contradicting")
        \/ g = "missing-quantitative-data" /\ NeedsData(contract) /\ ~HasData(items)
        \/ g = "insufficient-independent-sources" /\ Cardinality(Documents(items)) < 2}

Blocking(gaps) == gaps \cap {"missing-primary-source", "insufficient-independent-sources"}

\* coverage.overall < 0.8, of four equal shares.
Partial(contract, items) ==
    LET required == RequiredContext(contract)
        held == {r \in required : \E k \in DOMAIN items : SectionOf(items[k]) = r[1]}
        n == Cardinality(required)
        documents == Cardinality(Documents(items))
        halves == 2 * Rank(HasCategory(items, "primary"))
                  + 2 * Rank(HasCategory(items, "contradicting"))
                  + (IF documents > 2 THEN 2 ELSE documents) IN
    5 * (2 * Cardinality(held) + n * halves) < 32 * n

NoPackage == [status |-> "none", items |-> <<>>, gaps |-> {}]
Package(contract, items) ==
    LET gaps == Gaps(contract, items) IN
    [status |-> CASE items = <<>> -> "no-relevant-context"
                  [] items # <<>> /\ Blocking(gaps) # {} -> "insufficient-evidence"
                  [] OTHER -> IF Partial(contract, items) THEN "partial" ELSE "ready",
     items |-> items, gaps |-> gaps]

ContextOf(q, contract, corpus) ==
    IF contract.status = "ready"
    THEN Package(contract, ItemsOf(Selected(q, contract, corpus)))
    ELSE [NoPackage EXCEPT !.status = "CONTRACT_NOT_READY"]
=============================================================================
