--------------------------- MODULE MCBriefingContent ---------------------------
(***************************************************************************)
(* The instance of BriefingContent that TLC checks: questions of every     *)
(* intent about one event, and the corpora of up to three of the records   *)
(* below, or of up to two with the places of the local fixture, all of     *)
(* them or all but one.                                                    *)
(***************************************************************************)
EXTENDS BriefingContent

Terms == {"chips", "ports"}

Plain ==
    [form |-> "well-formed", matches |-> {}, personalized |-> FALSE, context |-> FALSE,
     unclear |-> FALSE, choosing |-> FALSE, dated |-> TRUE, legible |-> TRUE,
     words |-> Terms, events |-> {1}, entities |-> {7}, places |-> {}, domains |-> {},
     channels |-> {}, scenario |-> FALSE]

Mine(channels, scenario) ==
    [Plain EXCEPT !.matches = {"personalized-impact"}, !.personalized = TRUE, !.context = TRUE,
                  !.places = {"korea"}, !.domains = {"technology"},
                  !.channels = channels, !.scenario = scenario]

MCQuestions ==
    {[Plain EXCEPT !.form = "EMPTY_QUESTION", !.matches = {}],
     [Plain EXCEPT !.unclear = TRUE, !.events = {}, !.entities = {}],
     [Plain EXCEPT !.matches = {"comparison"}, !.choosing = TRUE, !.events = {}],
     [Plain EXCEPT !.personalized = TRUE],
     [Plain EXCEPT !.legible = FALSE, !.words = {}]}
    \cup {[Plain EXCEPT !.matches = {"fact-verification"}],
          [Plain EXCEPT !.matches = {"comparison"}],
          [Plain EXCEPT !.matches = {"forecast"}, !.dated = FALSE],
          [Plain EXCEPT !.matches = {"situation-summary"}, !.events = {}],
          [Plain EXCEPT !.matches = {"impact-analysis", "causal-explanation"}],
          [Plain EXCEPT !.matches = {"impact-analysis"}, !.domains = {"supply-chain"},
                        !.places = {"united-states", "taiwan"}]}
    \cup {Mine({"exposed"}, TRUE), Mine({"exposed"}, FALSE), Mine({"exposed", "unknown"}, TRUE)}

-----------------------------------------------------------------------------
Document(id, type, source, url, words) ==
    [record |-> "document", id |-> id, documentType |-> type, source |-> source, url |-> url,
     events |-> {1}, entities |-> {}, title |-> {}, words |-> words, quotes |-> FALSE,
     published |-> id, foreign |-> FALSE]

Link(id, document, relation, target, of) ==
    [record |-> "link", id |-> id, document |-> document, relation |-> relation,
     target |-> target, of |-> of, words |-> {"ports"}]

Statement(id, documents) ==
    [record |-> "statement", id |-> id, documents |-> documents, dossier |-> 50, event |-> 1,
     title |-> {"chips"}, words |-> {"chips"}, entities |-> {}, claims |-> {30}, links |-> {},
     points |-> {}, revision |-> 1, published |-> id]

Records ==
    {Document(21, "GovernmentDocument", 11, 1, {"chips"}),
     Document(22, "NewsArticle", 12, 2, Terms),
     Document(23, "NewsArticle", 13, 2, {"chips"}),
     [Document(24, "LegalDocument", 14, 3, {}) EXCEPT !.foreign = TRUE],
     [record |-> "claim", id |-> 30, document |-> 22, events |-> {1}, entities |-> {},
      words |-> Terms, published |-> 1],
     Link(31, 22, "supports", "claim", 30),
     Link(32, 23, "contradicts", "claim", 30),
     Link(33, 21, "contextualizes", "data_point", 40),
     [record |-> "point", id |-> 40, document |-> 21, events |-> {1}, entities |-> {},
      title |-> {"ports"}, words |-> {"ports"}, published |-> 2],
     [record |-> "entity", id |-> 7, entityType |-> "country", name |-> "taiwan",
      title |-> {"taiwan"}, words |-> {"taiwan", "chips"}],
     Statement(51, <<22>>), Statement(52, <<>>)}

PlaceNames == <<"world", "united-states", "east-asia", "taiwan", "south-korea">>
PlaceRecord(n) ==
    [Document(60 + n, "GovernmentDocument", 70 + n, 0, {"chips", PlaceNames[n]}) EXCEPT
        !.record = "place", !.entities = {80 + n}] @@ [place |-> PlaceNames[n]]
Fixture(S) == {PlaceRecord(n) : n \in S}

ById(S) ==
    [n \in 1..Cardinality(S) |->
        CHOOSE r \in S : Cardinality({other \in S : other.id < r.id}) = n - 1]
MCCorpora ==
    {ById(S) : S \in UNION {kSubset(k, Records) : k \in 1..3}}
    \cup {ById(S \cup Fixture(P)) : S \in UNION {kSubset(k, Records) : k \in 0..2},
                                    P \in {1..5, 1..4}}

MCPreferences ==
    {[mode |-> "auto", animation |-> "full", camera |-> "allow"],
     [mode |-> "auto", animation |-> "disabled", camera |-> "allow"],
     [mode |-> "static", animation |-> "disabled", camera |-> "disallow"],
     [mode |-> "static", animation |-> "full", camera |-> "disallow"],
     [mode |-> "reduced-motion", animation |-> "minimal", camera |-> "minimize"]}
=============================================================================
