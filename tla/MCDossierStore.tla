---------------------------- MODULE MCDossierStore ----------------------------
(***************************************************************************)
(* Two processes over one database, asked to build dossiers of two events  *)
(* from records that grow, are corrected or come in another order.         *)
(***************************************************************************)
EXTENDS DossierStore, TLC

Doc(id, type, event) == [id |-> id, type |-> type, events |-> {event}]
Claim(id, document, event) == [id |-> id, document |-> document, events |-> {event}]
Link(id, document, of, relation) ==
    [id |-> id, document |-> document, target |-> "claim", of |-> of, relation |-> relation]
Point(id, document, value, event) ==
    [id |-> id, document |-> document, name |-> "count", at |-> "day", value |-> value,
     events |-> {event}]

Report == Doc(1, "GovernmentDocument", "summit")
Article == Doc(2, "NewsArticle", "summit")
Numbers == Doc(3, "StatisticalDataset", "summit")

\* One claim, well evidenced.
Plain == [event |-> "summit", title |-> "summit", documents |-> {Report, Article, Numbers},
          claims |-> <<Claim(1, 1, "summit")>>,
          links |-> <<Link(1, 1, 1, "supports"), Link(2, 2, 1, "supports")>>,
          points |-> <<>>, entities |-> {}, statements |-> {}, questions |-> {},
          timeline |-> {}, started |-> TRUE]

\* Two claims and two counts that agree, or do not: one of them is corrected.
Counted(value) ==
    [Plain EXCEPT !.claims = Append(@, Claim(2, 2, "summit")),
                  !.links = Append(@, Link(3, 3, 2, "supports")),
                  !.points = <<Point(1, 1, 10, "summit"), Point(2, 2, value, "summit")>>]

\* The article refutes the report and makes two claims of its own.
Disputed(first, second) ==
    [Plain EXCEPT !.claims = <<Claim(1, 1, "summit"), Claim(first, 2, "summit"),
                               Claim(second, 2, "summit")>>,
                  !.links = <<Link(1, 1, 1, "supports"), Link(2, 2, 1, "contradicts")>>]

Asked == [Plain EXCEPT !.questions = {[id |-> 1, importance |-> "critical", status |-> "open"]}]
Bold == [Plain EXCEPT !.statements =
            {[id |-> 1, type |-> "confirmed-fact", documents |-> {}, claims |-> {1}, links |-> {},
              points |-> {}, assumes |-> FALSE, unsure |-> FALSE, author |-> "ai"]}]
Twice == [Plain EXCEPT !.claims = Append(@, Claim(1, 1, "summit"))]
Broken == [Plain EXCEPT !.links = Append(@, Link(3, 1, 9, "supports"))]
Strayed == [Plain EXCEPT !.documents = @ \cup {Doc(4, "NewsArticle", "election")}]
Elsewhere == [Plain EXCEPT !.event = "election", !.title = "election",
                           !.documents = {Doc(4, "NewsArticle", "election")},
                           !.claims = <<>>, !.links = <<>>]

MCInputs == {Counted(10), Counted(12), Disputed(2, 3), Asked,
             Bold, Twice, Broken, Strayed, Elsewhere}
\* The two processes are alike, and so are the instants.
Alike == Permutations(Processes) \cup Permutations(DossierIds)
=============================================================================
