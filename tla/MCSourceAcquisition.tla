------------------------- MODULE MCSourceAcquisition -------------------------
(***************************************************************************)
(* Two executions and a retention worker over one locator whose page is    *)
(* one of these bodies at a time.                                          *)
(***************************************************************************)
EXTENDS SourceAcquisition, TLC

Nowhere == [field \in Fields |-> {}]

\* A page that gives what an article usually gives.
Article == [looks |-> "html-root", declared |-> "text/html",
            found |-> [title |-> {"og_title", "h1"}, body |-> {"article"}, date |-> {"time"},
                       canonical |-> {"link"}, language |-> {"html_lang"}, publisher |-> {},
                       type |-> {"json_ld"}],
            bad |-> {}, wild |-> {}]
Bare == [looks |-> "text", declared |-> "text/plain", found |-> Nowhere, bad |-> {}, wild |-> {}]

Sound(hash, kind, page) ==
    [hash |-> hash, digest |-> hash, legible |-> TRUE, kind |-> kind, page |-> page]

MCBodies == {
    Sound("article", "html", Article),
    Sound("text", "text", Bare),
    Sound("fragment", "html", [Article EXCEPT !.looks = "tag-first"]),
    Sound("undated", "html", [Article EXCEPT !.bad = {<<"date", "time">>}]),
    [Sound("marked", "html", Article) EXCEPT !.digest = "unmarked"],
    [Sound("blank", "html", Article) EXCEPT !.legible = FALSE]}

Policy(retention, class) ==
    [retention |-> retention, triggers |-> {"scheduled-expiry"},
     preventsDeletion |-> retention = "legal-hold", redaction |-> "none",
     encryption |-> IF retention = "ephemeral" THEN "not-persisted" ELSE "platform-managed",
     class |-> class]
MCPolicies == {Policy("bounded", "public-source"),
               Policy("bounded", "consented-private-source"),
               Policy("ephemeral", "public-source")}

Key(scope) == [connector |-> "web", requirement |-> "oauth", scope |-> scope]
MCGrants ==
    LET with(scope, availability, consent) ==
            [credential |-> Key(scope), availability |-> availability, consent |-> consent]
    IN  {Nothing, with("none", "available", TRUE), with("explicit-source-access", "available", TRUE),
         with("explicit-source-access", "available", FALSE), with("none", "available", FALSE),
         with("none", "denied", TRUE)}

MCHints == {{}, {"title", "language", "type"}}

AcquisitionSymmetry == Permutations(Executions) \cup Permutations(Requests)
=============================================================================
