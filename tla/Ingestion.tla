------------------------------ MODULE Ingestion ------------------------------
(***************************************************************************)
(* The ingestion pipeline (ingestion/resolver.ts, probe.ts, registry.ts,   *)
(* capabilities.ts, normalize.ts, mapper.ts): from materialized content    *)
(* and the hints of the caller to a document or the error of the first     *)
(* stage that fails.                                                       *)
(*                                                                         *)
(* A page is what the pipeline sees of a content: what it begins with, the *)
(* media type it was declared as, and the evidence its capability finds in *)
(* it.  The values are left out; bad names the evidence whose value does   *)
(* not survive (a blank title, a short body, a date nobody can read ...),  *)
(* wild the evidence that holds a character reference beyond Unicode.      *)
(***************************************************************************)
EXTENDS Integers, FiniteSets

Looks == {"html-root", "json", "tag-first", "tag-within", "text", "nul"}

\* The confidence of a candidate, in hundredths.
Confidence ==
    [title |-> [json_ld |-> 98, og_title |-> 90, citation |-> 88, dublin_core |-> 86,
                article_h1 |-> 84, main_h1 |-> 80, h1 |-> 70, title |-> 55,
                first_line |-> 55, hint |-> 90],
     body |-> [json_ld |-> 98, article |-> 90, main |-> 75, full |-> 80],
     date |-> [json_ld |-> 98, published_time |-> 92, citation |-> 88, time |-> 75, hint |-> 90],
     canonical |-> [link |-> 98, og_url |-> 90],
     language |-> [html_lang |-> 90, hint |-> 90],
     publisher |-> [json_ld |-> 95, og_site_name |-> 85, application_name |-> 70, hint |-> 90],
     type |-> [json_ld |-> 95, hint |-> 90]]

Fields == DOMAIN Confidence
Hintable == {"title", "date", "language", "publisher", "type"}

\* The evidence GenericHtmlCapability may find of a field.
HtmlEvidence(field) == DOMAIN Confidence[field] \ {"hint", "first_line", "full"}

\* detectFormat.
Format(page) ==
    CASE page.looks = "html-root" -> "html"
      [] page.looks = "json" -> "json"
      [] page.looks = "tag-first" -> "xml"
      [] page.looks = "tag-within" /\ page.declared = "text/html" -> "html"
      [] page.looks = "nul" /\ page.declared \notin {"text/html", "text/plain"} -> "unknown"
      [] OTHER -> "plain-text"

\* The evidence the capability of the format finds.  Plain text has a first
\* line and a body; HTML has what its author gave it, the body of its DOM
\* only if no JSON-LD brings one.
Extracted(page, field) ==
    IF Format(page) = "plain-text"
    THEN CASE field = "title" -> {"first_line"} [] field = "body" -> {"full"} [] OTHER -> {}
    ELSE IF field = "body" /\ "json_ld" \in page.found.body
    THEN {"json_ld"} ELSE page.found[field]

\* The order of selectCandidate: a hint is the last of equals.
Precedes(field, e, f) ==
    \/ Confidence[field][e] > Confidence[field][f]
    \/ Confidence[field][e] = Confidence[field][f] /\ f = "hint"

\* addHint, then selectCandidate.
Selected(page, hints, field) ==
    LET candidates == Extracted(page, field) \cup (IF field \in hints THEN {"hint"} ELSE {})
    IN  IF candidates = {} THEN "none"
        ELSE CHOOSE e \in candidates : \A f \in candidates \ {e} : Precedes(field, e, f)

Threshold == 70     \* DEFAULT_CLASSIFICATION_THRESHOLD

\* classify: the type needs a candidate, and a sure one.
Unclassified(type) == type = "none" \/ Confidence.type[type] < Threshold

\* The errors of normalizeExtraction and mapSourceDocument, in their order.
\* A selected value is never replaced by the next candidate.
NormalizationError(page, hints) ==
    LET chosen(field) == Selected(page, hints, field)
        isBad(field) == <<field, chosen(field)>> \in page.bad
        isWild(field) == <<field, chosen(field)>> \in page.wild IN
    CASE chosen("title") = "none" -> "TITLE_NOT_FOUND"
      [] isWild("title") -> "MAPPING_FAILED"
      [] isBad("title") -> "TITLE_NOT_FOUND"
      [] chosen("body") = "none" -> "EMPTY_CONTENT"
      [] isWild("body") -> "MAPPING_FAILED"
      [] isBad("body") -> "EMPTY_CONTENT"
      [] isBad("canonical") -> "INVALID_URL"
      [] chosen("language") = "none" -> "MAPPING_FAILED"
      [] Unclassified(chosen("type")) -> "CLASSIFICATION_UNCERTAIN"
      [] isWild("publisher") -> "MAPPING_FAILED"
      [] isBad("date") -> "DATE_PARSE_FAILED"
      [] isBad("language") -> "VALIDATION_FAILED"
      [] OTHER -> "none"

IngestionErrors ==
    {"none", "UNSUPPORTED_FORMAT", "NO_CAPABILITY_MATCH", "TITLE_NOT_FOUND", "EMPTY_CONTENT",
     "INVALID_URL", "MAPPING_FAILED", "CLASSIFICATION_UNCERTAIN", "DATE_PARSE_FAILED",
     "VALIDATION_FAILED"}

\* The formats for which a capability is registered.
Supported == {"html", "plain-text"}

\* IngestionPipeline.ingest: every exception becomes an error of the result.
Ingest(page, hints) ==
    LET error == CASE Format(page) = "unknown" -> "UNSUPPORTED_FORMAT"
                   [] Format(page) \notin Supported -> "NO_CAPABILITY_MATCH"
                   [] OTHER -> NormalizationError(page, hints)
    IN  [error |-> error,
         selected |-> IF error # "none" THEN {}
                      ELSE {<<field, Selected(page, hints, field)>> : field \in Fields}]

=============================================================================
