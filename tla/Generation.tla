----------------------------- MODULE Generation -----------------------------
(***************************************************************************)
(* Structured generation of an explanation plan (generation/coordinator.ts,*)
(* provider.ts, audit.ts and the provider adapters): preflight, transport  *)
(* retries with a back-off, a bounded repair, and the audit of the         *)
(* attempts.  Generations of several runs go on concurrently; what lies    *)
(* between two awaits is one step.                                         *)
(*                                                                         *)
(* A provider answers with a proposal, a refusal or a failure.  A proposal *)
(* is known by how far it gets: through the allow-lists, the hydration and *)
(* the validator.  A failure is its error code.                            *)
(***************************************************************************)
EXTENDS Integers, Sequences

CONSTANTS
    Runs,
    Configured,             \* provider.metadata.configured
    Failures,               \* the failures the provider answers with
    AllowRepair,            \* generationPolicy.allowRepair
    MaxTransportRetries,    \* maximumTransportRetries
    MaxRepairs              \* maximumRepairAttempts

ASSUME GenerationAssumption ==
    /\ Configured \in BOOLEAN /\ AllowRepair \in BOOLEAN
    /\ Failures \subseteq
         {"PROVIDER_TIMEOUT", "PROVIDER_RATE_LIMITED", "PROVIDER_TRANSIENT_ERROR",
          "PROVIDER_AUTHENTICATION_FAILED", "PROVIDER_PERMISSION_DENIED",
          "PROVIDER_QUOTA_EXCEEDED", "PROVIDER_INVALID_REQUEST", "PROVIDER_RESPONSE_INVALID"}
    /\ MaxTransportRetries \in Nat /\ MaxRepairs \in {0, 1}

VARIABLES
    cancelled,      \* whether the signal of a run is aborted
    generation      \* the generation of each run

Retryable == {"PROVIDER_TIMEOUT", "PROVIDER_RATE_LIMITED", "PROVIDER_TRANSIENT_ERROR"}

\* Why a request cannot be built, before the provider is asked.
RequestErrors == {"INVALID_GENERATION_INPUT", "CONTRACT_NOT_READY",
                  "CONTEXT_NOT_READY", "REFERENCE_MISMATCH"}

\* The errors of a proposal, by the stage that finds them.
ProposalErrors == {"PROPOSAL_SCHEMA_INVALID", "PROPOSAL_REFERENCE_INVALID"}
Errors == Failures \cup RequestErrors \cup ProposalErrors \cup
    {"PROVIDER_NOT_CONFIGURED", "PROVIDER_ABORTED", "PROPOSAL_HYDRATION_FAILED",
     "PLAN_SEMANTIC_INVALID", "REPAIR_EXHAUSTED"}

GenerationOutcomes == {"validated-plan", "provider-refusal", "insufficient-context",
                       "clarification-required", "unsupported"}

AttemptKinds == {"initial", "transport-retry", "repair"}

Idle == [at |-> "idle", try |-> 0, repairs |-> 0, sent |-> 0, attempts |-> <<>>, result |-> "none"]

\* A generation that returns result r to its caller.
Returns(g, r) == [g EXCEPT !.at = "returned", !.result = r]

-----------------------------------------------------------------------------
(* One round of callWithRetry                                              *)

\* A provider that finds the signal aborted sends no request.  The failure
\* is not retryable: it ends the round.
Kind(g, try) ==
    IF g.repairs > 0 THEN "repair" ELSE IF try = 0 THEN "initial" ELSE "transport-retry"

\* The round is over: the audit gets one attempt for each of its calls.
Recorded(g) ==
    [g EXCEPT !.attempts = @ \o [i \in 1..g.try + 1 |-> Kind(g, i - 1)]]

\* Mutant: The provider does not look at the signal before it sends.
AskedAnyway(g, aborted) == [g EXCEPT !.at = "asking", !.sent = @ + 1]
Asked(g, aborted) ==
    IF aborted THEN Returns(Recorded(g), "PROVIDER_ABORTED")
    ELSE [g EXCEPT !.at = "asking", !.sent = @ + 1]

\* Mutant: One retry too many.
RetryOnceMore(g) == g.try <= MaxTransportRetries
\* A failure worth a retry is slept on; any other answer ends the round.
RetryLeft(g) == g.try < MaxTransportRetries
Slept(g) == [g EXCEPT !.at = "sleeping"]
Retried(g) == [g EXCEPT !.try = @ + 1]

\* The sleeper listens for an abort: the round is lost from the audit.
SleepAborted(g) == IF g.at = "sleeping" THEN Returns(g, "PROVIDER_ABORTED") ELSE g

-----------------------------------------------------------------------------
(* The coordinator                                                         *)

\* repairable
RepairLeft(g) == AllowRepair /\ g.repairs < MaxRepairs

\* A proposal that fails with an error is sent back once, and asked anew.
RepairedOr(g, error, aborted) ==
    IF RepairLeft(g) THEN Asked([g EXCEPT !.repairs = @ + 1, !.try = 0], aborted)
    ELSE Returns(g, IF g.repairs > 0 THEN "REPAIR_EXHAUSTED" ELSE error)

\* What the coordinator does with the last response of a round.
Answers == Failures \cup ProposalErrors \cup
    {"PROVIDER_ABORTED", "PROPOSAL_HYDRATION_FAILED", "PLAN_SEMANTIC_INVALID",
     "provider-refusal", "insufficient-context", "validated-plan"}
Repairable == ProposalErrors \cup {"PLAN_SEMANTIC_INVALID"}

Answered(g, answer, aborted) ==
    IF answer \in Retryable /\ RetryLeft(g) THEN Slept(g)
    ELSE IF answer \in Repairable THEN RepairedOr(Recorded(g), answer, aborted)
    ELSE Returns(Recorded(g), answer)

\* A context package, as preflight and the request builder tell them apart:
\* ready, ready with a blocking gap, without sufficient or relevant evidence,
\* or selected for another contract.
Packages == {"ready", "blocking-gap", "insufficient-evidence", "other-contract"}

\* preflight, and ExplanationPlanLlmRequestBuilder.build: the result that
\* stops a generation before the provider is asked.
Preflight(package, valid) ==
    IF package \in {"insufficient-evidence", "blocking-gap"} THEN "insufficient-context"
    ELSE IF ~valid THEN "INVALID_GENERATION_INPUT"
    ELSE IF package = "other-contract" THEN "REFERENCE_MISMATCH"
    ELSE IF ~Configured THEN "PROVIDER_NOT_CONFIGURED"
    ELSE "none"

\* generate, up to the first await.
Begun(package, valid, aborted) ==
    IF Preflight(package, valid) = "none" THEN Asked(Idle, aborted)
    ELSE Returns(Idle, Preflight(package, valid))

-----------------------------------------------------------------------------
(* The steps of a generation                                               *)

\* The answers a provider may give: an aborted request may fail with an
\* abort, with any other error of the client, or may already be answered.
Possible(r) == IF cancelled[r] THEN Answers ELSE Answers \ {"PROVIDER_ABORTED"}

Answer(r) ==
    /\ generation[r].at = "asking"
    /\ \E answer \in Possible(r) :
         generation' = [generation EXCEPT ![r] = Answered(@, answer, cancelled[r])]
    /\ UNCHANGED cancelled

\* A provider that throws ends the generation as an abort would.
Throw(r) ==
    /\ generation[r].at = "asking"
    /\ generation' = [generation EXCEPT ![r] = Returns(@, "PROVIDER_ABORTED")]
    /\ UNCHANGED cancelled

\* The back-off is over.  A signal that was aborted before the sleep began
\* is seen here, by the provider.
WakeUp(r) ==
    /\ generation[r].at = "sleeping"
    /\ generation' = [generation EXCEPT ![r] = Asked(Retried(@), cancelled[r])]
    /\ UNCHANGED cancelled

\* The signal is aborted.
Abort(r) ==
    /\ ~cancelled[r]
    /\ cancelled' = [cancelled EXCEPT ![r] = TRUE]
    /\ generation' = [generation EXCEPT ![r] = SleepAborted(@)]

GenerationStep(r) == Answer(r) \/ Throw(r) \/ WakeUp(r)

-----------------------------------------------------------------------------
GenerationType ==
    /\ cancelled \in [Runs -> BOOLEAN]
    /\ generation \in [Runs ->
         [at : {"idle", "asking", "sleeping", "returned"}, try : 0..MaxTransportRetries,
          repairs : 0..MaxRepairs, sent : Nat, attempts : Seq(AttemptKinds),
          result : Errors \cup GenerationOutcomes \cup {"none"}]]

=============================================================================
