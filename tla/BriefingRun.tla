----------------------------- MODULE BriefingRun ----------------------------
(***************************************************************************)
(* The briefing run (application/briefing-run/briefing-run-service.ts,     *)
(* schemas.ts) with the impact coordination it awaits, the generation of   *)
(* Generation.tla, and the controller that starts runs for the page and    *)
(* shows the answer of the last (apps/web features/runtime).               *)
(*                                                                         *)
(* A stage is one step: it polls the cancellation, calls its port, records *)
(* what the port built on the receipt, polls again and reads the answer.   *)
(* The cancellation and the ports are interfaces: between any two polls a  *)
(* cancellation may be requested, also by the port that runs.  The two     *)
(* stages that await are two steps, with those of the generation between.  *)
(*                                                                         *)
(* What a stage builds names what it was built from by fingerprint.  An    *)
(* artifact that names something else is foreign.                          *)
(***************************************************************************)
EXTENDS Generation, FiniteSets

CONSTANTS
    PersonalContexts,   \* the personal contexts a request may carry
    LastRun,            \* runs are numbered in the order they start
    ClockStepsBack      \* whether the wall clock may be set back

ASSUME RunAssumption ==
    /\ LastRun \in Nat \ {0} /\ Runs = 1..LastRun /\ ClockStepsBack \in BOOLEAN
    /\ PersonalContexts \subseteq {"none", "disabled", "no-exposures", "exposures"}

VARIABLES
    at,             \* where the execution of each run stands
    stage,          \* state.stage
    request,        \* the personal context it carries, and its intent
    context,        \* the context package
    reached,        \* what its receipt records
    foreign,        \* the artifacts that name another's lineage
    outcome,
    current,        \* the run of the controller
    shown           \* the state of the bootstrap hook

page == <<current, shown>>
run == <<at, stage, request, context, reached, foreign, outcome>>
vars == <<cancelled, generation, run, page>>

Stages == {"received", "contract-building", "context-building", "impact-analyzing",
           "plan-generating", "script-compiling", "session-creating", "completed"}

Lineage == {"contract", "context", "plan", "script", "session"}
PersonalMarks == {"requested", "used", "personal", "analysis"}

NonTechnical == {"clarification-required", "insufficient-evidence", "generation-unavailable",
                 "personalization-context-required", "personalized-impact-unavailable",
                 "policy-rejected", "cancelled"}
Categories == {"request-invalid", "contract-invalid", "context-failed",
               "personalization-failed", "generation-failed", "script-failed",
               "session-invalid", "lineage-mismatch", "unexpected"}

NoOutcome == [kind |-> "none", stage |-> "received", category |-> "none"]
Stopped(kind, s) == [kind |-> kind, stage |-> s, category |-> "none"]
Failed(category, s) == [kind |-> "failed", stage |-> s, category |-> category]
Completed == Stopped("completed", "completed")

-----------------------------------------------------------------------------
(* The end of a run                                                        *)

\* BriefingRunReceiptSchema, but for the order of its times.
ReceiptValid(o, marks) ==
    /\ o.kind = "completed" <=> o.stage = "completed"
    /\ o.kind = "completed" => Lineage \subseteq marks
    /\ "used" \in marks => PersonalMarks \subseteq marks
    /\ "analysis" \in marks => "used" \in marks

\* finish throws when the receipt does not satisfy its schema, also because
\* the clock was set back since the start.
Finishes(o, marks, early) == ReceiptValid(o, marks) /\ ~early
ClockReadings == IF ClockStepsBack THEN BOOLEAN ELSE {FALSE}

\* Mutant: The result of a run that was replaced is shown.
Accepting(r) == TRUE
\* The callback of the hook follows at once.  It shows the result of the run
\* of the controller only; the presentation adapter may refuse a script.
Accepts(r) == current = r
\* Mutant: Only a completed run leaves the loading state.
PresentedIfCompleted(r, o) ==
    IF Accepts(r) /\ o.kind = "completed"
    THEN shown' = [status |-> "ready", run |-> r] ELSE UNCHANGED shown
Presented(r, o) ==
    IF Accepts(r)
    THEN \E adapts \in BOOLEAN :
           shown' = [status |-> IF o.kind = "completed" /\ adapts
                                THEN "ready" ELSE "terminal-unavailable", run |-> r]
    ELSE UNCHANGED shown

Settled(r, o) ==
    /\ at' = [at EXCEPT ![r] = "settled"]
    /\ outcome' = [outcome EXCEPT ![r] = o]
    /\ Presented(r, o)

\* The promise is rejected: nobody handles that.
Rejected(r) ==
    /\ at' = [at EXCEPT ![r] = "rejected"]
    /\ UNCHANGED <<outcome, shown>>

\* A finish outside the try: its exception rejects the promise.
FinishOnce(r, o, marks) ==
    \E early \in ClockReadings :
       IF Finishes(o, marks, early) THEN Settled(r, o) ELSE Rejected(r)

\* A finish inside the try: its exception is answered by a second finish.
Finish(r, o, marks) ==
    \E early \in ClockReadings :
       IF Finishes(o, marks, early) THEN Settled(r, o)
       ELSE FinishOnce(r, Failed("unexpected", stage'[r]), marks)

\* An exception of a port.
Throws(r, marks) == FinishOnce(r, Failed("unexpected", stage'[r]), marks)

Continues(r) == UNCHANGED <<at, outcome, shown>>

-----------------------------------------------------------------------------
(* The stages                                                              *)

\* The stage is entered: its first poll decides whether the port is called.
Enters(r, from, s) ==
    /\ at[r] = "running" /\ stage[r] \in from
    /\ stage' = [stage EXCEPT ![r] = s]

\* The poll before the port is called.
StopsBefore(r) ==
    /\ cancelled[r]
    /\ Finish(r, Stopped("cancelled", stage'[r]), reached[r])
    /\ UNCHANGED <<cancelled, generation, request, context, reached, foreign>>

\* A synchronous port is called; the cancellation may be requested meanwhile.
Called(r) ==
    /\ ~cancelled[r]
    /\ \E during \in BOOLEAN : cancelled' = [cancelled EXCEPT ![r] = during]

\* Mutant: No fingerprints are compared.
AnyLineage(odd) == TRUE
\* What the service compares: an artifact is of the inputs it was asked with.
OfThisRun(odd) == odd = {}

\* The poll after the port, before its answer is read.
Reads(r, marks, answer) ==
    IF cancelled'[r] THEN Finish(r, Stopped("cancelled", stage'[r]), marks) ELSE answer

Records(r, marks) == reached' = [reached EXCEPT ![r] = marks]
Calls(r, odd) == foreign' = [foreign EXCEPT ![r] = @ \cup odd]

\* evaluateAmbiguity: a question is clarified when its subject is not clear,
\* or when it asks for personalization and no context is provided.  The
\* exposures of a personal context are provided to a personalized question.
Provided(q, personal) == q.provided \/ (q.intent = "personalized" /\ personal = "exposures")
ContractStatus(q, personal) ==
    IF ~q.clear \/ ((q.requested \/ q.intent = "personalized") /\ ~Provided(q, personal))
    THEN "clarification-required"
    ELSE IF q.interpretable THEN "ready" ELSE "unsupported"

\* The questions: enabled personal context requires an explicit request.
Questions(personal) ==
    {q \in [intent : {"general", "personalized"}, clear : BOOLEAN, requested : BOOLEAN,
            provided : BOOLEAN, interpretable : BOOLEAN] :
       personal \in {"no-exposures", "exposures"} => q.requested}

Clarification(q, personal) ==
    IF q.intent # "personalized" THEN "clarification-required"
    ELSE IF personal \in {"disabled", "no-exposures"} THEN "personalized-impact-unavailable"
    ELSE "personalization-context-required"

ContractAnswer(r, q) ==
    LET personal == request[r].personal
        status == ContractStatus(q, personal) IN
    CASE status = "clarification-required" ->
           Finish(r, Stopped(Clarification(q, personal), "contract-building"), {"contract"})
      [] status = "unsupported" ->
           Finish(r, Stopped("policy-rejected", "contract-building"), {"contract"})
      [] OTHER -> Continues(r)

BuildContract(r) ==
    /\ Enters(r, {"received"}, "contract-building")
    /\ \/ StopsBefore(r)
       \/ /\ Called(r)
          /\ \/ \E q \in Questions(request[r].personal) :
                  /\ request' = [request EXCEPT ![r].intent = q.intent]
                  /\ Records(r, {"contract"})
                  /\ Reads(r, {"contract"}, ContractAnswer(r, q))
             \/ /\ UNCHANGED <<request, reached>>
                /\ Reads(r, {}, Finish(r, Failed("contract-invalid", "contract-building"), {}))
             \/ Throws(r, {}) /\ UNCHANGED <<request, reached>>
          /\ UNCHANGED <<generation, context, foreign>>

ContextAnswer(r, package, marks) ==
    IF package = "insufficient-evidence" /\ request[r].intent # "personalized"
    THEN Finish(r, Stopped("insufficient-evidence", "context-building"), marks)
    ELSE Continues(r)

BuildContext(r) ==
    LET marks == reached[r] \cup {"context"} IN
    /\ Enters(r, {"contract-building"}, "context-building")
    /\ \/ StopsBefore(r)
       \/ /\ Called(r)
          /\ \/ \E package \in Packages :
                  /\ context' = [context EXCEPT ![r] = package]
                  /\ Calls(r, IF package = "other-contract" THEN {"context"} ELSE {})
                  /\ Records(r, marks)
                  /\ Reads(r, marks, ContextAnswer(r, package, marks))
             \/ /\ UNCHANGED <<context, foreign, reached>>
                /\ Reads(r, reached[r], Finish(r, Failed("context-failed", "context-building"), reached[r]))
             \/ Throws(r, reached[r]) /\ UNCHANGED <<context, foreign, reached>>
          /\ UNCHANGED <<generation, request>>

\* A personalized run awaits the impact coordinator, if it has one.
AnalyzeImpact(r) ==
    LET marks == reached[r] \cup {"requested"} \cup
                 (IF request[r].personal = "none" THEN {} ELSE {"personal"}) IN
    /\ request[r].intent = "personalized"
    /\ Enters(r, {"context-building"}, "impact-analyzing")
    /\ Records(r, marks)
    /\ \/ cancelled[r] /\ Finish(r, Stopped("cancelled", "impact-analyzing"), marks)
       \/ ~cancelled[r] /\ Finish(r, Stopped("personalized-impact-unavailable", "impact-analyzing"), marks)
       \/ ~cancelled[r] /\ at' = [at EXCEPT ![r] = "analyzing"] /\ UNCHANGED <<outcome, shown>>
    /\ UNCHANGED <<cancelled, generation, request, context, foreign>>

\* PersonalizedImpactCoordinator.coordinate and the analyzer: what the
\* coordinator answers without asking, and what it makes of the analysis.
Coordinated(r) ==
    CASE request[r].personal = "none" -> {"personalization-context-required"}
      [] request[r].personal \in {"disabled", "no-exposures"} -> {"personalized-impact-unavailable"}
      [] context[r] = "insufficient-evidence" -> {"personalized-impact-unavailable"}
      [] OTHER -> {"personalized-impact-unavailable", "policy-rejected", "completed"}

\* Mutant: The analysis is recorded, its use is not.
Unused(marks) == marks \cup {"analysis"}
\* An analysis that passed is recorded together with its use.
Analyzed(marks) == marks \cup {"used", "analysis"}

\* The coordination settles.  A completed analysis is of this context
\* package and of this personal context, or of others.
ImpactAnalyzed(r) ==
    /\ at[r] = "analyzing"
    /\ \/ \E kind \in Coordinated(r), odd \in SUBSET {"analysis"} :
            /\ Calls(r, odd)
            /\ IF cancelled[r]
               THEN /\ Finish(r, Stopped("cancelled", stage[r]), reached[r])
                    /\ UNCHANGED reached
               ELSE IF kind # "completed"
               THEN Finish(r, Stopped(kind, stage[r]), reached[r]) /\ UNCHANGED reached
               ELSE IF ~OfThisRun(odd)
               THEN Finish(r, Failed("lineage-mismatch", stage[r]), reached[r]) /\ UNCHANGED reached
               ELSE /\ Records(r, Analyzed(reached[r]))
                    /\ at' = [at EXCEPT ![r] = "running"]
                    /\ UNCHANGED <<outcome, shown>>
       \/ FinishOnce(r, Failed("unexpected", stage[r]), reached[r]) /\ UNCHANGED <<foreign, reached>>
    /\ UNCHANGED <<cancelled, generation, stage, request, context>>

\* The generation is awaited.  Its input may not satisfy its schema, and
\* createGenerationInput may throw.
GeneratePlan(r) ==
    /\ \/ request[r].intent # "personalized" /\ stage[r] = "context-building"
       \/ stage[r] = "impact-analyzing"
    /\ Enters(r, {"context-building", "impact-analyzing"}, "plan-generating")
    /\ \/ StopsBefore(r)
       \/ /\ ~cancelled[r]
          /\ \/ /\ at' = [at EXCEPT ![r] = "generating"]
                /\ \E valid \in BOOLEAN :
                     generation' = [generation EXCEPT ![r] = Begun(context[r], valid, FALSE)]
                /\ UNCHANGED <<outcome, shown>>
             \/ Throws(r, reached[r]) /\ UNCHANGED generation
          /\ UNCHANGED <<cancelled, request, context, reached, foreign>>

\* The codes that say the provider is not available.
GenerationUnavailable ==
    {"PROVIDER_NOT_CONFIGURED", "PROVIDER_TIMEOUT", "PROVIDER_RATE_LIMITED",
     "PROVIDER_QUOTA_EXCEEDED", "PROVIDER_AUTHENTICATION_FAILED",
     "PROVIDER_PERMISSION_DENIED", "PROVIDER_TRANSIENT_ERROR"}

\* What the run makes of a generation that brings no plan.
GenerationAnswer(result) ==
    CASE result = "PROVIDER_ABORTED" -> Stopped("cancelled", "plan-generating")
      [] result \in GenerationUnavailable \cup {"provider-refusal"} ->
           Stopped("generation-unavailable", "plan-generating")
      [] result = "clarification-required" -> Stopped("clarification-required", "plan-generating")
      [] result = "unsupported" -> Stopped("policy-rejected", "plan-generating")
      [] result = "insufficient-context" -> Stopped("insufficient-evidence", "plan-generating")
      [] OTHER -> Failed("generation-failed", "plan-generating")

\* The plan, or what takes its place, is read; the generation is over.
PlanGenerated(r) ==
    LET result == generation[r].result
        marks == reached[r] \cup (IF result = "validated-plan" THEN {"plan"} ELSE {}) IN
    /\ at[r] = "generating" /\ generation[r].at = "returned"
    /\ Records(r, marks)
    /\ IF cancelled[r] THEN Finish(r, Stopped("cancelled", stage[r]), marks)
       ELSE IF result # "validated-plan" THEN Finish(r, GenerationAnswer(result), marks)
       ELSE at' = [at EXCEPT ![r] = "running"] /\ UNCHANGED <<outcome, shown>>
    /\ generation' = [generation EXCEPT ![r] = Idle]
    /\ UNCHANGED <<cancelled, stage, request, context, foreign>>

\* The compiler answers with a script, without one, or with a failure; its
\* script may not be valid, or of other inputs.  It refuses a context of
\* another contract itself.
CompileScript(r) ==
    LET marks == reached[r] \cup {"script"} IN
    /\ Enters(r, {"plan-generating"}, "script-compiling")
    /\ \/ StopsBefore(r)
       \/ /\ Called(r)
          /\ \/ \E valid \in BOOLEAN, odd \in SUBSET {"script"} :
                  /\ context[r] # "other-contract"
                  /\ Records(r, marks) /\ Calls(r, odd)
                  /\ Reads(r, marks,
                           IF ~valid THEN Finish(r, Failed("script-failed", "script-compiling"), marks)
                           ELSE IF ~OfThisRun(odd) THEN Finish(r, Failed("lineage-mismatch", "script-compiling"), marks)
                           ELSE Continues(r))
             \/ \E o \in {Failed("script-failed", "script-compiling"),
                          Stopped("insufficient-evidence", "script-compiling")} :
                  /\ Reads(r, reached[r], Finish(r, o, reached[r]))
                  /\ UNCHANGED <<reached, foreign>>
             \/ Throws(r, reached[r]) /\ UNCHANGED <<reached, foreign>>
          /\ UNCHANGED <<generation, request, context>>

\* The session is initialized over the script.  A run whose session passes
\* completes in the same step.
CreateSession(r) ==
    /\ at[r] = "running" /\ stage[r] = "script-compiling"
    /\ \/ /\ stage' = [stage EXCEPT ![r] = "session-creating"]
          /\ StopsBefore(r)
       \/ /\ Called(r)
          /\ \/ /\ stage' = [stage EXCEPT ![r] = "session-creating"]
                /\ Throws(r, reached[r])
                /\ UNCHANGED <<reached, foreign>>
             \/ \E valid \in BOOLEAN, odd \in SUBSET {"session"} :
                  LET ends == ~cancelled'[r] /\ valid /\ OfThisRun(odd)
                      marks == reached[r] \cup (IF ends THEN {"session"} ELSE {})
                      o == IF cancelled'[r] THEN Stopped("cancelled", "session-creating")
                           ELSE IF ~valid THEN Failed("session-invalid", "session-creating")
                           ELSE IF ~OfThisRun(odd) THEN Failed("lineage-mismatch", "session-creating")
                           ELSE Completed IN
                  /\ stage' = [stage EXCEPT ![r] = IF ends THEN "completed" ELSE "session-creating"]
                  /\ Calls(r, odd) /\ Records(r, marks)
                  /\ Finish(r, o, marks)
          /\ UNCHANGED <<generation, request, context>>

-----------------------------------------------------------------------------
(* The page                                                                *)

Unstarted == {r \in Runs : at[r] = "unstarted"}
Pending(r) == at[r] \in {"running", "analyzing", "generating"}
CancelledBy(r) == IF r = 0 THEN cancelled ELSE [cancelled EXCEPT ![r] = TRUE]
AbortedBy(r) == IF r = 0 THEN generation ELSE [generation EXCEPT ![r] = SleepAborted(@)]

\* The cleanup of the effect: the controller cancels its run and forgets it.
Cleanup ==
    /\ cancelled' = CancelledBy(current)
    /\ generation' = IF current # 0 /\ cancelled[current] THEN generation ELSE AbortedBy(current)

\* The effect of a new reset key: the last run is cancelled, a run starts
\* and replaces it.  An invalid request ends before any stage.
Start(r) ==
    /\ shown.status # "unmounted"
    /\ r \in Unstarted /\ \A s \in Unstarted : r <= s
    /\ Cleanup
    /\ current' = r
    /\ \E personal \in PersonalContexts :
         request' = [request EXCEPT ![r].personal = personal]
    /\ \/ /\ at' = [at EXCEPT ![r] = "running"]
          /\ shown' = [status |-> "loading", run |-> 0]
          /\ UNCHANGED outcome
       \/ /\ at' = [at EXCEPT ![r] = "settled"]
          /\ outcome' = [outcome EXCEPT ![r] = Failed("request-invalid", "received")]
          /\ shown' = [status |-> "terminal-unavailable", run |-> r]
    /\ UNCHANGED <<stage, context, reached, foreign>>

Unmount ==
    /\ shown.status # "unmounted"
    /\ Cleanup
    /\ current' = 0 /\ shown' = [status |-> "unmounted", run |-> 0]
    /\ UNCHANGED run

\* The cancellation port of a run answers that it was cancelled.
Cancel(r) ==
    /\ Pending(r)
    /\ Abort(r)
    /\ UNCHANGED <<run, page>>

-----------------------------------------------------------------------------
Init ==
    /\ cancelled = [r \in Runs |-> FALSE] /\ generation = [r \in Runs |-> Idle]
    /\ at = [r \in Runs |-> "unstarted"] /\ stage = [r \in Runs |-> "received"]
    /\ request = [r \in Runs |-> [personal |-> "none", intent |-> "general"]]
    /\ context = [r \in Runs |-> "none"]
    /\ reached = [r \in Runs |-> {}] /\ foreign = [r \in Runs |-> {}]
    /\ outcome = [r \in Runs |-> NoOutcome]
    /\ current = 0 /\ shown = [status |-> "loading", run |-> 0]

Work(r) ==
    \/ /\ BuildContract(r) \/ BuildContext(r) \/ AnalyzeImpact(r) \/ ImpactAnalyzed(r)
          \/ GeneratePlan(r) \/ PlanGenerated(r) \/ CompileScript(r) \/ CreateSession(r)
       /\ UNCHANGED current
    \/ GenerationStep(r) /\ UNCHANGED <<run, page>>

Next ==
    \/ \E r \in Runs : Work(r) \/ Start(r) \/ Cancel(r)
    \/ Unmount

\* A port answers or throws, timers fire, and the first effect runs.
Fairness == WF_vars(Start(1)) /\ \A r \in Runs : WF_vars(Work(r))

Spec == Init /\ [][Next]_vars /\ Fairness

-----------------------------------------------------------------------------
(* Properties                                                              *)

RunType ==
    /\ GenerationType
    /\ at \in [Runs -> {"unstarted", "running", "analyzing", "generating", "settled", "rejected"}]
    /\ stage \in [Runs -> Stages]
    /\ request \in [Runs -> [personal : PersonalContexts, intent : {"general", "personalized"}]]
    /\ context \in [Runs -> Packages \cup {"none"}]
    /\ reached \in [Runs -> SUBSET (Lineage \cup PersonalMarks)]
    /\ foreign \in [Runs -> SUBSET {"context", "analysis", "script", "session"}]
    /\ outcome \in [Runs -> [kind : NonTechnical \cup {"none", "completed", "failed"},
                             stage : Stages, category : Categories \cup {"none"}]]
    /\ current \in Runs \cup {0}
    /\ shown \in [status : {"loading", "ready", "terminal-unavailable", "unmounted"},
                  run : Runs \cup {0}]

\* A run completes on one lineage: nothing it was built from is foreign,
\* whichever stage answered with something of another run.
OneLineage(r) == outcome[r].kind = "completed" => foreign[r] = {}

\* A personalized question completes only as a personalized briefing, on
\* exposures its user consented to, and a general question never uses a
\* context that happens to be attached.
AsAsked(r) ==
    /\ outcome[r].kind = "completed" =>
         ("used" \in reached[r] <=> request[r].intent = "personalized")
    /\ "used" \in reached[r] => request[r].personal = "exposures"

\* A completed run has one lineage and is personalized exactly as asked.
CompletedIsSound == \A r \in Runs : OneLineage(r) /\ AsAsked(r)

\* Every execution is answered with a result: whatever a run reached, the
\* receipt of its end satisfies the schema.
RunsAreAnswered == \A r \in Runs : at[r] # "rejected"

\* The page shows the result of the run it started last, and of no other.
ShownIsLatest ==
    shown.run # 0 =>
      /\ shown.run = current
      /\ \A r \in Runs : r > shown.run => at[r] = "unstarted"
      /\ shown.status = "ready" => outcome[shown.run].kind = "completed"

\* A generation never asks the provider more often than both budgets allow,
\* and its audit accounts for every request, unless it was aborted.
BudgetsHold ==
    \A r \in Runs :
       /\ generation[r].sent <= (MaxTransportRetries + 1) * (MaxRepairs + 1)
       /\ generation[r].at = "returned" /\ generation[r].result # "PROVIDER_ABORTED" =>
            Len(generation[r].attempts) = generation[r].sent

\* Once its cancellation is requested a run enters no further stage beyond
\* the one whose poll sees it, and sends no further request to the provider.
CancelledRunsStop ==
    [][\A r \in Runs : cancelled[r] =>
         /\ generation'[r].sent <= generation[r].sent
         /\ reached'[r] \ reached[r] \subseteq {"plan", "requested", "personal"}
         /\ outcome'[r].kind # "completed" \/ outcome[r].kind = "completed"]_vars

\* The page does not load forever: the run it waits for is answered.
LoadingEnds == shown.status = "loading" ~> shown.status # "loading"

=============================================================================
