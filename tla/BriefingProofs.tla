---------------------------- MODULE BriefingProofs -----------------------------
(***************************************************************************)
(* A run completes with one lineage and as it was asked, the page shows    *)
(* the run it started last, generations stay within their budgets,         *)
(* cancelled runs stop and every run is answered, for any number of runs   *)
(* and whatever their ports answer.  The invariant of the runs says where  *)
(* a run that met something foreign may still be, and from which stage on  *)
(* the use of an impact analysis is on its receipt; two more count the     *)
(* requests of a generation and say what a receipt holds at each stage.    *)
(*                                                                         *)
(* The second part is about what the stages hand to each other, whatever   *)
(* is asked, found and preferred: a gap the package tells of is real, a    *)
(* script stands on evidence and tells what is missing, and each of the    *)
(* two validators refuses only what is known to be refused.                *)
(***************************************************************************)
EXTENDS BriefingRun, BriefingContent, FiniteSetTheorems, NaturalsInduction,
        WellFoundedInduction, TLAPS

Personals == {"none", "disabled", "no-exposures", "exposures"}
Working == {"running", "analyzing", "generating"}

\* Every variable of a run is there for every run.
Shape ==
    /\ DOMAIN at = Runs /\ DOMAIN stage = Runs /\ DOMAIN request = Runs
    /\ DOMAIN context = Runs /\ DOMAIN reached = Runs /\ DOMAIN foreign = Runs
    /\ DOMAIN outcome = Runs
    /\ \A r \in Runs :
          /\ request[r] \in [personal : Personals, intent : {"general", "personalized"}]
          /\ at[r] \in {"unstarted", "settled", "rejected"} \cup Working

Fresh(r) ==
    at[r] = "unstarted" => stage[r] = "received" /\ reached[r] = {} /\ foreign[r] = {}

\* What was used was asked for, and its user consented to it.
UsedAsAsked(r) ==
    "used" \in reached[r] =>
        request[r].personal = "exposures" /\ request[r].intent = "personalized"

\* Between the stage that met the context of another contract and the compiler
\* a run goes on with it; nothing else that is foreign lets it go on.
OnItsWay(r) ==
    at[r] \in Working =>
        /\ foreign[r] \subseteq {"context"}
        /\ foreign[r] # {} => context[r] = "other-contract"
        /\ stage[r] = "script-compiling" => foreign[r] = {}
        /\ stage[r] \in {"received", "contract-building"} =>
              "used" \notin reached[r] /\ foreign[r] = {}
        /\ at[r] = "analyzing" =>
              request[r].intent = "personalized" /\ stage[r] = "impact-analyzing"
        /\ at[r] = "generating" => stage[r] = "plan-generating"
        /\ stage[r] = "impact-analyzing" /\ at[r] = "running" => "used" \in reached[r]
        /\ stage[r] \in {"plan-generating", "script-compiling"}
             /\ request[r].intent = "personalized" => "used" \in reached[r]

Done(r) ==
    /\ at[r] # "settled" => outcome[r].kind = "none"
    /\ outcome[r].kind = "completed" =>
          foreign[r] = {} /\ (request[r].intent = "personalized" => "used" \in reached[r])

RunInv(r) == Fresh(r) /\ UsedAsAsked(r) /\ OnItsWay(r) /\ Done(r)

\* Runs start in their order, and what is shown is the end of the current one.
PageInv ==
    /\ \A r, s \in Runs : at[r] = "unstarted" /\ s > r => at[s] = "unstarted"
    /\ current # 0 =>
          /\ current \in Runs /\ at[current] # "unstarted"
          /\ \A r \in Runs : r > current => at[r] = "unstarted"
    /\ shown.run # 0 =>
          /\ shown.run = current /\ at[current] = "settled"
          /\ shown.status = "ready" => outcome[current].kind = "completed"

RunsInv == Shape /\ (\A r \in Runs : RunInv(r)) /\ PageInv

-----------------------------------------------------------------------------
\* Nothing has run, and nothing is shown.
LEMMA InitHolds == Init => RunsInv
<1> SUFFICES ASSUME Init PROVE RunsInv
  OBVIOUS
<1>1. Shape
  BY DEF Init, Shape, Personals
<1>2. \A r \in Runs : RunInv(r)
  BY DEF Init, RunInv, Fresh, UsedAsAsked, OnItsWay, Done, Working, NoOutcome
<1>3. PageInv
  BY DEF Init, PageInv
<1> QED BY <1>1, <1>2, <1>3 DEF RunsInv

-----------------------------------------------------------------------------
(* What a step of one run leaves alone *)

Same(r, f, g) == DOMAIN g = DOMAIN f /\ \A s \in Runs \ {r} : g[s] = f[s]

\* The step changes what run r knows of its work.
Works(r) ==
    /\ Same(r, stage, stage') /\ Same(r, request, request') /\ Same(r, context, context')
    /\ Same(r, reached, reached') /\ Same(r, foreign, foreign')
    /\ request'[r] \in [personal : Personals, intent : {"general", "personalized"}]

\* The run is over: it has an outcome of a kind, or the promise is rejected.
Ends(r, kind) ==
    /\ Same(r, at, at') /\ Same(r, outcome, outcome')
    /\ \/ at'[r] = "settled" /\ outcome'[r].kind \in {kind, "failed"}
       \/ at'[r] = "rejected" /\ outcome'[r] = outcome[r]
    /\ \/ UNCHANGED shown
       \/ /\ current = r /\ at'[r] = "settled" /\ shown'.run = r
          /\ shown'.status = "ready" => outcome'[r].kind = "completed"

\* A run that settles is over.
LEMMA SettledEnds ==
    ASSUME Shape, NEW r \in Runs, NEW o, Settled(r, o)
    PROVE  Ends(r, o.kind)
<1>1. /\ Same(r, at, at') /\ Same(r, outcome, outcome')
      /\ at'[r] = "settled" /\ outcome'[r] = o
  BY DEF Settled, Same, Shape
<1>2. \/ UNCHANGED shown
      \/ /\ current = r /\ shown'.run = r
         /\ shown'.status = "ready" => o.kind = "completed"
  BY DEF Settled, Presented, Accepts
<1> QED BY <1>1, <1>2 DEF Ends

\* So is a run whose promise is rejected.
LEMMA RejectedEnds ==
    ASSUME Shape, NEW r \in Runs, NEW kind, Rejected(r)
    PROVE  Ends(r, kind)
  BY DEF Rejected, Ends, Same, Shape

\* A failure is of the kind of failures, whatever failed.
LEMMA FailedKind == \A category, s : Failed(category, s).kind = "failed"
  BY DEF Failed

\* A stop is of the kind it was given.
LEMMA StoppedKind == \A kind, s : Stopped(kind, s).kind = kind
  BY DEF Stopped

\* A run that settles, or throws as it settles, is over.
LEMMA OnceEnds ==
    ASSUME Shape, NEW r \in Runs, NEW o, NEW marks, FinishOnce(r, o, marks)
    PROVE  Ends(r, o.kind)
  BY SettledEnds, RejectedEnds DEF FinishOnce

\* Finishing may fail on the way, and then the run is over with a failure.
LEMMA FinishEnds ==
    ASSUME Shape, NEW r \in Runs, NEW o, NEW marks, Finish(r, o, marks)
    PROVE  Ends(r, o.kind)
<1>1. CASE Settled(r, o)
  BY <1>1, SettledEnds
<1>2. CASE FinishOnce(r, Failed("unexpected", stage'[r]), marks)
  <2>1. Ends(r, "failed")
    BY <1>2, OnceEnds, FailedKind
  <2> QED BY <2>1 DEF Ends
<1> QED BY <1>1, <1>2 DEF Finish

\* A stage that throws ends its run with a failure.
LEMMA ThrowsEnds ==
    ASSUME Shape, NEW r \in Runs, NEW marks, Throws(r, marks)
    PROVE  Ends(r, "failed")
  BY OnceEnds, FailedKind DEF Throws

-----------------------------------------------------------------------------
\* The invariant holds after the step, and the other runs stand still.
Kept(r) == RunsInv' /\ Works(r) /\ Same(r, at, at') /\ Same(r, outcome, outcome')

\* A run that was at work and stops.
LEMMA SoundEndKeeps ==
    ASSUME RunsInv, NEW r \in Runs, at[r] \in Working, Works(r), UNCHANGED current,
           NEW kind, Ends(r, kind), UsedAsAsked(r)',
           kind = "completed" =>
              /\ foreign'[r] = {}
              /\ request'[r].intent = "personalized" => "used" \in reached'[r]
    PROVE  Kept(r)
<1>1. Shape'
  BY DEF RunsInv, Shape, Works, Ends, Same, Working
<1>2. RunInv(r)'
  <2>1. at'[r] \in {"settled", "rejected"} /\ at[r] # "settled"
    BY DEF Ends, Working
  <2>2. Done(r)'
    BY <2>1 DEF Done, Ends, RunsInv, RunInv
  <2> QED BY <2>1, <2>2 DEF RunInv, Fresh, OnItsWay, Working
<1>3. \A s \in Runs \ {r} : RunInv(s)'
  BY DEF RunsInv, RunInv, Fresh, UsedAsAsked, OnItsWay, Done, Works, Ends, Same
<1>4. PageInv'
  BY DEF RunsInv, PageInv, Ends, Same, Working
<1> QED BY <1>1, <1>2, <1>3, <1>4 DEF RunsInv, Kept, Ends

\* A run that stops short of its end keeps the invariant.
LEMMA EndKeeps ==
    ASSUME RunsInv, NEW r \in Runs, at[r] \in Working, Works(r), UNCHANGED current,
           NEW kind, kind # "completed", Ends(r, kind), UsedAsAsked(r)'
    PROVE  Kept(r)
  BY SoundEndKeeps

\* A run that goes on.
LEMMA GoKeeps ==
    ASSUME RunsInv, NEW r \in Runs, at[r] \in Working, Works(r),
           UNCHANGED <<current, outcome, shown>>, Same(r, at, at'), at'[r] \in Working,
           UsedAsAsked(r)', OnItsWay(r)'
    PROVE  Kept(r)
<1>1. Shape'
  BY DEF RunsInv, Shape, Works, Same, Working
<1>2. RunInv(r)'
  <2>1. Done(r)'
    BY DEF Done, RunsInv, RunInv, Working
  <2> QED BY <2>1 DEF RunInv, Fresh, Working
<1>3. \A s \in Runs \ {r} : RunInv(s)'
  BY DEF RunsInv, RunInv, Fresh, UsedAsAsked, OnItsWay, Done, Works, Same
<1>4. PageInv'
  BY DEF RunsInv, PageInv, Same, Working
<1> QED BY <1>1, <1>2, <1>3, <1>4 DEF RunsInv, Kept, Same

\* A stage that records no use leaves what was asked as it was.
LEMMA UsedStays ==
    ASSUME RunsInv, NEW r \in Runs, UNCHANGED request,
           "used" \in reached'[r] => "used" \in reached[r]
    PROVE  UsedAsAsked(r)'
  BY DEF RunsInv, RunInv, UsedAsAsked

-----------------------------------------------------------------------------
(* The stages *)

\* A run that is cancelled before a stage ends as cancelled and does nothing more.
LEMMA StopEnds ==
    ASSUME Shape, NEW r \in Runs, StopsBefore(r)
    PROVE  Ends(r, "cancelled") /\ UNCHANGED <<request, context, reached, foreign>>
<1>1. Finish(r, Stopped("cancelled", stage'[r]), reached[r])
  BY DEF StopsBefore
<1>2. Ends(r, "cancelled")
  BY <1>1, FinishEnds, StoppedKind
<1> QED BY <1>2 DEF StopsBefore

\* The poll after a port: the run is cancelled or the answer is read.
LEMMA ReadEnds ==
    ASSUME Shape, NEW r \in Runs, NEW marks, NEW answer, Reads(r, marks, answer)
    PROVE  Ends(r, "cancelled") \/ answer
<1>1. CASE cancelled'[r]
  <2>1. Finish(r, Stopped("cancelled", stage'[r]), marks)
    BY <1>1 DEF Reads
  <2> QED BY <2>1, FinishEnds, StoppedKind
<1>2. CASE ~cancelled'[r]
  BY <1>2 DEF Reads
<1> QED BY <1>1, <1>2

\* No question back to the user completes a run.
LEMMA ClarificationKind ==
    \A q, personal : Clarification(q, personal) # "completed"
  BY DEF Clarification

\* The answer to the contract lets the run continue or ends it short.
LEMMA ContractEnds ==
    ASSUME Shape, NEW r \in Runs, NEW q, ContractAnswer(r, q)
    PROVE  Continues(r) \/ \E kind : kind # "completed" /\ Ends(r, kind)
<1> DEFINE personal == request[r].personal
<1>1. \/ Finish(r, Stopped(Clarification(q, personal), "contract-building"), {"contract"})
      \/ Finish(r, Stopped("policy-rejected", "contract-building"), {"contract"})
      \/ Continues(r)
  BY DEF ContractAnswer
<1>2. CASE Finish(r, Stopped(Clarification(q, personal), "contract-building"), {"contract"})
  <2>1. Ends(r, Clarification(q, personal))
    BY <1>2, FinishEnds, StoppedKind
  <2> QED BY <2>1, ClarificationKind
<1>3. CASE Finish(r, Stopped("policy-rejected", "contract-building"), {"contract"})
  <2>1. Ends(r, "policy-rejected")
    BY <1>3, FinishEnds, StoppedKind
  <2> QED BY <2>1
<1> QED BY <1>1, <1>2, <1>3

\* Building the contract keeps the invariant.
LEMMA BuildContractKeeps ==
    ASSUME RunsInv, NEW r \in Runs, BuildContract(r), UNCHANGED current
    PROVE  Kept(r)
<1>1. /\ at[r] = "running" /\ stage[r] = "received" /\ Shape
      /\ Same(r, stage, stage') /\ stage'[r] = "contract-building"
      /\ UNCHANGED <<context, foreign>>
  BY DEF BuildContract, StopsBefore, Enters, RunsInv, Shape, Same
<1>2. "used" \notin reached[r] /\ foreign[r] = {} /\ at[r] \in Working
  BY <1>1 DEF RunsInv, RunInv, OnItsWay, Working
<1> DEFINE asked ==
       /\ Same(r, request, request') /\ Same(r, reached, reached')
       /\ request'[r] \in [personal : Personals, intent : {"general", "personalized"}]
       /\ "used" \notin reached'[r]
       /\ Continues(r) \/ \E kind : kind # "completed" /\ Ends(r, kind)
<1>3. asked
  <2>1. CASE StopsBefore(r)
    <3>1. Ends(r, "cancelled") /\ UNCHANGED <<request, reached>>
      BY <2>1, <1>1, StopEnds
    <3> QED BY <3>1, <1>1, <1>2 DEF Same, Shape
  <2>2. ASSUME NEW q \in Questions(request[r].personal),
               request' = [request EXCEPT ![r].intent = q.intent],
               Records(r, {"contract"}), Reads(r, {"contract"}, ContractAnswer(r, q))
        PROVE  asked
    <3>1. q.intent \in {"general", "personalized"}
      BY DEF Questions
    <3>2. request'[r] = [request[r] EXCEPT !.intent = q.intent] /\ Same(r, request, request')
      BY <2>2, <1>1 DEF Same, Shape
    <3>3. request[r] \in [personal : Personals, intent : {"general", "personalized"}]
      BY <1>1 DEF Shape
    <3>4. request'[r] \in [personal : Personals, intent : {"general", "personalized"}]
      BY <3>1, <3>2, <3>3
    <3>5. Same(r, reached, reached') /\ "used" \notin reached'[r]
      BY <2>2, <1>1 DEF Records, Same, Shape
    <3>6. Ends(r, "cancelled") \/ ContractAnswer(r, q)
      BY <2>2, <1>1, ReadEnds
    <3>7. Continues(r) \/ \E kind : kind # "completed" /\ Ends(r, kind)
      BY <3>6, <1>1, ContractEnds
    <3> QED BY <3>2, <3>4, <3>5, <3>7
  <2>3. ASSUME UNCHANGED <<request, reached>>,
               Reads(r, {}, Finish(r, Failed("contract-invalid", "contract-building"), {}))
        PROVE  asked
    <3>1. Ends(r, "cancelled") \/ Ends(r, "failed")
      BY <2>3, <1>1, ReadEnds, FinishEnds, FailedKind
    <3> QED BY <2>3, <3>1, <1>1, <1>2 DEF Same, Shape
  <2>4. ASSUME UNCHANGED <<request, reached>>, Throws(r, {})
        PROVE  asked
    <3>1. Ends(r, "failed")
      BY <2>4, <1>1, ThrowsEnds
    <3> QED BY <2>4, <3>1, <1>1, <1>2 DEF Same, Shape
  <2> QED BY <2>1, <2>2, <2>3, <2>4 DEF BuildContract
<1>4. Works(r) /\ UsedAsAsked(r)'
  BY <1>1, <1>3 DEF Works, Same, UsedAsAsked
<1>5. CASE Continues(r)
  <2>1. OnItsWay(r)'
    BY <1>1, <1>2, <1>3, <1>5 DEF OnItsWay, Continues
  <2>2. Same(r, at, at') /\ at'[r] \in Working
    BY <1>2, <1>5 DEF Continues, Same
  <2> QED BY <1>2, <1>4, <1>5, <2>1, <2>2, GoKeeps DEF Continues
<1>6. CASE \E kind : kind # "completed" /\ Ends(r, kind)
  BY <1>2, <1>4, <1>6, EndKeeps
<1> QED BY <1>3, <1>5, <1>6

\* So does building the context.
LEMMA BuildContextKeeps ==
    ASSUME RunsInv, NEW r \in Runs, BuildContext(r), UNCHANGED current
    PROVE  Kept(r)
<1> DEFINE marks == reached[r] \cup {"context"}
<1>1. /\ at[r] = "running" /\ stage[r] = "contract-building" /\ Shape
      /\ Same(r, stage, stage') /\ stage'[r] = "context-building"
      /\ UNCHANGED request
  BY DEF BuildContext, StopsBefore, Enters, RunsInv, Shape, Same
<1>2. "used" \notin reached[r] /\ foreign[r] = {} /\ at[r] \in Working
  BY <1>1 DEF RunsInv, RunInv, OnItsWay, Working
<1> DEFINE built ==
       /\ Same(r, context, context') /\ Same(r, reached, reached') /\ Same(r, foreign, foreign')
       /\ "used" \notin reached'[r]
       /\ foreign'[r] \subseteq {"context"}
       /\ foreign'[r] # {} => context'[r] = "other-contract"
       /\ Continues(r) \/ \E kind : kind # "completed" /\ Ends(r, kind)
<1>3. UNCHANGED <<context, reached, foreign>> =>
        /\ Same(r, context, context') /\ Same(r, reached, reached') /\ Same(r, foreign, foreign')
        /\ "used" \notin reached'[r] /\ foreign'[r] = {}
  BY <1>2 DEF Same
<1>4. built
  <2>1. CASE StopsBefore(r)
    BY <2>1, <1>1, <1>3, StopEnds
  <2>2. ASSUME NEW pack \in Packages,
               context' = [context EXCEPT ![r] = pack],
               Calls(r, IF pack = "other-contract" THEN {"context"} ELSE {}),
               Records(r, marks), Reads(r, marks, ContextAnswer(r, pack, marks))
        PROVE  built
    <3>1. /\ Same(r, context, context') /\ context'[r] = pack
          /\ Same(r, reached, reached') /\ "used" \notin reached'[r]
          /\ Same(r, foreign, foreign')
          /\ foreign'[r] = IF pack = "other-contract" THEN {"context"} ELSE {}
      BY <2>2, <1>1, <1>2 DEF Records, Calls, Same, Shape
    <3>2. Ends(r, "cancelled") \/ ContextAnswer(r, pack, marks)
      BY <2>2, <1>1, ReadEnds
    <3>3. ContextAnswer(r, pack, marks) => Continues(r) \/ Ends(r, "insufficient-evidence")
      BY <1>1, FinishEnds, StoppedKind DEF ContextAnswer
    <3> QED BY <3>1, <3>2, <3>3
  <2>3. ASSUME UNCHANGED <<context, foreign, reached>>,
               \/ Reads(r, reached[r],
                        Finish(r, Failed("context-failed", "context-building"), reached[r]))
               \/ Throws(r, reached[r])
        PROVE  built
    <3>1. Ends(r, "cancelled") \/ Ends(r, "failed")
      BY <2>3, <1>1, ReadEnds, FinishEnds, FailedKind, ThrowsEnds
    <3> QED BY <2>3, <3>1, <1>3
  <2> QED BY <2>1, <2>2, <2>3 DEF BuildContext
<1>5. Works(r) /\ UsedAsAsked(r)'
  <2>1. request'[r] \in [personal : Personals, intent : {"general", "personalized"}]
    BY <1>1 DEF Shape
  <2>2. Same(r, request, request')
    BY <1>1 DEF Same
  <2> QED BY <2>1, <2>2, <1>1, <1>4 DEF Works, UsedAsAsked
<1>6. CASE Continues(r)
  <2>1. OnItsWay(r)'
    BY <1>1, <1>4, <1>6 DEF OnItsWay, Continues
  <2>2. Same(r, at, at') /\ at'[r] \in Working
    BY <1>2, <1>6 DEF Continues, Same
  <2> QED BY <1>2, <1>5, <1>6, <2>1, <2>2, GoKeeps DEF Continues
<1>7. CASE \E kind : kind # "completed" /\ Ends(r, kind)
  BY <1>2, <1>5, <1>7, EndKeeps
<1> QED BY <1>4, <1>6, <1>7

\* So does asking for an impact analysis, or going without one.
LEMMA AnalyzeImpactKeeps ==
    ASSUME RunsInv, NEW r \in Runs, AnalyzeImpact(r), UNCHANGED current
    PROVE  Kept(r)
<1> DEFINE marks == reached[r] \cup {"requested"} \cup
                    (IF request[r].personal = "none" THEN {} ELSE {"personal"})
<1>1. /\ at[r] = "running" /\ stage[r] = "context-building" /\ Shape
      /\ Same(r, stage, stage') /\ stage'[r] = "impact-analyzing"
      /\ request[r].intent = "personalized"
      /\ UNCHANGED <<request, context, foreign>>
  BY DEF AnalyzeImpact, Enters, RunsInv, Shape, Same
<1>2. Same(r, reached, reached') /\ reached'[r] = marks
  BY <1>1 DEF AnalyzeImpact, Records, Same, Shape
<1>3. Works(r)
  BY <1>1, <1>2 DEF Works, Same, Shape
<1>4. UsedAsAsked(r)' /\ at[r] \in Working
  BY <1>1, <1>2, UsedStays DEF Working
<1>5. CASE \E kind \in {"cancelled", "personalized-impact-unavailable"} :
             Finish(r, Stopped(kind, "impact-analyzing"), marks)
  <2>1. \E kind : kind # "completed" /\ Ends(r, kind)
    BY <1>1, <1>5, FinishEnds, StoppedKind
  <2> QED BY <2>1, <1>3, <1>4, EndKeeps
<1>6. CASE at' = [at EXCEPT ![r] = "analyzing"] /\ UNCHANGED <<outcome, shown>>
  <2>1. Same(r, at, at') /\ at'[r] = "analyzing"
    BY <1>1, <1>6 DEF Same, Shape
  <2>2. OnItsWay(r)'
    BY <1>1, <2>1 DEF RunsInv, RunInv, OnItsWay, Working
  <2>3. at'[r] \in Working
    BY <2>1 DEF Working
  <2> QED BY <1>3, <1>4, <1>6, <2>1, <2>2, <2>3, GoKeeps
<1> QED BY <1>5, <1>6 DEF AnalyzeImpact

\* Only a coordination of exposures the user consented to can complete.
LEMMA CompletedAnalysis ==
    ASSUME Shape, NEW r \in Runs, "completed" \in Coordinated(r)
    PROVE  request[r].personal = "exposures"
<1>1. request[r].personal \in Personals
  BY DEF Shape
<1>2. request[r].personal = "none" => Coordinated(r) = {"personalization-context-required"}
  BY DEF Coordinated
<1>3. request[r].personal \in {"disabled", "no-exposures"} =>
        Coordinated(r) = {"personalized-impact-unavailable"}
  BY DEF Coordinated
<1> QED BY <1>1, <1>2, <1>3 DEF Personals

\* So does the answer of the impact analysis.
LEMMA ImpactAnalyzedKeeps ==
    ASSUME RunsInv, NEW r \in Runs, ImpactAnalyzed(r), UNCHANGED current
    PROVE  Kept(r)
<1>1. /\ at[r] = "analyzing" /\ Shape /\ at[r] \in Working
      /\ UNCHANGED <<stage, request, context>>
  BY DEF ImpactAnalyzed, RunsInv, Working
<1>2. /\ request[r].intent = "personalized" /\ stage[r] = "impact-analyzing"
      /\ foreign[r] \subseteq {"context"}
      /\ foreign[r] # {} => context[r] = "other-contract"
  BY <1>1 DEF RunsInv, RunInv, OnItsWay
<1>3. ASSUME Same(r, reached, reached'), Same(r, foreign, foreign')
      PROVE  Works(r)
  BY <1>1, <1>3 DEF Works, Same, Shape
<1>4. ASSUME NEW kind, kind # "completed", Ends(r, kind),
             UNCHANGED reached, Same(r, foreign, foreign')
      PROVE  Kept(r)
  <2>1. Works(r) /\ UsedAsAsked(r)'
    BY <1>1, <1>3, <1>4, UsedStays DEF Same
  <2> QED BY <1>1, <1>4, <2>1, EndKeeps
<1>5. ASSUME NEW kind \in Coordinated(r), NEW odd \in SUBSET {"analysis"}, Calls(r, odd),
             IF cancelled[r]
             THEN Finish(r, Stopped("cancelled", stage[r]), reached[r]) /\ UNCHANGED reached
             ELSE IF kind # "completed"
             THEN Finish(r, Stopped(kind, stage[r]), reached[r]) /\ UNCHANGED reached
             ELSE IF ~OfThisRun(odd)
             THEN Finish(r, Failed("lineage-mismatch", stage[r]), reached[r]) /\ UNCHANGED reached
             ELSE /\ Records(r, Analyzed(reached[r]))
                  /\ at' = [at EXCEPT ![r] = "running"]
                  /\ UNCHANGED <<outcome, shown>>
      PROVE  Kept(r)
  <2>1. Same(r, foreign, foreign') /\ foreign'[r] = foreign[r] \cup odd
    BY <1>1, <1>5 DEF Calls, Same, Shape
  <2>2. CASE /\ kind = "completed" /\ OfThisRun(odd)
             /\ Records(r, Analyzed(reached[r])) /\ at' = [at EXCEPT ![r] = "running"]
             /\ UNCHANGED <<outcome, shown>>
    <3>1. /\ Same(r, reached, reached') /\ "used" \in reached'[r]
          /\ Same(r, at, at') /\ at'[r] = "running" /\ at'[r] \in Working
      BY <1>1, <2>2 DEF Records, Analyzed, Same, Shape, Working
    <3>2. request[r].personal = "exposures"
      BY <1>1, <1>5, <2>2, CompletedAnalysis
    <3>3. foreign'[r] = foreign[r]
      BY <2>1, <2>2 DEF OfThisRun
    <3>4. UsedAsAsked(r)' /\ OnItsWay(r)'
      BY <1>1, <1>2, <3>1, <3>2, <3>3 DEF UsedAsAsked, OnItsWay
    <3>5. Works(r)
      BY <1>3, <2>1, <3>1
    <3> QED BY <1>1, <2>2, <3>1, <3>4, <3>5, GoKeeps
  <2>3. CASE UNCHANGED reached /\
             \E o : o.kind # "completed" /\ Finish(r, o, reached[r])
    <3>1. \E k : k # "completed" /\ Ends(r, k)
      BY <1>1, <2>3, FinishEnds
    <3> QED BY <2>1, <2>3, <3>1, <1>4
  <2> QED BY <1>5, <2>2, <2>3, StoppedKind, FailedKind
<1>6. ASSUME FinishOnce(r, Failed("unexpected", stage[r]), reached[r]),
             UNCHANGED <<foreign, reached>>
      PROVE  Kept(r)
  <2>1. Ends(r, "failed")
    BY <1>1, <1>6, OnceEnds, FailedKind
  <2> QED BY <2>1, <1>4, <1>6 DEF Same
<1> QED BY <1>5, <1>6 DEF ImpactAnalyzed

\* So does asking for a plan.
LEMMA GeneratePlanKeeps ==
    ASSUME RunsInv, NEW r \in Runs, GeneratePlan(r), UNCHANGED current
    PROVE  Kept(r)
<1>1. /\ at[r] = "running" /\ at[r] \in Working /\ Shape
      /\ Same(r, stage, stage') /\ stage'[r] = "plan-generating"
      /\ UNCHANGED <<request, context, reached, foreign>>
      /\ \/ request[r].intent # "personalized" /\ stage[r] = "context-building"
         \/ stage[r] = "impact-analyzing"
  BY DEF GeneratePlan, StopsBefore, Enters, RunsInv, Shape, Same, Working
<1>2. Works(r) /\ UsedAsAsked(r)'
  BY <1>1, UsedStays DEF Works, Same, Shape
<1>3. CASE StopsBefore(r) \/ Throws(r, reached[r])
  <2>1. Ends(r, "cancelled") \/ Ends(r, "failed")
    BY <1>1, <1>3, StopEnds, ThrowsEnds
  <2> QED BY <1>1, <1>2, <2>1, EndKeeps
<1>4. CASE at' = [at EXCEPT ![r] = "generating"] /\ UNCHANGED <<outcome, shown>>
  <2>1. Same(r, at, at') /\ at'[r] = "generating" /\ at'[r] \in Working
    BY <1>1, <1>4 DEF Same, Shape, Working
  <2>2. OnItsWay(r)'
    BY <1>1, <2>1 DEF RunsInv, RunInv, OnItsWay
  <2> QED BY <1>1, <1>2, <1>4, <2>1, <2>2, GoKeeps
<1> QED BY <1>3, <1>4 DEF GeneratePlan

\* No answer of a generation that is not a plan completes a run.
LEMMA GenerationKind == \A result : GenerationAnswer(result).kind # "completed"
  BY StoppedKind, FailedKind DEF GenerationAnswer

\* The answer of the generation keeps the invariant.
LEMMA PlanGeneratedKeeps ==
    ASSUME RunsInv, NEW r \in Runs, PlanGenerated(r), UNCHANGED current
    PROVE  Kept(r)
<1> DEFINE result == generation[r].result
           marks == reached[r] \cup (IF result = "validated-plan" THEN {"plan"} ELSE {})
<1>1. /\ at[r] = "generating" /\ at[r] \in Working /\ Shape
      /\ UNCHANGED <<stage, request, context, foreign>>
      /\ Same(r, reached, reached') /\ reached'[r] = marks
  BY DEF PlanGenerated, Records, RunsInv, Shape, Same, Working
<1>2. Works(r) /\ UsedAsAsked(r)'
  BY <1>1, UsedStays DEF Works, Same, Shape
<1>3. CASE \E o : o.kind # "completed" /\ Finish(r, o, marks)
  <2>1. \E kind : kind # "completed" /\ Ends(r, kind)
    BY <1>1, <1>3, FinishEnds
  <2> QED BY <1>1, <1>2, <2>1, EndKeeps
<1>4. CASE at' = [at EXCEPT ![r] = "running"] /\ UNCHANGED <<outcome, shown>>
  <2>1. Same(r, at, at') /\ at'[r] = "running" /\ at'[r] \in Working
    BY <1>1, <1>4 DEF Same, Shape, Working
  <2>2. OnItsWay(r)'
    BY <1>1, <2>1 DEF RunsInv, RunInv, OnItsWay
  <2> QED BY <1>1, <1>2, <1>4, <2>1, <2>2, GoKeeps
<1>5. \/ Finish(r, Stopped("cancelled", stage[r]), marks)
      \/ Finish(r, GenerationAnswer(result), marks)
      \/ at' = [at EXCEPT ![r] = "running"] /\ UNCHANGED <<outcome, shown>>
  BY DEF PlanGenerated
<1>6. Stopped("cancelled", stage[r]).kind # "completed"
  BY StoppedKind
<1> HIDE DEF result, marks
<1> QED BY <1>3, <1>4, <1>5, <1>6, GenerationKind

\* So does compiling the script.
LEMMA CompileScriptKeeps ==
    ASSUME RunsInv, NEW r \in Runs, CompileScript(r), UNCHANGED current
    PROVE  Kept(r)
<1> DEFINE marks == reached[r] \cup {"script"}
<1>1. /\ at[r] = "running" /\ at[r] \in Working /\ Shape
      /\ stage[r] = "plan-generating"
      /\ Same(r, stage, stage') /\ stage'[r] = "script-compiling"
      /\ UNCHANGED <<request, context>>
  BY DEF CompileScript, StopsBefore, Enters, RunsInv, Shape, Same, Working
<1>2. /\ request[r].intent = "personalized" => "used" \in reached[r]
      /\ foreign[r] \subseteq {"context"}
      /\ foreign[r] # {} => context[r] = "other-contract"
  BY <1>1 DEF RunsInv, RunInv, OnItsWay
<1>3. ASSUME Same(r, reached, reached'), Same(r, foreign, foreign'),
             "used" \in reached'[r] => "used" \in reached[r]
      PROVE  Works(r) /\ UsedAsAsked(r)'
  BY <1>1, <1>3, UsedStays DEF Works, Same, Shape
<1>4. ASSUME UNCHANGED <<reached, foreign>>, NEW kind, kind # "completed", Ends(r, kind)
      PROVE  Kept(r)
  <2>1. Works(r) /\ UsedAsAsked(r)'
    BY <1>3, <1>4 DEF Same
  <2> QED BY <1>1, <1>4, <2>1, EndKeeps
<1>5. CASE StopsBefore(r)
  BY <1>1, <1>4, <1>5, StopEnds
<1>6. CASE Throws(r, reached[r]) /\ UNCHANGED <<reached, foreign>>
  BY <1>1, <1>4, <1>6, ThrowsEnds
<1>7. ASSUME NEW o \in {Failed("script-failed", "script-compiling"),
                        Stopped("insufficient-evidence", "script-compiling")},
             Reads(r, reached[r], Finish(r, o, reached[r])),
             UNCHANGED <<reached, foreign>>
      PROVE  Kept(r)
  <2>1. Ends(r, "cancelled") \/ Ends(r, o.kind)
    BY <1>1, <1>7, ReadEnds, FinishEnds
  <2>2. o.kind # "completed"
    BY StoppedKind, FailedKind
  <2> QED BY <1>4, <1>7, <2>1, <2>2
<1>8. ASSUME NEW valid \in BOOLEAN, NEW odd \in SUBSET {"script"},
             context[r] # "other-contract", Records(r, marks), Calls(r, odd),
             Reads(r, marks,
                   IF ~valid THEN Finish(r, Failed("script-failed", "script-compiling"), marks)
                   ELSE IF ~OfThisRun(odd)
                   THEN Finish(r, Failed("lineage-mismatch", "script-compiling"), marks)
                   ELSE Continues(r))
      PROVE  Kept(r)
  <2>1. /\ Same(r, reached, reached') /\ reached'[r] = marks
        /\ Same(r, foreign, foreign') /\ foreign'[r] = odd
    BY <1>1, <1>2, <1>8 DEF Records, Calls, Same, Shape
  <2>2. Works(r) /\ UsedAsAsked(r)'
    BY <1>3, <2>1
  <2>3. \/ Ends(r, "cancelled") \/ Ends(r, "failed")
        \/ Continues(r) /\ OfThisRun(odd)
    <3>1. \/ Ends(r, "cancelled")
          \/ Finish(r, Failed("script-failed", "script-compiling"), marks)
          \/ Finish(r, Failed("lineage-mismatch", "script-compiling"), marks)
          \/ Continues(r) /\ OfThisRun(odd)
      BY <1>1, <1>8, ReadEnds
    <3> QED BY <1>1, <3>1, FinishEnds, FailedKind
  <2>4. CASE Continues(r) /\ OfThisRun(odd)
    <3>1. Same(r, at, at') /\ at'[r] = "running" /\ at'[r] \in Working
      BY <1>1, <2>4 DEF Continues, Same
    <3>2. OnItsWay(r)'
      BY <1>1, <1>2, <2>1, <2>4, <3>1 DEF OnItsWay, OfThisRun
    <3> QED BY <1>1, <2>2, <2>4, <3>1, <3>2, GoKeeps DEF Continues
  <2> QED BY <1>1, <2>2, <2>3, <2>4, EndKeeps
<1> QED BY <1>5, <1>6, <1>7, <1>8 DEF CompileScript

\* The one place where a run completes.
LEMMA CreateSessionKeeps ==
    ASSUME RunsInv, NEW r \in Runs, CreateSession(r), UNCHANGED current
    PROVE  Kept(r)
<1>1. /\ at[r] = "running" /\ at[r] \in Working /\ Shape
      /\ stage[r] = "script-compiling" /\ Same(r, stage, stage')
      /\ UNCHANGED <<request, context>>
  BY DEF CreateSession, StopsBefore, RunsInv, Shape, Same, Working
<1>2. foreign[r] = {} /\ (request[r].intent = "personalized" => "used" \in reached[r])
  BY <1>1 DEF RunsInv, RunInv, OnItsWay
<1>3. ASSUME Same(r, reached, reached'), Same(r, foreign, foreign'),
             "used" \in reached'[r] => "used" \in reached[r]
      PROVE  Works(r) /\ UsedAsAsked(r)'
  BY <1>1, <1>3, UsedStays DEF Works, Same, Shape
<1>4. CASE \/ StopsBefore(r)
           \/ Throws(r, reached[r]) /\ UNCHANGED <<reached, foreign>>
  <2>1. (Ends(r, "cancelled") \/ Ends(r, "failed")) /\ UNCHANGED <<reached, foreign>>
    BY <1>1, <1>4, StopEnds, ThrowsEnds
  <2>2. Works(r) /\ UsedAsAsked(r)'
    BY <1>3, <2>1 DEF Same
  <2> QED BY <1>1, <2>1, <2>2, EndKeeps
<1>5. ASSUME NEW odd \in SUBSET {"session"}, NEW marks, NEW o, Calls(r, odd),
             Records(r, marks), Finish(r, o, marks),
             marks \subseteq reached[r] \cup {"session"}, reached[r] \subseteq marks,
             o.kind = "completed" => OfThisRun(odd)
      PROVE  Kept(r)
  <2>1. /\ Same(r, reached, reached') /\ reached'[r] = marks
        /\ Same(r, foreign, foreign') /\ foreign'[r] = odd
    BY <1>1, <1>2, <1>5 DEF Records, Calls, Same, Shape
  <2>2. Works(r) /\ UsedAsAsked(r)'
    BY <1>3, <1>5, <2>1
  <2>3. Ends(r, o.kind)
    BY <1>1, <1>5, FinishEnds
  <2>4. CASE o.kind # "completed"
    BY <1>1, <2>2, <2>3, <2>4, EndKeeps
  <2>5. CASE o.kind = "completed"
    <3>1. foreign'[r] = {}
      BY <1>5, <2>1, <2>5 DEF OfThisRun
    <3>2. request'[r].intent = "personalized" => "used" \in reached'[r]
      BY <1>1, <1>2, <1>5, <2>1
    <3> QED BY <1>1, <2>2, <2>3, <3>1, <3>2, SoundEndKeeps
  <2> QED BY <2>4, <2>5
<1>6. ASSUME NEW valid \in BOOLEAN, NEW odd \in SUBSET {"session"},
             LET ends == ~cancelled'[r] /\ valid /\ OfThisRun(odd)
                 marks == reached[r] \cup (IF ends THEN {"session"} ELSE {})
                 o == IF cancelled'[r] THEN Stopped("cancelled", "session-creating")
                      ELSE IF ~valid THEN Failed("session-invalid", "session-creating")
                      ELSE IF ~OfThisRun(odd) THEN Failed("lineage-mismatch", "session-creating")
                      ELSE Completed IN
             Calls(r, odd) /\ Records(r, marks) /\ Finish(r, o, marks)
      PROVE  Kept(r)
  <2> DEFINE ends == ~cancelled'[r] /\ valid /\ OfThisRun(odd)
             marks == reached[r] \cup (IF ends THEN {"session"} ELSE {})
             o == IF cancelled'[r] THEN Stopped("cancelled", "session-creating")
                  ELSE IF ~valid THEN Failed("session-invalid", "session-creating")
                  ELSE IF ~OfThisRun(odd) THEN Failed("lineage-mismatch", "session-creating")
                  ELSE Completed
  <2>1. Calls(r, odd) /\ Records(r, marks) /\ Finish(r, o, marks)
    BY <1>6
  <2>2. o.kind = "completed" => OfThisRun(odd)
    BY StoppedKind, FailedKind
  <2>3. marks \subseteq reached[r] \cup {"session"} /\ reached[r] \subseteq marks
    OBVIOUS
  <2> HIDE DEF marks, o, ends
  <2> QED BY <2>1, <2>2, <2>3, <1>5
<1> QED BY <1>4, <1>6 DEF CreateSession

-----------------------------------------------------------------------------
(* The page *)

\* The runs stand still.
LEMMA RunsStay ==
    ASSUME RunsInv, UNCHANGED run
    PROVE  Shape' /\ \A r \in Runs : RunInv(r)'
<1>1. Shape'
  BY DEF RunsInv, Shape, run
<1>2. \A r \in Runs : RunInv(r)'
  BY DEF RunsInv, RunInv, Fresh, UsedAsAsked, OnItsWay, Done, run
<1> QED BY <1>1, <1>2

\* A step that touches neither a run nor the page keeps the invariant.
LEMMA OthersStep ==
    ASSUME RunsInv, UNCHANGED <<run, page>>
    PROVE  RunsInv'
<1>1. PageInv'
  BY DEF RunsInv, PageInv, run, page
<1> QED BY <1>1, RunsStay DEF RunsInv

\* So does leaving the page.
LEMMA UnmountKeeps ==
    ASSUME RunsInv, Unmount
    PROVE  RunsInv'
<1>1. UNCHANGED run /\ current' = 0 /\ shown'.run = 0
  BY DEF Unmount
<1>2. PageInv'
  BY <1>1 DEF RunsInv, PageInv, run
<1> QED BY <1>1, <1>2, RunsStay DEF RunsInv

\* So does starting a run, which the page shows from then on.
LEMMA StartKeeps ==
    ASSUME RunsInv, NEW r \in Runs, Start(r)
    PROVE  RunsInv'
<1>1. /\ at[r] = "unstarted" /\ current' = r /\ Shape
      /\ UNCHANGED <<stage, context, reached, foreign>>
      /\ \A s \in Runs : at[s] = "unstarted" => r <= s
  BY DEF Start, Unstarted, RunsInv
<1>2. stage[r] = "received" /\ reached[r] = {} /\ foreign[r] = {} /\ outcome[r].kind = "none"
  BY <1>1 DEF RunsInv, RunInv, Fresh, Done
<1>3. PICK personal \in PersonalContexts : request' = [request EXCEPT ![r].personal = personal]
  BY DEF Start
<1>4. /\ Same(r, request, request')
      /\ request'[r] \in [personal : Personals, intent : {"general", "personalized"}]
  <2>1. personal \in Personals
    BY RunAssumption DEF Personals
  <2>2. /\ request'[r] = [request[r] EXCEPT !.personal = personal]
        /\ Same(r, request, request')
    BY <1>1, <1>3 DEF Same, Shape
  <2>3. request[r] \in [personal : Personals, intent : {"general", "personalized"}]
    BY <1>1 DEF Shape
  <2> QED BY <2>1, <2>2, <2>3
<1>5. /\ Same(r, at, at') /\ Same(r, outcome, outcome')
      /\ \/ at'[r] = "running" /\ outcome'[r].kind = "none" /\ shown'.run = 0
         \/ /\ at'[r] = "settled" /\ outcome'[r].kind = "failed"
            /\ shown'.run = r /\ shown'.status # "ready"
  <2>1. CASE /\ at' = [at EXCEPT ![r] = "running"]
             /\ shown' = [status |-> "loading", run |-> 0]
             /\ UNCHANGED outcome
    BY <1>1, <1>2, <2>1 DEF Same, Shape
  <2>2. CASE /\ at' = [at EXCEPT ![r] = "settled"]
             /\ outcome' = [outcome EXCEPT ![r] = Failed("request-invalid", "received")]
             /\ shown' = [status |-> "terminal-unavailable", run |-> r]
    BY <1>1, <2>2, FailedKind DEF Same, Shape
  <2> QED BY <2>1, <2>2 DEF Start
<1>6. Shape'
  BY <1>1, <1>4, <1>5 DEF Shape, Same, Working
<1>7. RunInv(r)'
  BY <1>1, <1>2, <1>5 DEF RunInv, Fresh, UsedAsAsked, OnItsWay, Done, Working
<1>8. \A s \in Runs \ {r} : RunInv(s)'
  BY <1>1, <1>4, <1>5 DEF RunsInv, RunInv, Fresh, UsedAsAsked, OnItsWay, Done, Same
<1>9. PageInv'
  <2>1. Runs \subseteq Int /\ 0 \notin Runs
    BY RunAssumption
  <2>2. \A s \in Runs : s > r => at'[s] = "unstarted"
    BY <1>1, <1>5, <2>1 DEF RunsInv, PageInv, Same
  <2>3. ASSUME NEW a \in Runs, NEW b \in Runs, at'[a] = "unstarted", b > a
        PROVE  at'[b] = "unstarted"
    <3>1. a # r /\ at[a] = "unstarted"
      BY <1>5, <2>3 DEF Same
    <3>2. b > r
      BY <1>1, <2>1, <2>3, <3>1
    <3> QED BY <2>2, <3>2
  <2> QED BY <1>1, <1>5, <2>1, <2>2, <2>3 DEF PageInv
<1> QED BY <1>6, <1>7, <1>8, <1>9 DEF RunsInv

-----------------------------------------------------------------------------
\* So does every step.
LEMMA StepKeeps == RunsInv /\ [Next]_vars => RunsInv'
<1> SUFFICES ASSUME RunsInv, [Next]_vars PROVE RunsInv'
  OBVIOUS
<1>1. CASE UNCHANGED vars
  BY <1>1, OthersStep DEF vars
<1>2. ASSUME NEW r \in Runs, Work(r) PROVE RunsInv'
  <2>1. CASE GenerationStep(r) /\ UNCHANGED <<run, page>>
    BY <2>1, OthersStep
  <2>2. CASE /\ \/ BuildContract(r) \/ BuildContext(r) \/ AnalyzeImpact(r)
                \/ ImpactAnalyzed(r) \/ GeneratePlan(r) \/ PlanGenerated(r)
                \/ CompileScript(r) \/ CreateSession(r)
             /\ UNCHANGED current
    BY <2>2, BuildContractKeeps, BuildContextKeeps, AnalyzeImpactKeeps, ImpactAnalyzedKeeps,
       GeneratePlanKeeps, PlanGeneratedKeeps, CompileScriptKeeps, CreateSessionKeeps DEF Kept
  <2> QED BY <1>2, <2>1, <2>2 DEF Work
<1>3. ASSUME NEW r \in Runs, Cancel(r) PROVE RunsInv'
  BY <1>3, OthersStep DEF Cancel
<1> QED BY <1>1, <1>2, <1>3, StartKeeps, UnmountKeeps DEF Next

\* What every run has done and what the page shows of it agree in every
\* reachable state (briefing-run-service.ts, bootstrap-controller.ts).
THEOREM RunsAgree == Spec => []RunsInv
BY InitHolds, StepKeeps, PTL DEF Spec

\* A completed run has one lineage and is personalized exactly as asked,
\* whatever its ports answer (briefing-run-service.ts:387).
THEOREM CompletedIsSoundHolds == Spec => []CompletedIsSound
<1>1. RunsInv => CompletedIsSound
  BY DEF RunsInv, RunInv, UsedAsAsked, Done, CompletedIsSound, OneLineage, AsAsked
<1> QED BY <1>1, RunsAgree, PTL

\* However late a replaced run ends, the page shows the run it started last
\* (bootstrap-controller.ts, use-local-briefing-bootstrap.ts).
THEOREM ShownIsLatestHolds == Spec => []ShownIsLatest
<1>1. RunsInv => ShownIsLatest
  BY DEF RunsInv, PageInv, ShownIsLatest
<1> QED BY <1>1, RunsAgree, PTL

-----------------------------------------------------------------------------
(* The generation *)

GenerationFields == {"at", "try", "repairs", "sent", "attempts", "result"}
Bound == (MaxTransportRetries + 1) * (MaxRepairs + 1)

Counts(g) ==
    /\ DOMAIN g = GenerationFields
    /\ g.try \in 0..MaxTransportRetries /\ g.repairs \in 0..MaxRepairs /\ g.sent \in 0..Bound
    /\ g.attempts \in Seq(AttemptKinds)

\* Before a request is sent, the requests are those of the finished rounds and
\* the tries of this one, and a round has no more tries than its budget.
Asks(g) ==
    /\ Counts(g)
    /\ Len(g.attempts) + g.try = g.sent
    /\ g.sent <= g.repairs * (MaxTransportRetries + 1) + g.try

GenInv(g) ==
    /\ Counts(g)
    /\ g.at \in {"asking", "sleeping"} =>
          /\ Len(g.attempts) + g.try + 1 = g.sent
          /\ g.sent <= g.repairs * (MaxTransportRetries + 1) + g.try + 1
    /\ g.at = "sleeping" => g.try < MaxTransportRetries
    /\ g.at = "returned" /\ g.result # "PROVIDER_ABORTED" => Len(g.attempts) = g.sent

GensInv == DOMAIN generation = Runs /\ \A r \in Runs : GenInv(generation[r])

\* The budgets are numbers, and one round has its part of the bound.
LEMMA BoundIs ==
    /\ MaxTransportRetries \in Nat /\ MaxRepairs \in {0, 1} /\ Bound \in Nat
    /\ \A repairs \in 0..MaxRepairs, try \in 0..MaxTransportRetries :
          /\ repairs * (MaxTransportRetries + 1) + try + 1 <= Bound
          /\ repairs * (MaxTransportRetries + 1) + try \in Nat
<1>1. MaxTransportRetries \in Nat /\ MaxRepairs \in {0, 1}
  BY GenerationAssumption
<1>2. Bound = IF MaxRepairs = 0 THEN MaxTransportRetries + 1 ELSE 2 * MaxTransportRetries + 2
  BY <1>1 DEF Bound
<1>3. ASSUME NEW repairs \in 0..MaxRepairs, NEW try \in 0..MaxTransportRetries
      PROVE  /\ repairs * (MaxTransportRetries + 1) + try + 1 <= Bound
             /\ repairs * (MaxTransportRetries + 1) + try \in Nat
  <2>1. repairs \in {0, 1} /\ repairs <= MaxRepairs
    BY <1>1
  <2>2. repairs * (MaxTransportRetries + 1) =
          IF repairs = 0 THEN 0 ELSE MaxTransportRetries + 1
    BY <1>1, <2>1
  <2> QED BY <1>1, <1>2, <2>1, <2>2
<1> QED BY <1>1, <1>2, <1>3

\* A generation that records an answer counts one attempt for each request sent.
LEMMA RecordedIs ==
    ASSUME NEW g, Counts(g)
    PROVE  /\ Counts(Recorded(g)) /\ Recorded(g).sent = g.sent
           /\ Len(Recorded(g).attempts) = Len(g.attempts) + g.try + 1
           /\ Recorded(g).repairs = g.repairs
<1> DEFINE round == [i \in 1..g.try + 1 |-> Kind(g, i - 1)]
<1>1. g.try \in Nat /\ g.attempts \in Seq(AttemptKinds)
  BY BoundIs DEF Counts
<1>2. \A i \in 1..g.try + 1 : Kind(g, i - 1) \in AttemptKinds
  BY DEF Kind, AttemptKinds
<1>3. round \in Seq(AttemptKinds) /\ Len(round) = g.try + 1
  BY <1>1, <1>2
<1>4. /\ DOMAIN Recorded(g) = GenerationFields /\ Recorded(g).sent = g.sent
      /\ Recorded(g).try = g.try /\ Recorded(g).repairs = g.repairs
      /\ Recorded(g).attempts = g.attempts \o round
  BY DEF Recorded, Counts, GenerationFields
<1> HIDE DEF round
<1>5. g.attempts \o round \in Seq(AttemptKinds)
      /\ Len(g.attempts \o round) = Len(g.attempts) + g.try + 1
  BY <1>1, <1>3
<1> QED BY <1>4, <1>5 DEF Counts

\* A generation that returns keeps its counts.
LEMMA ReturnsIs ==
    ASSUME NEW g, Counts(g), NEW result,
           result = "PROVIDER_ABORTED" \/ Len(g.attempts) = g.sent
    PROVE  GenInv(Returns(g, result)) /\ Returns(g, result).sent = g.sent
<1>1. /\ DOMAIN Returns(g, result) = GenerationFields
      /\ Returns(g, result).sent = g.sent /\ Returns(g, result).try = g.try
      /\ Returns(g, result).repairs = g.repairs /\ Returns(g, result).attempts = g.attempts
      /\ Returns(g, result).at = "returned" /\ Returns(g, result).result = result
  BY DEF Returns, Counts, GenerationFields
<1> QED BY <1>1 DEF GenInv, Counts

\* A request is counted as it is sent, and none is sent once aborted.
LEMMA AskedIs ==
    ASSUME NEW g, Asks(g), NEW aborted \in BOOLEAN
    PROVE  /\ GenInv(Asked(g, aborted))
           /\ aborted => Asked(g, aborted).sent = g.sent
<1>1. CASE aborted
  <2>1. Counts(Recorded(g)) /\ Recorded(g).sent = g.sent
    BY RecordedIs DEF Asks
  <2>2. /\ GenInv(Returns(Recorded(g), "PROVIDER_ABORTED"))
        /\ Returns(Recorded(g), "PROVIDER_ABORTED").sent = Recorded(g).sent
    BY <2>1, ReturnsIs
  <2> QED BY <1>1, <2>1, <2>2 DEF Asked
<1>2. CASE ~aborted
  <2> DEFINE h == Asked(g, aborted)
  <2>1. /\ DOMAIN h = GenerationFields /\ h.at = "asking" /\ h.try = g.try
        /\ h.repairs = g.repairs /\ h.attempts = g.attempts /\ h.sent = g.sent + 1
    BY <1>2 DEF Asked, Asks, Counts, GenerationFields
  <2> HIDE DEF h
  <2> DEFINE spent == g.repairs * (MaxTransportRetries + 1) + g.try
  <2>2. /\ g.sent \in Nat /\ g.try \in 0..MaxTransportRetries /\ g.repairs \in 0..MaxRepairs
        /\ g.attempts \in Seq(AttemptKinds) /\ g.sent <= spent
    BY DEF Asks, Counts
  <2>3. spent + 1 <= Bound /\ spent \in Nat
    BY <2>2, BoundIs
  <2>4. h.repairs * (MaxTransportRetries + 1) + h.try = spent
    BY <2>1
  <2> HIDE DEF spent
  <2>5. h.sent \in 0..Bound
    <3>1. Bound \in Nat
      BY BoundIs
    <3> QED BY <2>1, <2>2, <2>3, <3>1
  <2>6. Counts(h)
    BY <2>1, <2>5 DEF Asks, Counts
  <2>7. Len(h.attempts) + h.try + 1 = h.sent
    BY <2>1, <2>2 DEF Asks
  <2>8. h.sent <= h.repairs * (MaxTransportRetries + 1) + h.try + 1
    BY <2>1, <2>2, <2>3, <2>4
  <2>9. GenInv(h)
    BY <2>1, <2>6, <2>7, <2>8 DEF GenInv
  <2> QED BY <1>2, <2>9 DEF h
<1> QED BY <1>1, <1>2

\* An answer is retried, repaired or returned, within the counts.
LEMMA AnsweredIs ==
    ASSUME NEW g, GenInv(g), g.at = "asking", NEW answer, NEW aborted \in BOOLEAN
    PROVE  /\ GenInv(Answered(g, answer, aborted))
           /\ aborted => Answered(g, answer, aborted).sent = g.sent
<1>1. /\ Counts(g) /\ Len(g.attempts) + g.try + 1 = g.sent
      /\ g.sent <= g.repairs * (MaxTransportRetries + 1) + g.try + 1
  BY DEF GenInv
<1>2. /\ Counts(Recorded(g)) /\ Recorded(g).sent = g.sent
      /\ Recorded(g).repairs = g.repairs /\ Len(Recorded(g).attempts) = Recorded(g).sent
  BY <1>1, RecordedIs
<1>3. ASSUME RetryLeft(g)
      PROVE  GenInv(Slept(g)) /\ Slept(g).sent = g.sent
  <2>1. /\ DOMAIN Slept(g) = GenerationFields /\ Slept(g).at = "sleeping"
        /\ Slept(g).try = g.try /\ Slept(g).repairs = g.repairs
        /\ Slept(g).sent = g.sent /\ Slept(g).attempts = g.attempts
    BY <1>1 DEF Slept, Counts, GenerationFields
  <2>2. Counts(Slept(g))
    BY <1>1, <2>1 DEF Counts
  <2>3. g.try < MaxTransportRetries
    BY <1>3 DEF RetryLeft
  <2> QED BY <1>1, <2>1, <2>2, <2>3 DEF GenInv
<1>4. ASSUME NEW result
      PROVE  GenInv(Returns(Recorded(g), result)) /\ Returns(Recorded(g), result).sent = g.sent
  BY <1>2, ReturnsIs
<1>5. ASSUME NEW error
      PROVE  /\ GenInv(RepairedOr(Recorded(g), error, aborted))
             /\ aborted => RepairedOr(Recorded(g), error, aborted).sent = g.sent
  <2> DEFINE again == [Recorded(g) EXCEPT !.repairs = @ + 1, !.try = 0]
  <2>1. CASE RepairLeft(Recorded(g))
    <3>1. g.repairs = 0 /\ MaxRepairs = 1
      BY <1>1, <1>2, <2>1, BoundIs DEF RepairLeft, Counts
    <3>2. /\ DOMAIN again = GenerationFields /\ again.repairs = 1 /\ again.try = 0
          /\ again.sent = g.sent /\ again.attempts = Recorded(g).attempts
      BY <1>2, <3>1 DEF Counts, GenerationFields
    <3> HIDE DEF again
    <3>3. Counts(again)
      BY <1>2, <3>1, <3>2, BoundIs DEF Counts
    <3>4. again.sent <= 1 * (MaxTransportRetries + 1) + 0
      <4>1. g.sent <= g.try + 1 /\ g.try \in 0..MaxTransportRetries /\ g.sent \in Nat
        BY <1>1, <3>1, BoundIs DEF Counts
      <4> QED BY <4>1, <3>2, BoundIs
    <3>5. Len(again.attempts) + 0 = again.sent
      BY <1>2, <3>2 DEF Counts
    <3>6. Asks(again)
      BY <3>2, <3>3, <3>4, <3>5 DEF Asks
    <3>7. GenInv(Asked(again, aborted)) /\ (aborted => Asked(again, aborted).sent = g.sent)
      BY <3>2, <3>6, AskedIs
    <3> QED BY <2>1, <3>7 DEF RepairedOr, again
  <2>2. CASE ~RepairLeft(Recorded(g))
    BY <1>4, <2>2 DEF RepairedOr
  <2> QED BY <2>1, <2>2
<1>6. \/ RetryLeft(g) /\ Answered(g, answer, aborted) = Slept(g)
      \/ Answered(g, answer, aborted) = RepairedOr(Recorded(g), answer, aborted)
      \/ Answered(g, answer, aborted) = Returns(Recorded(g), answer)
  BY DEF Answered
<1> QED BY <1>3, <1>4, <1>5, <1>6

\* A generation that wakes asks again, and does not once aborted.
LEMMA WokenIs ==
    ASSUME NEW g, GenInv(g), g.at = "sleeping", NEW aborted \in BOOLEAN
    PROVE  /\ GenInv(Asked(Retried(g), aborted))
           /\ aborted => Asked(Retried(g), aborted).sent = g.sent
<1> DEFINE next == Retried(g)
<1>1. /\ DOMAIN next = GenerationFields /\ next.try = g.try + 1 /\ next.sent = g.sent
      /\ next.repairs = g.repairs /\ next.attempts = g.attempts
  BY DEF Retried, GenInv, Counts, GenerationFields
<1> HIDE DEF next
<1> DEFINE rounds == g.repairs * (MaxTransportRetries + 1)
<1>2. /\ Counts(g) /\ Len(g.attempts) + g.try + 1 = g.sent /\ g.try < MaxTransportRetries
      /\ g.sent <= rounds + g.try + 1
  BY DEF GenInv
<1>3. rounds \in Int /\ g.try \in Nat /\ g.sent \in Nat /\ Len(g.attempts) \in Nat
  <2>1. g.repairs \in Int /\ MaxTransportRetries \in Nat
    BY <1>2, BoundIs DEF Counts
  <2> QED BY <1>2, <2>1 DEF Counts
<1>4. Counts(next)
  <2>1. MaxTransportRetries \in Nat
    BY BoundIs
  <2>2. next.try \in 0..MaxTransportRetries
    BY <1>1, <1>2, <1>3, <2>1
  <2> QED BY <1>1, <1>2, <2>2 DEF Counts
<1>5. next.repairs * (MaxTransportRetries + 1) = rounds
  BY <1>1
<1> HIDE DEF rounds
<1>6. Asks(next)
  BY <1>1, <1>2, <1>3, <1>4, <1>5 DEF Asks
<1>7. GenInv(Asked(next, aborted)) /\ (aborted => Asked(next, aborted).sent = g.sent)
  BY <1>1, <1>6, AskedIs
<1> QED BY <1>7 DEF next

\* A generation whose sleep is aborted sends nothing.
LEMMA SleepAbortedIs ==
    ASSUME NEW g, GenInv(g)
    PROVE  GenInv(SleepAborted(g)) /\ SleepAborted(g).sent = g.sent
  BY ReturnsIs DEF SleepAborted, GenInv

\* A generation that has not begun has counted nothing.
LEMMA IdleIs == Asks(Idle) /\ GenInv(Idle)
<1>1. /\ DOMAIN Idle = GenerationFields /\ Idle.at = "idle" /\ Idle.try = 0
      /\ Idle.repairs = 0 /\ Idle.sent = 0 /\ Idle.attempts = <<>>
  BY DEF Idle, GenerationFields
<1>2. 0 * (MaxTransportRetries + 1) + 0 = 0
  BY BoundIs
<1>3. Counts(Idle)
  BY <1>1, BoundIs DEF Counts
<1> QED BY <1>1, <1>2, <1>3 DEF Asks, GenInv

\* A generation begins within its counts.
LEMMA BegunIs ==
    ASSUME NEW pack, NEW valid
    PROVE  GenInv(Begun(pack, valid, FALSE))
<1>1. GenInv(Asked(Idle, FALSE))
  BY IdleIs, AskedIs
<1>2. \A result : GenInv(Returns(Idle, result))
  <2>1. Len(Idle.attempts) = Idle.sent /\ Counts(Idle)
    BY IdleIs DEF Asks, Idle
  <2> QED BY <2>1, ReturnsIs
<1> QED BY <1>1, <1>2 DEF Begun

-----------------------------------------------------------------------------
\* A step of the generations: they stay in their budgets, and what is cancelled
\* sends nothing.
Spends ==
    /\ GensInv'
    /\ \A s \in Runs : cancelled[s] => generation'[s].sent <= generation[s].sent

\* Nothing is spent where no generation moves.
LEMMA NothingSpent ==
    ASSUME GensInv, UNCHANGED generation
    PROVE  Spends
<1>1. \A s \in Runs : generation[s].sent \in Int
  BY DEF GensInv, GenInv, Counts
<1> QED BY <1>1 DEF GensInv, Spends

\* One generation moves, and if its run was cancelled it sends nothing.
LEMMA OneSpends ==
    ASSUME GensInv, NEW r \in Runs, Same(r, generation, generation'),
           GenInv(generation'[r]),
           cancelled[r] => generation'[r].sent <= generation[r].sent
    PROVE  Spends
<1>1. \A s \in Runs : generation[s].sent \in Int
  BY DEF GensInv, GenInv, Counts
<1>2. GensInv'
  BY DEF GensInv, Same
<1>3. ASSUME NEW s \in Runs, cancelled[s]
      PROVE  generation'[s].sent <= generation[s].sent
  BY <1>1, <1>3 DEF Same
<1> QED BY <1>2, <1>3 DEF Spends

\* A step of a generation spends as it should.
LEMMA StepSpends ==
    ASSUME GensInv, cancelled \in [Runs -> BOOLEAN], NEW r \in Runs, GenerationStep(r)
    PROVE  Spends
<1> DEFINE g == generation[r]
           h == generation'[r]
<1>1. GenInv(g) /\ cancelled[r] \in BOOLEAN /\ g.sent \in Int
  BY DEF GensInv, GenInv, Counts
<1>2. /\ Same(r, generation, generation')
      /\ \/ g.at = "asking" /\ \E answer : h = Answered(g, answer, cancelled[r])
         \/ h = Returns(g, "PROVIDER_ABORTED")
         \/ g.at = "sleeping" /\ h = Asked(Retried(g), cancelled[r])
  <2>1. DOMAIN generation = Runs
    BY DEF GensInv
  <2>2. CASE Answer(r)
    BY <2>1, <2>2 DEF Answer, Same
  <2>3. CASE Throw(r)
    BY <2>1, <2>3 DEF Throw, Same
  <2>4. CASE WakeUp(r)
    BY <2>1, <2>4 DEF WakeUp, Same
  <2> QED BY <2>2, <2>3, <2>4 DEF GenerationStep
<1>3. GenInv(h) /\ (cancelled[r] => h.sent = g.sent)
  <2>1. CASE g.at = "asking" /\ \E answer : h = Answered(g, answer, cancelled[r])
    BY <1>1, <2>1, AnsweredIs
  <2>2. CASE h = Returns(g, "PROVIDER_ABORTED")
    BY <1>1, <2>2, ReturnsIs DEF GenInv
  <2>3. CASE g.at = "sleeping" /\ h = Asked(Retried(g), cancelled[r])
    BY <1>1, <2>3, WokenIs
  <2> QED BY <1>2, <2>1, <2>2, <2>3
<1> QED BY <1>1, <1>2, <1>3, OneSpends

\* So does aborting its sleep.
LEMMA AbortSpends ==
    ASSUME GensInv, NEW r \in Runs,
           generation' = [generation EXCEPT ![r] = SleepAborted(@)]
    PROVE  Spends
<1> DEFINE g == generation[r]
<1>1. GenInv(g) /\ g.sent \in Int
  BY DEF GensInv, GenInv, Counts
<1>2. GenInv(SleepAborted(g)) /\ SleepAborted(g).sent = g.sent
  BY <1>1, SleepAbortedIs
<1>3. Same(r, generation, generation') /\ generation'[r] = SleepAborted(g)
  BY DEF GensInv, Same
<1>4. GenInv(generation'[r]) /\ generation'[r].sent <= generation[r].sent
  BY <1>1, <1>2, <1>3
<1> QED BY <1>3, <1>4, OneSpends

\* So does whatever a run does.
LEMMA WorkSpends ==
    ASSUME GensInv, cancelled \in [Runs -> BOOLEAN], NEW r \in Runs, Work(r)
    PROVE  Spends
<1>1. CASE GenerationStep(r)
  BY <1>1, StepSpends
<1>2. CASE GeneratePlan(r)
  <2>1. CASE UNCHANGED generation
    BY <2>1, NothingSpent
  <2>2. ASSUME ~cancelled[r], NEW valid \in BOOLEAN,
               generation' = [generation EXCEPT ![r] = Begun(context[r], valid, FALSE)]
        PROVE  Spends
    <3>1. /\ Same(r, generation, generation')
          /\ generation'[r] = Begun(context[r], valid, FALSE)
      BY <2>2 DEF GensInv, Same
    <3> QED BY <2>2, <3>1, BegunIs, OneSpends
  <2> QED BY <1>2, <2>1, <2>2 DEF GeneratePlan, StopsBefore
<1>3. CASE PlanGenerated(r)
  <2>1. /\ Same(r, generation, generation') /\ generation'[r] = Idle
        /\ GenInv(Idle) /\ Idle.sent = 0
    BY <1>3, IdleIs DEF PlanGenerated, Idle, GensInv, Same
  <2>2. generation[r].sent >= 0
    BY DEF GensInv, GenInv, Counts
  <2> QED BY <2>1, <2>2, OneSpends
<1>4. CASE \/ BuildContract(r) \/ BuildContext(r) \/ AnalyzeImpact(r) \/ ImpactAnalyzed(r)
           \/ CompileScript(r) \/ CreateSession(r)
  <2>1. UNCHANGED generation
    BY <1>4 DEF BuildContract, BuildContext, AnalyzeImpact, ImpactAnalyzed, CompileScript,
                CreateSession, StopsBefore
  <2> QED BY <2>1, NothingSpent
<1> QED BY <1>1, <1>2, <1>3, <1>4 DEF Work

\* So does cleaning up a run that is replaced.
LEMMA CleanupSpends ==
    ASSUME GensInv, current \in Runs \cup {0}, Cleanup
    PROVE  Spends
<1>1. CASE UNCHANGED generation
  BY <1>1, NothingSpent
<1>2. CASE generation' # generation
  <2>1. current # 0 /\ generation' = [generation EXCEPT ![current] = SleepAborted(@)]
    BY <1>2 DEF Cleanup, AbortedBy
  <2> QED BY <2>1, AbortSpends
<1> QED BY <1>1, <1>2

CancelledType == cancelled \in [Runs -> BOOLEAN]

\* Runs stay cancelled or not.
LEMMA CancelledTypeKept ==
    ASSUME CancelledType, Next \/ UNCHANGED vars
    PROVE  CancelledType'
<1>1. CASE UNCHANGED cancelled
  BY <1>1 DEF CancelledType
<1>2. \A r \in Runs : Called(r) => CancelledType'
  BY DEF Called, CancelledType
<1>3. \A r \in Runs : Abort(r) => CancelledType'
  BY DEF Abort, CancelledType
<1>4. Cleanup => CancelledType'
  BY DEF Cleanup, CancelledBy, CancelledType
<1>5. ASSUME NEW r \in Runs, Work(r)
      PROVE  UNCHANGED cancelled \/ Called(r)
  BY <1>5 DEF Work, BuildContract, BuildContext, AnalyzeImpact, ImpactAnalyzed, GeneratePlan,
              PlanGenerated, CompileScript, CreateSession, StopsBefore, GenerationStep,
              Answer, Throw, WakeUp
<1> QED BY <1>1, <1>2, <1>3, <1>4, <1>5 DEF Next, Start, Cancel, Unmount, vars

\* Every step spends as it should.
LEMMA NextSpends ==
    ASSUME GensInv, CancelledType, PageInv, Next \/ UNCHANGED vars
    PROVE  Spends
<1>1. current \in Runs \cup {0}
  BY DEF PageInv
<1>2. ASSUME NEW r \in Runs, Work(r) PROVE Spends
  BY <1>2, WorkSpends DEF CancelledType
<1>3. ASSUME NEW r \in Runs, Start(r) PROVE Spends
  BY <1>1, <1>3, CleanupSpends DEF Start
<1>4. ASSUME NEW r \in Runs, Cancel(r) PROVE Spends
  BY <1>4, AbortSpends DEF Cancel, Abort
<1>5. CASE Unmount
  BY <1>1, <1>5, CleanupSpends DEF Unmount
<1>6. CASE UNCHANGED vars
  BY <1>6, NothingSpent DEF vars
<1> QED BY <1>2, <1>3, <1>4, <1>5, <1>6 DEF Next

\* The counts of the generations hold in every behaviour.
LEMMA GenerationsStayInBudget == Spec => [](GensInv /\ CancelledType)
<1>1. Init => GensInv /\ CancelledType
  BY IdleIs DEF Init, GensInv, CancelledType
<1>2. RunsInv /\ GensInv /\ CancelledType /\ [Next]_vars => (GensInv /\ CancelledType)'
  BY NextSpends, CancelledTypeKept DEF RunsInv, Spends
<1> QED BY <1>1, <1>2, RunsAgree, PTL DEF Spec

\* No generation asks its provider more often than its two budgets allow
\* together, and its audit accounts for every request, for any budgets and
\* any number of concurrent runs.
THEOREM BudgetsHoldHolds == Spec => []BudgetsHold
<1>1. GensInv => BudgetsHold
  <2> SUFFICES ASSUME GensInv, NEW r \in Runs
               PROVE  /\ generation[r].sent <= Bound
                      /\ generation[r].at = "returned" /\ generation[r].result # "PROVIDER_ABORTED" =>
                            Len(generation[r].attempts) = generation[r].sent
    BY DEF BudgetsHold, Bound
  <2>1. GenInv(generation[r]) /\ Bound \in Nat
    BY BoundIs DEF GensInv
  <2> QED BY <2>1 DEF GenInv, Counts
<1> QED BY <1>1, GenerationsStayInBudget, PTL

-----------------------------------------------------------------------------
(* Cancelled runs *)

\* Nothing new is on the receipt of run s but what the stage that was awaited
\* records before its answer is read, and the run does not complete.
Stops(s) ==
    /\ reached'[s] \ reached[s] \subseteq {"plan", "requested", "personal"}
    /\ outcome'[s].kind # "completed" \/ outcome[s].kind = "completed"

\* A run that ends short of completion has stopped.
LEMMA EndStops ==
    ASSUME NEW r \in Runs, NEW kind, kind # "completed", Ends(r, kind),
           reached'[r] \ reached[r] \subseteq {"plan", "requested", "personal"}
    PROVE  Stops(r)
  BY DEF Ends, Stops

\* A cancelled run that works stops.
LEMMA CancelledWorkStops ==
    ASSUME RunsInv, NEW r \in Runs, cancelled[r], Work(r)
    PROVE  Stops(r)
<1>1. Shape
  BY DEF RunsInv
<1>2. CASE StopsBefore(r)
  BY <1>1, <1>2, StopEnds, EndStops
<1>3. CASE BuildContract(r) \/ BuildContext(r) \/ GeneratePlan(r) \/ CompileScript(r)
           \/ CreateSession(r)
  <2>1. StopsBefore(r)
    BY <1>3 DEF BuildContract, BuildContext, GeneratePlan, CompileScript, CreateSession, Called
  <2> QED BY <2>1, <1>2
<1>4. CASE AnalyzeImpact(r)
  <2> DEFINE marks == reached[r] \cup {"requested"} \cup
                      (IF request[r].personal = "none" THEN {} ELSE {"personal"})
  <2>1. reached'[r] = marks /\ Finish(r, Stopped("cancelled", "impact-analyzing"), marks)
    BY <1>1, <1>4 DEF AnalyzeImpact, Records, Shape
  <2>2. reached'[r] \ reached[r] \subseteq {"plan", "requested", "personal"}
    BY <2>1
  <2> HIDE DEF marks
  <2>3. Ends(r, "cancelled")
    BY <1>1, <2>1, FinishEnds, StoppedKind
  <2> QED BY <2>2, <2>3, EndStops
<1>5. CASE ImpactAnalyzed(r)
  <2>1. /\ UNCHANGED reached
        /\ \/ Finish(r, Stopped("cancelled", stage[r]), reached[r])
           \/ FinishOnce(r, Failed("unexpected", stage[r]), reached[r])
    BY <1>5 DEF ImpactAnalyzed
  <2>2. Ends(r, "cancelled") \/ Ends(r, "failed")
    BY <1>1, <2>1, FinishEnds, OnceEnds, StoppedKind, FailedKind
  <2> QED BY <2>1, <2>2, EndStops
<1>6. CASE PlanGenerated(r)
  <2> DEFINE marks == reached[r] \cup
                      (IF generation[r].result = "validated-plan" THEN {"plan"} ELSE {})
  <2>1. reached'[r] = marks /\ Finish(r, Stopped("cancelled", stage[r]), marks)
    BY <1>1, <1>6 DEF PlanGenerated, Records, Shape
  <2>2. reached'[r] \ reached[r] \subseteq {"plan", "requested", "personal"}
    BY <2>1
  <2> HIDE DEF marks
  <2>3. Ends(r, "cancelled")
    BY <1>1, <2>1, FinishEnds, StoppedKind
  <2> QED BY <2>2, <2>3, EndStops
<1>7. CASE UNCHANGED run
  BY <1>7 DEF Stops, run
<1> QED BY <1>3, <1>4, <1>5, <1>6, <1>7 DEF Work

\* Whatever step is taken, a cancelled run goes no further.
LEMMA NextStops ==
    ASSUME RunsInv, Next \/ UNCHANGED vars, NEW s \in Runs, cancelled[s]
    PROVE  Stops(s)
<1>1. CASE UNCHANGED run
  BY <1>1 DEF Stops, run
<1>2. ASSUME NEW r \in Runs, Work(r) PROVE Stops(s)
  <2>1. CASE r = s
    BY <1>2, <2>1, CancelledWorkStops
  <2>2. CASE r # s /\ GenerationStep(r) /\ UNCHANGED <<run, page>>
    BY <1>1, <2>2
  <2>3. CASE r # s /\ Kept(r)
    <3>1. reached'[s] = reached[s] /\ outcome'[s] = outcome[s]
      BY <2>3 DEF Kept, Works, Same
    <3> QED BY <3>1 DEF Stops
  <2>4. \/ GenerationStep(r) /\ UNCHANGED <<run, page>>
        \/ Kept(r)
    BY <1>2, BuildContractKeeps, BuildContextKeeps, AnalyzeImpactKeeps, ImpactAnalyzedKeeps,
       GeneratePlanKeeps, PlanGeneratedKeeps, CompileScriptKeeps, CreateSessionKeeps DEF Work
  <2> QED BY <2>1, <2>2, <2>3, <2>4
<1>3. ASSUME NEW r \in Runs, Start(r) PROVE Stops(s)
  <2>1. UNCHANGED reached /\ (outcome'[s].kind = "failed" \/ outcome'[s] = outcome[s])
    <3>1. DOMAIN outcome = Runs
      BY DEF RunsInv, Shape
    <3>2. UNCHANGED reached
      BY <1>3 DEF Start
    <3>3. \/ UNCHANGED outcome
          \/ outcome' = [outcome EXCEPT ![r] = Failed("request-invalid", "received")]
      BY <1>3 DEF Start
    <3> QED BY <3>1, <3>2, <3>3, FailedKind
  <2> QED BY <2>1 DEF Stops
<1>4. ASSUME NEW r \in Runs, Cancel(r) PROVE Stops(s)
  BY <1>1, <1>4 DEF Cancel
<1>5. CASE Unmount
  BY <1>1, <1>5 DEF Unmount
<1> QED BY <1>1, <1>2, <1>3, <1>4, <1>5 DEF Next, vars

\* Once its cancellation is requested a run enters no further stage beyond the
\* one whose poll sees it, sends nothing more to the provider and does not
\* complete, whatever its ports and the provider answer
\* (briefing-run-service.ts:286, generation/provider.ts:22).
THEOREM CancelledRunsStopHolds == Spec => CancelledRunsStop
<1>1. RunsInv /\ GensInv /\ CancelledType /\ [Next]_vars =>
        [\A r \in Runs : cancelled[r] =>
           /\ generation'[r].sent <= generation[r].sent
           /\ reached'[r] \ reached[r] \subseteq {"plan", "requested", "personal"}
           /\ outcome'[r].kind # "completed" \/ outcome[r].kind = "completed"]_vars
  <2> SUFFICES ASSUME RunsInv, GensInv, CancelledType, [Next]_vars,
                      NEW r \in Runs, cancelled[r]
               PROVE  generation'[r].sent <= generation[r].sent /\ Stops(r)
    BY DEF Stops
  <2>1. Spends
    BY NextSpends DEF RunsInv
  <2> QED BY <2>1, NextStops DEF Spends
<1> QED BY <1>1, RunsAgree, GenerationsStayInBudget, PTL DEF Spec, CancelledRunsStop

-----------------------------------------------------------------------------
(* The receipts *)

\* What a receipt says of personalization is whole.
Whole(marks) ==
    /\ "used" \in marks => PersonalMarks \subseteq marks
    /\ "analysis" \in marks => "used" \in marks

\* What the stages behind a run have built is recorded.
Built(r) ==
    /\ stage[r] # "completed"
    /\ stage[r] # "received" => "contract" \in reached[r]
    /\ stage[r] \notin {"received", "contract-building"} => "context" \in reached[r]
    /\ stage[r] = "plan-generating" /\ at[r] = "running" => "plan" \in reached[r]
    /\ stage[r] = "script-compiling" => {"plan", "script"} \subseteq reached[r]
    /\ at[r] = "analyzing" =>
          /\ "requested" \in reached[r]
          /\ request[r].personal = "none" \/ "personal" \in reached[r]

ReceiptInv(r) ==
    /\ at[r] # "rejected"
    /\ Whole(reached[r])
    /\ at[r] \in Working => Built(r)

Receipts == \A r \in Runs : ReceiptInv(r)

\* With a clock that is not set back, the first finish of a valid receipt or
\* the second one settles the run.
LEMMA OnceSettles ==
    ASSUME Shape, ~ClockStepsBack, NEW r \in Runs, NEW o, NEW marks, FinishOnce(r, o, marks),
           o.kind # "completed", o.stage # "completed", Whole(marks)
    PROVE  at'[r] = "settled"
<1>1. Finishes(o, marks, FALSE)
  BY DEF Finishes, ReceiptValid, Whole
<1>2. Settled(r, o)
  BY <1>1 DEF FinishOnce, ClockReadings
<1> QED BY <1>2 DEF Settled, Shape

\* A failure names the stage it was given.
LEMMA FailedStage == \A category, s : Failed(category, s).stage = s
  BY DEF Failed

\* So does a stop.
LEMMA StoppedStage == \A kind, s : Stopped(kind, s).stage = s
  BY DEF Stopped

\* While the clock does not step back, a run that finishes short settles.
LEMMA FinishSettles ==
    ASSUME Shape, ~ClockStepsBack, NEW r \in Runs, NEW o, NEW marks, Finish(r, o, marks),
           o.kind # "completed", o.stage # "completed", stage'[r] # "completed", Whole(marks)
    PROVE  at'[r] = "settled"
<1>1. CASE Settled(r, o)
  BY <1>1 DEF Settled, Shape
<1>2. CASE FinishOnce(r, Failed("unexpected", stage'[r]), marks)
  BY <1>2, OnceSettles, FailedKind, FailedStage
<1> QED BY <1>1, <1>2 DEF Finish

\* So does a run that completes with its lineage.
LEMMA CompletedSettles ==
    ASSUME Shape, ~ClockStepsBack, NEW r \in Runs, NEW marks, Finish(r, Completed, marks),
           Lineage \subseteq marks, Whole(marks)
    PROVE  at'[r] = "settled"
<1>1. Completed.kind = "completed" /\ Completed.stage = "completed"
  BY StoppedKind, StoppedStage DEF Completed
<1>2. Finishes(Completed, marks, FALSE)
  BY <1>1 DEF Finishes, ReceiptValid, Whole
<1>3. Settled(r, Completed)
  BY <1>2 DEF Finish, ClockReadings
<1> QED BY <1>3 DEF Settled, Shape

\* So does a run that is cancelled before a stage.
LEMMA StopSettles ==
    ASSUME Shape, ~ClockStepsBack, NEW r \in Runs, StopsBefore(r), stage'[r] # "completed",
           Whole(reached[r])
    PROVE  at'[r] = "settled" /\ UNCHANGED reached
<1>1. Finish(r, Stopped("cancelled", stage'[r]), reached[r]) /\ UNCHANGED reached
  BY DEF StopsBefore
<1> QED BY <1>1, FinishSettles, StoppedKind, StoppedStage

\* So does a run whose stage throws.
LEMMA ThrowSettles ==
    ASSUME Shape, ~ClockStepsBack, NEW r \in Runs, NEW marks, Throws(r, marks),
           stage'[r] # "completed", Whole(marks)
    PROVE  at'[r] = "settled"
  BY OnceSettles, FailedKind, FailedStage DEF Throws

\* A run settles, or reads its answer.
LEMMA ReadSettles ==
    ASSUME Shape, ~ClockStepsBack, NEW r \in Runs, NEW marks, NEW answer,
           Reads(r, marks, answer), stage'[r] # "completed", Whole(marks)
    PROVE  at'[r] = "settled" \/ answer
<1>1. CASE cancelled'[r]
  <2>1. Finish(r, Stopped("cancelled", stage'[r]), marks)
    BY <1>1 DEF Reads
  <2> QED BY <2>1, FinishSettles, StoppedKind, StoppedStage
<1>2. CASE ~cancelled'[r]
  BY <1>2 DEF Reads
<1> QED BY <1>1, <1>2

\* A failure or a stop of an entered stage.
LEMMA StageSettles ==
    ASSUME Shape, ~ClockStepsBack, NEW r \in Runs, NEW s \in Stages \ {"completed"},
           stage'[r] # "completed", NEW marks, Whole(marks), NEW word, word # "completed",
           Finish(r, Stopped(word, s), marks) \/ Finish(r, Failed(word, s), marks)
    PROVE  at'[r] = "settled"
<1>1. /\ Stopped(word, s).kind # "completed" /\ Stopped(word, s).stage # "completed"
      /\ Failed(word, s).kind # "completed" /\ Failed(word, s).stage # "completed"
  BY StoppedKind, StoppedStage, FailedKind, FailedStage
<1> QED BY <1>1, FinishSettles

\* The receipt of a settled run is whole.
LEMMA SettledReceipt ==
    ASSUME NEW r \in Runs, at'[r] = "settled", Whole(reached'[r])
    PROVE  ReceiptInv(r)'
  BY DEF ReceiptInv, Working

\* Building the contract leaves the receipt as its stage says.
LEMMA ContractReceipt ==
    ASSUME Shape, Receipts, ~ClockStepsBack, NEW r \in Runs, BuildContract(r)
    PROVE  ReceiptInv(r)'
<1>1. /\ stage'[r] = "contract-building" /\ Whole(reached[r]) /\ Whole({}) /\ Whole({"contract"})
      /\ at[r] = "running" /\ "contract-building" \in Stages \ {"completed"}
  BY DEF BuildContract, Enters, Shape, Receipts, ReceiptInv, Whole, Stages
<1>2. CASE StopsBefore(r)
  BY <1>1, <1>2, StopSettles, SettledReceipt
<1>3. ASSUME NEW q \in Questions(request[r].personal),
             Records(r, {"contract"}), Reads(r, {"contract"}, ContractAnswer(r, q))
      PROVE  ReceiptInv(r)'
  <2>1. reached'[r] = {"contract"}
    BY <1>3 DEF Records, Shape
  <2>2. at'[r] = "settled" \/ ContractAnswer(r, q)
    BY <1>1, <1>3, ReadSettles
  <2>3. ContractAnswer(r, q) => at'[r] = "settled" \/ Continues(r)
    <3>1. /\ Clarification(q, request[r].personal) # "completed"
          /\ "policy-rejected" # "completed"
      BY ClarificationKind
    <3> QED BY <1>1, <3>1, StageSettles DEF ContractAnswer
  <2>4. CASE Continues(r)
    BY <1>1, <2>1, <2>4 DEF Continues, ReceiptInv, Built
  <2> QED BY <1>1, <2>1, <2>2, <2>3, <2>4, SettledReceipt
<1>4. ASSUME UNCHANGED reached,
             \/ Reads(r, {}, Finish(r, Failed("contract-invalid", "contract-building"), {}))
             \/ Throws(r, {})
      PROVE  ReceiptInv(r)'
  <2>1. at'[r] = "settled"
    BY <1>1, <1>4, ReadSettles, StageSettles, ThrowSettles
  <2> QED BY <1>1, <1>4, <2>1, SettledReceipt
<1> QED BY <1>2, <1>3, <1>4 DEF BuildContract

\* So does building the context.
LEMMA ContextReceipt ==
    ASSUME Shape, Receipts, ~ClockStepsBack, NEW r \in Runs, BuildContext(r)
    PROVE  ReceiptInv(r)'
<1> DEFINE marks == reached[r] \cup {"context"}
<1>1. /\ stage'[r] = "context-building" /\ Whole(reached[r]) /\ Whole(marks)
      /\ at[r] = "running" /\ "contract" \in marks /\ "context" \in marks
      /\ "context-building" \in Stages \ {"completed"}
  BY DEF BuildContext, Enters, Shape, Receipts, ReceiptInv, Whole, Built, Working, Stages
<1>2. CASE StopsBefore(r)
  BY <1>1, <1>2, StopSettles, SettledReceipt
<1>3. ASSUME NEW pack \in Packages,
             Records(r, marks), Reads(r, marks, ContextAnswer(r, pack, marks))
      PROVE  ReceiptInv(r)'
  <2>1. reached'[r] = marks
    BY <1>3 DEF Records, Shape
  <2> HIDE DEF marks
  <2>2. at'[r] = "settled" \/ ContextAnswer(r, pack, marks)
    BY <1>1, <1>3, ReadSettles
  <2>3. ContextAnswer(r, pack, marks) => at'[r] = "settled" \/ Continues(r)
    BY <1>1, StageSettles DEF ContextAnswer
  <2>4. CASE Continues(r)
    BY <1>1, <2>1, <2>4 DEF Continues, ReceiptInv, Built
  <2> QED BY <1>1, <2>1, <2>2, <2>3, <2>4, SettledReceipt
<1>4. ASSUME UNCHANGED reached,
             \/ Reads(r, reached[r],
                      Finish(r, Failed("context-failed", "context-building"), reached[r]))
             \/ Throws(r, reached[r])
      PROVE  ReceiptInv(r)'
  <2>1. at'[r] = "settled"
    BY <1>1, <1>4, ReadSettles, StageSettles, ThrowSettles
  <2> QED BY <1>1, <1>4, <2>1, SettledReceipt
<1> QED BY <1>2, <1>3, <1>4 DEF BuildContext

\* So does asking for an impact analysis.
LEMMA ImpactReceipt ==
    ASSUME Shape, Receipts, ~ClockStepsBack, NEW r \in Runs, AnalyzeImpact(r)
    PROVE  ReceiptInv(r)'
<1> DEFINE marks == reached[r] \cup {"requested"} \cup
                    (IF request[r].personal = "none" THEN {} ELSE {"personal"})
<1>1. /\ stage'[r] = "impact-analyzing" /\ reached'[r] = marks
      /\ Whole(marks) /\ {"contract", "context", "requested"} \subseteq marks
      /\ request[r].personal = "none" \/ "personal" \in marks
      /\ UNCHANGED request
      /\ "impact-analyzing" \in Stages \ {"completed"}
  BY DEF AnalyzeImpact, Enters, Records, Shape, Receipts, ReceiptInv, Whole, Built, Working, Stages
<1>2. \/ Finish(r, Stopped("cancelled", "impact-analyzing"), marks)
      \/ Finish(r, Stopped("personalized-impact-unavailable", "impact-analyzing"), marks)
      \/ at' = [at EXCEPT ![r] = "analyzing"]
  BY DEF AnalyzeImpact
<1> HIDE DEF marks
<1>3. at'[r] = "settled" \/ at'[r] = "analyzing"
  BY <1>1, <1>2, StageSettles DEF Shape
<1>4. CASE at'[r] = "analyzing"
  BY <1>1, <1>4 DEF ReceiptInv, Built
<1> QED BY <1>1, <1>3, <1>4, SettledReceipt

\* So does the answer of the analysis.
LEMMA AnalyzedReceipt ==
    ASSUME RunsInv, Receipts, ~ClockStepsBack, NEW r \in Runs, ImpactAnalyzed(r)
    PROVE  ReceiptInv(r)'
<1>1. /\ Shape /\ at[r] = "analyzing" /\ stage[r] = "impact-analyzing" /\ UNCHANGED stage
      /\ Whole(reached[r]) /\ {"contract", "context", "requested"} \subseteq reached[r]
      /\ request[r].personal = "none" \/ "personal" \in reached[r]
      /\ "impact-analyzing" \in Stages \ {"completed"}
  BY DEF ImpactAnalyzed, RunsInv, RunInv, OnItsWay, Receipts, ReceiptInv, Built, Working, Stages
<1>2. ASSUME UNCHANGED reached,
             \/ \E kind : kind # "completed" /\ Finish(r, Stopped(kind, stage[r]), reached[r])
             \/ Finish(r, Failed("lineage-mismatch", stage[r]), reached[r])
             \/ FinishOnce(r, Failed("unexpected", stage[r]), reached[r])
      PROVE  ReceiptInv(r)'
  <2>1. at'[r] = "settled"
    BY <1>1, <1>2, StageSettles, OnceSettles, FailedKind, FailedStage
  <2> QED BY <1>1, <1>2, <2>1, SettledReceipt
<1>3. ASSUME "completed" \in Coordinated(r), Records(r, Analyzed(reached[r])),
             at' = [at EXCEPT ![r] = "running"]
      PROVE  ReceiptInv(r)'
  <2>1. reached'[r] = reached[r] \cup {"used", "analysis"} /\ at'[r] = "running"
    BY <1>1, <1>3 DEF Records, Analyzed, Shape
  <2>2. "personal" \in reached[r]
    BY <1>1, <1>3, CompletedAnalysis
  <2>3. Whole(reached'[r])
    BY <1>1, <2>1, <2>2 DEF Whole, PersonalMarks
  <2> QED BY <1>1, <2>1, <2>3 DEF ReceiptInv, Built
<1>4. \/ /\ UNCHANGED reached
         /\ \/ \E kind : kind # "completed" /\ Finish(r, Stopped(kind, stage[r]), reached[r])
            \/ Finish(r, Failed("lineage-mismatch", stage[r]), reached[r])
            \/ FinishOnce(r, Failed("unexpected", stage[r]), reached[r])
      \/ /\ "completed" \in Coordinated(r) /\ Records(r, Analyzed(reached[r]))
         /\ at' = [at EXCEPT ![r] = "running"]
  BY DEF ImpactAnalyzed
<1> QED BY <1>2, <1>3, <1>4

\* So does asking for a plan.
LEMMA GenerateReceipt ==
    ASSUME Shape, Receipts, ~ClockStepsBack, NEW r \in Runs, GeneratePlan(r)
    PROVE  ReceiptInv(r)'
<1>1. /\ stage'[r] = "plan-generating" /\ Whole(reached[r]) /\ UNCHANGED reached
      /\ {"contract", "context"} \subseteq reached[r]
  BY DEF GeneratePlan, StopsBefore, Enters, Shape, Receipts, ReceiptInv, Built, Working
<1>2. CASE StopsBefore(r) \/ Throws(r, reached[r])
  BY <1>1, <1>2, StopSettles, ThrowSettles, SettledReceipt
<1>3. CASE at' = [at EXCEPT ![r] = "generating"]
  <2>1. at'[r] = "generating"
    BY <1>3 DEF Shape
  <2> QED BY <1>1, <2>1 DEF ReceiptInv, Built
<1> QED BY <1>2, <1>3 DEF GeneratePlan

\* So does the answer of the generation.
LEMMA PlanReceipt ==
    ASSUME RunsInv, Receipts, ~ClockStepsBack, NEW r \in Runs, PlanGenerated(r)
    PROVE  ReceiptInv(r)'
<1> DEFINE result == generation[r].result
           marks == reached[r] \cup (IF result = "validated-plan" THEN {"plan"} ELSE {})
<1>1. /\ Shape /\ stage'[r] = "plan-generating" /\ stage[r] = "plan-generating"
      /\ reached'[r] = marks /\ Whole(marks) /\ {"contract", "context"} \subseteq marks
  <2>1. /\ Shape /\ at[r] = "generating" /\ stage[r] = "plan-generating" /\ UNCHANGED stage
        /\ Whole(reached[r]) /\ {"contract", "context"} \subseteq reached[r]
    BY DEF PlanGenerated, RunsInv, RunInv, OnItsWay, Receipts, ReceiptInv, Built, Working
  <2>2. reached'[r] = marks
    BY <2>1 DEF PlanGenerated, Records, Shape
  <2> QED BY <2>1, <2>2 DEF Whole
<1>2. \/ Finish(r, Stopped("cancelled", stage[r]), marks)
      \/ Finish(r, GenerationAnswer(result), marks)
      \/ at' = [at EXCEPT ![r] = "running"] /\ "plan" \in marks
  BY DEF PlanGenerated
<1>3. /\ GenerationAnswer(result).stage # "completed"
      /\ GenerationAnswer(result).kind # "completed"
      /\ Stopped("cancelled", stage[r]).stage # "completed"
      /\ Stopped("cancelled", stage[r]).kind # "completed"
  BY <1>1, StoppedStage, FailedStage, StoppedKind, GenerationKind DEF GenerationAnswer
<1> HIDE DEF marks, result
<1>4. CASE at' = [at EXCEPT ![r] = "running"] /\ "plan" \in marks
  <2>1. at'[r] = "running"
    BY <1>1, <1>4 DEF Shape
  <2> QED BY <1>1, <1>4, <2>1 DEF ReceiptInv, Built
<1>5. CASE \/ Finish(r, Stopped("cancelled", stage[r]), marks)
           \/ Finish(r, GenerationAnswer(result), marks)
  <2>1. at'[r] = "settled"
    BY <1>1, <1>3, <1>5, FinishSettles
  <2> QED BY <1>1, <2>1, SettledReceipt
<1> QED BY <1>2, <1>4, <1>5

\* So does compiling the script.
LEMMA ScriptReceipt ==
    ASSUME Shape, Receipts, ~ClockStepsBack, NEW r \in Runs, CompileScript(r)
    PROVE  ReceiptInv(r)'
<1> DEFINE marks == reached[r] \cup {"script"}
<1>1. /\ stage'[r] = "script-compiling" /\ Whole(reached[r]) /\ Whole(marks)
      /\ at[r] = "running" /\ {"contract", "context", "plan", "script"} \subseteq marks
      /\ "script-compiling" \in Stages \ {"completed"}
  BY DEF CompileScript, Enters, Shape, Receipts, ReceiptInv, Whole, Built, Working, Stages
<1>2. CASE StopsBefore(r)
  BY <1>1, <1>2, StopSettles, SettledReceipt
<1>3. ASSUME NEW valid \in BOOLEAN, NEW odd \in SUBSET {"script"}, Records(r, marks),
             Reads(r, marks,
                   IF ~valid THEN Finish(r, Failed("script-failed", "script-compiling"), marks)
                   ELSE IF ~OfThisRun(odd)
                   THEN Finish(r, Failed("lineage-mismatch", "script-compiling"), marks)
                   ELSE Continues(r))
      PROVE  ReceiptInv(r)'
  <2>1. reached'[r] = marks
    BY <1>3 DEF Records, Shape
  <2> HIDE DEF marks
  <2>2. \/ at'[r] = "settled"
        \/ Finish(r, Failed("script-failed", "script-compiling"), marks)
        \/ Finish(r, Failed("lineage-mismatch", "script-compiling"), marks)
        \/ Continues(r)
    BY <1>1, <1>3, ReadSettles
  <2>3. at'[r] = "settled" \/ Continues(r)
    BY <1>1, <2>2, StageSettles
  <2>4. CASE Continues(r)
    BY <1>1, <2>1, <2>4 DEF Continues, ReceiptInv, Built
  <2> QED BY <1>1, <2>1, <2>3, <2>4, SettledReceipt
<1>4. ASSUME UNCHANGED reached,
             \/ \E o \in {Failed("script-failed", "script-compiling"),
                          Stopped("insufficient-evidence", "script-compiling")} :
                   Reads(r, reached[r], Finish(r, o, reached[r]))
             \/ Throws(r, reached[r])
      PROVE  ReceiptInv(r)'
  <2>1. \/ at'[r] = "settled"
        \/ Finish(r, Failed("script-failed", "script-compiling"), reached[r])
        \/ Finish(r, Stopped("insufficient-evidence", "script-compiling"), reached[r])
    BY <1>1, <1>4, ReadSettles, ThrowSettles
  <2>2. at'[r] = "settled"
    BY <1>1, <2>1, StageSettles
  <2> QED BY <1>1, <1>4, <2>2, SettledReceipt
<1> QED BY <1>2, <1>3, <1>4 DEF CompileScript

\* So does creating the session.
LEMMA SessionReceipt ==
    ASSUME Shape, Receipts, ~ClockStepsBack, NEW r \in Runs, CreateSession(r)
    PROVE  ReceiptInv(r)'
<1>1. /\ Whole(reached[r]) /\ {"contract", "context", "plan", "script"} \subseteq reached[r]
      /\ DOMAIN stage = Runs /\ DOMAIN reached = Runs
  BY DEF CreateSession, Shape, Receipts, ReceiptInv, Built, Working
<1>2. CASE /\ stage' = [stage EXCEPT ![r] = "session-creating"]
           /\ StopsBefore(r) \/ (Throws(r, reached[r]) /\ UNCHANGED reached)
  <2>1. stage'[r] = "session-creating"
    BY <1>1, <1>2
  <2> QED BY <1>1, <1>2, <2>1, StopSettles, ThrowSettles, SettledReceipt
<1>3. ASSUME NEW valid \in BOOLEAN, NEW odd \in SUBSET {"session"},
             LET ends == ~cancelled'[r] /\ valid /\ OfThisRun(odd)
                 marks == reached[r] \cup (IF ends THEN {"session"} ELSE {})
                 o == IF cancelled'[r] THEN Stopped("cancelled", "session-creating")
                      ELSE IF ~valid THEN Failed("session-invalid", "session-creating")
                      ELSE IF ~OfThisRun(odd) THEN Failed("lineage-mismatch", "session-creating")
                      ELSE Completed IN
             /\ stage' = [stage EXCEPT ![r] = IF ends THEN "completed" ELSE "session-creating"]
             /\ Records(r, marks) /\ Finish(r, o, marks)
      PROVE  ReceiptInv(r)'
  <2> DEFINE ends == ~cancelled'[r] /\ valid /\ OfThisRun(odd)
             marks == reached[r] \cup (IF ends THEN {"session"} ELSE {})
             o == IF cancelled'[r] THEN Stopped("cancelled", "session-creating")
                  ELSE IF ~valid THEN Failed("session-invalid", "session-creating")
                  ELSE IF ~OfThisRun(odd) THEN Failed("lineage-mismatch", "session-creating")
                  ELSE Completed
  <2>1. /\ stage'[r] = (IF ends THEN "completed" ELSE "session-creating")
        /\ reached'[r] = marks /\ Finish(r, o, marks) /\ Whole(marks)
    BY <1>1, <1>3 DEF Records, Whole
  <2>2. CASE ends
    <3>1. o = Completed /\ Lineage \subseteq marks
      BY <1>1, <2>2 DEF Lineage
    <3> QED BY <2>1, <3>1, CompletedSettles, SettledReceipt
  <2>3. CASE ~ends
    <3>1. o.kind # "completed" /\ o.stage # "completed"
      BY <2>3, StoppedKind, StoppedStage, FailedKind, FailedStage
    <3>2. stage'[r] # "completed"
      BY <2>1, <2>3
    <3> HIDE DEF o, marks, ends
    <3> QED BY <2>1, <3>1, <3>2, FinishSettles, SettledReceipt
  <2> QED BY <2>2, <2>3
<1> QED BY <1>2, <1>3 DEF CreateSession

\* A run starts with an empty receipt.
LEMMA StartReceipt ==
    ASSUME RunsInv, Receipts, NEW r \in Runs, Start(r)
    PROVE  Receipts'
<1>1. /\ at[r] = "unstarted" /\ Shape /\ UNCHANGED <<stage, reached>>
      /\ \E k \in {"running", "settled"} : at' = [at EXCEPT ![r] = k]
      /\ \E personal \in PersonalContexts :
            request' = [request EXCEPT ![r].personal = personal]
  BY DEF Start, Unstarted, RunsInv
<1>2. stage[r] = "received" /\ reached[r] = {}
  BY <1>1 DEF RunsInv, RunInv, Fresh
<1>3. Same(r, at, at') /\ at'[r] \in {"running", "settled"} /\ Same(r, request, request')
  BY <1>1 DEF Same, Shape
<1>4. ReceiptInv(r)'
  BY <1>1, <1>2, <1>3 DEF ReceiptInv, Whole, Built
<1>5. ASSUME NEW s \in Runs \ {r} PROVE ReceiptInv(s)'
  BY <1>1, <1>3 DEF Receipts, ReceiptInv, Built, Same
<1> QED BY <1>4, <1>5 DEF Receipts

\* While the clock does not step back, every step leaves the receipts as they should be.
LEMMA StepReceipts ==
    ASSUME ~ClockStepsBack
    PROVE  RunsInv /\ Receipts /\ [Next]_vars => Receipts'
<1> SUFFICES ASSUME RunsInv, Receipts, [Next]_vars PROVE Receipts'
  OBVIOUS
<1>1. CASE UNCHANGED run
  BY <1>1 DEF Receipts, ReceiptInv, Built, run
<1>2. ASSUME NEW r \in Runs, Kept(r), ReceiptInv(r)' PROVE Receipts'
  <2>1. ASSUME NEW s \in Runs \ {r} PROVE ReceiptInv(s)'
    BY <1>2 DEF Receipts, ReceiptInv, Built, Kept, Works, Same
  <2> QED BY <1>2, <2>1 DEF Receipts
<1>3. ASSUME NEW r \in Runs, Work(r) PROVE Receipts'
  <2>1. CASE GenerationStep(r) /\ UNCHANGED <<run, page>>
    BY <1>1, <2>1
  <2>2. CASE Kept(r) /\ ReceiptInv(r)'
    BY <1>2, <2>2
  <2>3. \/ GenerationStep(r) /\ UNCHANGED <<run, page>>
        \/ Kept(r)
    BY <1>3, BuildContractKeeps, BuildContextKeeps, AnalyzeImpactKeeps, ImpactAnalyzedKeeps,
       GeneratePlanKeeps, PlanGeneratedKeeps, CompileScriptKeeps, CreateSessionKeeps DEF Work
  <2>4. \/ GenerationStep(r) /\ UNCHANGED <<run, page>>
        \/ ReceiptInv(r)'
    BY <1>3, ContractReceipt, ContextReceipt, ImpactReceipt, AnalyzedReceipt, GenerateReceipt,
       PlanReceipt, ScriptReceipt, SessionReceipt DEF Work, RunsInv
  <2> QED BY <2>1, <2>2, <2>3, <2>4
<1>4. ASSUME NEW r \in Runs, Cancel(r) PROVE Receipts'
  BY <1>1, <1>4 DEF Cancel
<1>5. CASE Unmount
  BY <1>1, <1>5 DEF Unmount
<1>6. CASE UNCHANGED vars
  BY <1>1, <1>6 DEF vars
<1> QED BY <1>3, <1>4, <1>5, <1>6, StartReceipt DEF Next

\* Where the clock is not set back no promise of a run is rejected: whatever a
\* run reached and however it ends, one of its two finishes builds a receipt
\* that satisfies its schema (briefing-run-service.ts:542).
THEOREM RunsAreAnsweredHolds ==
    ASSUME ~ClockStepsBack
    PROVE  Spec => []RunsAreAnswered
<1>1. Init => Receipts
  BY DEF Init, Receipts, ReceiptInv, Whole, Working
<1>2. RunsInv /\ Receipts /\ [Next]_vars => Receipts'
  BY StepReceipts
<1>3. Receipts => RunsAreAnswered
  BY DEF Receipts, ReceiptInv, RunsAreAnswered
<1> QED BY <1>1, <1>2, <1>3, RunsAgree, PTL DEF Spec

-----------------------------------------------------------------------------
(* What the stages make                                                    *)

\* What is known of a candidate.
Known(c) ==
    /\ c.id \in Nat /\ c.published \in Nat /\ c.revision \in Nat
    /\ c.documents \in Seq(Nat)
    /\ c.primary \in BOOLEAN
    /\ c.primary =>
          c.type = "source-document" /\ c.relation = "none" /\ c.key[1] \in {"url", "place"}
    /\ c.relation = "contradicts" =>
          c.type = "evidence-link" /\ ~c.primary /\ c.key[1] = "evidence-link"
    /\ c.type = "data-point" =>
          c.relation = "none" /\ ~c.primary /\ c.key[1] = "data-point"

\* A candidate of a record has the numbers of its record, and only a document
\* is primary, a link contradicting, a point quantitative.
LEMMA CandidatesAreKnown == \A r : RecordHas(r) => Known(CandidateOf(r))
<1> SUFFICES ASSUME NEW r, RecordHas(r) PROVE Known(CandidateOf(r))
  OBVIOUS
<1>1. r.record \in {"document", "claim", "link", "point", "entity", "statement", "place"}
  BY DEF RecordHas
<1>2. CASE r.record = "document"
  <2>1. CandidateOf(r) = FromDocument(r)
    BY <1>2 DEF CandidateOf
  <2> QED BY <1>2, <2>1 DEF Known, FromDocument, Blank, RecordHas
<1>3. CASE r.record = "claim"
  <2>1. CandidateOf(r) = FromClaim(r)
    BY <1>3 DEF CandidateOf
  <2> QED BY <1>3, <2>1 DEF Known, FromClaim, Blank, RecordHas
<1>4. CASE r.record = "link"
  <2>1. CandidateOf(r) = FromLink(r)
    BY <1>4 DEF CandidateOf
  <2> QED BY <1>4, <2>1 DEF Known, FromLink, Blank, RecordHas
<1>5. CASE r.record = "point"
  <2>1. CandidateOf(r) = FromPoint(r)
    BY <1>5 DEF CandidateOf
  <2> QED BY <1>5, <2>1 DEF Known, FromPoint, Blank, RecordHas
<1>6. CASE r.record = "entity"
  <2>1. CandidateOf(r) = FromEntity(r)
    BY <1>6 DEF CandidateOf
  <2> QED BY <1>6, <2>1 DEF Known, FromEntity, Blank, RecordHas
<1>7. CASE r.record = "statement"
  <2>1. CandidateOf(r) = FromStatement(r)
    BY <1>7 DEF CandidateOf
  <2> QED BY <1>7, <2>1 DEF Known, FromStatement, Blank, RecordHas
<1>8. CASE r.record = "place"
  <2>1. CandidateOf(r) = FromPlace(r)
    BY <1>8 DEF CandidateOf
  <2> QED BY <1>8, <2>1 DEF Known, FromPlace, FromDocument, Blank, RecordHas
<1> QED BY <1>1, <1>2, <1>3, <1>4, <1>5, <1>6, <1>7, <1>8

\* A score is a number whatever the words are.
LEMMA TotalIsNumber ==
    ASSUME NEW q, IsFiniteSet(q.words), NEW c PROVE Total(q, c) \in Int
<1>1. ASSUME NEW words PROVE Overlap(q.words, words) \in Int
  <2>1. CASE q.words = {}
    BY <2>1 DEF Overlap
  <2>2. CASE q.words # {}
    <3>1. Cardinality(q.words) \in Nat /\ Cardinality(q.words) # 0
      BY <2>2, FS_EmptySet, FS_CardinalityType
    <3>2. Cardinality(q.words \cap words) \in Nat
      <4>1. IsFiniteSet(q.words \cap words)
        BY FS_Subset
      <4> QED BY <4>1, FS_CardinalityType
    <3>3. PICK a, b : a = Cardinality(q.words \cap words) /\ b = Cardinality(q.words)
      OBVIOUS
    <3>4. (1000 * a) \div b \in Int
      BY <3>1, <3>2, <3>3
    <3> QED BY <2>2, <3>3, <3>4 DEF Overlap
  <2> QED BY <2>1, <2>2
<1>2. Lexical(q, c) \in Int
  <2>1. PICK a \in Int, b \in Int :
           a = Overlap(q.words, c.title) /\ b = Overlap(q.words, c.words)
    BY <1>1
  <2>2. Lexical(q, c) = LET sum == (IF c.quotes THEN 450000 ELSE 0) + 250 * a + 300 * b IN
                        (IF sum > 1000000 THEN 1000000 ELSE sum) \div 1000
    BY <2>1 DEF Lexical
  <2> QED BY <2>2
<1>3. Quality(c) \in Int
  <2>1. Quality(c) \in {100, 75, 50, 30}
    BY DEF Quality
  <2> QED BY <2>1
<1>4. PICK l \in Int, y \in Int : l = Lexical(q, c) /\ y = Quality(c)
  BY <1>2, <1>3
<1> QED BY <1>4 DEF Total

\* Induction over the natural numbers, for a set instead of a predicate.
LEMMA Induction ==
    ASSUME NEW S, 0 \in S, \A n \in Nat : n \in S => n + 1 \in S
    PROVE  \A n \in Nat : n \in S
<1> DEFINE R == {ss \in Nat \X Nat : ss[1] < ss[2]}
           I == Nat \ S
<1>1. IsWellFoundedOn(OpToRel(<, Nat), Nat)
  BY NatLessThanWellFounded
<1>2. IsWellFoundedOn(R, Nat)
  BY <1>1 DEF OpToRel
<1>3. \A x, y \in Nat : <<y, x>> \in R <=> y < x
  OBVIOUS
<1> HIDE DEF R
<1>4. SUFFICES ASSUME I # {} PROVE FALSE
  OBVIOUS
<1>5. PICK x \in I : \A y \in I : ~(<<y, x>> \in R)
  <2>1. I \subseteq Nat
    OBVIOUS
  <2> HIDE DEF I
  <2> QED BY <1>2, <1>4, <2>1, WFMin
<1>6. x \in Nat /\ x \notin S /\ x # 0
  OBVIOUS
<1>7. x - 1 \in Nat /\ x - 1 \in S /\ (x - 1) + 1 = x
  <2>1. x - 1 \in Nat /\ x - 1 < x /\ (x - 1) + 1 = x
    BY <1>6
  <2>2. x - 1 \notin I
    BY <1>3, <1>5, <1>6, <2>1
  <2> QED BY <2>1, <2>2
<1> QED BY <1>6, <1>7

\* The least of a set of numbers, where it is needed.
LEMMA LeastOf ==
    ASSUME NEW S \in SUBSET Nat, S # {}
    PROVE  \E n \in S : \A m \in S : n <= m
<1> DEFINE Free == {n \in Nat : \A m \in S : n <= m}
<1>1. 0 \in Free
  OBVIOUS
<1>2. SUFFICES ASSUME \A n \in S : n \notin Free PROVE FALSE
  OBVIOUS
<1>3. ASSUME NEW n \in Nat, n \in Free PROVE n + 1 \in Free
  <2>1. \A m \in S : n <= m /\ m # n
    BY <1>2, <1>3
  <2> QED BY <2>1
<1>4. \A n \in Nat : n \in Free
  <2> HIDE DEF Free
  <2> QED BY <1>1, <1>3, Induction
<1> QED BY <1>2, <1>4

\* The least number of a set is in it.
LEMMA MinIs ==
    ASSUME NEW S \in SUBSET Nat, S # {}
    PROVE  Min(S) \in S /\ \A m \in S : Min(S) <= m
BY LeastOf DEF Min

\* A candidate better than another by what comes first of what they differ in:
\* of two that differ one is better, and better is an order.
Merits == [1..7 -> Int]

\* Two merits that differ do so somewhere first.
LEMMA DifferFirst ==
    ASSUME NEW x \in Merits, NEW y \in Merits, x # y
    PROVE  \E n \in 1..7 : x[n] # y[n] /\ \A m \in 1..(n - 1) : x[m] = y[m]
<1> DEFINE S == {n \in 1..7 : x[n] # y[n]}
<1>1. S \in SUBSET Nat /\ S # {}
  BY DEF Merits
<1>2. PICK n \in S : \A m \in S : n <= m
  BY <1>1, LeastOf
<1>3. \A m \in 1..(n - 1) : m \in 1..7 /\ m \notin S
  BY <1>2
<1> QED BY <1>2, <1>3

\* Of two merits that differ one is the greater.
LEMMA GreaterIsTotal ==
    ASSUME NEW x \in Merits, NEW y \in Merits, x # y
    PROVE  Greater(x, y) \/ Greater(y, x)
<1>1. PICK n \in 1..7 : x[n] # y[n] /\ \A m \in 1..(n - 1) : x[m] = y[m]
  BY DifferFirst
<1>2. x[n] \in Int /\ y[n] \in Int /\ DOMAIN x = 1..7 /\ DOMAIN y = 1..7
  BY DEF Merits
<1>3. x[n] > y[n] \/ y[n] > x[n]
  BY <1>1, <1>2
<1> QED BY <1>1, <1>2, <1>3 DEF Greater

\* No merit is greater than itself.
LEMMA GreaterIsStrict == ASSUME NEW x \in Merits PROVE ~Greater(x, x)
BY DEF Merits, Greater

\* The order of merits is transitive.
LEMMA GreaterIsTransitive ==
    ASSUME NEW x \in Merits, NEW y \in Merits, NEW z \in Merits, Greater(x, y), Greater(y, z)
    PROVE  Greater(x, z)
<1>1. /\ DOMAIN x = 1..7 /\ DOMAIN y = 1..7
      /\ \A n \in 1..7 : x[n] \in Int /\ y[n] \in Int /\ z[n] \in Int
  BY DEF Merits
<1>2. PICK n \in 1..7 : x[n] > y[n] /\ \A m \in 1..(n - 1) : x[m] = y[m]
  BY <1>1 DEF Greater
<1>3. PICK k \in 1..7 : y[k] > z[k] /\ \A m \in 1..(k - 1) : y[m] = z[m]
  BY <1>1 DEF Greater
<1>4. CASE n < k
  <2>1. n \in 1..(k - 1) /\ \A m \in 1..(n - 1) : m \in 1..(k - 1)
    BY <1>4
  <2>2. x[n] > z[n] /\ \A m \in 1..(n - 1) : x[m] = z[m]
    BY <1>2, <1>3, <2>1
  <2> QED BY <1>1, <2>2 DEF Greater
<1>5. CASE k < n
  <2>1. k \in 1..(n - 1) /\ \A m \in 1..(k - 1) : m \in 1..(n - 1)
    BY <1>5
  <2>2. x[k] > z[k] /\ \A m \in 1..(k - 1) : x[m] = z[m]
    BY <1>2, <1>3, <2>1
  <2> QED BY <1>1, <2>2 DEF Greater
<1>6. CASE n = k
  <2>1. x[n] > z[n] /\ \A m \in 1..(n - 1) : x[m] = z[m]
    BY <1>1, <1>2, <1>3, <1>6
  <2> QED BY <1>1, <2>1 DEF Greater
<1> QED BY <1>4, <1>5, <1>6

Ahead(S, merit, k) == {j \in S : Greater(merit[j], merit[k])}
RanksOf(S, merit) == {Cardinality(Ahead(S, merit, k)) : k \in S}

\* In a finite set ordered like that, how many are ahead of one tells its place,
\* and every place is taken.
LEMMA PlacesAreTaken ==
    ASSUME NEW S, IsFiniteSet(S), NEW merit \in [S -> Merits],
           \A j, k \in S : j # k => merit[j] # merit[k]
    PROVE  /\ \A k \in S : Cardinality(Ahead(S, merit, k)) \in 0..(Cardinality(S) - 1)
           /\ \A j, k \in S :
                 Cardinality(Ahead(S, merit, j)) = Cardinality(Ahead(S, merit, k)) => j = k
           /\ RanksOf(S, merit) = 0..(Cardinality(S) - 1)
<1>1. \A k \in S : /\ Ahead(S, merit, k) \subseteq S /\ k \notin Ahead(S, merit, k)
                   /\ merit[k] \in Merits
  BY GreaterIsStrict DEF Ahead
<1>2. \A k \in S : IsFiniteSet(Ahead(S, merit, k)) /\ Cardinality(Ahead(S, merit, k)) \in Nat
  BY <1>1, FS_Subset, FS_CardinalityType
<1>3. Cardinality(S) \in Nat
  BY FS_CardinalityType
<1>4. \A k \in S : Cardinality(Ahead(S, merit, k)) \in 0..(Cardinality(S) - 1)
  <2> SUFFICES ASSUME NEW k \in S PROVE Cardinality(Ahead(S, merit, k)) \in 0..(Cardinality(S) - 1)
    OBVIOUS
  <2>1. /\ Cardinality(Ahead(S, merit, k)) <= Cardinality(S)
        /\ Cardinality(Ahead(S, merit, k)) # Cardinality(S)
    BY <1>1, FS_Subset
  <2>2. PICK a \in Nat, b \in Nat : a = Cardinality(Ahead(S, merit, k)) /\ b = Cardinality(S)
    BY <1>2, <1>3
  <2> QED BY <2>1, <2>2
<1>5. ASSUME NEW j \in S, NEW k \in S, j \in Ahead(S, merit, k)
      PROVE  Cardinality(Ahead(S, merit, j)) < Cardinality(Ahead(S, merit, k))
  <2>1. Ahead(S, merit, j) \subseteq Ahead(S, merit, k)
    BY <1>1, <1>5, GreaterIsTransitive DEF Ahead
  <2>2. Ahead(S, merit, j) # Ahead(S, merit, k)
    BY <1>1, <1>5 DEF Ahead
  <2>3. /\ Cardinality(Ahead(S, merit, j)) <= Cardinality(Ahead(S, merit, k))
        /\ Cardinality(Ahead(S, merit, j)) # Cardinality(Ahead(S, merit, k))
    BY <1>2, <2>1, <2>2, FS_Subset
  <2> QED BY <1>2, <2>3
<1>6. \A j, k \in S : Cardinality(Ahead(S, merit, j)) = Cardinality(Ahead(S, merit, k)) => j = k
  <2> SUFFICES ASSUME NEW j \in S, NEW k \in S,
                      Cardinality(Ahead(S, merit, j)) = Cardinality(Ahead(S, merit, k)),
                      j # k
               PROVE  FALSE
    OBVIOUS
  <2>1. j \in Ahead(S, merit, k) \/ k \in Ahead(S, merit, j)
    <3>1. Greater(merit[j], merit[k]) \/ Greater(merit[k], merit[j])
      BY GreaterIsTotal
    <3> QED BY <3>1 DEF Ahead
  <2>2. PICK a \in Nat : a = Cardinality(Ahead(S, merit, j)) /\ a = Cardinality(Ahead(S, merit, k))
    BY <1>2
  <2>3. Cardinality(Ahead(S, merit, j)) < Cardinality(Ahead(S, merit, k))
           \/ Cardinality(Ahead(S, merit, k)) < Cardinality(Ahead(S, merit, j))
    BY <1>5, <2>1
  <2>4. a < a
    BY <2>2, <2>3, Zenon
  <2> QED BY <2>4
<1>7. RanksOf(S, merit) = 0..(Cardinality(S) - 1)
  <2> DEFINE R == {Cardinality(Ahead(S, merit, k)) : k \in S}
             f == [k \in S |-> Cardinality(Ahead(S, merit, k))]
  <2>1. PICK N \in Nat : N = Cardinality(S)
    BY <1>3
  <2>2. f \in Bijection(S, R)
    <3>1. f \in Surjection(S, R)
      BY DEF Surjection
    <3>2. f \in Injection(S, R)
      BY <1>6 DEF Injection, IsInjective
    <3> QED BY <3>1, <3>2 DEF Bijection
  <2>3. IsFiniteSet(R) /\ Cardinality(R) = N
    BY <2>1, <2>2, FS_Bijection DEF ExistsBijection
  <2>4. R \subseteq 0..(N - 1)
    BY <1>4, <2>1
  <2>5. IsFiniteSet(0..(N - 1)) /\ Cardinality(0..(N - 1)) = N
    BY FS_Interval
  <2>6. R = 0..(N - 1)
    BY <2>3, <2>4, <2>5, FS_Subset
  <2> QED BY <2>1, <2>6 DEF RanksOf
<1> QED BY <1>4, <1>6, <1>7

\* A records there may be.
Collected(records) ==
    \E n \in Nat : DOMAIN records = 1..n /\ \A k \in 1..n : RecordHas(records[k])

RelevantOf(q, records) == {c \in Candidates(q, records) : Relevant(q, c)}

\* The ranking loses and repeats no place: it holds what is relevant.
LEMMA RankedHas ==
    ASSUME NEW q, IsFiniteSet(q.words), NEW records, Collected(records)
    PROVE  /\ Ranked(q, records) \in Seq(RelevantOf(q, records))
           /\ \A c \in RelevantOf(q, records) :
                 \E n \in DOMAIN Ranked(q, records) : Ranked(q, records)[n] = c
<1> DEFINE S == {k \in Places(q, records) : Relevant(q, CandidateOf(records[k]))}
           merit == [k \in S |-> Merit(q, records, k)]
           ahead == [k \in S |-> {j \in S : Greater(merit[j], merit[k])}]
<1>1. PICK m \in Nat : DOMAIN records = 1..m /\ \A k \in 1..m : RecordHas(records[k])
  BY DEF Collected
<1>2. S \subseteq 1..m /\ IsFiniteSet(S)
  <2>1. S \in SUBSET (1..m)
    BY <1>1 DEF Places
  <2>2. IsFiniteSet(1..m)
    BY FS_Interval
  <2> HIDE DEF S
  <2> QED BY <2>1, <2>2, FS_Subset
<1>3. \A k \in S : Merit(q, records, k) \in Merits /\ Merit(q, records, k)[7] = -k
  <2> SUFFICES ASSUME NEW k \in S
               PROVE  Merit(q, records, k) \in Merits /\ Merit(q, records, k)[7] = -k
    OBVIOUS
  <2>1. k \in 1..m
    BY <1>2
  <2>2. PICK c : c = CandidateOf(records[k])
    OBVIOUS
  <2>3. Known(c)
    BY <1>1, <2>1, <2>2, CandidatesAreKnown
  <2>4. PICK t \in Int, o \in Int, r \in Int :
           t = Total(q, c) /\ o = Origin(records[k]) /\ r = Rank(c.primary)
    <3>1. Origin(records[k]) \in Int
      BY DEF Origin
    <3>2. Rank(c.primary) \in Int
      BY DEF Rank
    <3> QED BY <3>1, <3>2, TotalIsNumber
  <2>5. Merit(q, records, k) = <<t, r, c.revision, c.published, -c.id, -o, -k>>
    BY <2>2, <2>4 DEF Merit
  <2>6. c.revision \in Int /\ c.published \in Int /\ -c.id \in Int /\ -o \in Int /\ -k \in Int
    BY <2>1, <2>3 DEF Known
  <2> HIDE DEF S
  <2> QED BY <2>5, <2>6 DEF Merits
<1>4. merit \in [S -> Merits] /\ \A j, k \in S : j # k => merit[j] # merit[k]
  <2>1. merit \in [S -> Merits]
    BY <1>3
  <2>2. \A k \in S : merit[k][7] = -k /\ k \in Int
    BY <1>2, <1>3
  <2> HIDE DEF S, merit
  <2>3. \A j, k \in S : j # k => -j # -k
    BY <2>2
  <2> QED BY <2>1, <2>2, <2>3
<1>5. PICK N \in Nat : N = Cardinality(S)
  BY <1>2, FS_CardinalityType
<1> DEFINE rank(k) == Cardinality(ahead[k])
           chosen == [n \in 1..N |-> CHOOSE k \in S : rank(k) = n - 1]
<1>6. Ranked(q, records) = [n \in 1..N |-> CandidateOf(records[chosen[n]])]
  BY <1>5 DEF Ranked
<1>7. /\ \A k \in S : rank(k) \in 0..(N - 1)
      /\ \A j, k \in S : rank(j) = rank(k) => j = k
      /\ \A n \in 0..(N - 1) : \E k \in S : rank(k) = n
  <2> HIDE DEF S, merit
  <2>1. \A k \in S : ahead[k] = Ahead(S, merit, k)
    BY DEF Ahead
  <2> HIDE DEF ahead
  <2>2. \A k \in S : Cardinality(Ahead(S, merit, k)) \in 0..(N - 1)
    BY <1>2, <1>4, <1>5, PlacesAreTaken
  <2>3. \A j, k \in S : Cardinality(Ahead(S, merit, j)) = Cardinality(Ahead(S, merit, k)) => j = k
    BY <1>2, <1>4, PlacesAreTaken
  <2>4. \A n \in 0..(N - 1) : \E k \in S : Cardinality(Ahead(S, merit, k)) = n
    <3>1. RanksOf(S, merit) = 0..(N - 1)
      BY <1>2, <1>4, <1>5, PlacesAreTaken
    <3> QED BY <3>1 DEF RanksOf
  <2> QED BY <2>1, <2>2, <2>3, <2>4
<1> HIDE DEF rank
<1>8. \A n \in 1..N : chosen[n] \in S
  <2> SUFFICES ASSUME NEW n \in 1..N PROVE chosen[n] \in S
    OBVIOUS
  <2>1. n - 1 \in 0..(N - 1)
    OBVIOUS
  <2>2. \E k \in S : rank(k) = n - 1
    BY <1>7, <2>1
  <2> HIDE DEF S
  <2> QED BY <2>2
<1>9. \A k \in S : \E n \in 1..N : chosen[n] = k
  <2> SUFFICES ASSUME NEW k \in S PROVE \E n \in 1..N : chosen[n] = k
    OBVIOUS
  <2>1. PICK p \in 0..(N - 1) : p = rank(k)
    BY <1>7
  <2>2. p + 1 \in 1..N /\ (p + 1) - 1 = p
    OBVIOUS
  <2>3. chosen[p + 1] = CHOOSE j \in S : rank(j) = p
    BY <2>2
  <2>4. chosen[p + 1] \in S /\ rank(chosen[p + 1]) = p
    <3> HIDE DEF S, chosen
    <3> QED BY <2>1, <2>3
  <2> HIDE DEF S, chosen
  <2> QED BY <1>7, <2>1, <2>2, <2>4
<1>10. \A k \in S : CandidateOf(records[k]) \in RelevantOf(q, records)
  BY DEF RelevantOf, Candidates
<1>11. \A c \in RelevantOf(q, records) : \E k \in S : c = CandidateOf(records[k])
  BY DEF RelevantOf, Candidates
<1> HIDE DEF S, chosen
<1>12. PICK ranked : ranked = [n \in 1..N |-> CandidateOf(records[chosen[n]])]
  OBVIOUS
<1>13. /\ DOMAIN ranked = 1..N /\ \A n \in 1..N : ranked[n] \in RelevantOf(q, records)
       /\ \A c \in RelevantOf(q, records) : \E n \in 1..N : ranked[n] = c
  BY <1>8, <1>9, <1>10, <1>11, <1>12
<1>14. ranked \in Seq(RelevantOf(q, records))
  BY <1>12, <1>13
<1> QED BY <1>6, <1>12, <1>13, <1>14

\* What grows by the elements of a sequence at the places F.
Grows(f, s, F) ==
    \A n \in 0..Len(s) :
        f[n] = IF n = 0 THEN <<>>
               ELSE IF n \in F THEN Append(f[n - 1], s[n]) ELSE f[n - 1]

\* It holds what was taken so far, and never loses it.
LEMMA GrowthHolds ==
    ASSUME NEW S, NEW s \in Seq(S), NEW F, NEW f, Grows(f, s, F)
    PROVE  \A n \in 0..Len(s) :
              /\ f[n] \in Seq(S) /\ Len(f[n]) <= n
              /\ \A i \in 1..Len(f[n]) : \E k \in 1..n : f[n][i] = s[k]
<1> DEFINE Good == {n \in Nat : n <= Len(s) =>
                      /\ f[n] \in Seq(S) /\ Len(f[n]) <= n
                      /\ \A i \in 1..Len(f[n]) : \E k \in 1..n : f[n][i] = s[k]}
<1>1. Len(s) \in Nat /\ \A n \in 1..Len(s) : s[n] \in S
  OBVIOUS
<1>2. 0 \in Good
  <2>1. f[0] = <<>>
    BY <1>1 DEF Grows
  <2>2. <<>> \in Seq(S) /\ Len(<<>>) = 0
    OBVIOUS
  <2>3. Len(f[0]) = 0 /\ f[0] \in Seq(S)
    BY <2>1, <2>2
  <2>4. \A i \in 1..Len(f[0]) : FALSE
    BY <2>3
  <2> QED BY <2>3, <2>4
<1>3. ASSUME NEW n \in Nat, n \in Good PROVE n + 1 \in Good
  <2> SUFFICES ASSUME n + 1 <= Len(s)
               PROVE  /\ f[n + 1] \in Seq(S) /\ Len(f[n + 1]) <= n + 1
                      /\ \A i \in 1..Len(f[n + 1]) : \E k \in 1..(n + 1) : f[n + 1][i] = s[k]
    OBVIOUS
  <2>1. n + 1 \in 0..Len(s) /\ n + 1 # 0 /\ (n + 1) - 1 = n /\ n + 1 \in 1..Len(s)
    BY <1>1
  <2>2. PICK q : q = f[n]
    OBVIOUS
  <2>3. /\ q \in Seq(S) /\ Len(q) <= n /\ Len(q) \in Nat
        /\ \A i \in 1..Len(q) : \E k \in 1..n : q[i] = s[k]
    BY <1>1, <1>3, <2>2
  <2>4. f[n + 1] = IF n + 1 \in F THEN Append(q, s[n + 1]) ELSE q
    BY <2>1, <2>2 DEF Grows
  <2>5. \A i \in 1..Len(q) : \E k \in 1..(n + 1) : q[i] = s[k]
    <3>1. \A k \in 1..n : k \in 1..(n + 1)
      OBVIOUS
    <3> QED BY <2>3, <3>1
  <2>6. CASE n + 1 \in F
    <3>1. PICK p : p = Append(q, s[n + 1])
      OBVIOUS
    <3>2. /\ p \in Seq(S) /\ Len(p) = Len(q) + 1 /\ p[Len(q) + 1] = s[n + 1]
          /\ \A i \in 1..Len(q) : p[i] = q[i]
      BY <1>1, <2>1, <2>3, <3>1
    <3>3. \A i \in 1..Len(p) : \E k \in 1..(n + 1) : p[i] = s[k]
      <4> SUFFICES ASSUME NEW i \in 1..Len(p) PROVE \E k \in 1..(n + 1) : p[i] = s[k]
        OBVIOUS
      <4>1. i \in 1..Len(q) \/ i = Len(q) + 1
        BY <2>3, <3>2
      <4>2. n + 1 \in 1..(n + 1)
        OBVIOUS
      <4> QED BY <2>5, <3>2, <4>1, <4>2
    <3> QED BY <2>3, <2>4, <2>6, <3>1, <3>2, <3>3
  <2>7. CASE n + 1 \notin F
    BY <2>3, <2>4, <2>5, <2>7
  <2> QED BY <2>6, <2>7
<1> HIDE DEF Good
<1>4. \A n \in Nat : n \in Good
  BY <1>2, <1>3, Induction
<1>5. ASSUME NEW n \in 0..Len(s)
      PROVE  /\ f[n] \in Seq(S) /\ Len(f[n]) <= n
             /\ \A i \in 1..Len(f[n]) : \E k \in 1..n : f[n][i] = s[k]
  <2>1. n \in Nat /\ n <= Len(s)
    BY <1>1
  <2>2. n \in Good
    BY <1>4, <2>1
  <2> QED BY <2>1, <2>2 DEF Good
<1> QED BY <1>5

\* What it holds is what it held, and at most one more.
LEMMA GrowthKeeps ==
    ASSUME NEW S, NEW s \in Seq(S), NEW F, NEW f, Grows(f, s, F), NEW m \in 0..Len(s)
    PROVE  /\ Len(f[m]) <= Len(f[Len(s)])
           /\ \A i \in 1..Len(f[m]) : f[Len(s)][i] = f[m][i]
<1> DEFINE Good == {n \in Nat : m + n <= Len(s) =>
                      /\ Len(f[m]) <= Len(f[m + n])
                      /\ \A i \in 1..Len(f[m]) : f[m + n][i] = f[m][i]}
<1>1. Len(s) \in Nat /\ \A n \in 1..Len(s) : s[n] \in S
  OBVIOUS
<1>2. \A n \in 0..Len(s) : f[n] \in Seq(S) /\ Len(f[n]) \in Nat
  BY GrowthHolds
<1>3. 0 \in Good
  <2>1. m + 0 = m
    BY <1>1
  <2> QED BY <1>2, <2>1
<1>4. ASSUME NEW n \in Nat, n \in Good PROVE n + 1 \in Good
  <2> SUFFICES ASSUME m + (n + 1) <= Len(s)
               PROVE  /\ Len(f[m]) <= Len(f[m + (n + 1)])
                      /\ \A i \in 1..Len(f[m]) : f[m + (n + 1)][i] = f[m][i]
    OBVIOUS
  <2>1. PICK k \in 1..Len(s) : k = m + (n + 1) /\ k - 1 = m + n
    BY <1>1
  <2>2. k \in 0..Len(s) /\ k # 0 /\ k - 1 \in 0..Len(s)
    BY <1>1
  <2>3. PICK p, q, r : p = f[m] /\ q = f[k - 1] /\ r = f[k]
    OBVIOUS
  <2>4. r = IF k \in F THEN Append(q, s[k]) ELSE q
    BY <2>2, <2>3 DEF Grows
  <2>5. p \in Seq(S) /\ q \in Seq(S) /\ Len(p) \in Nat /\ Len(q) \in Nat /\ s[k] \in S
    BY <1>1, <1>2, <2>2, <2>3
  <2>6. Len(p) <= Len(q) /\ \A i \in 1..Len(p) : q[i] = p[i]
    BY <1>1, <1>4, <2>1, <2>3
  <2>7. Len(p) <= Len(r) /\ \A i \in 1..Len(p) : r[i] = p[i]
    <3>1. CASE k \in F
      <4>1. Len(r) = Len(q) + 1 /\ \A i \in 1..Len(q) : r[i] = q[i]
        BY <2>4, <2>5, <3>1
      <4>2. \A i \in 1..Len(p) : i \in 1..Len(q)
        BY <2>5, <2>6
      <4> QED BY <2>5, <2>6, <4>1, <4>2
    <3>2. CASE k \notin F
      BY <2>4, <2>6, <3>2
    <3> QED BY <3>1, <3>2
  <2> QED BY <2>1, <2>3, <2>7
<1> HIDE DEF Good
<1>5. PICK n \in Nat : m + n = Len(s)
  <2>1. Len(s) - m \in Nat /\ m + (Len(s) - m) = Len(s)
    BY <1>1
  <2> QED BY <2>1
<1>6. n \in Good
  BY <1>3, <1>4, Induction
<1> QED BY <1>1, <1>5, <1>6 DEF Good

\* An element that is taken has its place after some of those before it.
LEMMA GrowthTakes ==
    ASSUME NEW S, NEW s \in Seq(S), NEW F, NEW f, Grows(f, s, F),
           NEW k \in 1..Len(s), k \in F
    PROVE  \E p \in 1..k :
              /\ p <= Len(f[Len(s)]) /\ p = Len(f[k - 1]) + 1 /\ f[Len(s)][p] = s[k]
              /\ \A i \in 1..(p - 1) : \E j \in 1..(k - 1) : f[Len(s)][i] = s[j]
<1>1. PICK last : last = f[Len(s)]
  OBVIOUS
<1>2. PICK q, r : q = f[k - 1] /\ r = f[k]
  OBVIOUS
<1>3. Len(s) \in Nat /\ k \in 0..Len(s) /\ k - 1 \in 0..Len(s) /\ k # 0 /\ s[k] \in S
  OBVIOUS
<1>4. r = Append(q, s[k])
  BY <1>2, <1>3 DEF Grows
<1>5. /\ q \in Seq(S) /\ Len(q) <= k - 1 /\ Len(q) \in Nat
      /\ \A i \in 1..Len(q) : \E j \in 1..(k - 1) : q[i] = s[j]
  BY <1>2, <1>3, GrowthHolds
<1>6. Len(r) = Len(q) + 1 /\ r[Len(q) + 1] = s[k]
  BY <1>3, <1>4, <1>5
<1>7. /\ Len(r) <= Len(last) /\ \A i \in 1..Len(r) : last[i] = r[i]
      /\ Len(q) <= Len(last) /\ \A i \in 1..Len(q) : last[i] = q[i]
  BY <1>1, <1>2, <1>3, GrowthKeeps
<1>8. PICK p \in 1..k : p = Len(q) + 1
  BY <1>5
<1>9. p <= Len(last) /\ last[p] = s[k]
  BY <1>5, <1>6, <1>7, <1>8
<1>10. \A i \in 1..(p - 1) : \E j \in 1..(k - 1) : last[i] = s[j]
  <2>1. \A i \in 1..(p - 1) : i \in 1..Len(q)
    BY <1>5, <1>8
  <2> QED BY <1>5, <1>7, <2>1
<1> QED BY <1>1, <1>2, <1>8, <1>9, <1>10

\* The recursion of Taken defines a function, for what is selected.
AdmitsBy(f, s, D) ==
    f = [n \in D |->
           IF n = 0 THEN <<>>
           ELSE IF Admits(f[n - 1], s[n]) THEN Append(f[n - 1], s[n]) ELSE f[n - 1]]

\* The admission of a sequence is defined, for any prefix of it.
LEMMA AdmitsExists == ASSUME NEW s PROVE \A n \in Nat : \E f : AdmitsBy(f, s, 0..n)
<1> DEFINE S == {n \in Nat : \E f : AdmitsBy(f, s, 0..n)}
<1>1. 0 \in S
  <2>1. AdmitsBy([n \in 0..0 |-> <<>>], s, 0..0)
    BY DEF AdmitsBy
  <2> QED BY <2>1
<1>2. ASSUME NEW n \in Nat, n \in S PROVE n + 1 \in S
  <2>1. PICK g : AdmitsBy(g, s, 0..n)
    BY <1>2
  <2> DEFINE last == IF Admits(g[n], s[n + 1]) THEN Append(g[n], s[n + 1]) ELSE g[n]
             f == [i \in 0..(n + 1) |-> IF i = n + 1 THEN last ELSE g[i]]
  <2> HIDE DEF last
  <2>2. f = [i \in 0..(n + 1) |-> f[i]] /\ f[n + 1] = last /\ \A i \in 0..n : f[i] = g[i]
    OBVIOUS
  <2> HIDE DEF f
  <2>3. \A i \in 0..(n + 1) :
           f[i] = IF i = 0 THEN <<>>
                  ELSE IF Admits(f[i - 1], s[i]) THEN Append(f[i - 1], s[i]) ELSE f[i - 1]
    <3> SUFFICES ASSUME NEW i \in 0..(n + 1)
                 PROVE  f[i] = IF i = 0 THEN <<>>
                               ELSE IF Admits(f[i - 1], s[i]) THEN Append(f[i - 1], s[i])
                               ELSE f[i - 1]
      OBVIOUS
    <3>1. CASE i = n + 1
      <4>1. i # 0 /\ i - 1 = n /\ n \in 0..n
        BY <3>1
      <4> QED BY <2>2, <3>1, <4>1 DEF last
    <3>2. CASE i \in 0..n
      <4>1. g[i] = IF i = 0 THEN <<>>
                   ELSE IF Admits(g[i - 1], s[i]) THEN Append(g[i - 1], s[i]) ELSE g[i - 1]
        BY <2>1, <3>2 DEF AdmitsBy
      <4>2. i # 0 => i - 1 \in 0..n
        BY <3>2
      <4> QED BY <2>2, <3>2, <4>1, <4>2
    <3> QED BY <3>1, <3>2
  <2>4. AdmitsBy(f, s, 0..(n + 1))
    BY <2>2, <2>3 DEF AdmitsBy
  <2> QED BY <2>4
<1> HIDE DEF S
<1>3. \A n \in Nat : n \in S
  BY <1>1, <1>2, Induction
<1> QED BY <1>3 DEF S

\* What is admitted grows by what the limits admit.
LEMMA AdmitsGrows ==
    ASSUME NEW S, NEW s \in Seq(S)
    PROVE  \E f, F :
              /\ Grows(f, s, F) /\ Taken(s, Admits) = f[Len(s)]
              /\ \A n \in 1..Len(s) : n \in F <=> Admits(f[n - 1], s[n])
<1>1. PICK f : f = CHOOSE g : AdmitsBy(g, s, 0..Len(s))
  OBVIOUS
<1>2. Taken(s, Admits) = f[Len(s)]
  BY <1>1 DEF Taken, AdmitsBy
<1>3. Len(s) \in Nat
  OBVIOUS
<1>4. AdmitsBy(f, s, 0..Len(s))
  BY <1>1, <1>3, AdmitsExists
<1> DEFINE F == {n \in 1..Len(s) : Admits(f[n - 1], s[n])}
<1>5. \A n \in 0..Len(s) :
         f[n] = IF n = 0 THEN <<>>
                ELSE IF Admits(f[n - 1], s[n]) THEN Append(f[n - 1], s[n]) ELSE f[n - 1]
  BY <1>4 DEF AdmitsBy
<1>6. \A n \in 1..Len(s) : n \in F <=> Admits(f[n - 1], s[n])
  OBVIOUS
<1> HIDE DEF F
<1>7. Grows(f, s, F)
  <2>1. \A n \in 0..Len(s) : n # 0 => n \in 1..Len(s)
    BY <1>3
  <2> QED BY <1>5, <1>6, <2>1 DEF Grows
<1> QED BY <1>2, <1>6, <1>7

\* The recursion of Taken defines a function, for what is excerpted.
ExcerptedBy(f, s, D) ==
    f = [n \in D |->
           IF n = 0 THEN <<>>
           ELSE IF Excerpted(f[n - 1], s[n]) THEN Append(f[n - 1], s[n]) ELSE f[n - 1]]

\* So is what is excerpted.
LEMMA ExcerptedExists == ASSUME NEW s PROVE \A n \in Nat : \E f : ExcerptedBy(f, s, 0..n)
<1> DEFINE S == {n \in Nat : \E f : ExcerptedBy(f, s, 0..n)}
<1>1. 0 \in S
  <2>1. ExcerptedBy([n \in 0..0 |-> <<>>], s, 0..0)
    BY DEF ExcerptedBy
  <2> QED BY <2>1
<1>2. ASSUME NEW n \in Nat, n \in S PROVE n + 1 \in S
  <2>1. PICK g : ExcerptedBy(g, s, 0..n)
    BY <1>2
  <2> DEFINE last == IF Excerpted(g[n], s[n + 1]) THEN Append(g[n], s[n + 1]) ELSE g[n]
             f == [i \in 0..(n + 1) |-> IF i = n + 1 THEN last ELSE g[i]]
  <2> HIDE DEF last
  <2>2. f = [i \in 0..(n + 1) |-> f[i]] /\ f[n + 1] = last /\ \A i \in 0..n : f[i] = g[i]
    OBVIOUS
  <2> HIDE DEF f
  <2>3. \A i \in 0..(n + 1) :
           f[i] = IF i = 0 THEN <<>>
                  ELSE IF Excerpted(f[i - 1], s[i]) THEN Append(f[i - 1], s[i]) ELSE f[i - 1]
    <3> SUFFICES ASSUME NEW i \in 0..(n + 1)
                 PROVE  f[i] = IF i = 0 THEN <<>>
                               ELSE IF Excerpted(f[i - 1], s[i]) THEN Append(f[i - 1], s[i])
                               ELSE f[i - 1]
      OBVIOUS
    <3>1. CASE i = n + 1
      <4>1. i # 0 /\ i - 1 = n /\ n \in 0..n
        BY <3>1
      <4> QED BY <2>2, <3>1, <4>1 DEF last
    <3>2. CASE i \in 0..n
      <4>1. g[i] = IF i = 0 THEN <<>>
                   ELSE IF Excerpted(g[i - 1], s[i]) THEN Append(g[i - 1], s[i]) ELSE g[i - 1]
        BY <2>1, <3>2 DEF ExcerptedBy
      <4>2. i # 0 => i - 1 \in 0..n
        BY <3>2
      <4> QED BY <2>2, <3>2, <4>1, <4>2
    <3> QED BY <3>1, <3>2
  <2>4. ExcerptedBy(f, s, 0..(n + 1))
    BY <2>2, <2>3 DEF ExcerptedBy
  <2> QED BY <2>4
<1> HIDE DEF S
<1>3. \A n \in Nat : n \in S
  BY <1>1, <1>2, Induction
<1> QED BY <1>3 DEF S

\* What is excerpted grows by what has a text while there is room.
LEMMA ExcerptedGrows ==
    ASSUME NEW S, NEW s \in Seq(S)
    PROVE  \E f, F :
              /\ Grows(f, s, F) /\ Taken(s, Excerpted) = f[Len(s)]
              /\ \A n \in 1..Len(s) : n \in F <=> Excerpted(f[n - 1], s[n])
<1>1. PICK f : f = CHOOSE g : ExcerptedBy(g, s, 0..Len(s))
  OBVIOUS
<1>2. Taken(s, Excerpted) = f[Len(s)]
  BY <1>1 DEF Taken, ExcerptedBy
<1>3. Len(s) \in Nat
  OBVIOUS
<1>4. ExcerptedBy(f, s, 0..Len(s))
  BY <1>1, <1>3, ExcerptedExists
<1> DEFINE F == {n \in 1..Len(s) : Excerpted(f[n - 1], s[n])}
<1>5. \A n \in 0..Len(s) :
         f[n] = IF n = 0 THEN <<>>
                ELSE IF Excerpted(f[n - 1], s[n]) THEN Append(f[n - 1], s[n]) ELSE f[n - 1]
  BY <1>4 DEF ExcerptedBy
<1>6. \A n \in 1..Len(s) : n \in F <=> Excerpted(f[n - 1], s[n])
  OBVIOUS
<1> HIDE DEF F
<1>7. Grows(f, s, F)
  <2>1. \A n \in 0..Len(s) : n # 0 => n \in 1..Len(s)
    BY <1>3
  <2> QED BY <1>5, <1>6, <2>1 DEF Grows
<1> QED BY <1>2, <1>6, <1>7

\* Of a short sequence few elements have anything in common.
LEMMA FewShare ==
    ASSUME NEW S, NEW s \in Seq(S), NEW n \in Nat, Len(s) <= n, NEW T \in SUBSET (DOMAIN s)
    PROVE  Cardinality(T) \in Nat /\ Cardinality(T) <= n
<1>1. PICK m \in Nat : m = Len(s) /\ DOMAIN s = 1..m
  OBVIOUS
<1>2. IsFiniteSet(1..m) /\ Cardinality(1..m) = m
  <2>1. 1 \in Int /\ m \in Int
    OBVIOUS
  <2>2. IsFiniteSet(1..m) /\ Cardinality(1..m) = IF 1 > m THEN 0 ELSE m - 1 + 1
    BY <2>1, FS_Interval
  <2>3. (IF 1 > m THEN 0 ELSE m - 1 + 1) = m
    OBVIOUS
  <2> QED BY <2>2, <2>3
<1>3. T \in SUBSET (1..m)
  BY <1>1
<1>4. IsFiniteSet(T) /\ Cardinality(T) <= m
  BY <1>2, <1>3, FS_Subset
<1>5. Cardinality(T) \in Nat
  BY <1>4, FS_CardinalityType
<1> QED BY <1>1, <1>4, <1>5

\* The quotas leave room for each of the first three candidates, when no two of
\* them are one piece of evidence: with a text it is an item of the package.
LEMMA EarlyIsHeld ==
    ASSUME NEW C, NEW s \in Seq(C), NEW k \in 1..Len(s), k <= 3,
           \A j \in 1..(k - 1) : s[j].key # s[k].key, s[k].words # {}
    PROVE  \E i \in DOMAIN ItemsOf(Taken(s, Admits)) : ItemsOf(Taken(s, Admits))[i] = s[k]
<1>1. PICK x : x = s[k]
  OBVIOUS
<1>2. /\ MaxPerSource \in Nat /\ MaxPerSource >= 3 /\ MaxPerSection \in Nat /\ MaxPerSection >= 3
      /\ MaxItems \in Nat /\ MaxItems >= 3 /\ MaxExcerpts \in Nat /\ MaxExcerpts >= 3
  BY ContextAssumption
<1>3. Len(s) \in Nat /\ k - 1 \in 0..Len(s) /\ k - 1 <= 2
  OBVIOUS
<1>4. PICK f, F : /\ Grows(f, s, F) /\ Taken(s, Admits) = f[Len(s)]
                  /\ \A n \in 1..Len(s) : n \in F <=> Admits(f[n - 1], s[n])
  BY AdmitsGrows
<1>5. PICK selected : selected = f[Len(s)]
  OBVIOUS
<1>6. PICK before : before = f[k - 1]
  OBVIOUS
<1>7. k \in F
  <2>1. /\ before \in Seq(C) /\ Len(before) <= k - 1 /\ Len(before) \in Nat
        /\ \A i \in 1..Len(before) : \E j \in 1..(k - 1) : before[i] = s[j]
    BY <1>3, <1>4, <1>6, GrowthHolds
  <2>2. Len(before) < MaxItems
    BY <1>2, <1>3, <2>1
  <2>3. DOMAIN before = 1..Len(before)
    BY <2>1
  <2>4. \A i \in DOMAIN before : before[i].key # x.key
    BY <1>1, <2>1, <2>3
  <2>5. \A T \in SUBSET (DOMAIN before) : Cardinality(T) < MaxPerSource
    <3> SUFFICES ASSUME NEW T \in SUBSET (DOMAIN before) PROVE Cardinality(T) < MaxPerSource
      OBVIOUS
    <3>1. Len(before) <= 2
      BY <1>3, <2>1
    <3>2. Cardinality(T) \in Nat /\ Cardinality(T) <= 2
      BY <2>1, <3>1, FewShare
    <3> QED BY <1>2, <3>2
  <2>6. Admits(before, x)
    <3>1. /\ {i \in DOMAIN before : before[i].source = x.source} \in SUBSET (DOMAIN before)
          /\ {i \in DOMAIN before : DocumentOf(before[i]) = DocumentOf(x)}
                \in SUBSET (DOMAIN before)
      OBVIOUS
    <3> QED BY <2>2, <2>4, <2>5, <3>1 DEF Admits
  <2> QED BY <1>1, <1>4, <1>6, <2>6
<1>8. PICK p \in 1..k : p <= Len(selected) /\ selected[p] = x
  BY <1>1, <1>4, <1>5, <1>7, GrowthTakes
<1>9. selected \in Seq(C)
  <2>1. Len(s) \in 0..Len(s)
    BY <1>3
  <2> QED BY <1>4, <1>5, <2>1, GrowthHolds
<1>10. PICK g, G : /\ Grows(g, selected, G) /\ Taken(selected, Excerpted) = g[Len(selected)]
                   /\ \A n \in 1..Len(selected) : n \in G <=> Excerpted(g[n - 1], selected[n])
  BY <1>9, ExcerptedGrows
<1>11. PICK last, items : last = g[Len(selected)] /\ items = g[p - 1]
  OBVIOUS
<1>12. Len(selected) \in Nat /\ p \in 1..Len(selected) /\ p - 1 \in 0..Len(selected) /\ p - 1 <= 2
  BY <1>3, <1>8, <1>9
<1>13. p \in G
  <2>1. items \in Seq(C) /\ Len(items) <= 2 /\ Len(items) \in Nat
    <3>1. items \in Seq(C) /\ Len(items) <= p - 1
      BY <1>9, <1>10, <1>11, <1>12, GrowthHolds
    <3> QED BY <1>12, <3>1
  <2>2. Len(items) < MaxExcerpts
    BY <1>2, <2>1
  <2>3. Cardinality({i \in DOMAIN items : SectionOf(items[i]) = SectionOf(x)}) < MaxPerSection
    <3>1. PICK T \in SUBSET (DOMAIN items) :
             T = {i \in DOMAIN items : SectionOf(items[i]) = SectionOf(x)}
      OBVIOUS
    <3>2. Cardinality(T) \in Nat /\ Cardinality(T) <= 2
      BY <2>1, FewShare
    <3>3. Cardinality(T) < MaxPerSection
      BY <1>2, <3>2
    <3> QED BY <3>1, <3>3
  <2>4. Excerpted(items, x)
    BY <1>1, <2>2, <2>3 DEF Excerpted
  <2> QED BY <1>8, <1>10, <1>11, <1>12, <2>4
<1>14. \E i \in Nat : 1 <= i /\ i <= Len(last) /\ last[i] = x
  <2>1. \E i \in 1..p : i <= Len(g[Len(selected)]) /\ g[Len(selected)][i] = selected[p]
    BY <1>9, <1>10, <1>12, <1>13, GrowthTakes
  <2>2. PICK i \in 1..p : i <= Len(g[Len(selected)]) /\ g[Len(selected)][i] = selected[p]
    BY <2>1
  <2>3. i \in Nat /\ 1 <= i
    BY <1>12
  <2> QED BY <1>8, <1>11, <2>2, <2>3
<1>15. last \in Seq(C)
  <2>1. Len(selected) \in 0..Len(selected)
    BY <1>12
  <2> QED BY <1>9, <1>10, <1>11, <2>1, GrowthHolds
<1>16. \E i \in DOMAIN last : last[i] = x
  BY <1>14, <1>15
<1> QED BY <1>1, <1>4, <1>5, <1>10, <1>11, <1>16 DEF ItemsOf

Contradicts(c) == Category(c) = "contradicting"
IsPoint(c) == c.type = "data-point"

\* A link that contradicts is the contradicting evidence.
LEMMA ContradictsIs == \A c : Contradicts(c) <=> c.relation = "contradicts"
BY DEF Contradicts, Category

\* A sequence of one.
LEMMA SingleHas ==
    ASSUME NEW C, NEW x \in C, NEW s, s = <<x>>
    PROVE  s \in Seq(C) /\ Len(s) = 1 /\ \A i \in 1..Len(s) : s[i] = x
OBVIOUS

\* Two sequences, one after the other.
LEMMA JoinHas ==
    ASSUME NEW C, NEW s \in Seq(C), NEW t \in Seq(C), NEW l \in Nat, l = Len(s),
           NEW m \in Nat, m = Len(t), NEW u, u = s \o t
    PROVE  /\ u \in Seq(C) /\ Len(u) = l + m
           /\ \A i \in 1..l : u[i] = s[i]
           /\ \A i \in 1..(l + m) : i > l => u[i] = t[i - l]
OBVIOUS

\* What is reserved of a sequence: of each kind the first there is, and no two of
\* them are one piece of evidence.
LEMMA ReservedHas ==
    ASSUME NEW C, \A c \in C : Known(c), NEW s \in Seq(C), NEW data \in BOOLEAN,
           NEW r, r = Reserved(s, data)
    PROVE  /\ r \in Seq(C) /\ Len(r) <= 3
           /\ \A k \in 1..Len(r) : \A j \in 1..(k - 1) : r[j].key # r[k].key
           /\ (\E k \in DOMAIN s : s[k].primary) => \E k \in 1..Len(r) : r[k].primary
           /\ (\E k \in DOMAIN s : Contradicts(s[k])) => \E k \in 1..Len(r) : Contradicts(r[k])
           /\ data /\ (\E k \in DOMAIN s : IsPoint(s[k])) => \E k \in 1..Len(r) : IsPoint(r[k])
<1>1. Len(s) \in Nat /\ DOMAIN s = 1..Len(s) /\ \A k \in DOMAIN s : s[k] \in C
  OBVIOUS
<1>2. PICK a : a = FirstOf(s, LAMBDA c : c.primary)
  OBVIOUS
<1>3. PICK b : b = FirstOf(s, LAMBDA c : Category(c) = "contradicting")
  OBVIOUS
<1>4. PICK d : d = IF data THEN FirstOf(s, LAMBDA c : c.type = "data-point") ELSE <<>>
  OBVIOUS
<1>5. r = (a \o b) \o d
  BY <1>2, <1>3, <1>4 DEF Reserved
<1>6. /\ a \in Seq(C) /\ Len(a) \in {0, 1} /\ (\A i \in 1..Len(a) : a[i].primary)
      /\ (\E k \in DOMAIN s : s[k].primary) => Len(a) = 1
  <2> DEFINE T == {k \in DOMAIN s : s[k].primary}
  <2>1. CASE T = {}
    <3>1. a = <<>>
      BY <1>2, <2>1 DEF FirstOf
    <3> QED BY <2>1, <3>1
  <2>2. CASE T # {}
    <3>1. T \in SUBSET Nat
      BY <1>1
    <3>2. PICK k \in T : k = Min(T)
      BY <2>2, <3>1, MinIs
    <3>3. a = <<s[k]>>
      BY <1>2, <2>2, <3>2 DEF FirstOf
    <3>4. s[k] \in C /\ s[k].primary
      BY <1>1, <3>2
    <3>5. a \in Seq(C) /\ Len(a) = 1 /\ \A i \in 1..Len(a) : a[i] = s[k]
      BY <3>3, <3>4, SingleHas
    <3> QED BY <3>4, <3>5
  <2> QED BY <2>1, <2>2
<1>7. /\ b \in Seq(C) /\ Len(b) \in {0, 1} /\ (\A i \in 1..Len(b) : Contradicts(b[i]))
      /\ (\E k \in DOMAIN s : Contradicts(s[k])) => Len(b) = 1
  <2> DEFINE T == {k \in DOMAIN s : Category(s[k]) = "contradicting"}
  <2>1. CASE T = {}
    <3>1. b = <<>>
      BY <1>3, <2>1 DEF FirstOf
    <3> QED BY <2>1, <3>1 DEF Contradicts
  <2>2. CASE T # {}
    <3>1. T \in SUBSET Nat
      BY <1>1
    <3>2. PICK k \in T : k = Min(T)
      BY <2>2, <3>1, MinIs
    <3>3. b = <<s[k]>>
      BY <1>3, <2>2, <3>2 DEF FirstOf
    <3>4. s[k] \in C /\ Contradicts(s[k])
      BY <1>1, <3>2 DEF Contradicts
    <3>5. b \in Seq(C) /\ Len(b) = 1 /\ \A i \in 1..Len(b) : b[i] = s[k]
      BY <3>3, <3>4, SingleHas
    <3> QED BY <3>4, <3>5
  <2> QED BY <2>1, <2>2
<1>8. /\ d \in Seq(C) /\ Len(d) \in {0, 1} /\ (\A i \in 1..Len(d) : IsPoint(d[i]))
      /\ data /\ (\E k \in DOMAIN s : IsPoint(s[k])) => Len(d) = 1
  <2> DEFINE T == {k \in DOMAIN s : s[k].type = "data-point"}
  <2>1. CASE T = {} \/ ~data
    <3>1. d = <<>>
      BY <1>4, <2>1 DEF FirstOf
    <3> QED BY <2>1, <3>1 DEF IsPoint
  <2>2. CASE T # {} /\ data
    <3>1. T \in SUBSET Nat
      BY <1>1
    <3>2. PICK k \in T : k = Min(T)
      BY <2>2, <3>1, MinIs
    <3>3. d = <<s[k]>>
      BY <1>4, <2>2, <3>2 DEF FirstOf
    <3>4. s[k] \in C /\ IsPoint(s[k])
      BY <1>1, <3>2 DEF IsPoint
    <3>5. d \in Seq(C) /\ Len(d) = 1 /\ \A i \in 1..Len(d) : d[i] = s[k]
      BY <3>3, <3>4, SingleHas
    <3> QED BY <3>4, <3>5
  <2> QED BY <2>1, <2>2
<1>9. PICK l \in {0, 1}, m \in {0, 1}, n \in {0, 1} : l = Len(a) /\ m = Len(b) /\ n = Len(d)
  BY <1>6, <1>7, <1>8
<1>10. PICK ab : ab = a \o b
  OBVIOUS
<1>11. /\ ab \in Seq(C) /\ Len(ab) = l + m
       /\ \A i \in 1..l : ab[i] = a[i]
       /\ \A i \in 1..(l + m) : i > l => ab[i] = b[i - l]
  BY <1>6, <1>7, <1>9, <1>10, JoinHas
<1>12. /\ r \in Seq(C) /\ Len(r) = (l + m) + n
       /\ \A i \in 1..(l + m) : r[i] = ab[i]
       /\ \A i \in 1..((l + m) + n) : i > l + m => r[i] = d[i - (l + m)]
  <2>1. PICK lm \in Nat : lm = l + m
    OBVIOUS
  <2>2. /\ ab \in Seq(C) /\ d \in Seq(C) /\ lm = Len(ab) /\ n \in Nat /\ n = Len(d)
        /\ r = ab \o d
    BY <1>5, <1>8, <1>9, <1>10, <1>11, <2>1
  <2>3. /\ r \in Seq(C) /\ Len(r) = lm + n
        /\ \A i \in 1..lm : r[i] = ab[i]
        /\ \A i \in 1..(lm + n) : i > lm => r[i] = d[i - lm]
    BY <2>2, JoinHas
  <2> QED BY <2>1, <2>3
<1>13. \A i \in 1..((l + m) + n) :
          /\ i <= l => r[i].primary
          /\ i > l /\ i <= l + m => Contradicts(r[i])
          /\ i > l + m => IsPoint(r[i])
  <2> SUFFICES ASSUME NEW i \in 1..((l + m) + n)
               PROVE  /\ i <= l => r[i].primary
                      /\ i > l /\ i <= l + m => Contradicts(r[i])
                      /\ i > l + m => IsPoint(r[i])
    OBVIOUS
  <2>1. CASE i <= l
    <3>1. i \in 1..l /\ i \in 1..(l + m) /\ ~(i > l) /\ ~(i > l + m)
      BY <2>1
    <3> QED BY <1>6, <1>9, <1>11, <1>12, <3>1
  <2>2. CASE i > l /\ i <= l + m
    <3>1. i \in 1..(l + m) /\ i - l \in 1..m /\ ~(i <= l) /\ ~(i > l + m)
      BY <2>2
    <3> QED BY <1>7, <1>9, <1>11, <1>12, <2>2, <3>1
  <2>3. CASE i > l + m
    <3>1. i - (l + m) \in 1..n /\ ~(i <= l + m) /\ ~(i <= l)
      BY <2>3
    <3> QED BY <1>8, <1>9, <1>12, <2>3, <3>1
  <2> QED BY <2>1, <2>2, <2>3
<1>14. \A k \in 1..Len(r) : \A j \in 1..(k - 1) : r[j].key # r[k].key
  <2> SUFFICES ASSUME NEW k \in 1..Len(r), NEW j \in 1..(k - 1), r[j].key = r[k].key
               PROVE  FALSE
    OBVIOUS
  <2>1. k \in 1..((l + m) + n) /\ j \in 1..((l + m) + n) /\ j < k
    BY <1>12
  <2>2. PICK x \in C, y \in C : x = r[j] /\ y = r[k]
    BY <1>12, <2>1
  <2>3. Known(x) /\ Known(y) /\ x.key = y.key
    BY <2>2
  <2>4. \/ x.primary /\ Contradicts(y)
        \/ x.primary /\ IsPoint(y)
        \/ Contradicts(x) /\ IsPoint(y)
    BY <1>13, <2>1, <2>2
  <2> QED BY <2>3, <2>4, ContradictsIs DEF Known, IsPoint
<1>15. (\E k \in DOMAIN s : s[k].primary) => \E k \in 1..Len(r) : r[k].primary
  <2> SUFFICES ASSUME l = 1 PROVE \E k \in 1..Len(r) : r[k].primary
    BY <1>6, <1>9
  <2>1. 1 \in 1..Len(r) /\ 1 \in 1..((l + m) + n) /\ 1 <= l
    BY <1>12
  <2> QED BY <1>13, <2>1
<1>16. (\E k \in DOMAIN s : Contradicts(s[k])) => \E k \in 1..Len(r) : Contradicts(r[k])
  <2> SUFFICES ASSUME m = 1 PROVE \E k \in 1..Len(r) : Contradicts(r[k])
    BY <1>7, <1>9
  <2>1. l + 1 \in 1..Len(r) /\ l + 1 \in 1..((l + m) + n) /\ l + 1 > l /\ l + 1 <= l + m
    BY <1>12
  <2> QED BY <1>13, <2>1
<1>17. data /\ (\E k \in DOMAIN s : IsPoint(s[k])) => \E k \in 1..Len(r) : IsPoint(r[k])
  <2> SUFFICES ASSUME n = 1 PROVE \E k \in 1..Len(r) : IsPoint(r[k])
    BY <1>8, <1>9
  <2>1. l + m + 1 \in 1..Len(r) /\ l + m + 1 \in 1..((l + m) + n) /\ l + m + 1 > l + m
    BY <1>12
  <2> QED BY <1>13, <2>1
<1> QED BY <1>12, <1>14, <1>15, <1>16, <1>17

\* What the stages have handed on comes of what they were handed.
ContractMade == contract.status # "none" => contract = CompileContract(question)
PackageMade ==
    \/ package = NoPackage
    \/ /\ contract.status = "ready" /\ Collected(corpus)
       /\ package = ContextOf(question, contract, corpus)
PlanMade ==
    plan.status # "none" =>
        /\ package.status # "none"
        /\ route = "rules" => plan = Assemble(contract, package)
        /\ route = "local" => plan = Propose(contract, package, PlanningOf(question))
ScriptMade ==
    script.status # "none" =>
        plan.status # "none" /\ script = ScriptOf(plan, package, preference)

ContentInv ==
    /\ question \in AskedQuestions /\ route \in Routes
    /\ ContractMade /\ PackageMade /\ PlanMade /\ ScriptMade

\* Nothing is made at first.
LEMMA ContentInitHolds == ContentInit => ContentInv
BY DEF ContentInit, ContentInv, ContractMade, PackageMade, PlanMade, ScriptMade, NoContract,
       NoPackage, NoPlan, NoScript

\* Each stage makes what it makes of what the others have made.
LEMMA ContentIsKept == ContentInv /\ [ContentNext]_contentVars => ContentInv'
<1> SUFFICES ASSUME ContentInv, [ContentNext]_contentVars PROVE ContentInv'
  OBVIOUS
<1> USE DEF ContentInv
<1>1. package.status # "none" => contract.status = "ready"
  BY DEF PackageMade, NoPackage
<1>2. CASE Compile
  <2>1. ContractMade'
    BY <1>2 DEF Compile, ContractMade
  <2>2. PackageMade'
    BY <1>2 DEF Compile, PackageMade
  <2>3. PlanMade' /\ ScriptMade'
    BY <1>1, <1>2 DEF Compile, PlanMade, ScriptMade
  <2> QED BY <1>2, <2>1, <2>2, <2>3 DEF Compile
<1>3. CASE Build
  <2>1. ContractMade'
    BY <1>3 DEF Build, ContractMade
  <2>2. PackageMade'
    BY <1>3, ContentAssumption DEF Build, PackageMade, Collected
  <2>3. PlanMade' /\ ScriptMade'
    BY <1>3 DEF Build, PlanMade, ScriptMade
  <2> QED BY <1>3, <2>1, <2>2, <2>3 DEF Build
<1>4. CASE AssemblePlan
  <2>1. ContractMade' /\ PackageMade'
    BY <1>4 DEF AssemblePlan, ContractMade, PackageMade
  <2>2. PlanMade' /\ ScriptMade'
    BY <1>4 DEF AssemblePlan, PlanMade, ScriptMade
  <2> QED BY <1>4, <2>1, <2>2 DEF AssemblePlan
<1>5. CASE ProposePlan
  <2>1. ContractMade' /\ PackageMade'
    BY <1>5 DEF ProposePlan, ContractMade, PackageMade
  <2>2. PlanMade' /\ ScriptMade'
    BY <1>5 DEF ProposePlan, PlanMade, ScriptMade, PlanningOf
  <2> QED BY <1>5, <2>1, <2>2 DEF ProposePlan
<1>6. CASE Script
  <2>1. ContractMade' /\ PackageMade'
    BY <1>6 DEF Script, ContractMade, PackageMade
  <2>2. PlanMade' /\ ScriptMade'
    BY <1>6 DEF Script, PlanMade, ScriptMade, PlanningOf
  <2> QED BY <1>6, <2>1, <2>2 DEF Script
<1>7. CASE UNCHANGED contentVars
  BY <1>7 DEF contentVars, ContractMade, PackageMade, PlanMade, ScriptMade, PlanningOf
<1> QED BY <1>2, <1>3, <1>4, <1>5, <1>6, <1>7 DEF ContentNext

\* What the stages have handed on comes of what they were handed.
LEMMA ContentInvHolds == ContentSpec => []ContentInv
BY ContentInitHolds, ContentIsKept, PTL DEF ContentSpec

-----------------------------------------------------------------------------

\* Of evidence there is of a kind, what is reserved is an item if it has a text.
LEMMA ReservedIsHeld ==
    ASSUME NEW q, IsFiniteSet(q.words), NEW records, Collected(records), NEW data \in BOOLEAN,
           NEW r, r = Reserved(Ranked(q, records), data),
           NEW c \in ToSet(r), c.words # {},
           NEW items, items = ItemsOf(Taken(r \o Ranked(q, records), Admits))
    PROVE  \E i \in DOMAIN items : items[i] = c
<1> DEFINE C == RelevantOf(q, records)
<1>1. PICK s : s = Ranked(q, records)
  OBVIOUS
<1>2. s \in Seq(C)
  BY <1>1, RankedHas
<1>3. \A x \in C : Known(x)
  BY CandidatesAreKnown DEF RelevantOf, Candidates, Places, Collected
<1> HIDE DEF C
<1>4. /\ r \in Seq(C) /\ Len(r) <= 3
      /\ \A m \in 1..Len(r) : \A j \in 1..(m - 1) : r[j].key # r[m].key
  BY <1>1, <1>2, <1>3, ReservedHas
<1>5. PICK k \in 1..Len(r) : r[k] = c
  BY <1>4 DEF ToSet
<1>6. PICK u : u = r \o s
  OBVIOUS
<1>7. /\ u \in Seq(C) /\ k \in 1..Len(u) /\ k <= 3
      /\ \A j \in 1..k : u[j] = r[j]
  BY <1>2, <1>4, <1>6
<1>8. (\A j \in 1..(k - 1) : u[j].key # u[k].key) /\ u[k].words # {}
  <2>1. k \in 1..k /\ \A j \in 1..(k - 1) : j \in 1..k
    BY <1>7
  <2> QED BY <1>4, <1>7, <1>5, <2>1
<1>9. \E i \in DOMAIN ItemsOf(Taken(u, Admits)) : ItemsOf(Taken(u, Admits))[i] = u[k]
  BY <1>7, <1>8, EarlyIsHeld
<1>10. u[k] = c
  BY <1>7, <1>5
<1> QED BY <1>1, <1>6, <1>9, <1>10

\* The kinds of evidence a package may miss.
HasPrimary(S) == \E c \in S : Category(c) = "primary"
HasContradicting(S) == \E c \in S : Category(c) = "contradicting"
HasPoint(S) == \E c \in S : c.type = "data-point"

\* What is reserved is evidence that was found, some of every kind there is.
LEMMA ReservedIsFound ==
    ASSUME NEW q, IsFiniteSet(q.words), NEW records, Collected(records), NEW data \in BOOLEAN,
           NEW r, r = Reserved(Ranked(q, records), data)
    PROVE  /\ \A c \in ToSet(r) : c \in Candidates(q, records) /\ Known(c)
           /\ HasPrimary(Candidates(q, records)) => HasPrimary(ToSet(r))
           /\ HasContradicting(Candidates(q, records)) => HasContradicting(ToSet(r))
           /\ data /\ HasPoint(Candidates(q, records)) => HasPoint(ToSet(r))
<1> DEFINE C == RelevantOf(q, records)
<1>1. PICK s : s = Ranked(q, records)
  OBVIOUS
<1>2. s \in Seq(C) /\ \A c \in C : \E n \in DOMAIN s : s[n] = c
  BY <1>1, RankedHas
<1>3. (\A c \in Candidates(q, records) : Known(c)) /\ C \subseteq Candidates(q, records)
  BY CandidatesAreKnown DEF RelevantOf, Candidates, Places, Collected
<1>4. \A c \in Candidates(q, records) :
         c.primary \/ Contradicts(c) \/ IsPoint(c) => c \in C
  BY DEF RelevantOf, Relevant, Contradicts, IsPoint
<1> HIDE DEF C
<1>5. /\ r \in Seq(C)
      /\ (\E k \in DOMAIN s : s[k].primary) => \E k \in 1..Len(r) : r[k].primary
      /\ (\E k \in DOMAIN s : Contradicts(s[k])) => \E k \in 1..Len(r) : Contradicts(r[k])
      /\ data /\ (\E k \in DOMAIN s : IsPoint(s[k])) => \E k \in 1..Len(r) : IsPoint(r[k])
  BY <1>1, <1>2, <1>3, ReservedHas
<1>6. /\ \A k \in 1..Len(r) : r[k] \in ToSet(r)
      /\ \A c \in ToSet(r) : c \in C
  BY <1>5 DEF ToSet
<1>7. \A c \in Candidates(q, records) : Category(c) = "primary" <=> c.primary
  <2>1. \A c \in Candidates(q, records) : Known(c) => (Category(c) = "primary" <=> c.primary)
    BY DEF Category, Known
  <2> QED BY <1>3, <2>1
<1>8. HasPrimary(Candidates(q, records)) => HasPrimary(ToSet(r))
  BY <1>2, <1>3, <1>4, <1>5, <1>6, <1>7 DEF HasPrimary
<1>9. HasContradicting(Candidates(q, records)) => HasContradicting(ToSet(r))
  BY <1>2, <1>4, <1>5, <1>6 DEF HasContradicting, Contradicts
<1>10. data /\ HasPoint(Candidates(q, records)) => HasPoint(ToSet(r))
  BY <1>2, <1>4, <1>5, <1>6 DEF HasPoint, IsPoint
<1> QED BY <1>3, <1>6, <1>8, <1>9, <1>10

\* A gap in a package is a gap in what was found, or in the texts of it: of what
\* was found of a kind the best is reserved, first selected and first excerpted.
LEMMA GapsFollow == ContentInv => GapsAreReal
<1> SUFFICES ASSUME ContentInv PROVE GapsAreReal
  OBVIOUS
<1>1. CASE package = NoPackage
  BY <1>1 DEF NoPackage, GapsAreReal, TrueGap
<1>2. CASE package # NoPackage
  <2>1. /\ contract.status = "ready" /\ Collected(corpus)
        /\ package = ContextOf(question, contract, corpus)
    BY <1>2 DEF ContentInv, PackageMade
  <2>2. IsFiniteSet(question.words)
    BY ContentAssumption DEF ContentInv
  <2>3. PICK data \in BOOLEAN : data = NeedsData(contract)
    <3>1. NeedsData(contract) \in BOOLEAN
      BY DEF NeedsData
    <3> QED BY <3>1, Zenon
  <2>4. PICK r, found : /\ r = Reserved(Ranked(question, corpus), data)
                        /\ found = Candidates(question, corpus)
    OBVIOUS
  <2>5. PICK items : items = ItemsOf(Taken(r \o Ranked(question, corpus), Admits))
    OBVIOUS
  <2>6. package.gaps = Gaps(contract, items)
    BY <2>1, <2>3, <2>4, <2>5 DEF ContextOf, Selected, Package
  <2>7. /\ \A c \in ToSet(r) : c \in found /\ Known(c)
        /\ HasPrimary(found) => HasPrimary(ToSet(r))
        /\ HasContradicting(found) => HasContradicting(ToSet(r))
        /\ data /\ HasPoint(found) => HasPoint(ToSet(r))
    BY <2>1, <2>2, <2>4, ReservedIsFound
  <2>8. \A c \in ToSet(r) : c.words # {} => \E i \in DOMAIN items : items[i] = c
    BY <2>1, <2>2, <2>4, <2>5, ReservedIsHeld
  <2>9. TrueGap("missing-primary-source", LAMBDA c : Category(c) = "primary")
    <3> SUFFICES ASSUME "missing-primary-source" \in package.gaps, HasPrimary(found),
                        \A c \in found : Category(c) = "primary" => c.words # {}
                 PROVE  FALSE
      BY <2>4 DEF TrueGap, FoundOf, HasPrimary
    <3>1. ~HasCategory(items, "primary")
      BY <2>6 DEF Gaps
    <3> QED BY <2>7, <2>8, <3>1 DEF HasCategory, HasPrimary
  <2>10. TrueGap("missing-contradicting-evidence", LAMBDA c : Category(c) = "contradicting")
    <3> SUFFICES ASSUME "missing-contradicting-evidence" \in package.gaps,
                        HasContradicting(found),
                        \A c \in found : Category(c) = "contradicting" => c.words # {}
                 PROVE  FALSE
      BY <2>4 DEF TrueGap, FoundOf, HasContradicting
    <3>1. ~HasCategory(items, "contradicting")
      BY <2>6 DEF Gaps
    <3> QED BY <2>7, <2>8, <3>1 DEF HasCategory, HasContradicting
  <2>11. TrueGap("missing-quantitative-data", LAMBDA c : c.type = "data-point")
    <3> SUFFICES ASSUME "missing-quantitative-data" \in package.gaps, HasPoint(found),
                        \A c \in found : c.type = "data-point" => c.words # {}
                 PROVE  FALSE
      BY <2>4 DEF TrueGap, FoundOf, HasPoint
    <3>1. data /\ ~HasData(items)
      BY <2>3, <2>6 DEF Gaps
    <3>2. PICK c \in ToSet(r) : c.type = "data-point" /\ c \in found /\ Known(c)
      BY <2>7, <3>1 DEF HasPoint
    <3>3. \E i \in DOMAIN items : items[i] = c
      BY <2>8, <3>2
    <3>4. SectionOf(c) = "quantitativeData"
      BY <3>2, ContradictsIs DEF SectionOf, Contradicts, Known
    <3> QED BY <3>1, <3>3, <3>4 DEF HasData
  <2> QED BY <2>9, <2>10, <2>11 DEF GapsAreReal
<1> QED BY <1>1, <1>2

\* Whatever is asked and found, a package that says primary, contradicting or
\* quantitative evidence is missing says so truly: the limits of the selection
\* never make a gap.
THEOREM GapsAreRealHolds == ContentSpec => []GapsAreReal
BY ContentInvHolds, GapsFollow, PTL

\* A sequence has finitely many elements.
LEMMA ToSetIsFinite == ASSUME NEW C, NEW s \in Seq(C) PROVE IsFiniteSet(ToSet(s))
<1>1. IsFiniteSet(DOMAIN s)
  BY FS_Interval
<1>2. s \in Surjection(DOMAIN s, ToSet(s))
  BY DEF Surjection, ToSet
<1> QED BY <1>1, <1>2, FS_Surjection

\* The items of a package are of evidence that was found.
LEMMA ItemsAreFound ==
    ASSUME NEW q, IsFiniteSet(q.words), NEW records, Collected(records), NEW c,
           NEW items, items = ItemsOf(Selected(q, c, records))
    PROVE  items \in Seq(RelevantOf(q, records)) /\ \A x \in RelevantOf(q, records) : Known(x)
<1> DEFINE C == RelevantOf(q, records)
<1>1. PICK s : s = Ranked(q, records)
  OBVIOUS
<1>2. s \in Seq(C)
  BY <1>1, RankedHas
<1>3. \A x \in C : Known(x)
  BY CandidatesAreKnown DEF RelevantOf, Candidates, Places, Collected
<1> HIDE DEF C
<1>4. PICK data \in BOOLEAN : data = NeedsData(c)
  <2>1. NeedsData(c) \in BOOLEAN
    BY DEF NeedsData
  <2> QED BY <2>1, Zenon
<1>5. PICK r : r = Reserved(s, data)
  OBVIOUS
<1>6. r \in Seq(C)
  BY <1>2, <1>3, <1>5, ReservedHas
<1>7. PICK u : u = r \o s
  OBVIOUS
<1>8. u \in Seq(C) /\ Len(u) \in 0..Len(u)
  BY <1>2, <1>6, <1>7
<1>9. PICK selected : selected = Taken(u, Admits)
  OBVIOUS
<1>10. selected \in Seq(C)
  <2>1. PICK f, F : Grows(f, u, F) /\ Taken(u, Admits) = f[Len(u)]
    BY <1>8, AdmitsGrows
  <2>2. f[Len(u)] \in Seq(C)
    BY <1>8, <2>1, GrowthHolds
  <2> QED BY <1>9, <2>1, <2>2
<1>11. Len(selected) \in 0..Len(selected)
  BY <1>10
<1>12. Taken(selected, Excerpted) \in Seq(C)
  <2>1. PICK f, F : Grows(f, selected, F) /\ Taken(selected, Excerpted) = f[Len(selected)]
    BY <1>10, ExcerptedGrows
  <2>2. f[Len(selected)] \in Seq(C)
    BY <1>10, <1>11, <2>1, GrowthHolds
  <2> QED BY <2>1, <2>2
<1>13. items = Taken(selected, Excerpted)
  BY <1>1, <1>4, <1>5, <1>7, <1>9 DEF ItemsOf, Selected
<1> QED BY <1>3, <1>12, <1>13 DEF C

\* Items have finitely many documents.
LEMMA DocumentsAreFinite ==
    ASSUME NEW C, \A c \in C : Known(c), NEW items \in Seq(C)
    PROVE  Cardinality(Documents(items)) \in Nat
<1> DEFINE of == [k \in DOMAIN items |-> ToSet(items[k].documents)]
           S == {ToSet(items[k].documents) : k \in DOMAIN items}
<1>1. IsFiniteSet(DOMAIN items)
  BY FS_Interval
<1>2. of \in Surjection(DOMAIN items, S)
  BY DEF Surjection
<1>3. IsFiniteSet(S)
  <2> HIDE DEF S, of
  <2> QED BY <1>1, <1>2, FS_Surjection
<1>4. \A k \in DOMAIN items : IsFiniteSet(ToSet(items[k].documents))
  <2> SUFFICES ASSUME NEW k \in DOMAIN items PROVE IsFiniteSet(ToSet(items[k].documents))
    OBVIOUS
  <2>1. items[k].documents \in Seq(Nat)
    BY DEF Known
  <2> QED BY <2>1, ToSetIsFinite
<1>5. \A T \in S : IsFiniteSet(T)
  BY <1>4
<1>6. IsFiniteSet(UNION S)
  <2> HIDE DEF S
  <2> QED BY <1>3, <1>5, FS_UNION
<1> QED BY <1>6, FS_CardinalityType DEF Documents

\* What a script says of the package it is made of.
LEMMA ScriptedHas ==
    ASSUME ContentInv, Scripted
    PROVE  /\ plan.status = "validated" /\ ~Insufficient(package)
           /\ script.scenes = Scenes(plan.sections, package.gaps, preference)
           /\ contract.status = "ready" /\ contract = CompileContract(question)
           /\ Collected(corpus) /\ IsFiniteSet(question.words) /\ question.form \in Forms
           /\ package = Package(contract, ItemsOf(Selected(question, contract, corpus)))
           /\ \/ route = "rules" /\ plan = Assemble(contract, package)
              \/ route = "local" /\ plan = Propose(contract, package, PlanningOf(question))
<1>1. script.status # "none"
  BY DEF Scripted
<1>2. plan.status # "none" /\ script = ScriptOf(plan, package, preference)
  BY <1>1 DEF ContentInv, ScriptMade
<1>3. /\ plan.status = "validated" /\ ~Insufficient(package)
      /\ script.scenes = Scenes(plan.sections, package.gaps, preference)
  BY <1>2 DEF ScriptOf, Scripted, NoScript
<1>4. package.status # "none"
  BY <1>2 DEF ContentInv, PlanMade
<1>5. /\ contract.status = "ready" /\ Collected(corpus)
      /\ package = ContextOf(question, contract, corpus)
  BY <1>4 DEF ContentInv, PackageMade, NoPackage
<1>6. package = Package(contract, ItemsOf(Selected(question, contract, corpus)))
  BY <1>5 DEF ContextOf
<1>7. contract = CompileContract(question)
  BY <1>5 DEF ContentInv, ContractMade
<1>8. IsFiniteSet(question.words) /\ question.form \in Forms
  BY ContentAssumption DEF ContentInv
<1>9. \/ route = "rules" /\ plan = Assemble(contract, package)
      \/ route = "local" /\ plan = Propose(contract, package, PlanningOf(question))
  BY <1>2 DEF ContentInv, PlanMade, Routes
<1> QED BY <1>3, <1>5, <1>6, <1>7, <1>8, <1>9

\* A script stands on a primary document, and on two documents at least.
LEMMA ScriptsAreGrounded == ContentInv => Grounded
<1> SUFFICES ASSUME ContentInv, Scripted
             PROVE  /\ HasCategory(package.items, "primary")
                    /\ Cardinality(Documents(package.items)) >= 2
  BY DEF Grounded
<1>1. PICK items : items = ItemsOf(Selected(question, contract, corpus))
  OBVIOUS
<1>2. package.items = items /\ package.gaps = Gaps(contract, items)
  BY <1>1, ScriptedHas DEF Package
<1>3. Blocking(Gaps(contract, items)) = {}
  BY <1>2, ScriptedHas DEF Insufficient
<1>4. /\ "missing-primary-source" \notin Gaps(contract, items)
      /\ "insufficient-independent-sources" \notin Gaps(contract, items)
  BY <1>3 DEF Blocking
<1>5. HasCategory(items, "primary") /\ ~(Cardinality(Documents(items)) < 2)
  BY <1>4 DEF Gaps
<1>6. Cardinality(Documents(items)) \in Nat
  BY <1>1, ScriptedHas, ItemsAreFound, DocumentsAreFinite
<1> QED BY <1>2, <1>5, <1>6

-----------------------------------------------------------------------------

\* The length of a function on an interval.
LEMMA LenIs ==
    ASSUME NEW n \in Nat, NEW f, f = [k \in 1..n |-> f[k]]
    PROVE  Len(f) = n /\ DOMAIN f = 1..n
<1> DEFINE S == {f[k] : k \in 1..n}
<1>1. \A k \in 1..n : f[k] \in S
  OBVIOUS
<1> HIDE DEF S
<1>2. f \in [1..n -> S]
  BY <1>1
<1>3. f \in Seq(S)
  BY <1>2
<1> QED BY <1>3

\* The sections of an answer: how many there are and which is on what is uncertain.
LEMMA SectionsHave ==
    ASSUME NEW i, NEW s, s = SectionsFor(i)
    PROVE  /\ \E n \in {6, 7, 9} : s = [k \in 1..n |-> s[k]]
           /\ \A k \in DOMAIN s : s[k] = "uncertainty" =>
                 \/ DOMAIN s = 1..9 /\ k = 7
                 \/ DOMAIN s = 1..7 /\ k = 6
                 \/ DOMAIN s = 1..6 /\ k = 4
<1>1. \/ s = <<"direct-answer", "necessary-background", "supporting-evidence",
              "contradicting-evidence", "confirmed", "uncertainty", "sources">>
      \/ s = <<"direct-answer", "comparison", "comparison", "comparison",
              "explanation-path", "sources">>
      \/ s = <<"direct-answer", "scenarios", "scenarios", "uncertainty",
              "next-verification-signals", "sources">>
      \/ s = StandardSections
  BY DEF SectionsFor
<1>2. CASE s = <<"direct-answer", "necessary-background", "supporting-evidence",
              "contradicting-evidence", "confirmed", "uncertainty", "sources">>
  BY <1>2
<1>3. CASE s = <<"direct-answer", "comparison", "comparison", "comparison",
              "explanation-path", "sources">>
  BY <1>3
<1>4. CASE s = <<"direct-answer", "scenarios", "scenarios", "uncertainty",
              "next-verification-signals", "sources">>
  BY <1>4
<1>5. CASE s = StandardSections
  BY <1>5 DEF StandardSections
<1> QED BY <1>1, <1>2, <1>3, <1>4, <1>5

\* A section without channels, unless it is of a personal scenario.
Scenic(section) == section.personal.scenario \/ section.personal.channels = {}

\* The first section of a scene is on what is uncertain.
Leads(sections, n, g, u) ==
    /\ u \in Members(g, 5, n) /\ \A k \in Members(g, 5, n) : u <= k
    /\ sections[u].kind = "uncertainty" /\ sections[u].discloses
    /\ \A k \in Members(g, 5, n) : Scenic(sections[k])

Tells(scene, gaps) == scene.discloses /\ (scene.named = gaps \/ scene.kind = "scenario")

\* A scene whose first section is on what is uncertain tells of it, unless one of
\* its sections is of a personal scenario.
LEMMA SceneTells ==
    ASSUME NEW sections, NEW n \in Nat, n >= 5, n = Len(sections), DOMAIN sections = 1..n,
           NEW gaps, NEW p, NEW g \in 1..5, NEW u, Leads(sections, n, g, u),
           NEW scenes, scenes = Scenes(sections, gaps, p)
    PROVE  g \in DOMAIN scenes /\ Tells(scenes[g], gaps)
<1>1. PICK S : S = Members(g, 5, n)
  OBVIOUS
<1>2. S \in SUBSET Nat /\ S # {} /\ u \in S
  <2>1. S \subseteq 1..n
    BY <1>1 DEF Members
  <2>2. u \in S
    BY <1>1 DEF Leads
  <2> QED BY <2>1, <2>2
<1>3. Min(S) = u
  <2>1. Min(S) \in S /\ \A k \in S : Min(S) <= k
    BY <1>2, MinIs
  <2>2. PICK m \in Nat : m = Min(S)
    BY <1>2, <2>1
  <2>3. m <= u /\ u <= m /\ u \in Nat
    BY <1>1, <1>2, <2>1, <2>2 DEF Leads
  <2> QED BY <2>2, <2>3
<1>4. scenes = [h \in 1..5 |-> Scene(sections, Members(h, 5, n), gaps, p)]
  BY DEF Scenes, MiddleScenes, MaximumScenes
<1>5. PICK scene : scene = Scene(sections, S, gaps, p)
  OBVIOUS
<1>6. g \in DOMAIN scenes /\ scenes[g] = scene
  BY <1>1, <1>4, <1>5
<1> DEFINE within == {sections[k] : k \in S}
           personal == {s.personal : s \in within}
<1>7. /\ scene.kind = SceneKind(sections[u], personal)
      /\ scene.discloses = \E s \in within : s.discloses
      /\ scene.named = IF scene.kind = "uncertainty" THEN gaps ELSE {}
  BY <1>3, <1>5 DEF Scene
<1>8. scene.discloses
  BY <1>2, <1>7 DEF Leads
<1>9. scene.kind = "uncertainty" \/ scene.kind = "scenario"
  <2>1. CASE \E q \in personal : q.scenario
    BY <1>7, <2>1 DEF SceneKind
  <2>2. CASE \A q \in personal : ~q.scenario
    <3>1. \A q \in personal : q.channels = {}
      BY <1>1, <2>2 DEF Leads, Scenic
    <3> HIDE DEF personal
    <3> QED BY <1>7, <2>2, <3>1 DEF SceneKind, Leads
  <2> QED BY <2>1, <2>2
<1> QED BY <1>6, <1>7, <1>8, <1>9 DEF Tells

SectionFields ==
    {"kind", "bound", "posture", "discloses", "places", "visuals", "personal"}

\* The sections of the rule-based assembler are those of the contract, none of
\* them personal.
LEMMA AssembledHas ==
    ASSUME NEW c, NEW items, NEW s, s = AssembledSections(c, items)
    PROVE  /\ s = [k \in DOMAIN c.sections |-> s[k]]
           /\ \A k \in DOMAIN c.sections :
                 /\ s[k].kind = c.sections[k] /\ DOMAIN s[k] = SectionFields
                 /\ c.sections[k] = "uncertainty" => s[k].discloses
                 /\ s[k].personal = NoPersonal
<1> DEFINE bare == [k \in DOMAIN c.sections |-> Section(c.sections[k], items)]
           shows == VisualSections(VisualMode(ToSet(items)), bare)
           lit(k) == [bare[k] EXCEPT
                           !.visuals = {Visual(VisualMode(ToSet(items)), FALSE, bare[k].bound)}]
<1>1. s = [k \in DOMAIN c.sections |->
              IF shows # {} /\ k = Min(shows) THEN lit(k) ELSE bare[k]]
  BY DEF AssembledSections
<1>2. \A k \in DOMAIN c.sections : bare[k] = Section(c.sections[k], items)
  OBVIOUS
<1>3. \A k \in DOMAIN c.sections :
         /\ bare[k].kind = c.sections[k] /\ bare[k].personal = NoPersonal
         /\ c.sections[k] = "uncertainty" => bare[k].discloses
         /\ lit(k).kind = bare[k].kind /\ lit(k).discloses = bare[k].discloses
         /\ lit(k).personal = bare[k].personal
         /\ DOMAIN bare[k] = SectionFields /\ DOMAIN lit(k) = SectionFields
  <2> SUFFICES ASSUME NEW k \in DOMAIN c.sections
               PROVE  /\ bare[k].kind = c.sections[k] /\ bare[k].personal = NoPersonal
                      /\ c.sections[k] = "uncertainty" => bare[k].discloses
                      /\ lit(k).kind = bare[k].kind
                      /\ lit(k).discloses = bare[k].discloses
                      /\ lit(k).personal = bare[k].personal
                      /\ DOMAIN bare[k] = SectionFields /\ DOMAIN lit(k) = SectionFields
    OBVIOUS
  <2>1. PICK kind : kind = c.sections[k]
    OBVIOUS
  <2>2. PICK b : b = bare[k]
    OBVIOUS
  <2>3. b = [kind |-> kind, bound |-> ItemsFor(kind, items), posture |-> Posture(kind),
             discloses |-> kind \in {"uncertainty", "scenarios"},
             places |-> PlacesOf(ItemsFor(kind, items)), visuals |-> {}, personal |-> NoPersonal]
    BY <2>1, <2>2 DEF Section
  <2>4. b.kind = kind /\ b.personal = NoPersonal
    BY <2>3
  <2>5. kind = "uncertainty" => b.discloses
    BY <2>3
  <2>6. \A v : /\ [b EXCEPT !.visuals = v].kind = b.kind
               /\ [b EXCEPT !.visuals = v].discloses = b.discloses
               /\ [b EXCEPT !.visuals = v].personal = b.personal
    BY <2>3
  <2>7. DOMAIN b = SectionFields /\ \A v : DOMAIN [b EXCEPT !.visuals = v] = SectionFields
    BY <2>3 DEF SectionFields
  <2> HIDE DEF bare
  <2> QED BY <2>1, <2>2, <2>4, <2>5, <2>6, <2>7
<1> HIDE DEF bare, shows, lit
<1>4. \A k \in DOMAIN c.sections : s[k] = lit(k) \/ s[k] = bare[k]
  BY <1>1
<1>5. s = [k \in DOMAIN c.sections |-> s[k]]
  BY <1>1
<1> QED BY <1>3, <1>4, <1>5

\* Sections that are valid have one on what is uncertain.
LEMMA ValidTells ==
    ASSUME NEW sections, NEW c, NEW among, NEW planning,
           Validated(sections, c, among, planning).status = "validated"
    PROVE  \E k \in DOMAIN sections : sections[k].kind = "uncertainty"
<1>1. PlanErrors(sections, c, among.items, planning) = {}
  BY DEF Validated
<1>2. "UNCERTAINTY_REQUIREMENT_MISSING" \notin PlanErrors(sections, c, among.items, planning)
  BY <1>1
<1> QED BY <1>2 DEF PlanErrors

\* The last of five groups is the last section alone, and a third one is there.
LEMMA GroupsHave ==
    ASSUME NEW n \in {6, 7, 9}
    PROVE  /\ \A k \in 1..n : GroupOf(k, n) \in 1..5 /\ (GroupOf(k, n) = 5 <=> k = n)
           /\ GroupOf(IF n = 9 THEN 5 ELSE 4, n) = 3
           /\ Members(5, 5, n) = {n}
<1>1. \A k \in 1..n : GroupOf(k, n) = ((k - 1) * 5) \div n + 1
  BY DEF GroupOf, GroupKinds
<1>2. CASE n = 6
  <2>1. \A k \in 1..6 : /\ ((k - 1) * 5) \div 6 \in 0..4
                        /\ ((k - 1) * 5) \div 6 = 4 <=> k = 6
    OBVIOUS
  <2>2. ((4 - 1) * 5) \div 6 = 2
    OBVIOUS
  <2> QED BY <1>1, <1>2, <2>1, <2>2 DEF Members
<1>3. CASE n = 7
  <2>1. \A k \in 1..7 : /\ ((k - 1) * 5) \div 7 \in 0..4
                        /\ ((k - 1) * 5) \div 7 = 4 <=> k = 7
    OBVIOUS
  <2>2. ((4 - 1) * 5) \div 7 = 2
    OBVIOUS
  <2> QED BY <1>1, <1>3, <2>1, <2>2 DEF Members
<1>4. CASE n = 9
  <2>1. \A k \in 1..9 : /\ ((k - 1) * 5) \div 9 \in 0..4
                        /\ ((k - 1) * 5) \div 9 = 4 <=> k = 9
    OBVIOUS
  <2>2. ((5 - 1) * 5) \div 9 = 2
    OBVIOUS
  <2> QED BY <1>1, <1>4, <2>1, <2>2 DEF Members
<1> QED BY <1>2, <1>3, <1>4

\* Where the assembler's section on what is uncertain is, it is the first of its
\* scene.
LEMMA UncertaintyLeads ==
    /\ Members(4, 5, 9) = {7, 8} /\ Members(4, 5, 7) = {6} /\ Members(3, 5, 6) = {4}
<1>1. \A k \in 1..9 : ((k - 1) * 5) \div 9 = 3 <=> k \in {7, 8}
  OBVIOUS
<1>2. \A k \in 1..7 : ((k - 1) * 5) \div 7 = 3 <=> k = 6
  OBVIOUS
<1>3. \A k \in 1..6 : ((k - 1) * 5) \div 6 = 2 <=> k = 4
  OBVIOUS
<1> QED BY <1>1, <1>2, <1>3 DEF Members

Lists(s, n) == s = [k \in 1..n |-> s[k]]

\* What a local proposal makes of a section of the assembler.
Concerned(g, items) ==
    {x \in ToSet(items) : \/ x.places \cap GroupPlaces[g] # {}
                          \/ GroupModes[g] = "chart" /\ x.points # {}}
GroupVisual(g, items, planning) ==
    [mode |-> GroupModes[g], required |-> GroupModes[g] = "map-flow" /\ ~planning.given,
     places |-> GroupPlaces[g], entities |-> {},
     points |-> IF GroupModes[g] = "chart" THEN PointsOf(ToSet(items)) ELSE {}]
Opens(k, n) == k = 1 \/ GroupOf(k - 1, n) # GroupOf(k, n)

IsRecast(y, x, k, n, items, planning) ==
    /\ DOMAIN y = SectionFields
    /\ y.kind = GroupKinds[GroupOf(k, n)] /\ y.places = GroupPlaces[GroupOf(k, n)]
    /\ GroupOf(k, n) = 5 => y.discloses
    /\ y.bound = x.bound \cup Concerned(GroupOf(k, n), items)
    /\ Opens(k, n) => y.visuals = {GroupVisual(GroupOf(k, n), items, planning)}
    /\ ~Opens(k, n) => y.visuals = {}

\* What it carries of a personal impact.
CarriesNothing(y) == y.personal = NoPersonal
CarriesChannels(y, planning) ==
    /\ y.posture = "inference"
    /\ y.personal = [bound |-> TRUE, channels |-> planning.channels, scenario |-> FALSE]
CarriesScenario(y, planning) ==
    /\ y.posture = "forecast"
    /\ y.personal = [bound |-> TRUE, scenario |-> planning.scenario,
                     channels |-> IF planning.scenario THEN planning.channels ELSE {}]

\* Of n sections, one carries the channels, the last the scenario, the others nothing.
Carries(s, n, e, planning) ==
    /\ CarriesChannels(s[e], planning) /\ CarriesScenario(s[n], planning)
    /\ \A k \in 1..n : k # e /\ k # n => CarriesNothing(s[k])

\* A section of the assembler is recast as its group says, and carries nothing.
LEMMA RecastHas ==
    ASSUME NEW x, DOMAIN x = SectionFields, x.personal = NoPersonal,
           NEW k, NEW n, NEW items, NEW planning, NEW y, y = Recast(x, k, n, items, planning)
    PROVE  IsRecast(y, x, k, n, items, planning) /\ CarriesNothing(y)
<1>1. PICK g : g = GroupOf(k, n)
  OBVIOUS
<1>2. PICK visuals : visuals = IF Opens(k, n) THEN {GroupVisual(g, items, planning)} ELSE {}
  OBVIOUS
<1>3. y = [x EXCEPT !.kind = GroupKinds[g], !.bound = @ \cup Concerned(g, items),
              !.discloses = g = Len(GroupKinds), !.places = GroupPlaces[g],
              !.visuals = visuals]
  BY <1>1, <1>2 DEF Recast, Concerned, GroupVisual, Opens
<1>4. Len(GroupKinds) = 5
  BY DEF GroupKinds
<1>5. /\ DOMAIN y = SectionFields /\ y.personal = x.personal
      /\ y.kind = GroupKinds[g] /\ y.places = GroupPlaces[g] /\ y.visuals = visuals
  BY <1>3 DEF SectionFields
<1>6. y.bound = x.bound \cup Concerned(g, items)
  BY <1>3 DEF SectionFields
<1>7. g = 5 => y.discloses
  BY <1>3, <1>4 DEF SectionFields
<1> QED BY <1>1, <1>2, <1>5, <1>6, <1>7 DEF IsRecast, CarriesNothing

BoundTo(y, posture, personal) == [y EXCEPT !.posture = posture, !.personal = personal]

\* A recast section may be bound to an impact.
LEMMA BoundHas ==
    ASSUME NEW x, NEW y, NEW k, NEW n, NEW items, NEW planning, NEW posture, NEW personal,
           IsRecast(y, x, k, n, items, planning)
    PROVE  IsRecast(BoundTo(y, posture, personal), x, k, n, items, planning)
<1>1. DOMAIN y = SectionFields
  BY DEF IsRecast
<1>2. PICK z : z = BoundTo(y, posture, personal)
  OBVIOUS
<1>3. /\ DOMAIN z = SectionFields
      /\ z.kind = y.kind /\ z.places = y.places /\ z.bound = y.bound
      /\ z.visuals = y.visuals /\ z.discloses = y.discloses
  BY <1>1, <1>2 DEF SectionFields, BoundTo
<1>4. IsRecast(z, x, k, n, items, planning)
  BY <1>3 DEF IsRecast
<1> QED BY <1>2, <1>3, <1>4

\* A local proposal recasts every section of the assembler; the impact of a
\* personal question is carried by a section on the mechanism and by the one on
\* what is uncertain, which is the last.
LEMMA ProposedHas ==
    ASSUME NEW c, NEW n \in {6, 7, 9}, DOMAIN c.sections = 1..n, NEW items, NEW planning,
           NEW a, a = AssembledSections(c, items),
           NEW s, s = ProposedSections(c, items, planning)
    PROVE  /\ Lists(s, n)
           /\ \A k \in 1..n : IsRecast(s[k], a[k], k, n, items, planning)
           /\ ~planning.given => \A k \in 1..n : CarriesNothing(s[k])
           /\ planning.given =>
                 /\ CarriesScenario(s[n], planning)
                 /\ \E e \in 1..n : Carries(s, n, e, planning)
<1>1. n \in Nat /\ n \in 1..n
  OBVIOUS
<1>2. a = [k \in 1..n |-> a[k]]
      /\ \A k \in 1..n : a[k].personal = NoPersonal /\ DOMAIN a[k] = SectionFields
  BY AssembledHas
<1>3. Len(a) = n /\ DOMAIN a = 1..n
  BY <1>1, <1>2, LenIs
<1>4. PICK r : r = [k \in 1..n |-> Recast(a[k], k, n, items, planning)]
  OBVIOUS
<1>5. s = IF planning.given THEN BindPersonal(r, planning) ELSE r
  BY <1>3, <1>4 DEF ProposedSections
<1>6. \A k \in 1..n : IsRecast(r[k], a[k], k, n, items, planning) /\ CarriesNothing(r[k])
  <2> SUFFICES ASSUME NEW k \in 1..n
               PROVE  IsRecast(r[k], a[k], k, n, items, planning) /\ CarriesNothing(r[k])
    OBVIOUS
  <2>1. r[k] = Recast(a[k], k, n, items, planning)
    BY <1>4
  <2> QED BY <1>2, <2>1, RecastHas
<1>7. /\ \A k \in 1..n : r[k].kind = "uncertainty" <=> k = n
      /\ \E k \in 1..n : r[k].kind = "explanation-path"
  <2>1. \A g \in 1..5 : GroupKinds[g] = "uncertainty" <=> g = 5
    BY DEF GroupKinds
  <2>2. GroupKinds[3] = "explanation-path"
    BY DEF GroupKinds
  <2>3. PICK e \in 1..n : e = IF n = 9 THEN 5 ELSE 4
    OBVIOUS
  <2>4. \A k \in 1..n : r[k].kind = "uncertainty" <=> k = n
    <3> SUFFICES ASSUME NEW k \in 1..n PROVE r[k].kind = "uncertainty" <=> k = n
      OBVIOUS
    <3>1. PICK g \in 1..5 : g = GroupOf(k, n) /\ (g = 5 <=> k = n)
      BY GroupsHave
    <3>2. r[k].kind = GroupKinds[g]
      BY <1>6, <3>1 DEF IsRecast
    <3> QED BY <2>1, <3>1, <3>2
  <2>5. r[e].kind = "explanation-path"
    <3>1. GroupOf(e, n) = 3
      BY <2>3, GroupsHave
    <3> QED BY <1>6, <2>2, <3>1 DEF IsRecast
  <2> QED BY <2>4, <2>5
<1>8. CASE ~planning.given
  BY <1>4, <1>5, <1>6, <1>8 DEF Lists
<1>9. CASE planning.given
  <2> DEFINE First(kind) == Min({k \in DOMAIN r : r[k].kind = kind})
             channels == [bound |-> TRUE, channels |-> planning.channels, scenario |-> FALSE]
             scenario == [bound |-> TRUE, scenario |-> planning.scenario,
                          channels |-> IF planning.scenario THEN planning.channels ELSE {}]
  <2>1. PICK e : e = First("explanation-path")
    OBVIOUS
  <2>2. DOMAIN r = 1..n
    BY <1>4
  <2>3. First("uncertainty") = n
    <3> DEFINE T == {k \in DOMAIN r : r[k].kind = "uncertainty"}
    <3>1. T = {n}
      BY <1>1, <1>7, <2>2
    <3>2. T \in SUBSET Nat /\ T # {}
      BY <1>1, <3>1
    <3> HIDE DEF T
    <3>3. Min(T) \in T
      BY <3>2, MinIs
    <3> QED BY <3>1, <3>3 DEF T
  <2>4. e \in 1..n /\ e # n
    <3> DEFINE T == {k \in DOMAIN r : r[k].kind = "explanation-path"}
    <3>1. T \in SUBSET Nat /\ T # {}
      BY <1>7, <2>2
    <3>2. Min(T) \in T
      <4> HIDE DEF T
      <4> QED BY <3>1, MinIs
    <3>3. e \in 1..n /\ r[e].kind = "explanation-path"
      BY <2>1, <2>2, <3>2
    <3> QED BY <1>7, <3>3
  <2>5. s = [r EXCEPT
               ![e] = [@ EXCEPT !.posture = "inference", !.personal = channels],
               ![n] = [@ EXCEPT !.posture = "forecast", !.personal = scenario]]
    BY <1>5, <1>9, <2>1, <2>3 DEF BindPersonal
  <2> HIDE DEF First, channels, scenario
  <2>6. PICK x, y : x = r[n] /\ y = r[e]
    OBVIOUS
  <2>7. /\ s[n] = [x EXCEPT !.posture = "forecast", !.personal = scenario]
        /\ s[e] = [y EXCEPT !.posture = "inference", !.personal = channels]
        /\ \A k \in 1..n : k # e /\ k # n => s[k] = r[k]
    BY <1>1, <2>2, <2>4, <2>5, <2>6
  <2>8. IsRecast(x, a[n], n, n, items, planning) /\ IsRecast(y, a[e], e, n, items, planning)
    BY <1>1, <1>6, <2>4, <2>6
  <2>9. /\ IsRecast(s[n], a[n], n, n, items, planning)
        /\ s[n].posture = "forecast" /\ s[n].personal = scenario
    <3>1. PICK z, v, w : z = s[n] /\ v = "forecast" /\ w = scenario
      OBVIOUS
    <3>2. z = BoundTo(x, v, w)
      BY <2>7, <3>1 DEF BoundTo
    <3>3. IsRecast(z, a[n], n, n, items, planning)
      BY <2>8, <3>2, BoundHas
    <3>4. DOMAIN x = SectionFields
      BY <2>8 DEF IsRecast
    <3>5. z.posture = v /\ z.personal = w
      BY <3>2, <3>4 DEF BoundTo, SectionFields
    <3> QED BY <3>1, <3>3, <3>4, <3>5
  <2>10. /\ IsRecast(s[e], a[e], e, n, items, planning)
         /\ s[e].posture = "inference" /\ s[e].personal = channels
    <3>1. PICK z, v, w : z = s[e] /\ v = "inference" /\ w = channels
      OBVIOUS
    <3>2. z = BoundTo(y, v, w)
      BY <2>7, <3>1 DEF BoundTo
    <3>3. IsRecast(z, a[e], e, n, items, planning)
      BY <2>8, <3>2, BoundHas
    <3>4. DOMAIN y = SectionFields
      BY <2>8 DEF IsRecast
    <3>5. z.posture = v /\ z.personal = w
      BY <3>2, <3>4 DEF BoundTo, SectionFields
    <3> QED BY <3>1, <3>3, <3>4, <3>5
  <2>11. CarriesScenario(s[n], planning) /\ CarriesChannels(s[e], planning)
    BY <2>9, <2>10 DEF CarriesScenario, CarriesChannels, scenario, channels
  <2>12. \A k \in 1..n : IsRecast(s[k], a[k], k, n, items, planning)
    BY <1>6, <2>7, <2>9, <2>10
  <2>13. \A k \in 1..n : k # e /\ k # n => CarriesNothing(s[k])
    BY <1>6, <2>7
  <2>14. Lists(s, n)
    BY <1>4, <2>5 DEF Lists
  <2>15. Carries(s, n, e, planning)
    BY <2>11, <2>13 DEF Carries
  <2> QED BY <1>9, <2>4, <2>11, <2>12, <2>14, <2>15
<1> QED BY <1>8, <1>9

\* A valid plan tells what is missing, whichever way it was made.
LEMMA ScriptsDisclose == ContentInv => Disclosed
<1> SUFFICES ASSUME ContentInv, Scripted
             PROVE  \E g \in DOMAIN script.scenes : Tells(script.scenes[g], package.gaps)
  BY DEF Disclosed, Tells
<1>1. PICK s, gaps, scenes : s = plan.sections /\ gaps = package.gaps /\ scenes = script.scenes
  OBVIOUS
<1>2. scenes = Scenes(s, gaps, preference)
  BY <1>1, ScriptedHas
<1>3. PICK c : c = contract.sections
  OBVIOUS
<1>4. c = SectionsFor(PrimaryIntent(question))
  <2>1. contract.status = "ready" /\ contract = CompileContract(question) /\ question.form \in Forms
    BY ScriptedHas
  <2>2. contract = Contract(question)
    BY <2>1 DEF CompileContract, Forms, NoContract
  <2> QED BY <1>3, <2>2 DEF Contract
<1>5. /\ \E n \in {6, 7, 9} : c = [k \in 1..n |-> c[k]]
      /\ \A k \in DOMAIN c : c[k] = "uncertainty" =>
            \/ DOMAIN c = 1..9 /\ k = 7
            \/ DOMAIN c = 1..7 /\ k = 6
            \/ DOMAIN c = 1..6 /\ k = 4
  BY <1>4, SectionsHave
<1>6. PICK n \in {6, 7, 9} : DOMAIN c = 1..n
  BY <1>5
<1>7. ASSUME s = [k \in 1..n |-> s[k]], NEW g \in 1..5, NEW u, Leads(s, n, g, u)
      PROVE  g \in DOMAIN scenes /\ Tells(scenes[g], gaps)
  <2>1. n \in Nat /\ n >= 5 /\ n = Len(s) /\ DOMAIN s = 1..n
    BY <1>7, LenIs
  <2> QED BY <1>2, <1>7, <2>1, SceneTells
<1>8. CASE route = "rules" /\ plan = Assemble(contract, package)
  <2>1. /\ s = AssembledSections(contract, package.items)
        /\ Validated(s, contract, package, NoPlanning).status = "validated"
    BY <1>1, <1>8, ScriptedHas DEF Assemble, Validated
  <2>2. /\ s = [k \in 1..n |-> s[k]]
        /\ \A k \in 1..n : /\ s[k].kind = c[k] /\ s[k].personal = NoPersonal
                           /\ c[k] = "uncertainty" => s[k].discloses
    BY <1>3, <1>6, <2>1, AssembledHas
  <2>3. PICK u \in 1..n : c[u] = "uncertainty"
    <3>1. \E k \in DOMAIN s : s[k].kind = "uncertainty"
      BY <2>1, ValidTells
    <3>2. DOMAIN s = 1..n
      BY <2>2
    <3> QED BY <2>2, <3>1, <3>2
  <2>4. \/ n = 9 /\ u = 7
        \/ n = 7 /\ u = 6
        \/ n = 6 /\ u = 4
    <3>1. 9 \in 1..9 /\ 7 \in 1..7 /\ 9 \notin 1..7 /\ 9 \notin 1..6 /\ 7 \notin 1..6
      OBVIOUS
    <3> QED BY <1>5, <1>6, <2>3, <3>1
  <2>5. PICK g \in 1..5 : u \in Members(g, 5, n) /\ \A k \in Members(g, 5, n) : u <= k
    BY <2>4, UncertaintyLeads
  <2>6. \A k \in Members(g, 5, n) : Scenic(s[k])
    <3>1. Members(g, 5, n) \subseteq 1..n
      BY DEF Members
    <3>2. NoPersonal.channels = {}
      BY DEF NoPersonal
    <3> QED BY <2>2, <3>1, <3>2 DEF Scenic
  <2>7. Leads(s, n, g, u)
    BY <2>2, <2>3, <2>5, <2>6 DEF Leads
  <2> QED BY <1>1, <1>7, <2>2, <2>7
<1>9. CASE route = "local" /\ plan = Propose(contract, package, PlanningOf(question))
  <2>1. PICK items, planning, assembled :
           /\ s = ProposedSections(contract, items, planning)
           /\ assembled = AssembledSections(contract, items)
           /\ DOMAIN contract.sections = 1..n
    BY <1>1, <1>3, <1>6, <1>9, ScriptedHas DEF Propose, Validated, NoPlan
  <2>2. s = [k \in 1..n |-> s[k]] /\ s[n].kind = "uncertainty" /\ s[n].discloses /\ Scenic(s[n])
    <3>1. Lists(s, n)
      BY <2>1, ProposedHas
    <3>2. IsRecast(s[n], assembled[n], n, n, items, planning)
      <4>1. n \in 1..n
        OBVIOUS
      <4> QED BY <2>1, <4>1, ProposedHas
    <3>3. CarriesNothing(s[n]) \/ CarriesScenario(s[n], planning)
      <4>1. n \in 1..n
        OBVIOUS
      <4>2. CASE planning.given
        BY <2>1, <4>2, ProposedHas
      <4>3. CASE ~planning.given
        BY <2>1, <4>1, <4>3, ProposedHas
      <4> QED BY <4>2, <4>3
    <3>4. GroupOf(n, n) = 5 /\ GroupKinds[5] = "uncertainty"
      <4>1. n \in 1..n
        OBVIOUS
      <4> QED BY <4>1, GroupsHave DEF GroupKinds
    <3>5. Scenic(s[n])
      BY <3>3 DEF CarriesNothing, CarriesScenario, Scenic, NoPersonal
    <3> QED BY <3>1, <3>2, <3>4, <3>5 DEF Lists, IsRecast
  <2>3. n \in Members(5, 5, n) /\ \A k \in Members(5, 5, n) : k = n /\ n <= k
    BY GroupsHave
  <2>4. Leads(s, n, 5, n)
    BY <2>2, <2>3 DEF Leads
  <2> QED BY <1>1, <1>7, <2>2, <2>4
<1> QED BY <1>8, <1>9, ScriptedHas

\* Whatever is asked, found and preferred, a script stands on a primary document
\* and two independent ones, and it tells what is missing.
THEOREM ScriptsAreHonestHolds == ContentSpec => []ScriptsAreHonest
BY ContentInvHolds, ScriptsAreGrounded, ScriptsDisclose, PTL DEF ScriptsAreHonest

-----------------------------------------------------------------------------
(* What the validators refuse                                              *)

\* What a plan is made of.
LEMMA PlannedHas ==
    ASSUME ContentInv, plan.status # "none"
    PROVE  /\ contract = Contract(question)
           /\ contract.sections = SectionsFor(PrimaryIntent(question))
           /\ package.items \in Seq(RelevantOf(question, corpus))
           /\ \A x \in RelevantOf(question, corpus) : Known(x)
           /\ Answerable => ~Insufficient(package)
           /\ \/ route = "rules" /\ plan = Assemble(contract, package)
              \/ route = "local" /\ plan = Propose(contract, package, PlanningOf(question))
<1>1. package.status # "none"
  BY DEF ContentInv, PlanMade
<1>2. /\ contract.status = "ready" /\ Collected(corpus)
      /\ package = ContextOf(question, contract, corpus)
  BY <1>1 DEF ContentInv, PackageMade, NoPackage
<1>3. contract = CompileContract(question)
  BY <1>2 DEF ContentInv, ContractMade
<1>4. IsFiniteSet(question.words) /\ question.form \in Forms
  BY ContentAssumption DEF ContentInv
<1>5. contract = Contract(question)
  BY <1>2, <1>3, <1>4 DEF CompileContract, Forms, NoContract
<1>6. contract.sections = SectionsFor(PrimaryIntent(question))
  BY <1>5 DEF Contract
<1>7. PICK items : items = ItemsOf(Selected(question, contract, corpus))
  OBVIOUS
<1>8. package = Package(contract, items)
  BY <1>2, <1>7 DEF ContextOf
<1>9. package.items = items /\ package.gaps = Gaps(contract, items)
  BY <1>8 DEF Package
<1>10. /\ items \in Seq(RelevantOf(question, corpus))
       /\ \A x \in RelevantOf(question, corpus) : Known(x)
  BY <1>2, <1>4, <1>7, ItemsAreFound
<1>11. Answerable => ~Insufficient(package)
  <2> SUFFICES ASSUME Answerable PROVE ~Insufficient(package)
    OBVIOUS
  <2>1. PICK gaps : gaps = Gaps(contract, items)
    OBVIOUS
  <2>2. package.status = CASE items = <<>> -> "no-relevant-context"
                           [] items # <<>> /\ Blocking(gaps) # {} -> "insufficient-evidence"
                           [] OTHER -> IF Partial(contract, items) THEN "partial" ELSE "ready"
    BY <1>8, <2>1 DEF Package
  <2>3. items # <<>> /\ Blocking(gaps) = {}
    BY <2>2 DEF Answerable
  <2> QED BY <1>9, <2>1, <2>3 DEF Insufficient, Answerable
<1>12. \/ route = "rules" /\ plan = Assemble(contract, package)
       \/ route = "local" /\ plan = Propose(contract, package, PlanningOf(question))
  BY DEF ContentInv, PlanMade, Routes
<1> QED BY <1>5, <1>6, <1>9, <1>10, <1>11, <1>12

\* The first section of a contract is the direct answer, and one explains.
LEMMA SectionsOpen ==
    ASSUME NEW i, NEW s, s = SectionsFor(i)
    PROVE  /\ s[1] = "direct-answer"
           /\ \A k \in DOMAIN s : s[k] = "explanation-path" => k \in {4, 5}
<1>1. \/ s = <<"direct-answer", "necessary-background", "supporting-evidence",
              "contradicting-evidence", "confirmed", "uncertainty", "sources">>
      \/ s = <<"direct-answer", "comparison", "comparison", "comparison",
              "explanation-path", "sources">>
      \/ s = <<"direct-answer", "scenarios", "scenarios", "uncertainty",
              "next-verification-signals", "sources">>
      \/ s = StandardSections
  BY DEF SectionsFor
<1>2. CASE s = <<"direct-answer", "necessary-background", "supporting-evidence",
              "contradicting-evidence", "confirmed", "uncertainty", "sources">>
  BY <1>2
<1>3. CASE s = <<"direct-answer", "comparison", "comparison", "comparison",
              "explanation-path", "sources">>
  BY <1>3
<1>4. CASE s = <<"direct-answer", "scenarios", "scenarios", "uncertainty",
              "next-verification-signals", "sources">>
  BY <1>4
<1>5. CASE s = StandardSections
  BY <1>5 DEF StandardSections
<1> QED BY <1>1, <1>2, <1>3, <1>4, <1>5

-----------------------------------------------------------------------------

\* What the validator of plans asks of sections.
Pictured(p, c, items) ==
    /\ ~(c.maps = "optional" /\ p[2].required /\ OnMap(p[2]))
    /\ ~(p[2].mode = "chart" /\ p[2].points \cap PointsOf(ToSet(items)) = {})
Honest(section) ==
    section.personal.bound =>
        /\ "unknown" \in section.personal.channels => section.posture = "unknown"
        /\ section.personal.scenario => section.posture = "forecast"
Few(sections) ==
    /\ ~(Cardinality(VisualsOf(sections))
            + Cardinality({p \in VisualsOf(sections) : p[2].required}) > MaximumScenes)
    /\ ~(Cardinality({k \in DOMAIN sections : sections[k].kind = "explanation-path"})
            > MaximumCausalSteps)

\* It finds nothing in sections that satisfy that.
LEMMA NoErrors ==
    ASSUME NEW sections, NEW c, NEW items, NEW planning,
           sections[1].kind = "direct-answer",
           \E k \in DOMAIN sections : sections[k].kind = "uncertainty",
           Few(sections),
           \A p \in VisualsOf(sections) : Pictured(p, c, items),
           \A k \in DOMAIN sections : Honest(sections[k]),
           planning.given = (Personal(sections) # {})
    PROVE  PlanErrors(sections, c, items, planning) = {}
<1> SUFFICES ASSUME NEW e \in PlanErrors(sections, c, items, planning) PROVE FALSE
  OBVIOUS
<1> DEFINE errors == PlanErrors(sections, c, items, planning)
<1>1. e # "INVALID_SECTION_ORDER" /\ e # "UNCERTAINTY_REQUIREMENT_MISSING"
  BY DEF PlanErrors
<1>2. e # "STOP_CONDITION_EXCEEDED"
  BY DEF PlanErrors, Few
<1>3. e # "VISUAL_POLICY_VIOLATION"
  BY DEF PlanErrors, Pictured
<1>4. e # "UNSUPPORTED_FACT_PROMOTION" /\ e # "FORECAST_ASSUMPTION_MISSING"
  BY DEF PlanErrors, Personal, Honest
<1>5. e # "PERSONAL_IMPACT_LINEAGE_MISMATCH"
  BY DEF PlanErrors
<1> QED BY <1>1, <1>2, <1>3, <1>4, <1>5 DEF PlanErrors

\* What sections that are valid satisfy.
LEMMA ValidHas ==
    ASSUME NEW sections, NEW c, NEW among, NEW planning,
           Validated(sections, c, among, planning).status = "validated"
    PROVE  /\ ~Insufficient(among)
           /\ \A p \in VisualsOf(sections) : Pictured(p, c, among.items)
           /\ ~(planning.given # (Personal(sections) # {}))
<1>1. PlanErrors(sections, c, among.items, planning) = {} /\ ~Insufficient(among)
  BY DEF Validated
<1>2. /\ "VISUAL_POLICY_VIOLATION" \notin PlanErrors(sections, c, among.items, planning)
      /\ "PERSONAL_IMPACT_LINEAGE_MISMATCH" \notin PlanErrors(sections, c, among.items, planning)
  BY <1>1
<1>3. \A p \in VisualsOf(sections) : Pictured(p, c, among.items)
  BY <1>2 DEF PlanErrors, Pictured
<1>4. ~(planning.given # (Personal(sections) # {}))
  BY <1>2 DEF PlanErrors
<1> QED BY <1>1, <1>3, <1>4

\* A visual of a plan is a visual of one of its sections.
LEMMA VisualsAre ==
    ASSUME NEW sections, NEW p \in VisualsOf(sections)
    PROVE  \E k \in DOMAIN sections : \E v \in sections[k].visuals : p = <<k, v>>
BY DEF VisualsOf

\* There is something to show in what it is of.
CanShow(mode, cs) == \E x \in cs : mode = "chart" => x.points # {}
ShowsNone(y) == y.visuals = {}
ShowsOne(y, mode) == y.visuals = {Visual(mode, FALSE, y.bound)} /\ CanShow(mode, y.bound)
OnlyShows(m, sections, D, mode) ==
    \A k \in D : ShowsNone(sections[k]) \/ (k = m /\ ShowsOne(sections[k], mode))

\* One section of the assembler shows a visual, at most.
LEMMA AssembledShows ==
    ASSUME NEW c, DOMAIN c.sections \in SUBSET Nat, NEW items,
           NEW s, s = AssembledSections(c, items), NEW mode, mode = VisualMode(ToSet(items))
    PROVE  /\ \A k \in DOMAIN c.sections : s[k].bound \subseteq ToSet(items)
           /\ \E m : OnlyShows(m, s, DOMAIN c.sections, mode)
<1> DEFINE bare == [k \in DOMAIN c.sections |-> Section(c.sections[k], items)]
           shows == VisualSections(mode, bare)
           lit(k) == [bare[k] EXCEPT !.visuals = {Visual(mode, FALSE, bare[k].bound)}]
<1>1. s = [k \in DOMAIN c.sections |->
              IF shows # {} /\ k = Min(shows) THEN lit(k) ELSE bare[k]]
  BY DEF AssembledSections
<1>2. ASSUME NEW k \in DOMAIN c.sections
      PROVE  /\ bare[k].bound \subseteq ToSet(items) /\ bare[k].visuals = {}
             /\ lit(k).bound = bare[k].bound
             /\ lit(k).visuals = {Visual(mode, FALSE, bare[k].bound)}
  <2>1. PICK kind, b : kind = c.sections[k] /\ b = bare[k]
    OBVIOUS
  <2>2. PICK cs : cs = ItemsFor(kind, items)
    OBVIOUS
  <2>3. b = [kind |-> kind, bound |-> cs, posture |-> Posture(kind),
             discloses |-> kind \in {"uncertainty", "scenarios"},
             places |-> PlacesOf(cs), visuals |-> {}, personal |-> NoPersonal]
    BY <2>1, <2>2 DEF Section
  <2>4. cs \subseteq ToSet(items)
    BY <2>2 DEF ItemsFor, ToSet
  <2>5. b.bound = cs /\ b.visuals = {}
    BY <2>3
  <2>6. \A v : [b EXCEPT !.visuals = v].bound = b.bound /\ [b EXCEPT !.visuals = v].visuals = v
    BY <2>3
  <2> HIDE DEF bare
  <2> QED BY <2>1, <2>4, <2>5, <2>6
<1>3. shows \in SUBSET Nat /\ \A k \in shows : k \in DOMAIN c.sections /\ CanShow(mode, bare[k].bound)
  BY DEF VisualSections, CanShow
<1>4. shows # {} => Min(shows) \in shows
  <2> HIDE DEF shows
  <2> QED BY <1>3, MinIs
<1> HIDE DEF bare, shows, lit
<1>5. \A k \in DOMAIN c.sections : s[k].bound \subseteq ToSet(items)
  BY <1>1, <1>2
<1>6. PICK m : m = Min(shows)
  OBVIOUS
<1>7. ASSUME NEW k \in DOMAIN c.sections
      PROVE  ShowsNone(s[k]) \/ (k = m /\ ShowsOne(s[k], mode))
  <2>1. CASE shows # {} /\ k = m
    <3>1. s[k] = lit(k) /\ k \in shows
      BY <1>1, <1>4, <1>6, <2>1
    <3>2. s[k].visuals = {Visual(mode, FALSE, s[k].bound)} /\ s[k].bound = bare[k].bound
      BY <1>2, <3>1
    <3>3. CanShow(mode, bare[k].bound)
      BY <1>3, <3>1
    <3> QED BY <2>1, <3>2, <3>3 DEF ShowsOne
  <2>2. CASE ~(shows # {} /\ k = m)
    <3>1. s[k] = bare[k]
      BY <1>1, <1>6, <2>2
    <3> QED BY <1>2, <3>1 DEF ShowsNone
  <2> QED BY <2>1, <2>2
<1>8. OnlyShows(m, s, DOMAIN c.sections, mode)
  BY <1>7 DEF OnlyShows
<1> QED BY <1>5, <1>8

\* What is measured in some of the evidence is measured in all of it.
LEMMA PointsGrow ==
    ASSUME NEW cs, NEW all, cs \subseteq all, \E x \in cs : x.points # {}
    PROVE  PointsOf(cs) # {} /\ PointsOf(cs) \cap PointsOf(all) # {}
<1>1. PICK x \in cs : x.points # {}
  OBVIOUS
<1>2. PICK e : e \in x.points
  BY <1>1
<1>3. e \in PointsOf(cs) /\ e \in PointsOf(all)
  BY <1>1, <1>2 DEF PointsOf
<1> QED BY <1>3

\* The validator finds nothing in a plan of the assembler that has a section on
\* what is uncertain.
LEMMA AssembledIsValid ==
    ASSUME NEW c, NEW i, c.sections = SectionsFor(i), NEW items,
           NEW s, s = AssembledSections(c, items),
           \E k \in DOMAIN c.sections : c.sections[k] = "uncertainty"
    PROVE  PlanErrors(s, c, items, NoPlanning) = {}
<1>1. PICK n \in {6, 7, 9} : DOMAIN c.sections = 1..n
  BY SectionsHave
<1>2. PICK mode : mode = VisualMode(ToSet(items))
  OBVIOUS
<1>3. /\ s = [k \in 1..n |-> s[k]]
      /\ \A k \in 1..n : s[k].kind = c.sections[k] /\ s[k].personal = NoPersonal
  BY <1>1, AssembledHas
<1>4. /\ \A k \in 1..n : s[k].bound \subseteq ToSet(items)
      /\ \E m : OnlyShows(m, s, 1..n, mode)
  <2>1. DOMAIN c.sections \in SUBSET Nat
    BY <1>1
  <2>2. \A k \in DOMAIN c.sections : s[k].bound \subseteq ToSet(items)
    BY <2>1, AssembledShows
  <2>3. \E m : OnlyShows(m, s, DOMAIN c.sections, mode)
    BY <1>2, <2>1, AssembledShows
  <2> QED BY <1>1, <2>2, <2>3
<1>5. PICK m : \A k \in 1..n : ShowsNone(s[k]) \/ (k = m /\ ShowsOne(s[k], mode))
  BY <1>4 DEF OnlyShows
<1>6. DOMAIN s = 1..n
  BY <1>3
<1>7. ASSUME NEW p \in VisualsOf(s)
      PROVE  /\ p = <<m, Visual(mode, FALSE, s[m].bound)>> /\ m \in 1..n
             /\ CanShow(mode, s[m].bound)
  <2>1. PICK k \in 1..n : \E v \in s[k].visuals : p = <<k, v>>
    BY <1>6, VisualsAre
  <2>2. PICK v \in s[k].visuals : p = <<k, v>>
    BY <2>1
  <2>3. k = m /\ ShowsOne(s[k], mode)
    BY <1>5, <2>2 DEF ShowsNone
  <2> QED BY <2>2, <2>3 DEF ShowsOne
<1>8. s[1].kind = "direct-answer"
  BY <1>1, <1>3, SectionsOpen
<1>9. \E k \in DOMAIN s : s[k].kind = "uncertainty"
  BY <1>1, <1>3, <1>6
<1>10. Few(s)
  <2> DEFINE V == VisualsOf(s)
             R == {p \in VisualsOf(s) : p[2].required}
             E == {k \in DOMAIN s : s[k].kind = "explanation-path"}
  <2>1. PICK x : x = <<m, Visual(mode, FALSE, s[m].bound)>>
    OBVIOUS
  <2>2. V \subseteq {x}
    BY <1>7, <2>1
  <2>3. R = {}
    <3>1. ASSUME NEW p \in VisualsOf(s) PROVE ~p[2].required
      <4>1. PICK v : v = Visual(mode, FALSE, s[m].bound) /\ p = <<m, v>>
        BY <1>7
      <4>2. p[2] = v /\ v.required = FALSE
        BY <4>1 DEF Visual
      <4> QED BY <4>2
    <3> QED BY <3>1
  <2>4. E \subseteq {4, 5}
    BY <1>1, <1>3, <1>6, SectionsOpen
  <2> HIDE DEF V, R, E
  <2>5. Cardinality(V) \in Nat /\ Cardinality(V) <= 1
    <3>1. IsFiniteSet({x}) /\ Cardinality({x}) = 1
      BY FS_Singleton
    <3> QED BY <2>2, <3>1, FS_Subset, FS_CardinalityType
  <2>6. Cardinality(R) = 0
    BY <2>3, FS_EmptySet
  <2>7. Cardinality(E) \in Nat /\ Cardinality(E) <= 2
    <3>1. 4..5 = {4, 5}
      OBVIOUS
    <3>2. IsFiniteSet(4..5) /\ Cardinality(4..5) = 2
      <4>1. 4 \in Int /\ 5 \in Int
        OBVIOUS
      <4>2. IsFiniteSet(4..5) /\ Cardinality(4..5) = IF 4 > 5 THEN 0 ELSE 5 - 4 + 1
        BY <4>1, FS_Interval
      <4> QED BY <4>2
    <3>3. E \in SUBSET (4..5)
      BY <2>4, <3>1
    <3> QED BY <3>2, <3>3, FS_Subset, FS_CardinalityType
  <2>8. ~(Cardinality(V) + Cardinality(R) > 7) /\ ~(Cardinality(E) > 6)
    BY <2>5, <2>6, <2>7
  <2> QED BY <2>8 DEF Few, V, R, E, MaximumScenes, MaximumCausalSteps
<1>11. \A p \in VisualsOf(s) : Pictured(p, c, items)
  <2> SUFFICES ASSUME NEW p \in VisualsOf(s) PROVE Pictured(p, c, items)
    OBVIOUS
  <2>1. PICK cs, v : /\ cs = s[m].bound /\ v = Visual(mode, FALSE, cs)
                     /\ p = <<m, v>> /\ m \in 1..n /\ CanShow(mode, cs)
    BY <1>7
  <2>2. v.required = FALSE /\ v.mode = mode /\ v.points = PointsOf(cs)
    BY <2>1 DEF Visual
  <2>3. mode = "chart" => v.points \cap PointsOf(ToSet(items)) # {}
    <3> SUFFICES ASSUME mode = "chart" PROVE v.points \cap PointsOf(ToSet(items)) # {}
      OBVIOUS
    <3>1. cs \subseteq ToSet(items) /\ \E x \in cs : x.points # {}
      BY <1>4, <2>1 DEF CanShow
    <3> QED BY <2>2, <3>1, PointsGrow
  <2>4. p[2] = v
    BY <2>1
  <2> QED BY <2>2, <2>3, <2>4 DEF Pictured
<1>12. /\ \A k \in DOMAIN s : Honest(s[k])
       /\ NoPlanning.given = (Personal(s) # {})
  <2>1. \A k \in DOMAIN s : s[k].personal.bound = FALSE
    BY <1>3, <1>6 DEF NoPersonal
  <2>2. Personal(s) = {}
    BY <2>1 DEF Personal
  <2> QED BY <2>1, <2>2 DEF Honest, NoPlanning
<1> QED BY <1>8, <1>9, <1>10, <1>11, <1>12, NoErrors

\* By the rules, answerable evidence makes a plan unless the contract has no
\* section on what is uncertain.
LEMMA AssembledPlansHold == ContentInv => AssembledPlansAreValid
<1> SUFFICES ASSUME ContentInv, route = "rules", Answerable, plan.status # "none"
             PROVE  plan.status = "validated" <=> "uncertainty" \in ToSet(contract.sections)
  BY DEF AssembledPlansAreValid
<1>1. /\ ~Insufficient(package) /\ plan = Assemble(contract, package)
      /\ contract.sections = SectionsFor(PrimaryIntent(question))
  BY PlannedHas
<1>2. PICK s, items, c : /\ items = package.items /\ c = contract
                         /\ s = AssembledSections(c, items)
  OBVIOUS
<1>3. plan = Validated(s, c, package, NoPlanning)
  BY <1>1, <1>2 DEF Assemble
<1>4. "uncertainty" \in ToSet(c.sections) <=>
         \E k \in DOMAIN c.sections : c.sections[k] = "uncertainty"
  BY DEF ToSet
<1>5. ASSUME "uncertainty" \in ToSet(c.sections) PROVE plan.status = "validated"
  <2>1. PlanErrors(s, c, items, NoPlanning) = {}
    BY <1>1, <1>2, <1>4, <1>5, AssembledIsValid
  <2> QED BY <1>1, <1>2, <1>3, <2>1 DEF Validated
<1>6. ASSUME plan.status = "validated" PROVE "uncertainty" \in ToSet(c.sections)
  <2>1. \E k \in DOMAIN s : s[k].kind = "uncertainty"
    BY <1>3, <1>6, ValidTells
  <2>2. /\ s = [k \in DOMAIN c.sections |-> s[k]]
        /\ \A k \in DOMAIN c.sections : s[k].kind = c.sections[k]
    BY <1>2, AssembledHas
  <2>3. DOMAIN s = DOMAIN c.sections
    BY <2>2
  <2> QED BY <1>4, <2>1, <2>2, <2>3
<1> QED BY <1>2, <1>5, <1>6

\* Every section is in one of the five scenes, and they hold nothing else.
LEMMA MembersCover ==
    ASSUME NEW n \in {6, 7, 9}
    PROVE  /\ \A g \in 1..5 : Members(g, 5, n) \subseteq 1..n
           /\ \A k \in 1..n : \E g \in 1..5 : k \in Members(g, 5, n)
<1>1. \A g \in 1..5 : Members(g, 5, n) \subseteq 1..n
  BY DEF Members
<1>2. ASSUME NEW k \in 1..n PROVE \E g \in 1..5 : k \in Members(g, 5, n)
  <2>1. GroupOf(k, n) \in 1..5
    BY GroupsHave
  <2>2. PICK q \in Int : q = ((k - 1) * 5) \div n
    OBVIOUS
  <2>3. GroupOf(k, n) = q + 1
    BY <2>2 DEF GroupOf, GroupKinds
  <2>4. PICK g \in 1..5 : g = q + 1
    BY <2>1, <2>3
  <2>5. q = g - 1
    BY <2>4
  <2>6. k \in Members(g, 5, n)
    BY <2>2, <2>5 DEF Members
  <2> QED BY <2>6
<1> QED BY <1>1, <1>2

\* What a scene makes of its sections.
Joins(scene, sections, S, p) ==
    /\ scene.steps = S
    /\ \A x : x \in scene.bound <=> \E k \in S : x \in sections[k].bound
    /\ \A w : w \in scene.visuals <=>
                 \E k \in S : \E v \in sections[k].visuals : w = Shown(v, p)
    /\ scene.personal <=> \E k \in S : sections[k].personal.bound

\* A scene joins the sections it is made of.
LEMMA SceneJoins ==
    ASSUME NEW sections, NEW S, NEW gaps, NEW p, NEW scene, scene = Scene(sections, S, gaps, p)
    PROVE  Joins(scene, sections, S, p)
<1> DEFINE within == {sections[k] : k \in S}
           personal == {y.personal : y \in within}
<1>1. /\ scene.steps = S /\ scene.bound = UNION {y.bound : y \in within}
      /\ scene.visuals = {Shown(v, p) : v \in UNION {y.visuals : y \in within}}
      /\ scene.personal = \E q \in personal : q.bound
  BY DEF Scene
<1>2. \A x : x \in scene.bound <=> \E k \in S : x \in sections[k].bound
  BY <1>1
<1>3. \A v : v \in UNION {y.visuals : y \in within} <=> \E k \in S : v \in sections[k].visuals
  OBVIOUS
<1>4. \A w : w \in scene.visuals <=>
                \E k \in S : \E v \in sections[k].visuals : w = Shown(v, p)
  <2> HIDE DEF within
  <2>1. \A w : w \in scene.visuals <=>
                  \E v \in UNION {y.visuals : y \in within} : w = Shown(v, p)
    BY <1>1
  <2> QED BY <1>3, <2>1
<1>5. scene.personal <=> \E k \in S : sections[k].personal.bound
  BY <1>1
<1> QED BY <1>1, <1>2, <1>4, <1>5 DEF Joins

-----------------------------------------------------------------------------

\* What there is to show of a visual is in the evidence it comes with.
Showable(v, cs) ==
    /\ v.mode = "chart" => v.points # {} /\ v.points \subseteq PointsOf(cs)
    /\ v.mode = "document" => cs # {}
    /\ OnMap(v) => v.places \subseteq PlacesOf(cs)

Undocumented(sections) ==
    \E k \in DOMAIN sections : \E x \in sections[k].bound : x.documents = <<>>
\* A map that is to move and may not, or has nowhere to go.
Immovable(v, p) ==
    /\ p.mode \notin Still /\ OnMap(v)
    /\ p.animation = "disabled" \/ (v.places = {} /\ v.entities = {})

\* Sections of evidence, with what there is to show of their visuals; and what is
\* withheld of them.
Drawn(s, n) ==
    /\ DOMAIN s = 1..n /\ Len(s) = n
    /\ \A k \in 1..n : \A x \in s[k].bound : Known(x)
    /\ \A k \in 1..n : \A v \in s[k].visuals : Showable(v, s[k].bound)
Withheld(s, n, p) ==
    Undocumented(s) \/ \E k \in 1..n : \E v \in s[k].visuals : Immovable(v, p)

\* Of evidence that is documented the validator refuses a visual when it moves
\* and may not.
LEMMA VisualRefusedFor ==
    ASSUME NEW scene, NEW v, NEW p, NEW cs, Showable(v, cs),
           cs \subseteq scene.bound,
           \A x \in scene.bound : Known(x) /\ x.documents # <<>>,
           NEW w, w = Shown(v, p)
    PROVE  VisualRefused(scene, w, p) <=> Immovable(v, p)
<1>1. /\ w.mode = IF p.mode = "static" THEN "text" ELSE v.mode
      /\ w.moves = (OnMap(v) /\ p.mode \notin Still)
      /\ w.places = v.places /\ w.entities = v.entities /\ w.points = v.points
  BY DEF Shown
<1>2. ASSUME Immovable(v, p) PROVE VisualRefused(scene, w, p)
  BY <1>1, <1>2 DEF Immovable, VisualRefused
<1>3. ASSUME ~Immovable(v, p) PROVE ~VisualRefused(scene, w, p)
  <2>1. ~(w.moves /\ w.places = {} /\ w.entities = {})
    BY <1>1, <1>3 DEF Immovable
  <2>2. ~(w.moves /\ p.animation = "disabled")
    BY <1>1, <1>3 DEF Immovable
  <2>3. w.mode = "text" \/ w.mode = v.mode
    BY <1>1
  <2>4. ~(w.mode = "chart" /\ (w.points = {} \/ ~(w.points \subseteq PointsOf(scene.bound))))
    <3> SUFFICES ASSUME w.mode = "chart"
                 PROVE  w.points # {} /\ w.points \subseteq PointsOf(scene.bound)
      OBVIOUS
    <3>1. v.mode = "chart"
      BY <2>3
    <3>2. w.points # {} /\ w.points \subseteq PointsOf(cs)
      BY <1>1, <3>1 DEF Showable
    <3>3. PointsOf(cs) \subseteq PointsOf(scene.bound)
      BY DEF PointsOf
    <3> QED BY <3>2, <3>3
  <2>5. ~(w.mode = "document" /\ SourcesOf(scene.bound) = {})
    <3> SUFFICES ASSUME w.mode = "document" PROVE SourcesOf(scene.bound) # {}
      OBVIOUS
    <3>1. cs # {}
      BY <2>3 DEF Showable
    <3>2. PICK x \in scene.bound : x \in cs
      BY <3>1
    <3>3. x.documents \in Seq(Nat) /\ x.documents # <<>>
      BY <3>2 DEF Known
    <3>4. 1 \in DOMAIN x.documents
      BY <3>3
    <3>5. x.documents[1] \in ToSet(x.documents)
      BY <3>4 DEF ToSet
    <3> QED BY <3>5 DEF SourcesOf
  <2>6. ~(OnMap(w) /\ ~(w.places \subseteq PlacesOf(scene.bound)))
    <3> SUFFICES ASSUME OnMap(w) PROVE w.places \subseteq PlacesOf(scene.bound)
      OBVIOUS
    <3>1. OnMap(v)
      BY <2>3 DEF OnMap
    <3>2. w.places \subseteq PlacesOf(cs)
      BY <1>1, <3>1 DEF Showable
    <3>3. PlacesOf(cs) \subseteq PlacesOf(scene.bound)
      BY DEF PlacesOf
    <3> QED BY <3>2, <3>3
  <2> QED BY <2>1, <2>2, <2>4, <2>5, <2>6 DEF VisualRefused
<1> QED BY <1>2, <1>3

\* What the validator of scripts refuses in the scenes of sections like these.
LEMMA RefusedFor ==
    ASSUME NEW n \in {6, 7, 9}, NEW s, Drawn(s, n),
           NEW made, made.sections = s,
           ~(made.personal # (Personal(s) # {})),
           NEW gaps, NEW p, NEW scenes, scenes = Scenes(s, gaps, p)
    PROVE  Refused(scenes, made, p) <=> Withheld(s, n, p)
<1> USE DEF Drawn
<1>1. scenes = [g \in 1..5 |-> Scene(s, Members(g, 5, n), gaps, p)]
  BY DEF Scenes, MiddleScenes, MaximumScenes
<1>2. DOMAIN scenes = 1..5 /\ scenes = [g \in 1..5 |-> scenes[g]]
  BY <1>1
<1>3. Len(scenes) = 5
  BY <1>2, LenIs
<1>4. \A g \in 1..5 : Joins(scenes[g], s, Members(g, 5, n), p)
  <2> SUFFICES ASSUME NEW g \in 1..5 PROVE Joins(scenes[g], s, Members(g, 5, n), p)
    OBVIOUS
  <2>1. scenes[g] = Scene(s, Members(g, 5, n), gaps, p)
    BY <1>1
  <2> QED BY <2>1, SceneJoins
<1>5. ~(Len(scenes) + 2 > MaximumScenes)
  BY <1>3 DEF MaximumScenes
<1>6. DOMAIN made.sections = UNION {scenes[g].steps : g \in DOMAIN scenes}
  <2>1. \A g \in 1..5 : scenes[g].steps = Members(g, 5, n)
    BY <1>4 DEF Joins
  <2> QED BY <1>2, <2>1, MembersCover
<1>7. made.personal <=> \E g \in DOMAIN scenes : scenes[g].personal
  <2>1. made.personal <=> \E k \in 1..n : s[k].personal.bound
    BY DEF Personal
  <2>2. \A g \in 1..5 : scenes[g].personal <=> \E k \in Members(g, 5, n) : s[k].personal.bound
    BY <1>4 DEF Joins
  <2> QED BY <1>2, <2>1, <2>2, MembersCover
<1>8. (\E g \in DOMAIN scenes : \E x \in scenes[g].bound : x.documents = <<>>) <=> Undocumented(s)
  <2>1. \A g \in 1..5 : \A x : x \in scenes[g].bound <=> \E k \in Members(g, 5, n) : x \in s[k].bound
    BY <1>4 DEF Joins
  <2>2. ASSUME NEW g \in 1..5, NEW x \in scenes[g].bound, x.documents = <<>>
        PROVE  Undocumented(s)
    <3>1. PICK k \in Members(g, 5, n) : x \in s[k].bound
      BY <2>1, <2>2
    <3> QED BY <2>2, <3>1, MembersCover DEF Undocumented
  <2>3. ASSUME NEW k \in 1..n, NEW x \in s[k].bound, x.documents = <<>>
        PROVE  \E g \in 1..5 : \E y \in scenes[g].bound : y.documents = <<>>
    <3>1. PICK g \in 1..5 : k \in Members(g, 5, n)
      BY MembersCover
    <3>2. x \in scenes[g].bound
      BY <2>1, <2>3, <3>1
    <3> QED BY <2>3, <3>2
  <2> QED BY <1>2, <2>2, <2>3 DEF Undocumented
<1>9. ASSUME ~Undocumented(s)
      PROVE  (\E g \in DOMAIN scenes : \E w \in scenes[g].visuals : VisualRefused(scenes[g], w, p))
                <=> \E k \in 1..n : \E v \in s[k].visuals : Immovable(v, p)
  <2>1. ASSUME NEW g \in 1..5, NEW k \in Members(g, 5, n), NEW v \in s[k].visuals
        PROVE  VisualRefused(scenes[g], Shown(v, p), p) <=> Immovable(v, p)
    <3>1. PICK scene, w, cs : scene = scenes[g] /\ w = Shown(v, p) /\ cs = s[k].bound
      OBVIOUS
    <3>2. k \in 1..n
      BY <2>1, MembersCover
    <3>3. Showable(v, cs)
      BY <2>1, <3>1, <3>2
    <3>4. \A x : x \in scene.bound <=> \E j \in Members(g, 5, n) : x \in s[j].bound
      BY <1>4, <3>1 DEF Joins
    <3>5. cs \subseteq scene.bound
      BY <2>1, <3>1, <3>4
    <3>6. \A x \in scene.bound : Known(x) /\ x.documents # <<>>
      BY <1>9, <3>4, MembersCover DEF Undocumented
    <3> QED BY <3>1, <3>3, <3>5, <3>6, VisualRefusedFor
  <2>2. \A g \in 1..5 : \A w : w \in scenes[g].visuals <=>
           \E k \in Members(g, 5, n) : \E v \in s[k].visuals : w = Shown(v, p)
    BY <1>4 DEF Joins
  <2>3. ASSUME NEW g \in 1..5, NEW w \in scenes[g].visuals, VisualRefused(scenes[g], w, p)
        PROVE  \E k \in 1..n : \E v \in s[k].visuals : Immovable(v, p)
    <3>1. PICK k \in Members(g, 5, n) : \E v \in s[k].visuals : w = Shown(v, p)
      BY <2>2, <2>3
    <3>2. PICK v \in s[k].visuals : w = Shown(v, p)
      BY <3>1
    <3>3. Immovable(v, p)
      BY <2>1, <2>3, <3>2
    <3> QED BY <3>3, MembersCover
  <2>4. ASSUME NEW k \in 1..n, NEW v \in s[k].visuals, Immovable(v, p)
        PROVE  \E g \in 1..5 : \E w \in scenes[g].visuals : VisualRefused(scenes[g], w, p)
    <3>1. PICK g \in 1..5 : k \in Members(g, 5, n)
      BY MembersCover
    <3>2. VisualRefused(scenes[g], Shown(v, p), p)
      BY <2>1, <2>4, <3>1
    <3>3. Shown(v, p) \in scenes[g].visuals
      BY <2>2, <2>4, <3>1
    <3> QED BY <3>2, <3>3
  <2> QED BY <1>2, <2>3, <2>4
<1>10. Refused(scenes, made, p) <=>
          \/ \E g \in DOMAIN scenes : \E x \in scenes[g].bound : x.documents = <<>>
          \/ \E g \in DOMAIN scenes : \E w \in scenes[g].visuals :
                VisualRefused(scenes[g], w, p)
  BY <1>5, <1>6, <1>7 DEF Refused
<1> QED BY <1>8, <1>9, <1>10 DEF Withheld

\* Sections with what there is to show of their visuals.
Shows(s, n, items) ==
    /\ Lists(s, n)
    /\ \A k \in 1..n : s[k].bound \subseteq ToSet(items)
    /\ \A k \in 1..n : \A v \in s[k].visuals : Showable(v, s[k].bound)

\* A plan of the assembler binds what its visuals show.
LEMMA AssembledCanShow ==
    ASSUME NEW c, NEW n \in {6, 7, 9}, DOMAIN c.sections = 1..n, NEW items,
           NEW s, s = AssembledSections(c, items)
    PROVE  Shows(s, n, items)
<1>1. PICK mode : mode = VisualMode(ToSet(items))
  OBVIOUS
<1>2. DOMAIN c.sections \in SUBSET Nat
  OBVIOUS
<1>3. \A k \in DOMAIN c.sections : s[k].bound \subseteq ToSet(items)
  BY <1>2, AssembledShows
<1>4. \E m : OnlyShows(m, s, DOMAIN c.sections, mode)
  BY <1>1, <1>2, AssembledShows
<1>5. PICK m : \A k \in 1..n : ShowsNone(s[k]) \/ (k = m /\ ShowsOne(s[k], mode))
  <2>1. PICK m : OnlyShows(m, s, 1..n, mode)
    BY <1>4
  <2> QED BY <2>1 DEF OnlyShows
<1>6. s = [k \in 1..n |-> s[k]]
  BY AssembledHas
<1>7. ASSUME NEW k \in 1..n, NEW v \in s[k].visuals PROVE Showable(v, s[k].bound)
  <2>1. PICK cs : cs = s[k].bound
    OBVIOUS
  <2>2. v = Visual(mode, FALSE, cs) /\ CanShow(mode, cs)
    BY <1>5, <1>7, <2>1 DEF ShowsNone, ShowsOne
  <2>3. v.mode = mode /\ v.points = PointsOf(cs) /\ v.places = PlacesOf(cs)
    BY <2>2 DEF Visual
  <2>4. mode = "chart" => PointsOf(cs) # {}
    BY <2>2, PointsGrow DEF CanShow
  <2>5. cs # {}
    BY <2>2 DEF CanShow
  <2> QED BY <2>1, <2>3, <2>4, <2>5 DEF Showable
<1> QED BY <1>3, <1>6, <1>7 DEF Shows, Lists

\* A local proposal binds what its visuals show, where it may show it.
LEMMA ProposedCanShow ==
    ASSUME NEW c, NEW n \in {6, 7, 9}, DOMAIN c.sections = 1..n, NEW items, NEW planning,
           NEW s, s = ProposedSections(c, items, planning),
           \A k \in DOMAIN s : s[k].places \subseteq PlacesOf(ToSet(items)),
           \A p \in VisualsOf(s) : Pictured(p, c, items)
    PROVE  Shows(s, n, items)
<1>1. PICK a : a = AssembledSections(c, items)
  OBVIOUS
<1>2. Lists(s, n)
  BY <1>1, ProposedHas
<1>3. \A k \in 1..n : IsRecast(s[k], a[k], k, n, items, planning)
  BY <1>1, ProposedHas
<1>4. \A k \in 1..n : a[k].bound \subseteq ToSet(items)
  BY <1>1, AssembledCanShow DEF Shows
<1>5. DOMAIN s = 1..n
  BY <1>2 DEF Lists
<1>6. \A k \in 1..n : s[k].bound \subseteq ToSet(items)
  BY <1>3, <1>4 DEF IsRecast, Concerned
<1>7. ASSUME NEW k \in 1..n, NEW v \in s[k].visuals PROVE Showable(v, s[k].bound)
  <2>1. PICK g \in 1..5 : g = GroupOf(k, n)
    BY GroupsHave
  <2>2. v = GroupVisual(g, items, planning)
    BY <1>3, <1>7, <2>1 DEF IsRecast
  <2>3. PICK cs, all : cs = s[k].bound /\ all = ToSet(items)
    OBVIOUS
  <2>4. /\ v.mode = GroupModes[g] /\ v.places = GroupPlaces[g]
        /\ v.mode = "chart" => v.points = PointsOf(all)
    BY <2>2, <2>3 DEF GroupVisual
  <2>5. Concerned(g, items) \subseteq cs
    BY <1>3, <2>1, <2>3 DEF IsRecast
  <2>6. ASSUME v.mode = "chart" PROVE v.points # {} /\ v.points \subseteq PointsOf(cs)
    <3>1. PICK p : p = <<k, v>>
      OBVIOUS
    <3>2. p \in VisualsOf(s)
      BY <1>5, <1>7, <3>1 DEF VisualsOf
    <3>3. Pictured(p, c, items) /\ p[2] = v
      BY <3>1, <3>2
    <3>4. v.points # {}
      BY <2>6, <3>3 DEF Pictured
    <3>5. \A x \in all : x.points # {} => x \in cs
      BY <2>3, <2>4, <2>5, <2>6 DEF Concerned
    <3>6. PointsOf(all) \subseteq PointsOf(cs)
      BY <3>5 DEF PointsOf
    <3> QED BY <2>4, <2>6, <3>4, <3>6
  <2>7. v.mode # "document"
    BY <2>4 DEF GroupModes
  <2>8. v.places \subseteq PlacesOf(cs)
    <3> SUFFICES ASSUME NEW place \in GroupPlaces[g] PROVE place \in PlacesOf(cs)
      BY <2>4
    <3>1. s[k].places = GroupPlaces[g]
      BY <1>3, <2>1 DEF IsRecast
    <3>2. place \in PlacesOf(all)
      BY <1>5, <2>3, <3>1
    <3>3. PICK x \in all : place \in x.places
      BY <3>2 DEF PlacesOf
    <3>4. x \in Concerned(g, items)
      BY <2>3, <3>3 DEF Concerned
    <3> QED BY <2>5, <3>3, <3>4 DEF PlacesOf
  <2> QED BY <2>3, <2>6, <2>7, <2>8 DEF Showable
<1> QED BY <1>2, <1>6, <1>7 DEF Shows

\* A local proposal that is valid names nothing it was not allowed to.
LEMMA ProposeIs ==
    ASSUME NEW c, NEW among, NEW planning, NEW made, made = Propose(c, among, planning),
           made.status = "validated",
           NEW s, s = ProposedSections(c, among.items, planning)
    PROVE  /\ made = Validated(s, c, among, planning)
           /\ \A k \in DOMAIN s : s[k].places \subseteq PlacesOf(ToSet(among.items))
<1>1. PICK places : places = UNION {s[k].places : k \in DOMAIN s}
  OBVIOUS
<1>2. made = IF Insufficient(among) THEN [NoPlan EXCEPT !.status = "insufficient-context"]
             ELSE IF places \subseteq PlacesOf(ToSet(among.items))
                       /\ Validated(s, c, among, planning).status = "validated"
                  THEN Validated(s, c, among, planning)
                  ELSE [NoPlan EXCEPT !.status = "REPAIR_EXHAUSTED"]
  BY <1>1 DEF Propose
<1>3. /\ [NoPlan EXCEPT !.status = "insufficient-context"].status # "validated"
      /\ [NoPlan EXCEPT !.status = "REPAIR_EXHAUSTED"].status # "validated"
  BY DEF NoPlan
<1>4. /\ places \subseteq PlacesOf(ToSet(among.items))
      /\ made = Validated(s, c, among, planning)
  BY <1>2, <1>3
<1> QED BY <1>1, <1>4

\* A validated plan becomes a script unless its evidence is not documented or a
\* map is to move that may not.
LEMMA ValidPlansHold == ContentInv => ValidPlansAreScripted
<1> SUFFICES ASSUME ContentInv, plan.status = "validated", script.status # "none",
                    ValidPreference(preference)
             PROVE  Scripted <=> ~ScriptsAreRefusedFor
  BY DEF ValidPlansAreScripted
<1>1. plan.status # "none"
  OBVIOUS
<1>2. PICK c, s, items, gaps, scenes, made, p :
         /\ c = contract /\ s = plan.sections /\ items = package.items /\ gaps = package.gaps
         /\ made = plan /\ p = preference /\ scenes = Scenes(s, gaps, p)
  OBVIOUS
<1>3. PICK n \in {6, 7, 9} : DOMAIN c.sections = 1..n
  BY <1>1, <1>2, PlannedHas, SectionsHave
<1>4. \A x \in ToSet(items) : Known(x)
  <2>1. PICK C : C = RelevantOf(question, corpus)
    OBVIOUS
  <2>2. items \in Seq(C) /\ \A x \in C : Known(x)
    BY <1>1, <1>2, <2>1, PlannedHas
  <2> QED BY <2>2 DEF ToSet
<1>5. PICK planning :
         /\ made = Validated(s, c, package, planning)
         /\ Shows(s, n, items)
  <2>1. CASE plan = Assemble(contract, package)
    <3>1. PICK t : t = AssembledSections(c, items)
      OBVIOUS
    <3>2. made = Validated(t, c, package, NoPlanning)
      BY <1>2, <2>1, <3>1 DEF Assemble
    <3>3. s = t
      BY <1>2, <3>2 DEF Validated
    <3>4. Shows(t, n, items)
      BY <1>3, <3>1, AssembledCanShow
    <3> QED BY <3>2, <3>3, <3>4
  <2>2. CASE plan = Propose(contract, package, PlanningOf(question))
    <3>1. PICK t, planning : t = ProposedSections(c, items, planning) /\ planning = PlanningOf(question)
      OBVIOUS
    <3>2. /\ made = Validated(t, c, package, planning)
          /\ \A k \in DOMAIN t : t[k].places \subseteq PlacesOf(ToSet(items))
      BY <1>2, <2>2, <3>1, ProposeIs
    <3>3. s = t
      BY <1>2, <3>2 DEF Validated
    <3>4. \A q \in VisualsOf(t) : Pictured(q, c, items)
      BY <1>2, <3>2, ValidHas
    <3>5. Shows(t, n, items)
      BY <1>3, <3>1, <3>2, <3>4, ProposedCanShow
    <3> QED BY <3>2, <3>3, <3>5
  <2> QED BY <1>1, <2>1, <2>2, PlannedHas
<1>6. /\ ~Insufficient(package) /\ ~(planning.given # (Personal(s) # {}))
      /\ made.personal = planning.given /\ made.sections = s
  <2>1. ~Insufficient(package) /\ ~(planning.given # (Personal(s) # {}))
    BY <1>2, <1>5, ValidHas
  <2>2. made.personal = planning.given /\ made.sections = s
    BY <1>5 DEF Validated
  <2> QED BY <2>1, <2>2
<1>7. Scripted <=> ~Refused(scenes, made, p)
  <2>1. script = ScriptOf(made, package, p)
    BY <1>2 DEF ContentInv, ScriptMade
  <2>2. Scripted <=> ScriptOf(made, package, p).status \in {"validated-script", "validated-static-script"}
    BY <2>1 DEF Scripted
  <2>3. [NoScript EXCEPT !.status = "SCRIPT_VALIDATION_FAILED"].status
            = "SCRIPT_VALIDATION_FAILED"
    BY DEF NoScript
  <2>4. Refused(scenes, made, p) => ScriptOf(made, package, p).status = "SCRIPT_VALIDATION_FAILED"
    BY <1>2, <1>6, <2>3 DEF ScriptOf
  <2>5. ~Refused(scenes, made, p) =>
           ScriptOf(made, package, p).status \in {"validated-script", "validated-static-script"}
    BY <1>2, <1>6 DEF ScriptOf
  <2> QED BY <2>2, <2>4, <2>5
<1>8. Drawn(s, n)
  <2>1. n \in Nat /\ s = [k \in 1..n |-> s[k]]
    BY <1>5 DEF Shows, Lists
  <2>2. DOMAIN s = 1..n /\ Len(s) = n
    BY <2>1, LenIs
  <2> QED BY <1>4, <1>5, <2>2 DEF Shows, Drawn
<1>9. Refused(scenes, made, p) <=> Withheld(s, n, p)
  <2>1. ~(made.personal # (Personal(s) # {})) /\ made.sections = s
    BY <1>6
  <2> QED BY <1>2, <1>8, <2>1, RefusedFor
<1>10. ScriptsAreRefusedFor <=> Withheld(s, n, p)
  <2>1. \A v : v \in Visuals <=> \E k \in 1..n : v \in s[k].visuals
    BY <1>2, <1>8 DEF Visuals, Drawn
  <2>2. Undocumented(s) <=>
           \E k \in DOMAIN plan.sections : \E x \in plan.sections[k].bound : x.documents = <<>>
    BY <1>2 DEF Undocumented
  <2>3. (\E k \in 1..n : \E v \in s[k].visuals : Immovable(v, p))
           <=> \E v \in Visuals : Immovable(v, preference)
    BY <1>2, <2>1
  <2>4. (\E v \in Visuals : Immovable(v, preference)) <=>
           \/ /\ preference.animation = "disabled" /\ preference.mode \notin Still
              /\ \E v \in Visuals : OnMap(v)
           \/ /\ preference.mode \notin Still
              /\ \E v \in Visuals : OnMap(v) /\ v.places = {} /\ v.entities = {}
    BY DEF Immovable
  <2> QED BY <2>2, <2>3, <2>4 DEF ScriptsAreRefusedFor, Withheld
<1> QED BY <1>7, <1>9, <1>10

\* The groups of the sections of a local proposal, and the first section of each.
GroupsAre(n) ==
    CASE n = 6 -> <<1, 1, 2, 3, 4, 5>>
      [] n = 7 -> <<1, 1, 2, 3, 3, 4, 5>>
      [] n = 9 -> <<1, 1, 2, 2, 3, 3, 4, 4, 5>>
FirstsAre(n) ==
    CASE n = 6 -> <<1, 3, 4, 5, 6>>
      [] n = 7 -> <<1, 3, 4, 6, 7>>
      [] n = 9 -> <<1, 3, 5, 7, 9>>

\* The table above is what the division of the code computes.
LEMMA GroupIs ==
    ASSUME NEW n \in {6, 7, 9}
    PROVE  \A k \in 1..n : GroupOf(k, n) = GroupsAre(n)[k]
<1>1. \A k \in 1..n : GroupOf(k, n) = ((k - 1) * 5) \div n + 1
  BY DEF GroupOf, GroupKinds
<1>2. CASE n = 6
  <2>1. \A k \in 1..6 : ((k - 1) * 5) \div 6 + 1 = <<1, 1, 2, 3, 4, 5>>[k]
    OBVIOUS
  <2> QED BY <1>1, <1>2, <2>1 DEF GroupsAre
<1>3. CASE n = 7
  <2>1. \A k \in 1..7 : ((k - 1) * 5) \div 7 + 1 = <<1, 1, 2, 3, 3, 4, 5>>[k]
    OBVIOUS
  <2> QED BY <1>1, <1>3, <2>1 DEF GroupsAre
<1>4. CASE n = 9
  <2>1. \A k \in 1..9 : ((k - 1) * 5) \div 9 + 1 = <<1, 1, 2, 2, 3, 3, 4, 4, 5>>[k]
    OBVIOUS
  <2> QED BY <1>1, <1>4, <2>1 DEF GroupsAre
<1> QED BY <1>2, <1>3, <1>4

\* Each group shows one visual, the first is the direct answer, and few explain.
LEMMA GroupsOpen ==
    ASSUME NEW n \in {6, 7, 9}
    PROVE  /\ GroupOf(1, n) = 1
           /\ \A k \in 1..n : Opens(k, n) => k = FirstsAre(n)[GroupOf(k, n)]
           /\ \A k \in 1..n : GroupOf(k, n) = 3 => k \in 4..6
<1>1. \A k \in 1..n : Opens(k, n) => k = 1 \/ GroupsAre(n)[k - 1] # GroupsAre(n)[k]
  <2> SUFFICES ASSUME NEW k \in 1..n, Opens(k, n), k # 1
               PROVE  GroupsAre(n)[k - 1] # GroupsAre(n)[k]
    OBVIOUS
  <2>1. k - 1 \in 1..n
    OBVIOUS
  <2> QED BY <2>1, GroupIs DEF Opens
<1>2. CASE n = 6
  <2>1. /\ GroupsAre(n) = <<1, 1, 2, 3, 4, 5>> /\ FirstsAre(n) = <<1, 3, 4, 5, 6>>
        /\ 1 \in 1..n
    BY <1>2 DEF GroupsAre, FirstsAre
  <2>2. \A k \in 1..6 : k = 1 \/ GroupsAre(n)[k - 1] # GroupsAre(n)[k] =>
           k = FirstsAre(n)[GroupsAre(n)[k]]
    BY <2>1
  <2>3. \A k \in 1..6 : GroupsAre(n)[k] = 3 => k \in 4..6
    BY <2>1
  <2> QED BY <1>1, <1>2, <2>1, <2>2, <2>3, GroupIs
<1>3. CASE n = 7
  <2>1. /\ GroupsAre(n) = <<1, 1, 2, 3, 3, 4, 5>> /\ FirstsAre(n) = <<1, 3, 4, 6, 7>>
        /\ 1 \in 1..n
    BY <1>3 DEF GroupsAre, FirstsAre
  <2>2. \A k \in 1..7 : k = 1 \/ GroupsAre(n)[k - 1] # GroupsAre(n)[k] =>
           k = FirstsAre(n)[GroupsAre(n)[k]]
    BY <2>1
  <2>3. \A k \in 1..7 : GroupsAre(n)[k] = 3 => k \in 4..6
    BY <2>1
  <2> QED BY <1>1, <1>3, <2>1, <2>2, <2>3, GroupIs
<1>4. CASE n = 9
  <2>1. /\ GroupsAre(n) = <<1, 1, 2, 2, 3, 3, 4, 4, 5>> /\ FirstsAre(n) = <<1, 3, 5, 7, 9>>
        /\ 1 \in 1..n
    BY <1>4 DEF GroupsAre, FirstsAre
  <2>2. \A k \in 1..9 : k = 1 \/ GroupsAre(n)[k - 1] # GroupsAre(n)[k] =>
           k = FirstsAre(n)[GroupsAre(n)[k]]
    BY <2>1
  <2>3. \A k \in 1..9 : GroupsAre(n)[k] = 3 => k \in 4..6
    BY <2>1
  <2> QED BY <1>1, <1>4, <2>1, <2>2, <2>3, GroupIs
<1> QED BY <1>2, <1>3, <1>4

-----------------------------------------------------------------------------

\* The validator finds nothing in a local proposal about measured evidence, with
\* no channel unknown and no map it must not require.
LEMMA ProposedIsValid ==
    ASSUME NEW c, NEW n \in {6, 7, 9}, DOMAIN c.sections = 1..n, NEW items, NEW planning,
           planning.given \in BOOLEAN,
           NEW s, s = ProposedSections(c, items, planning),
           PointsOf(ToSet(items)) # {},
           c.maps = "optional" => planning.given,
           "unknown" \notin planning.channels
    PROVE  PlanErrors(s, c, items, planning) = {}
<1> DEFINE visual(g) == GroupVisual(g, items, planning)
<1>1. PICK a : a = AssembledSections(c, items)
  OBVIOUS
<1>2. Lists(s, n) /\ DOMAIN s = 1..n
  <2>1. Lists(s, n)
    BY <1>1, ProposedHas
  <2> QED BY <2>1 DEF Lists
<1>3. \A k \in 1..n : IsRecast(s[k], a[k], k, n, items, planning)
  BY <1>1, ProposedHas
<1>4. n \in 1..n /\ 1 \in 1..n
  OBVIOUS
<1>5. \A k \in 1..n : GroupOf(k, n) \in 1..5 /\ s[k].kind = GroupKinds[GroupOf(k, n)]
  BY <1>3, GroupsHave DEF IsRecast
<1>6. ASSUME NEW p \in VisualsOf(s)
      PROVE  \E g \in 1..5 : p = <<FirstsAre(n)[g], visual(g)>>
  <2>1. PICK k \in 1..n : \E v \in s[k].visuals : p = <<k, v>>
    BY <1>2, VisualsAre
  <2>2. PICK v \in s[k].visuals : p = <<k, v>>
    BY <2>1
  <2>3. PICK g \in 1..5 : g = GroupOf(k, n)
    BY <1>5
  <2>4. v = visual(g) /\ Opens(k, n)
    BY <1>3, <2>2, <2>3 DEF IsRecast
  <2>5. k = FirstsAre(n)[g]
    BY <2>3, <2>4, GroupsOpen
  <2> QED BY <2>2, <2>4, <2>5
<1>7. s[1].kind = "direct-answer"
  BY <1>4, <1>5, GroupsOpen DEF GroupKinds
<1>8. \E k \in DOMAIN s : s[k].kind = "uncertainty"
  <2>1. GroupOf(n, n) = 5
    BY <1>4, GroupsHave
  <2> QED BY <1>2, <1>4, <1>5, <2>1 DEF GroupKinds
<1>9. \A g \in 1..5 : /\ visual(g).mode = GroupModes[g]
                      /\ visual(g).required => g = 3 /\ ~planning.given
                      /\ visual(g).mode = "chart" => visual(g).points = PointsOf(ToSet(items))
  <2>1. \A g \in 1..5 : GroupModes[g] = "map-flow" => g = 3
    BY DEF GroupModes
  <2> SUFFICES ASSUME NEW g \in 1..5, NEW v, v = visual(g)
               PROVE  /\ v.mode = GroupModes[g]
                      /\ v.required => g = 3 /\ ~planning.given
                      /\ v.mode = "chart" => v.points = PointsOf(ToSet(items))
    OBVIOUS
  <2>2. PICK mode : mode = GroupModes[g]
    OBVIOUS
  <2>3. v = [mode |-> mode, required |-> mode = "map-flow" /\ ~planning.given,
             places |-> GroupPlaces[g], entities |-> {},
             points |-> IF mode = "chart" THEN PointsOf(ToSet(items)) ELSE {}]
    BY <2>2 DEF GroupVisual
  <2>4. v.mode = mode /\ (v.required = (mode = "map-flow" /\ ~planning.given))
    BY <2>3
  <2>5. v.mode = "chart" => v.points = PointsOf(ToSet(items))
    BY <2>3
  <2> QED BY <2>1, <2>2, <2>4, <2>5
<1> HIDE DEF visual
<1>10. Few(s)
  <2> DEFINE V == VisualsOf(s)
             R == {p \in VisualsOf(s) : p[2].required}
             E == {k \in DOMAIN s : s[k].kind = "explanation-path"}
             h == [g \in 1..5 |-> <<FirstsAre(n)[g], visual(g)>>]
             H == {h[g] : g \in 1..5}
  <2>1. V \subseteq H
    BY <1>6
  <2>2. R \subseteq {h[3]}
    <3> SUFFICES ASSUME NEW p \in VisualsOf(s), p[2].required PROVE p = h[3]
      OBVIOUS
    <3>1. PICK g \in 1..5 : p = <<FirstsAre(n)[g], visual(g)>>
      BY <1>6
    <3>2. g = 3
      BY <1>9, <3>1
    <3> QED BY <3>1, <3>2
  <2>3. E \in SUBSET (4..6)
    <3> SUFFICES ASSUME NEW k \in 1..n, s[k].kind = "explanation-path" PROVE k \in 4..6
      BY <1>2
    <3>1. GroupOf(k, n) = 3
      BY <1>5 DEF GroupKinds
    <3> QED BY <3>1, GroupsOpen
  <2>4. h \in Surjection(1..5, H)
    BY DEF Surjection
  <2> HIDE DEF V, R, E, h, H
  <2>5. IsFiniteSet(1..5) /\ Cardinality(1..5) = 5
    <3>1. 1 \in Int /\ 5 \in Int
      OBVIOUS
    <3>2. IsFiniteSet(1..5) /\ Cardinality(1..5) = IF 1 > 5 THEN 0 ELSE 5 - 1 + 1
      BY <3>1, FS_Interval
    <3> QED BY <3>2
  <2>6. IsFiniteSet(H) /\ Cardinality(H) <= 5
    BY <2>4, <2>5, FS_Surjection
  <2>7. Cardinality(V) \in Nat /\ Cardinality(V) <= 5
    <3>1. IsFiniteSet(V) /\ Cardinality(V) <= Cardinality(H)
      BY <2>1, <2>6, FS_Subset
    <3> QED BY <2>6, <3>1, FS_CardinalityType
  <2>8. Cardinality(R) \in Nat /\ Cardinality(R) <= 1
    <3>1. IsFiniteSet({h[3]}) /\ Cardinality({h[3]}) = 1
      BY FS_Singleton
    <3> QED BY <2>2, <3>1, FS_Subset, FS_CardinalityType
  <2>9. Cardinality(E) \in Nat /\ Cardinality(E) <= 3
    <3>1. 4 \in Int /\ 6 \in Int
      OBVIOUS
    <3>2. IsFiniteSet(4..6) /\ Cardinality(4..6) = IF 4 > 6 THEN 0 ELSE 6 - 4 + 1
      BY <3>1, FS_Interval
    <3>3. IsFiniteSet(4..6) /\ Cardinality(4..6) = 3
      BY <3>2
    <3>4. E \in SUBSET (4..6)
      BY <2>3
    <3> QED BY <3>3, <3>4, FS_Subset, FS_CardinalityType
  <2>10. ~(Cardinality(V) + Cardinality(R) > 7) /\ ~(Cardinality(E) > 6)
    BY <2>7, <2>8, <2>9
  <2> QED BY <2>10 DEF Few, V, R, E, MaximumScenes, MaximumCausalSteps
<1>11. \A p \in VisualsOf(s) : Pictured(p, c, items)
  <2> SUFFICES ASSUME NEW p \in VisualsOf(s) PROVE Pictured(p, c, items)
    OBVIOUS
  <2>1. PICK g \in 1..5 : p[2] = visual(g)
    BY <1>6
  <2> QED BY <1>9, <2>1 DEF Pictured
<1>12. \A k \in 1..n : \/ CarriesNothing(s[k]) \/ CarriesChannels(s[k], planning)
                       \/ CarriesScenario(s[k], planning)
  <2>1. CASE planning.given
    <3>1. CarriesScenario(s[n], planning)
      BY <1>1, <2>1, ProposedHas
    <3>2. PICK e \in 1..n : Carries(s, n, e, planning)
      BY <1>1, <2>1, ProposedHas
    <3> QED BY <3>1, <3>2 DEF Carries
  <2>2. CASE ~planning.given
    BY <1>1, <2>2, ProposedHas
  <2> QED BY <2>1, <2>2
<1>13. \A k \in DOMAIN s : Honest(s[k])
  <2> SUFFICES ASSUME NEW k \in 1..n PROVE Honest(s[k])
    BY <1>2
  <2>1. CASE CarriesNothing(s[k])
    BY <2>1 DEF CarriesNothing, Honest, NoPersonal
  <2>2. CASE CarriesChannels(s[k], planning)
    BY <2>2 DEF CarriesChannels, Honest
  <2>3. CASE CarriesScenario(s[k], planning)
    BY <2>3 DEF CarriesScenario, Honest
  <2> QED BY <1>12, <2>1, <2>2, <2>3
<1>14. planning.given = (Personal(s) # {})
  <2>1. CASE planning.given
    <3>1. CarriesScenario(s[n], planning)
      BY <1>1, <2>1, ProposedHas
    <3>2. n \in Personal(s)
      BY <1>2, <1>4, <3>1 DEF Personal, CarriesScenario
    <3> QED BY <2>1, <3>2
  <2>2. CASE ~planning.given
    <3>1. \A k \in 1..n : CarriesNothing(s[k])
      BY <1>1, <2>2, ProposedHas
    <3>2. Personal(s) = {}
      BY <1>2, <3>1 DEF Personal, CarriesNothing, NoPersonal
    <3> QED BY <2>2, <3>2
  <2> QED BY <2>1, <2>2
<1> QED BY <1>7, <1>8, <1>10, <1>11, <1>13, <1>14, NoErrors

\* A local proposal about answerable evidence makes a plan but in the cases named.
LEMMA ProposedPlansHold == ContentInv => ProposedPlansAreValid
<1> SUFFICES ASSUME ContentInv, route = "local", Answerable, plan.status # "none",
                    ~ProposalsAreRefusedFor
             PROVE  plan.status = "validated"
  BY DEF ProposedPlansAreValid
<1>1. PICK c, items, planning :
         c = contract /\ items = package.items /\ planning = PlanningOf(question)
  OBVIOUS
<1>2. PICK s : s = ProposedSections(c, items, planning)
  OBVIOUS
<1>3. ~Insufficient(package) /\ plan = Propose(contract, package, PlanningOf(question))
  BY PlannedHas
<1>4. PICK n \in {6, 7, 9} : DOMAIN c.sections = 1..n
  BY <1>1, PlannedHas, SectionsHave
<1>5. /\ UNION {GroupPlaces[g] : g \in DOMAIN GroupPlaces} = PlacesOf(ToSet(items))
      /\ PointsOf(ToSet(items)) # {}
      /\ ~(c.maps = "optional" /\ ~planning.given)
      /\ "unknown" \notin question.channels
  BY <1>1 DEF ProposalsAreRefusedFor
<1>6. planning.given \in BOOLEAN /\ "unknown" \notin planning.channels
  BY <1>1, <1>5 DEF PlanningOf, NoPlanning
<1>7. UNION {s[k].places : k \in DOMAIN s} \subseteq PlacesOf(ToSet(items))
  <2>1. PICK a : a = AssembledSections(c, items)
    OBVIOUS
  <2>2. Lists(s, n)
    BY <1>2, <1>4, <2>1, ProposedHas
  <2>3. \A k \in 1..n : IsRecast(s[k], a[k], k, n, items, planning)
    BY <1>2, <1>4, <2>1, ProposedHas
  <2>4. \A k \in 1..n : GroupOf(k, n) \in 1..5 /\ s[k].places = GroupPlaces[GroupOf(k, n)]
    BY <2>3, GroupsHave DEF IsRecast
  <2>5. DOMAIN GroupPlaces = 1..5
    BY DEF GroupPlaces
  <2>6. \A k \in 1..n : s[k].places \subseteq PlacesOf(ToSet(items))
    BY <1>5, <2>4, <2>5
  <2>7. DOMAIN s = 1..n
    BY <2>2 DEF Lists
  <2> QED BY <2>6, <2>7
<1>8. c.maps = "optional" => planning.given
  BY <1>5
<1>9. PlanErrors(s, c, items, planning) = {}
  BY <1>2, <1>4, <1>5, <1>6, <1>8, ProposedIsValid
<1>10. PICK made : made = Validated(s, c, package, planning)
  OBVIOUS
<1>11. made.status = "validated"
  BY <1>1, <1>3, <1>9, <1>10 DEF Validated
<1>12. plan = made
  BY <1>1, <1>2, <1>3, <1>7, <1>10, <1>11 DEF Propose
<1> QED BY <1>11, <1>12

\* Whatever is asked, found and preferred, each validator refuses only what is
\* known to be refused, and nothing else that the stages before it make.
THEOREM RefusalsAreKnownHolds == ContentSpec => []RefusalsAreKnown
<1>1. ContentInv => RefusalsAreKnown
  BY AssembledPlansHold, ProposedPlansHold, ValidPlansHold DEF RefusalsAreKnown
<1> QED BY <1>1, ContentInvHolds, PTL
=============================================================================
