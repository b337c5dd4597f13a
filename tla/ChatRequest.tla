----------------------------- MODULE ChatRequest -----------------------------
(***************************************************************************)
(* The chat completion handler: chat_completions and _stream_response of    *)
(* bridge/main.py, from the quota checks to the row of the request.  It     *)
(* composes the router (Router), the workflows (Workflow), the pool as the  *)
(* promise of acquire() to return a serving pod or to raise, and the        *)
(* accounting as far as the router and the budget check read it.            *)
(*                                                                          *)
(* A request is a coroutine; an action is the code between two awaits.      *)
(***************************************************************************)
EXTENDS Router, Workflow, FiniteSets

CONSTANTS
  Requests,         \* chat requests
  Bodies,           \* what clients may send, see Router; and stream, pipeline, x_provider
  Users,            \* their users
  UserOf,           \* the user of each request
  Profile,          \* of each user: see Router; and disabled_providers, pipeline_default
  TierOverride,     \* user_tier_overrides.disabled_providers, by user and tier
  Providers,        \* configured providers
  Ollama,           \* _OLLAMA_PROVIDERS among them
  SeesImages,       \* providers whose model of the vision tier passes model_supports_vision
  ModelNoTools,     \* tiers with a model_no_tools
  LocalPreprocess,  \* settings.local_preprocess_enabled
  ListPrice,        \* cost_per_hour_usd of tiers.yaml
  Offers,           \* what the providers offer when the prices are synchronised
  OfferOrder,       \* their order
  Costs,            \* costs an inference may turn out to have
  Timeouts          \* bound: whether an inference may exceed the client's 300 s

MaxRetries == 3     \* _max_retries

Name == STRING \cup {None}
Body ==
  [model : STRING, header : Name, hint : Name, pin : Name, tokens : Nat, files : Nat,
   keywords : SUBSET Ordered, image : BOOLEAN, image_last : BOOLEAN, downstream : BOOLEAN,
   stream : BOOLEAN, pipeline : SUBSET STRING, tools : BOOLEAN]
Offer == [gpu : STRING, vram : Nat, price : Nat, available : BOOLEAN]

ASSUME ChatAssumption ==
  /\ IsFiniteSet(Requests)
  /\ Bodies \subseteq Body
  /\ UserOf \in [Requests -> Users]
  /\ TierOverride \in [Users -> [Tiers -> SUBSET Providers]]
  /\ Ollama \subseteq Providers /\ SeesImages \subseteq Providers
  /\ ModelNoTools \subseteq Tiers
  /\ ListPrice \in [Tiers -> Nat]
  /\ OfferOrder \in Seq(DOMAIN Offers)
  /\ \A v \in DOMAIN Offers : Offers[v] \in Seq(Offer)
  /\ \A m \in WorkflowModels : Workflow[m].tier \in Configured
  /\ None \notin {"ok", "error"}
  /\ Costs \subseteq Nat
  /\ Timeouts \in BOOLEAN

VARIABLES
  pc,        \* where each request is
  body,      \* its ChatCompletionRequest
  sent,      \* history: the body as the client sent it
  decision,  \* its RoutingDecision
  budgeted,  \* history: what had been spent when the budget was last checked
  pod,       \* the PodHandle: tier and provider, or None
  attempt,   \* _attempt, and the stage of a workflow
  alt,       \* whether the model asked for is not the one the pod was launched with
  stages,    \* stages done (meta["stages"] without the failed ones)
  missed,    \* stages whose failure is in meta["errors"]
  failure,   \* the exception: "none", "error", or "silent" when str(exc) is empty
  answer,    \* HTTP status of the answer, 0 before
  row,       \* status of its row in `requests`, or None
  spent,     \* of each user: the month's sum over the rows with status ok
  active,    \* _active_requests of the worker
  synced     \* whether _TIERS has the synchronised prices

requestVars == <<body, sent, decision, budgeted, pod, attempt, alt, stages, missed, failure>>
outcomeVars == <<answer, row, spent>>
vars == <<pc, requestVars, outcomeVars, active, synced>>

PodNames == Tiers \X Providers
InUse == {"workflow", "infer", "postprocess", "streaming", "streaming_primary", "release"}
Places == InUse \cup
  {"arriving", "route", "budget", "pipeline", "acquire", "resolve", "begin", "open",
   "record", "done", "refused", "cut"}

\* ChatCompletionRequest declares no field downstream_model, and pydantic drops what is not
\* declared.
Parse(b) == [b EXCEPT !.downstream = FALSE]

Init ==
  /\ pc = [r \in Requests |-> "arriving"]
  /\ sent \in [Requests -> Bodies]
  /\ body = [r \in Requests |-> Parse(sent[r])]
  /\ decision = [r \in Requests |-> Refuse(0)]
  /\ budgeted = [r \in Requests |-> 0]
  /\ pod = [r \in Requests |-> None]
  /\ attempt = [r \in Requests |-> 0]
  /\ alt = [r \in Requests |-> FALSE]
  /\ stages = [r \in Requests |-> {}]
  /\ missed = [r \in Requests |-> {}]
  /\ failure = [r \in Requests |-> "none"]
  /\ answer = [r \in Requests |-> 0]
  /\ row = [r \in Requests |-> None]
  /\ spent = [u \in Users |-> 0]
  /\ active = [p \in PodNames |-> 0]
  /\ synced = FALSE

At(r, place) == pc[r] = place
Goto(r, place) == pc' = [pc EXCEPT ![r] = place]
Answer(r, status) == answer' = [answer EXCEPT ![r] = status]
RefuseWith(r, status) == Goto(r, "refused") /\ Answer(r, status)

User(r) == Profile[UserOf[r]]
IsWorkflow(r) == body[r].model \in WorkflowModels
Pipeline(r) == EffectivePipeline(body[r], User(r).pipeline_default, LocalPreprocess)

-----------------------------------------------------------------------------
(***************************************************************************)
(* Admission and routing                                                    *)
(***************************************************************************)

\* check_rpm and check_daily_tokens, which module Accounting has in detail
CheckQuotas(r) ==
  /\ At(r, "arriving")
  /\ \/ RefuseWith(r, 429)
     \/ Goto(r, "route") /\ UNCHANGED answer
  /\ UNCHANGED <<requestVars, row, spent, active, synced>>

\* cost_per_hour_usd of each tier, before and after
Synchronised == Refreshed(ListPrice, Offers, OfferOrder)
Price == IF synced THEN Synchronised ELSE ListPrice

\* Workflow models have a fixed tier and do not pass by select_tier.
Decide(r) ==
  IF IsWorkflow(r)
  THEN LET t == Workflow[body[r].model].tier
       IN Route(t, None, ProjectedCost(Price, t, body[r].tokens))
  ELSE SelectTier(body[r], User(r), Price, spent[UserOf[r]])

\* The month's sum is read; the rest is one step with it.
RouteRequest(r) ==
  /\ At(r, "route")
  /\ LET d == Decide(r) IN
     \/ /\ d.status = 200
        /\ decision' = [decision EXCEPT ![r] = d]
        /\ Goto(r, "budget")
        /\ UNCHANGED answer
     \/ /\ d.status # 200
        /\ RefuseWith(r, d.status)
        /\ UNCHANGED decision
  /\ budgeted' = [budgeted EXCEPT ![r] = spent[UserOf[r]]]
  /\ UNCHANGED <<body, sent, pod, attempt, alt, stages, missed, failure, row, spent, active, synced>>

\* Faulty variant: what the client names is served whatever it costs.
CheckBudget_SignalsOnly(r) ==
  /\ At(r, "budget")
  /\ Goto(r, "pipeline")
  /\ budgeted' = [budgeted EXCEPT ![r] = spent[UserOf[r]]]
  /\ UNCHANGED <<body, sent, decision, pod, attempt, alt, stages, missed, failure,
                 outcomeVars, active, synced>>

\* check_monthly_budget reads the sum again.
CheckBudget(r) ==
  /\ At(r, "budget")
  /\ LET within == spent[UserOf[r]] + decision[r].cost <= User(r).monthly_budget_usd IN
     \/ ~within /\ RefuseWith(r, 429)
     \/ within /\ Goto(r, "pipeline") /\ UNCHANGED answer
  /\ budgeted' = [budgeted EXCEPT ![r] = spent[UserOf[r]]]
  /\ UNCHANGED <<body, sent, decision, pod, attempt, alt, stages, missed, failure, row, spent,
                 active, synced>>

\* run_pipeline
Preprocess(r) ==
  /\ At(r, "pipeline")
  /\ LET runs == ~IsWorkflow(r) /\ "preprocess" \in Pipeline(r) IN
     \/ ~runs /\ UNCHANGED <<body, stages, missed>>
     \/ /\ runs
        /\ body' = [body EXCEPT ![r] = Preprocessed(@)]
        /\ stages' = [stages EXCEPT ![r] = @ \cup {"preprocess"}]
        /\ UNCHANGED missed
     \/ /\ runs
        /\ missed' = [missed EXCEPT ![r] = @ \cup {"preprocess"}]
        /\ UNCHANGED <<body, stages>>
  /\ Goto(r, "acquire")
  /\ UNCHANGED <<sent, decision, budgeted, pod, attempt, alt, failure, outcomeVars, active, synced>>

-----------------------------------------------------------------------------
(***************************************************************************)
(* A pod                                                                    *)
(***************************************************************************)

\* The providers excluded: the user's own and those of the override for the tier
Disabled(r) == User(r).disabled_providers \cup TierOverride[UserOf[r]][decision[r].tier]

\* acquire() and _apply_user_provider_key: any pod of the tier may be the one, by whichever
\* path, but for the disabled providers.  The image parts that its model cannot read are
\* dropped.
Acquire(r) ==
  /\ At(r, "acquire")
  /\ \E v \in Providers \ Disabled(r) :
       /\ pod' = [pod EXCEPT ![r] = <<decision[r].tier, v>>]
       /\ body' = [body EXCEPT ![r].image =
                     @ /\ (IsWorkflow(r) \/ v \in SeesImages)]
  /\ Goto(r, "resolve")
  /\ UNCHANGED <<sent, decision, budgeted, attempt, alt, stages, missed, failure,
                 outcomeVars, active, synced>>

\* A volume is invalid, or no provider has a pod.  The fallback of the vision tier asks for
\* requires_non_vision_model, which no parsed request fulfils.
AcquireFails(r) ==
  /\ At(r, "acquire")
  /\ \/ RefuseWith(r, 400)
     \/ decision[r].tier # Vision /\ RefuseWith(r, 503)
  /\ UNCHANGED <<requestVars, row, spent, active, synced>>

\* _resolve_image_urls for Ollama.  The model without tools is another one than the pod's.
ResolveImages(r) ==
  /\ At(r, "resolve")
  /\ LET ollama == pod[r][2] \in Ollama IN
     \/ /\ Goto(r, IF body[r].stream /\ ~IsWorkflow(r) THEN "open" ELSE "begin")
        /\ alt' = [alt EXCEPT ![r] =
             ~IsWorkflow(r) /\ ollama /\ ~body[r].tools /\ decision[r].tier \in ModelNoTools]
        /\ UNCHANGED answer
     \/ /\ ollama /\ body[r].image /\ ~IsWorkflow(r)
        /\ RefuseWith(r, 400)
        /\ UNCHANGED alt
  /\ UNCHANGED <<body, sent, decision, budgeted, pod, attempt, stages, missed, failure,
                 row, spent, active, synced>>

Mark(r) == active' = [active EXCEPT ![pod[r]] = @ + 1]

\* mark_active, and into the try
Begin(r) ==
  /\ At(r, "begin")
  /\ Mark(r)
  /\ Goto(r, IF IsWorkflow(r) THEN "workflow" ELSE "infer")
  /\ UNCHANGED <<requestVars, outcomeVars, synced>>

\* What str(exc) may be: httpx raises a read timeout without a message.
Exceptions == IF Timeouts THEN {"error", "silent"} ELSE {"error"}

Fails(r, how) ==
  /\ failure' = [failure EXCEPT ![r] = how]
  /\ Goto(r, "release")

-----------------------------------------------------------------------------
(***************************************************************************)
(* Workflows                                                                *)
(***************************************************************************)

StagesOf(r) == Workflow[body[r].model].stages
StageOf(r) == StagesOf(r)[attempt[r] + 1]

\* WorkflowOrchestrator.execute: the next stage of the handler
RunStage(r) ==
  /\ At(r, "workflow") /\ attempt[r] < Len(StagesOf(r))
  /\ \E outcome \in Outcomes(StageOf(r), body[r].image) :
       \/ /\ outcome \in {"done", "missed"}
          /\ attempt' = [attempt EXCEPT ![r] = @ + 1]
          /\ stages' = [stages EXCEPT ![r] = IF outcome = "done" THEN @ \cup {StageOf(r)} ELSE @]
          /\ missed' = [missed EXCEPT ![r] = IF outcome = "missed" THEN @ \cup {StageOf(r)} ELSE @]
          /\ UNCHANGED <<pc, failure>>
       \/ /\ outcome = "no_image"
          /\ Goto(r, "release")
          /\ UNCHANGED <<attempt, stages, missed, failure>>
       \/ /\ outcome = "fatal"
          /\ \E how \in Exceptions : Fails(r, how)
          /\ UNCHANGED <<attempt, stages, missed>>
  /\ UNCHANGED <<body, sent, decision, budgeted, pod, alt, outcomeVars, active, synced>>

FinishWorkflow(r) ==
  /\ At(r, "workflow") /\ attempt[r] = Len(StagesOf(r))
  /\ Goto(r, "release")
  /\ UNCHANGED <<requestVars, outcomeVars, active, synced>>

-----------------------------------------------------------------------------
(***************************************************************************)
(* Inference without streaming: up to three attempts                        *)
(***************************************************************************)

\* An answer with choices.  run_postprocess follows when there is text and the stage is on.
InferOk(r) ==
  /\ At(r, "infer")
  /\ stages' = [stages EXCEPT ![r] = @ \cup {"infer"}]
  /\ \/ Goto(r, "release")
     \/ "postprocess" \in Pipeline(r) /\ Goto(r, "postprocess")
  /\ UNCHANGED <<body, sent, decision, budgeted, pod, attempt, alt, missed, failure,
                 outcomeVars, active, synced>>

\* Faulty variant: every 429 is waited for.
RateLimited_Always(r) ==
  /\ At(r, "infer")
  /\ attempt' = [attempt EXCEPT ![r] = @ + 1]
  /\ UNCHANGED <<pc, body, sent, decision, budgeted, pod, alt, stages, missed, failure,
                 outcomeVars, active, synced>>

\* 429 on any attempt but the last: wait, and again.
RateLimited(r) ==
  /\ At(r, "infer") /\ attempt[r] < MaxRetries - 1
  /\ attempt' = [attempt EXCEPT ![r] = @ + 1]
  /\ UNCHANGED <<pc, body, sent, decision, budgeted, pod, alt, stages, missed, failure,
                 outcomeVars, active, synced>>

\* Faulty variant: a loop that has run out of attempts takes the last answer for a good one.
ModelMissing_TakenForAnswer(r) ==
  /\ At(r, "infer") /\ alt[r]
  /\ alt' = [alt EXCEPT ![r] = FALSE]
  /\ IF attempt[r] < MaxRetries - 1
     THEN attempt' = [attempt EXCEPT ![r] = @ + 1] /\ UNCHANGED pc
     ELSE Goto(r, "release") /\ UNCHANGED attempt
  /\ UNCHANGED <<body, sent, decision, budgeted, pod, stages, missed, failure,
                 outcomeVars, active, synced>>

\* 404 for a model that is not the pod's own: on with that one.  After the last attempt the
\* loop ends by itself; the error in hand has no choices, which raises.
ModelMissing(r) ==
  /\ At(r, "infer") /\ alt[r]
  /\ alt' = [alt EXCEPT ![r] = FALSE]
  /\ IF attempt[r] < MaxRetries - 1
     THEN attempt' = [attempt EXCEPT ![r] = @ + 1] /\ UNCHANGED <<pc, failure>>
     ELSE Fails(r, "error") /\ UNCHANGED attempt
  /\ UNCHANGED <<body, sent, decision, budgeted, pod, stages, missed, outcomeVars, active, synced>>

\* Any other status, a transport error, a body that is not what it should be
InferFails(r) ==
  /\ At(r, "infer")
  /\ \E how \in Exceptions : Fails(r, how)
  /\ UNCHANGED <<body, sent, decision, budgeted, pod, attempt, alt, stages, missed,
                 outcomeVars, active, synced>>

\* run_postprocess keeps the text when it fails.
Postprocess(r) ==
  /\ At(r, "postprocess")
  /\ \/ stages' = [stages EXCEPT ![r] = @ \cup {"postprocess"}] /\ UNCHANGED missed
     \/ missed' = [missed EXCEPT ![r] = @ \cup {"postprocess"}] /\ UNCHANGED stages
  /\ Goto(r, "release")
  /\ UNCHANGED <<body, sent, decision, budgeted, pod, attempt, alt, failure,
                 outcomeVars, active, synced>>

-----------------------------------------------------------------------------
(***************************************************************************)
(* Streams                                                                  *)
(***************************************************************************)

\* StreamingResponse: the status is sent with the first step of event_generator.
OpenStream(r) ==
  /\ At(r, "open")
  /\ Mark(r)
  /\ Answer(r, 200)
  /\ Goto(r, "streaming")
  /\ UNCHANGED <<requestVars, row, spent, synced>>

\* The alternative model is not there: one more stream, from the pod's own.
StreamModelMissing(r) ==
  /\ At(r, "streaming") /\ alt[r]
  /\ alt' = [alt EXCEPT ![r] = FALSE]
  /\ Goto(r, "streaming_primary")
  /\ UNCHANGED <<body, sent, decision, budgeted, pod, attempt, stages, missed, failure,
                 outcomeVars, active, synced>>

\* The stream ends, or raises: mark_pod_failed, if called, is a task of its own (PodPool).
EndStream(r) ==
  /\ pc[r] \in {"streaming", "streaming_primary"}
  /\ \/ Goto(r, "release") /\ UNCHANGED failure
     \/ \E how \in Exceptions : Fails(r, how)
  /\ UNCHANGED <<body, sent, decision, budgeted, pod, attempt, alt, stages, missed,
                 outcomeVars, active, synced>>

\* Faulty variant: the generator is closed before the finally clause has done anything.
CutStream_NotReleased(r) ==
  /\ body[r].stream /\ ~IsWorkflow(r)
  /\ pc[r] \in {"open", "streaming", "streaming_primary"}
  /\ Goto(r, "cut")
  /\ UNCHANGED <<requestVars, outcomeVars, active, synced>>

Unmark(r) == active' = [active EXCEPT ![pod[r]] = IF @ > 0 THEN @ - 1 ELSE 0]

\* The client goes away, and the next await is cancelled.  Before the first step nothing is
\* to be undone; release() counts down before its first await.  (A generator suspended at a
\* yield is closed later, and its finally clause runs as after a normal end: EndStream.)
CutStream(r) ==
  /\ body[r].stream /\ ~IsWorkflow(r)
  /\ \/ pc[r] \in {"open", "record"} /\ UNCHANGED active
     \/ pc[r] \in {"streaming", "streaming_primary", "release"} /\ Unmark(r)
  /\ Goto(r, "cut")
  /\ UNCHANGED <<requestVars, outcomeVars, synced>>

-----------------------------------------------------------------------------
(***************************************************************************)
(* The finally clause                                                       *)
(***************************************************************************)

\* manager.release
Release(r) ==
  /\ At(r, "release")
  /\ Unmark(r)
  /\ Goto(r, "record")
  /\ UNCHANGED <<requestVars, outcomeVars, synced>>

\* Faulty variant: a failed inference is recorded like an answer.
RowStatus_AlwaysOk(r) == "ok"

\* The status that record_request gives the row: an empty message is no error message.
RowStatus(r) == IF failure[r] = "error" THEN "error" ELSE "ok"

\* record_request, and the answer of a request that did not stream
Record(r) ==
  /\ At(r, "record")
  /\ row' = [row EXCEPT ![r] = RowStatus(r)]
  /\ \E cost \in IF RowStatus(r) = "ok" THEN Costs ELSE {0} :
       spent' = [spent EXCEPT ![UserOf[r]] = @ + cost]
  /\ answer' = [answer EXCEPT ![r] = IF @ # 0 THEN @ ELSE IF failure[r] = "none" THEN 200 ELSE 502]
  /\ Goto(r, "done")
  /\ UNCHANGED <<requestVars, active, synced>>

-----------------------------------------------------------------------------
\* _sync_prices, a task that runs once after start-up
SyncPrices ==
  /\ ~synced
  /\ synced' = TRUE
  /\ UNCHANGED <<pc, requestVars, outcomeVars, active>>

RequestStep(r) ==
  \/ CheckQuotas(r) \/ RouteRequest(r) \/ CheckBudget(r) \/ Preprocess(r)
  \/ Acquire(r) \/ AcquireFails(r) \/ ResolveImages(r) \/ Begin(r)
  \/ RunStage(r) \/ FinishWorkflow(r)
  \/ InferOk(r) \/ RateLimited(r) \/ ModelMissing(r) \/ InferFails(r) \/ Postprocess(r)
  \/ OpenStream(r) \/ StreamModelMissing(r) \/ EndStream(r)
  \/ Release(r) \/ Record(r)

Next ==
  \/ \E r \in Requests : RequestStep(r) \/ CutStream(r)
  \/ SyncPrices

Spec == Init /\ [][Next]_vars

-----------------------------------------------------------------------------
(***************************************************************************)
(* Properties                                                               *)
(***************************************************************************)
TypeOK ==
  /\ pc \in [Requests -> Places]
  /\ \A r \in Requests : decision[r].tier \in Tiers \cup {None} /\ decision[r].cost \in Nat
  /\ pod \in [Requests -> PodNames \cup {None}]
  /\ attempt \in [Requests -> 0 .. 4]
  /\ alt \in [Requests -> BOOLEAN]
  /\ failure \in [Requests -> {"none", "error", "silent"}]
  /\ answer \in [Requests -> {0, 200, 400, 402, 403, 429, 502, 503}]
  /\ row \in [Requests -> {"ok", "error", None}]
  /\ spent \in [Users -> Nat]
  /\ active \in [PodNames -> Nat]

\* "mark_active/release/record_request" (main.py:347): through retries, workflow failures,
\* streams that break and clients that leave, a pod's counter is the number of requests on
\* it; a slot that is not returned would keep the pod from the reaper for ever.
SlotsReturned ==
  \A p \in PodNames : active[p] = Cardinality({r \in Requests : pc[r] \in InUse /\ pod[r] = p})

\* What is answered with 200 is an answer (main.py:398-437, multi_model.py): the loop over
\* the attempts may end with a 404 in hand, but that never passes for an answer; and of a
\* workflow no stage was skipped.  A stage may have failed when it is local, or is the one
\* on the pod that describes the image of visual_html, and then its failure is on record.
AnswerIsWhole ==
  \A r \in Requests :
    At(r, "done") /\ answer[r] = 200 /\ failure[r] = "none" =>
      IF IsWorkflow(r)
      THEN \/ body[r].model = "visual_html" /\ ~body[r].image
           \/ \A i \in DOMAIN StagesOf(r) :
                StagesOf(r)[i] \in stages[r] \cup (missed[r] \ Required)
      ELSE body[r].stream \/ "infer" \in stages[r]

\* "Request row written regardless of success/failure" (cost_tracker.py:12), as far as it
\* goes: whoever got as far as the pod and was not cut has one row, an error row means a
\* failure, and an ok row a success or an exception without a message.
RowTellsOutcome ==
  \A r \in Requests :
    /\ At(r, "done") <=> row[r] # None
    /\ row[r] = "error" => failure[r] = "error" /\ answer[r] \in {200, 502}
    /\ row[r] = "ok" => failure[r] # "error"
    /\ answer[r] = 502 => failure[r] # "none"

NamedByClient(r) == Override(body[r]) # None \/ body[r].hint \in HintTiers

\* The limits of the user hold for whoever gets a pod (router.py:149-282, main.py:271-287):
\* - a request routed by its content gets a tier the user may have, and one above what its
\*   signals ask for only when that is the lowest, whose list of downgrades wraps around;
\* - images go to the vision tier or nowhere;
\* - the cost projected at any routing, override or workflow, fitted into the budget;
\* - no provider is used that the user or the user's override for the tier has disabled.
ServedWithinLimits ==
  \A r \in Requests :
    pod[r] # None =>
      LET u == User(r)
          t == decision[r].tier
          routed == ~IsWorkflow(r) /\ sent[r].model # "local"
      IN /\ ~IsWorkflow(r) /\ sent[r].image => t = Vision
         /\ routed => Permits(u, t)
         /\ routed /\ t # Vision /\ ~NamedByClient(r) =>
              \/ Index[t] <= Index[Candidate(sent[r])]
              \/ Candidate(sent[r]) = Lowest
         /\ budgeted[r] + decision[r].cost <= u.monthly_budget_usd
         /\ pod[r][2] \notin u.disabled_providers \cup TierOverride[UserOf[r]][t]
===============================================================================
