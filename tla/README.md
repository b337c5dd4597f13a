# TLA+ verification of gpu-relay

gpu-relay is an OpenAI-compatible bridge in front of rented GPU pods.  A chat
request is routed to a *tier*; the bridge finds or launches a *pod* for that
tier with one of several *providers*, streams the inference through it, and
charges for it.  Idle and unhealthy pods are terminated by background loops.
The bridge runs as several uvicorn workers (`docker/Dockerfile.bridge` starts
two) that share PostgreSQL and Redis and nothing else.

This directory holds TLA+ modules translated from the source, TLC
configurations that check them on small instances, and proofs checked by TLAPS.
`PROJECT.json` maps every definition to the lines it models and lists the runs,
the hazards and the theorems.  All paths below are relative to the repository.

## 1. Inventory

| Component | State | Operations | Talks to | What must be right |
|---|---|---|---|---|
| **Pod pool**, `bridge/instance_manager.py` | per worker: tier locks, `_spinning_tiers`, `_active_requests`, `_pods`; shared: the `pods` table | `acquire`, `_spin_pod`, `_spin_api_pod`, `mark_active`, `release`, `mark_pod_failed`, reaper and health loops, `start`, `stop` | database, providers, other workers through the table | one launch per worker and tier; nobody is given a pod that is not serving; a pod is terminated once, stays down, and not under a request; no instance is lost; every `acquire` returns |
| **Operator control**, `bridge/main.py` admin API, `cli/llm_ctl.py`, `dashboard/pages/monitoring.py` | none of its own | kill, pre-warm, list | `pods` table, providers | a kill at any moment leaves the pool consistent |
| **Chat completion handler**, `bridge/main.py` | per request | admission, routing, acquire, inference with retries or stream, release, accounting | all others | every path releases its pod, answers with what was really inferred and is recorded as what it was; the user's limits hold |
| **Quotas and budget alerts**, `bridge/quota.py` | Redis windows and counters; alert rows | `check_rpm`, `check_daily_tokens`, `check_monthly_budget`, `_maybe_fire_alerts` | Redis, database | limits hold under concurrency; an alert fires once per period |
| **Cost accounting**, `bridge/cost_tracker.py`, `bridge/pricing.py` | `requests`, users' prepaid balance | `record_request` | database, Redis | each inference is charged once; the balance is the sum of the charges |
| **Billing**, `cli/llm_ctl.py`, `dashboard/pages/billing.py` and the reports | `invoices` over `requests` | `bills run`, invoice status, `/v1/usage`, `gain`, `costs`, `budget`, Overview | database | a row is on one invoice; all sums agree |
| **Router**, `bridge/router.py` | tier configuration, prices | `select_tier`, `refresh_tier_prices` | offers and spending passed in | the tier is allowed and paid for |
| **Workflow orchestrator**, `bridge/multi_model.py` | stages of one request | five workflows, pre- and postprocessing | chat internals | a failing stage is skipped or ends the workflow, never silently both |
| **GPU providers**, `providers/*.py` | offers, cooldowns | `launch`, `terminate`, `list_gpus` | vendors' APIs | a launch rents one instance per request and loses none it was told of; terminate frees it |
| **Accounts and settings**, `bridge/auth.py`, account endpoints, `llmctl users`, Users, Settings and Tier Overrides pages | `users`, `quotas`, `api_keys`, `user_tier_overrides`, `user_volume_keys` | twenty-odd forms, commands and endpoints | database | a row is what one form said; two tables agree; a suspension stays |
| **Open WebUI**, `bridge/openwebui_sync.py`, `pipelines/gpu_relay_router.py` | the pipeline's `user_key_map` | sync, chat | HTTP | a chat is billed to its sender |
| **Encryption**, `bridge/crypto.py`; **gateway**, **workspace tools** | none | - | - | - |

Hard behaviours, each listed at its line under `hazards` in `PROJECT.json`:
coroutines of one worker interleave at every `await`; workers are serialised by
nothing but the database; a launch takes minutes, during which its row can be
killed by an operator and its process can die; a lost answer of a vendor leaves an
instance nobody knows; the reaper decides from a snapshot and from a counter that
belongs to its own process; the health loop writes without looking at the status;
tables are committed before and after external calls that may fail or time out;
startup clean-up runs in every worker; forms write back what differs from what
they loaded; billing runs sum what others are still committing.

## 2. The modules

| Module | What it is | Checked by | Proved in |
|---|---|---|---|
| `PodPool` | the pool of one tier: all workers, both loops, operators, providers | `MCPodPool`: `pool_kills`, `pool_health`, `pool_mixed`, `claim_race`, `reap_race` | `PodPoolProofs` |
| `PodLifecycle`, `PodPoolRefinement` | the abstract promise of the pool, and the mapping | `pool_health` | `PodRefinementProofs` |
| `Fleet` | instances across the lives of the processes: adapters, start, stop, crash, health count | `MCFleet`: `fleet` | `FleetProofs` |
| `Accounting` | rate window, tokens, budget, alerts, balance, idempotency, credits as concurrent steps | `MCAccounting`: `acct_serial`, `acct_concurrent`, `prepaid_stream` | `AccountingProofs`, `AccountingSerialProofs` |
| `Ledger`, `AccountingRefinement` | the books that accounting keeps for a client in serial use, and the mapping | `acct_serial` | `AccountingSerialProofs` |
| `Router`, `Workflow` | `select_tier` and the workflows as operators | through `ChatRequest` | `ChatRequestProofs` |
| `ChatRequest` | the handler, composing the four above by what each promises | `MCChatRequest`: `chat` | `ChatRequestProofs` |
| `Billing` | invoices and reports over the rows | `MCBilling`: `billing` | `BillingProofs` |
| `Accounts` | users, keys, settings and the key map of Open WebUI | `MCAccounts`: `accounts` | `AccountsProofs` |

`PodPool` and `Accounting` have every interleaving of what they cover; `ChatRequest`
has the whole path of a request and takes the pool as "a serving pod of the tier
or an error" - `PodLifecycle`'s promise - and the quotas as "admitted or 429".
`Fleet` is what `PodPool` leaves out below and around the pool: the calls inside
`launch` and `terminate`, and processes that come and go.

The plan is done; what could follow is under *Only model-checked* in section 9 and
in section 11.  No module declares a `RECURSIVE` operator, so that all can be proved
about.

## 3. `PodPool`

**Scope.**  Every query, lock and flag of the pool is keyed by the tier, so the
module has one tier.  `Workers`, `Requests` (each with its worker), `Providers`
with their `Kind`, the priority order, the `X-Provider` override and the disabled
providers are constants.

**Granularity.**  An action is what a coroutine does between two `await`s.  A
session that reads a row and writes it back *blindly* (`_spin_pod`'s last two
sessions, the kills) is one action, since what it read does not influence what
it writes.  Where the read matters it is a step of its own: the row check before
the claim (`ReadInProgress` / `Claim`), `mark_pod_failed` (`ReadForFailure` /
`MarkPodFailed`), the reaper's snapshot, its look at the counter, its row lock and
its commit (`ReaperSnapshot`, `ReaperConsider`, `ReaperLock`, `ReaperCommit`), the
health loop's probe and count against its commit (`ProbeOk`, `ProbeBad`,
`CommitVerdict`), the SELECT and the commit of an API row (`SelectApiRow`,
`UpsertApiRow`).

| Variable | Code |
|---|---|
| `pc`, `cur`, `tried`, `handle` | the coroutine of each `acquire` and of the use its caller makes of the handle; position in the provider loop; the `PodHandle` |
| `lock`, `spinning`, `active` | `_locks[tier]`, `tier in _spinning_tiers`, `_active_requests`, one of each per worker |
| `row` | the `pods` table: `status`, `external_id` (a placeholder or the provider's: `named`), `started_at` against the cold-start cutoff (`aged`), `last_used_at` against the idle timeout (`idle`), `health_failures`, and the reaper that holds the row `FOR UPDATE` |
| `instance`, `killing` | external: what the provider runs, and the pending `terminate` tasks |
| `failing` | pending `mark_pod_failed` tasks |
| `batch`, `reaping`, `probing`, `verdict` | the loops' local variables, per worker |
| `reaped` | history: which workers' reapers terminated the pod |

A row is named by the pair (request, provider), because `_spin_pod` draws a fresh
uuid and a request tries a provider at most once; the canonical row of an API
provider, shared by all, is `<<None, provider>>`.  The four values of `Kind` are
the combinations of `provider_type` and `needs_ollama_check` that occur.

| Actions | Code |
|---|---|
| `FastPath` ... `Wait` | `acquire` up to the claim, or the waiters' poll |
| `InsertRow`, `ResolveVolume`, `Launch`, `MarkLaunchFailed`, `MarkStarting`, `AwaitReady`, `Publish`, `AllProvidersFailed` | the provider loop and `_spin_pod`, with every place it can raise |
| `SelectApiRow`, `UpsertApiRow` | `_spin_api_pod` |
| `MarkActive`, `Drop`, `Release`, `RecordUse` | what the chat handler does with the handle |
| `ReadForFailure`, `MarkPodFailed` | `mark_pod_failed` |
| `Reaper...`, `HealthSnapshot`, `Probe...`, `CommitVerdict` | `_reaper_loop`, `_health_loop` |
| `AdminKill`, `DashboardKill` | the kill buttons and commands |
| `Terminate`, `GrowIdle`, `GrowOld` | the provider's answer, and time |

**Left out.**  `_pods` is written and popped but never read.  Mock mode replaces
the providers by one.  Database failures and cancellation of an `acquire` by a
disconnecting client are not modelled; nor are the row locks of writers other
than the reaper, which last for one statement and its commit.  A `terminate`
scheduled twice before it runs is one task.  `health_failures` stops at the
threshold, beyond which its value is never used.  A user's `provider_order` only
permutes the list and is part of `Rank`.  Starting, stopping and crashing are the
subject of `Fleet`.

### `PodLifecycle` and the refinement

`PodLifecycle` says what the pool promises its callers, without workers, locks,
tasks or a table: each pod goes once from `absent` over `launching` and `serving`
to `retired` (`Begin`, `Publish`, `Retire`, or `GiveUp` when the launch fails); a
request is given at most one pod, by its own launch (`Publish`) or while the pod
serves (`Hand`); a worker reaps only what serves (`Reap`).  API pods are
`Stateless`: they may be opened and given at any time (`Open`).

`PodPoolRefinement` maps the pool to it.  The phase of a pod is its row's status,
with two corrections that say what the code really guarantees: a pod whose
launcher is at work is `launching` whatever an operator has written into its row
- the launcher will overwrite it (section 10) - and a row that its
launcher has abandoned in `provisioning` or `starting` is `retired`: nothing ever
takes it up again.  With this reading the refinement needs no assumption that
excludes the findings of section 10.  `ImplementsLifecycle` is the promise;
`LifecycleInv` is what the correspondence needs beyond `PodInv`.

## 4. `Accounting`

**Scope.**  Every Redis key, row and balance belongs to one user, so the module has
one user, within one day of one month.  Nothing of it is local to a worker:
requests meet in Redis and PostgreSQL only, and each is a process of its own, as
is each run of `llm users credit-add`.

**Granularity.**  An action is one Redis pipeline or one database transaction.
Reading the daily counter and incrementing it are two round trips (`ReadTokens`,
`AddTokens`); so are the row of an alert and its key (`PersistAlert`,
`MarkAlert`), and the load of a balance and the commit that overwrites it
(`Authenticate` / `Record`, `ReadBalance` / `WriteCredit`).

| Variable | Code |
|---|---|
| `pc`, `loaded`, `seen`, `at` | where a request or credit is; the balance of the `User` object its session loaded (`expire_on_commit` is off); `spent` and the loop position in `_maybe_fire_alerts` |
| `window`, `stale` | the sorted set `rpm:<user>` and its members older than a minute |
| `tokens`, `alertKeys` | the day's counter; the thresholds with a key `budget_alert:...` |
| `alertRows`, `ledger`, `spent`, `balance` | rows of `budget_alerts` and `requests`, the sum over the rows with status ok, `prepaid_balance_usd` |
| `recent`, `served`, `charged`, `credited`, `rounding` | history: admitted by the rate limit and not a minute old; inference begun; what rows and credits should have done to the balance; half a unit of the column per write |

| Actions | Code |
|---|---|
| `Authenticate`, `CheckRpm`, `ReadTokens`, `AddTokens` | `get_current_user`, `check_rpm`, `check_daily_tokens` |
| `RouteRefuses`, `CheckBudget` | `select_tier` as far as the budget sees it - a projection, or no tier - and `check_monthly_budget` |
| `SkipThreshold`, `FindUnmarked`, `PersistAlert`, `MarkAlert`, `Admit` | the loop of `_maybe_fire_alerts` |
| `Acquire`, `Infer`, `StreamCut` | a pod or a refusal; the inference with its retries; a client that leaves its stream |
| `Record`, `RecordError`, `RecordDuplicate` | `record_request`, whose commit may violate `uq_requests_user_idempotency` |
| `ReadBalance`, `WriteCredit` | `users_credit_add` |
| `Crash`, `Age` | the process dies; a minute passes |

Costs and projections are constants, because they depend on latencies and prices, and
neither bounds the other: `_projected_cost` (`bridge/router.py:95`) reckons with 5 s and
1.5 s per 1000 prompt tokens besides the idle time, and an inference may run 300 s.
`Stored` is the rounding of `Numeric(12, 4)`: costs carry six decimals.  A stream
is recorded after FastAPI 0.115 has closed the session of `get_session`, which
detaches the user; `Charge` says what that means for the balance.

**Left out.**  Database and Redis failures other than the two unique constraints;
the stamp of an entry of the window is taken with its pipeline, and entries age in
any order; workflow streams; `/v1/models` and `/v1/embeddings`, which pass `check_rpm`
only; midnight and the end of the month.

## 5. `Fleet`

**Scope.**  A *pod* is one `_spin_pod` call, with its adapter; an instance is what a
vendor really runs, and bills, for that call.  `made` and `alive` are external
state, `fault` is history: what befell an instance so that nobody will look after it.

**Granularity.**  Each HTTP request of an adapter is a step.  One that rents an
instance may fail before (`CreateFails`, `NoCapacity`) or after its effect
(`ResponseLost`, `ErrorAnswer`), and one that stops it as well (`TerminateFails`).  `Raise` has the
retries: tenacity repeats `launch` of Vast and Lambda for transport errors and
errors marked retryable.  RunPod and Together try the next offer instead (`NextOffer`): RunPod when
the vendor says that there is no capacity, Together after every status that is no success, also one
that follows the creation of the endpoint.  `Boot` has what each does
when the instance does not come up in time: RunPod returns an URL that nobody has
seen, Vast an empty one, Together raises.

| Variable | Code |
|---|---|
| `proc`, `batch` | where `start` or `stop` of a worker is; the rows it has read |
| `spin`, `attempt`, `offer`, `url` | `_spin_pod` and the adapter's `launch`: position, tenacity's attempt, place in the list of offers, `PodInfo.endpoint_url` |
| `row` | the `pods` table: status, external id (0 for the placeholder), `health_failures` |
| `cooling` | Together's cooldown; the comparison with `time.monotonic()` makes it start hot on a host that has just booted |
| `kills` | `provider.terminate` tasks, with the tries left and whether `stop` awaits them |
| `verdict` | the count a health loop has computed and not yet written |

`Start`, `MarkStale`, `ResetApiRows`, `CleanupDedicated` are the four steps of
`start`; `StopSelect`, `StopCommit` those of `stop`; `Crash` may come at any time.  A process
that stops has answered its requests, but a pre-warm is a task of its own
(`bridge/main.py:1132`): its launch may begin and go on until the process is gone.
`DashboardKill` is the button of the Monitoring page, which writes the status and terminates
nothing; `Retire` is the reaper and the admin's kill, of ready pods.
`ProbeOk`, `ProbeBad`, `CommitVerdict` are the health loop with the counter it reads
and writes in two steps.

**Left out.**  The tiers, the races of the reaper and an admin's kill of a pod that is being
launched (module `PodPool`); retries of the readiness wait; a vendor that stops an instance by itself - nothing in the code notices it
but the health loop, whose verdict is modelled.

## 6. `Router`, `Workflow` and `ChatRequest`

`Router` is `select_tier`: vision, the local model, the tier the client names, the
hint in the prompt, the signals, the budget gate with its list of downgrades, as
operators over records for the request and the user.  A Python slice with a
negative start is translated as what it yields (`Downgrades`).  Tokens are counted in
thousands and costs in the unit that makes the projection an integer.
`refresh_tier_prices` is `Refreshed`.  `Workflow` lists the stages of the five
workflow models and what a failure of each does: a default in place of the stage
(`missed`), the end of the workflow (`fatal`), an early answer (`no_image`).  Stages on the pod
(`OnPod`) are fatal when they fail, but for `describe` of `visual_html`, whose failure is caught.

`ChatRequest` is `chat_completions` and `_stream_response`.  A request is a
coroutine and an action the code between two awaits; two requests run
concurrently, which matters for the counters of pods and for the prices, which are
replaced once (`SyncPrices`); each is of its own user.

| Actions | Code |
|---|---|
| `CheckQuotas`, `RouteRequest`, `CheckBudget` | lines 224-260: the sum is read for the router and once more by the check |
| `Preprocess` | `run_pipeline`, whose rewritten request has lost the images of its last user message |
| `Acquire`, `AcquireFails`, `ResolveImages` | 271-366, with the disabled providers, the vision fallback and the images that Ollama has to be given inline |
| `Begin`, `RunStage`, `FinishWorkflow` | the workflows |
| `InferOk`, `RateLimited`, `ModelMissing`, `InferFails`, `Postprocess` | the loop of three attempts |
| `OpenStream`, `StreamModelMissing`, `EndStream`, `CutStream` | `event_generator`; a client may leave at any point of it |
| `Release`, `Record` | the two finally clauses, `record_request`, the answer |

The clients' bodies are enumerated in `MCChatRequest`: each signal of the router, each
way to name a tier, images in the last message or before, every workflow, streams,
pipelines.  The instance has the tiers, limits and prices of `config/tiers.yaml`.
`alt` abstracts the model names: whether the model asked for is another one than
the pod's own.

**Left out.**  What a model says; token counts and latencies (an inference costs one
of `Costs`); `Idempotency-Key`, alerts and the balance (module `Accounting`).

## 7. `Accounts` and `Billing`

**`Accounts`.**  Whoever fills in a form, runs a command or calls an endpoint is a
client.  A call is a load and a commit; SQLAlchemy writes the columns that differ
from what was loaded, which `Merged` says once for all forms.  Each form is an
operator from the loaded row to the one wanted (`Suspend`, `SaveUser`, `PreferTiers`, ...).
Settings are numbers 0 to 2, 0 for NULL.  One user has a tier override
and one a volume key, since those rows never meet.  The Settings page reads the user twice,
when it is shown and when it saves (`ReloadUser`), and writes back what it has shown of the
preferences that its form is not about.  An UPDATE or a DELETE goes by the primary key of the row
loaded, and does not touch one that has replaced it (`SameRow`).  The JWT of a user and the cached
valves of the pipeline are state too.  The key map is fetched, extended and posted back
(`FetchValves`, `PostValves`) with a key that the bridge has just made or with whatever an
operator gives: `SyncOpenwebui` takes any email and any string, a key of somebody else or
none (`Stray`), as the endpoint does (`bridge/main.py:1265`).  `Chat` is what the pipeline
and `auth.py` make of a chat from Open WebUI.

**`Billing`.**  A billing run is one READ COMMITTED transaction over the users, each
with a check for an existing invoice and a sum (`CheckExisting`, `Aggregate`), and a
commit (`CommitRun`) that fails when another run was first.  A row is stamped when it is flushed
and seen when it is committed.  Time is counted in ticks, the last tick of a month
being its last second, which `_period_bounds` leaves out.  The reports are
operators over the same rows, with the period and the filter of each.

**Left out.**  Validation of volume keys against RunPod is an outcome;
passwords and hashes are identities; sums are of integers, so rounding of
`Numeric` columns is left to `Accounting`.

## 8. What the runs check

Passing runs of `MCPodPool`:

| Run | Instance | Shows |
|---|---|---|
| `pool_kills` | 2 workers, a request each, one reaper, operators who kill at any moment | `TypeOK`, `ActiveCountExact`, `HandedOutWasPublished`, `InstanceOnRecord` |
| `pool_health` | 2 workers with both loops each, threshold 2, kills, one request | `ReapedOnce` and `RetiredStaysRetired` among all loops; the refinement `ImplementsLifecycle` |
| `pool_mixed` | 2 requests and the reaper of one worker, the local provider with a dedicated and an API provider behind it, an override; fair | `SingleFlight` with upserts and name clashes; `AcquireReturns`, `IdlePodReaped` |

* `SingleFlight`: lock, flag and provider loops of a worker agree, and there is
  at most one loop.
* `ActiveCountExact`: the counter the reaper looks at is the number of requests
  of that worker on the pod; the `max(0, ...)` of `release` hides nothing.
* `HandedOutWasPublished`: nobody holds a pod whose row is still provisioning or
  starting.
* `ReapedOnce`: all reapers together terminate a pod at most once, for good.
* `InstanceOnRecord`: what a provider runs for us has its id in the table, but
  for the moment between `launch` and its commit.
* `RetiredStaysRetired`: a pod that was handed out and then retired is not
  revived by any of the writers that do not look at the status.
* `ImplementsLifecycle`: all interleavings together give each pod one life and
  each request one pod.
* `AcquireReturns`, `IdlePodReaped`: liveness.

**Bounds.**  `Requests` are one-shot: a client that comes back is another request,
and two or three of them are enough to fill every role at once - launcher,
waiter, late comer, user of a pod.  `Reapers` and `Checkers` choose which workers'
loops take steps and `OperatorKills` whether operators act; each run turns on
those that its question is about, and their loops are unbounded.  A pod per
request and provider is all the code can create.

**Fairness.**  `FairSpec` asks that each coroutine that can take a step
eventually does (an event loop starves nobody), per request for `acquire` and for
the use of the handle, and for each step of the reaper loop, which never exits.
It is justified for the waits inside `acquire` because provider calls, probes and
polls carry time limits, and for inference by the client's 300 s.  Weak fairness
is enough: the tier lock is an `asyncio.Lock` held over two queries, and in the
instances a waiter's step stays enabled once the lock is free for good.  Nothing
is asked of health loops, operators, terminations or time: `IdlePodReaped` speaks
of pods that *are* past their timeout.

Passing runs of `MCAccounting`:

| Run | Instance | Shows |
|---|---|---|
| `acct_serial` | 4 requests, 2 of them with one idempotency key, and a credit, one at a time; costs in half units of the column, below and above their projections | the docstrings `DailyTokensHeld`, `PrepaidDecremented`, `AlertNeverFailsRequest`, `BillingIsComplete`; `BudgetHeld` and `ImplementsLedger` |
| `acct_concurrent` | 3 concurrent requests - a stream, one for the local model whose worker may die, 2 with one key - and a credit | `TypeOK`, `RateHeld` (2 per minute), `NoAlertMissed`, `NeverOvercharged`, `ChargedWithItsRow` |

* `RateHeld`: no more than the limit of the requests admitted in the last minute.
* `NoAlertMissed`: who is served has every threshold reached by its sum on record.
* `NeverOvercharged`: lost updates go one way only, in the user's favour.
* `ChargedWithItsRow`: the balance moves in the commit of a new row, or by a credit.
* `ImplementsLedger`: in serial use the round trips of a request are one entry of the books
  or none.  `Ledger` has the month's entries, their sum, the balance, the alerts and the
  credits, and no sessions: an entry is made at once with its charge, while the budget has room
  for a projection, has an unused key and comes after the alerts that the sum calls for; a credit is
  added to what is there.  The mapping is the tables themselves (`Credited` are the
  credits that are done).
* `BudgetHeld`: "Reject if user would exceed monthly budget" (`bridge/quota.py:95`) is a check
  against a projection, so the month may end above the budget - by no more than one inference
  has cost beyond its projection, because nothing is admitted after it.
* The other promises of `acct_serial` are docstrings of the code.  They hold for a client
  that waits for each answer and does not stream; section 10 shows that they need
  that restriction.

**Bounds.**  `MaxInFlight` is the number of requests and credits under way
together, 1 for serial use and out of reach otherwise; `CreditOps`, `Mortal` and
`Requests` bound what happens at all.  Budget, deposit and quota are small enough
for every request to be refused on some path and admitted on another, for both
thresholds to be reached, and for the balance to meet its floor.  Requests are one-shot,
so the system ends and deadlock checking is off.

The other passing runs:

| Run | Instance | Shows |
|---|---|---|
| `chat` | 2 concurrent requests of 2 users, one of them restricted in tiers, budget and providers; 16 kinds of body each | `TypeOK`, `SlotsReturned`, `AnswerIsWhole`, `RowTellsOutcome`, `ServedWithinLimits` |
| `fleet` | one launch by any of five pods (RunPod with the admin's or the user's key, Vast, Together, local), 3 starts of 2 processes | `TypeOK`, `OrphanHasCause`, `OneInstancePerRequest`, `StartsClean`, `CountsFailedProbes` |
| `accounts` | 4 calls, 2 at a time, on 3 accounts | `TypeOK`, `BudgetsAgree`, `SettingsAreOneForm`, `SuspendedStaysOut`, `ChatBillsSender` |
| `billing` | 2 users, 3 requests of which one may fail, 2 runs, 2 months | `TypeOK`, `InvoicedOnce`, `InvoiceComplete`, `ReportsAgree` |

* `SlotsReturned`: through retries, failing workflows, broken and abandoned streams, a
  pod's counter is the number of requests on it - the caller's side of `ActiveCountExact`.
* `AnswerIsWhole`: the loop over the attempts may be left with a 404 in hand - when the last
  attempt is the one that switches models - and that never passes for an answer, since it has no
  choices; of a workflow only local stages and the description of an image may be missing, with
  the failure on record.
* `RowTellsOutcome`: an error row means an error; an ok row means a success or an
  exception without a message - the code's loophole, section 10.
* `ServedWithinLimits`: tiers, vision, budget and disabled providers of the user, for every way
  to name a tier; a request routed by content is never moved up, but from the lowest tier.
* `OrphanHasCause`: an instance that runs and is neither being launched, nor in service, nor
  about to be terminated got there in one of the ways listed in `Causes`: a lost answer, an error
  status with an instance behind it, a wait that `launch` or `_spin_pod` gave up, a row that another
  process deleted, the end of the process, a `terminate` that gave up or asked the wrong account, a
  status written without a `terminate` (an inference error, a start-up, the Monitoring page).  A
  `starting` row is in service only while its launcher waits for it.  Some are ways for one
  adapter only: Vast never leaves an instance behind because `launch` gave up waiting for it.
* `OneInstancePerRequest`: a launch rents at most one instance per request it sends - per try, for
  Together per hardware, for RunPod one in all - the row names the last, and each of the
  others was left behind by an answer that was lost or an error.
* `StartsClean`: processes that follow each other leave each other nothing, and what a running bridge hands
  out runs.  `overlap` excludes processes beside each other: section 10.
* `CountsFailedProbes`: lost updates of `health_failures` go one way only.
* `BudgetsAgree`, `SettingsAreOneForm`: two rows agree, a row is one form - unless two calls for
  the same row have overlapped (`raced`); calls for other rows, and other columns of the user,
  may overlap at will.
* `ChatBillsSender`: a chat whose sender is in the map is billed to the sender, unless an operator
  has given the sender another key (`typed`); and the map has for each user the key of the
  last sync, whatever syncs of others came before, between or after - unless one had fetched the map
  before that sync and posted it after (`overtaken`).
* `SuspendedStaysOut`: no form loaded before a suspension undoes it, and neither JWT nor
  API key lets a suspended user in.
* `InvoicedOnce`, `InvoiceComplete`: overlapping and repeated runs put a row on one
  invoice, and miss it only in the last second of the month or when it is committed late.
* `ReportsAgree`: nine sums over the same rows, each with its own period and filter.

**Bounds.**  `MaxSpins = 1`: calls of `_spin_pod` share nothing in `Fleet` but the cooldown,
which a start may turn on as well; what the two *processes* do to the pod of one call is the
question.  `MaxStarts = 3` is a process, its successor and one beside either.  `MaxCalls = 4`
is two forms that overlap, one before and one after.  `Ticks = 2` is a month of one
ordinary second and its last one.  Two requests in `chat` are of two users and share the counter of a
pod and the prices, or differ in all.  Clients of `accounts` and runs of `billing` are symmetric: the
specifications treat them alike, and neither run has liveness properties.  Calls, starts and requests
are used up, so deadlock checking is off.

**Mutants.**  Each property of each run has a faulty variant of one definition,
written next to it (`Claim_RowsOnly`, `EndSpin_NoFinally`, `ReaperLock_NoRecheck`,
`CommitVerdict_Revives`, ...), under which TLC finds the property violated.

## 9. What is proved

`PodPoolProofs` and `PodRefinementProofs` prove with TLAPS, for every set of workers, every *finite* set of
requests, every set of providers of any kinds, every priority order and override,
every set of reapers, health loops and operators - the assumptions are those of
`PoolAssumption` in `PodPool`:

| Theorem | Statement |
|---|---|
| `TypeCorrect` | `Spec => []TypeOK` |
| `SingleFlightHolds` | `Spec => []SingleFlight` |
| `PodInvHolds` | `Spec => []PodInv` |
| `HandedOutHolds`, `ReapedOnceHolds`, `InstanceOnRecordHolds` | the conjuncts of `PodInv` a reader cares for |
| `RetiredHolds` | `Spec => RetiredStaysRetired` |
| `ActiveCountHolds` | `Spec => []ActiveCountExact` |
| `LifecycleInvHolds` | `Spec => []LifecycleInv` (module `PodRefinementProofs`) |
| `Refinement` | `Spec => ImplementsLifecycle` (module `PodRefinementProofs`) |

*Types.*  `TypeOK` is not inductive: `Publish` writes a handle for the provider a
request is at, which is a provider only because the request has put it into
`tried`.  `Located` says so, and the two are inductive together.

*Single flight* is inductive given the types.  A request's move keeps it when it
leaves lock and flag alone (`QuietMove`) or gives up the flag (`SpinEnds`); the
rest are the three steps at the lock.

*Pods.*  The writes in `_spin_pod` and in the health loop do not look at the
status they overwrite, so none of the properties about rows is inductive.
`PodInv` adds why the writes are harmless.  A pod that is *unpublished* - its
request has not tried the provider yet, or is launching it - has never been
ready, so no handle names it, no reaper has taken it, and its launcher's
`starting` and `ready` overwrite nothing but an operator's kill
(`UnpublishedUntouched`).  A row lock is held only on a ready row, by the reaper
that is at work on it (`HolderExact`), so the commit after the re-check acts on
what was checked.  API rows skip the launch and are never in its statuses
(`ApiRows`).  A launch of the local provider that meets a taken name leaves its
row as it is, which is harmless since it has no instance (`InstanceKind`).
The proof has one lemma per kind of write: `RequestMove` (none), `LauncherWrite`,
`RowStep` (retire or keep), and the insert, upsert and reaper steps.

*Counters.*  `ActiveCountHolds` is by the cardinality of the set of users, which
`MarkActive` extends by one and `Release` reduces by one.

*Refinement.*  `LifecycleInv` is inductive with the other two: rows stay
(`RowsKept`), appear only with their launcher or as an API row (`RowAppears`), a
launch begins with its row (`LaunchBegins`), and the tasks that write a row by
its id have seen it, so no late write conjures up a pod.  Then each action of the
pool is one step of `PodLifecycle` or a stutter, one lemma per group of actions;
writers that retire a pod without looking (`RowRetired`) find it launching,
serving or retired already, and change the phase only in the second case.

`AccountingProofs` proves, for every finite set of requests and credits, every
limit, quota, budget, list of thresholds and unit of the column
(`AccountingAssumption`), and `AccountingSerialProofs` under `SerialUse` as well:

| Theorem | Statement |
|---|---|
| `AccountingTypes` | `Spec => []TypeOK`: in particular, no balance below 0 |
| `AccountingInvHolds` | `Spec => []AccountingInv` |
| `RateHolds`, `NoAlertMissedHolds`, `NeverOverchargedHolds` | the conjuncts a reader cares for |
| `ChargedWithItsRowHolds` | `Spec => ChargedWithItsRow` |
| `SerialHolds` | `SerialUse => (Spec => []SerialInv)` (module `AccountingSerialProofs`) |
| `LedgerHolds` | `SerialUse => (Spec => ImplementsLedger)` |
| `DailyTokensHolds`, `BudgetHolds`, `PrepaidDecrementedHolds`, `CreditKeptHolds`, `AlertNeverFailsHolds`, `BillingCompleteHolds` | the promises of serial use one by one (`CreditKept` also follows from `ImplementsLedger`), each `SerialUse => (Spec => []...)` |

*In every interleaving.*  `AccountingInv` has five parts.  What was admitted and is
recent is still in the window, so the count made with an admission bounds it
(`RateInv`, by cardinality of subsets).  A key follows its row, and a request has
dealt with every threshold behind its position, so that one who skips a marked
threshold may rely on another's row (`AlertInv`).  A balance that somebody has
loaded obeys the same lower bound as the one in the table, so writing it back is
harmless whatever it overwrites (`BalanceInv`).  A row is written in a request's
last step (`RowsFinal`), and `InLoop` makes the loop's index a position.

*In serial use.*  Whoever moves is alone before and after (`Alone`, from
`MaxInFlight = 1` by cardinality).  So what was read stays true until it is
used: the counter until the increment (`TokensSerial`), the room that the sum has left for a
projection until the row (`BudgetSerial`, for any costs and projections), the balance until the commit (`BalanceSerial`); and a row of an
alert without its key belongs to the one request that is about to set it
(`AlertsSerial`).  `BillingIsComplete` needs `AlertInv` to know that a request
refused by a check was not served.

*The books.*  `Ledger` looks at its own state when an entry is made; the code looks
minutes before.  `LedgerInv` adds to `SerialInv` that the sum a request has checked is
still the sum (`SpentSeen`), that an alert about to be written is due (`AlertDue`)
and that whoever is recorded was served (`RecordServed`); it is inductive since only one
request is ever under way.  Then `EntryAllowed` has the guard of an entry,
`StoredIsNear` its rounding, and each step is one lemma: four of them are steps of
`Ledger`, and the others write no table (`BooksRest`).

`BillingProofs` proves, for any users, requests, costs, length of the month and
number of billing runs (`BillingAssumption`, `NoneAssumption`):

| Theorem | Statement |
|---|---|
| `BillingTypes` | `Spec => []TypeOK`: in particular, sums are of committed rows only |
| `BillingInvHolds` | `Spec => []BillingInv` |
| `InvoicedOnceHolds` | `Spec => []InvoicedOnce` |
| `InvoiceCompleteHolds` | `Spec => []InvoiceComplete` |
| `ReportsAgreeHolds` | `Spec => []ReportsAgree` |

*Invoices.*  Neither property is inductive: an invoice is written long after the sum
it holds.  `SumsExact` says of every sum, pending or on an invoice, that its rows
are the billable ones of the period among those it has seen; rows never change
once committed, so what others record meanwhile keeps it (`RecordsKeepSums`).
`OwedPending` follows a user who owes from the list (`todo`) over the sum and the
pending invoices to the commit; an earlier invoice explains why one was skipped.
`OneSumEach` keeps the users of the list, of the sum and of the pending ones apart.
Then `InvoicedOnce` is arithmetic, since two periods do not meet (`PeriodsApart`),
and so is `InvoiceComplete`: what is not in its month's period is in the last
second (`InPeriod`).

*Reports.*  `ReportsAgree` compares sums of the same rows cut in different ways, and
the sums are folds over sets (`MapThenSumSet`), whose recursion the library states
without theorems.  The proof goes round it: `Coins` of a set of requests has one element
per request and cent, counting coins satisfies the recursion (`CoinsSum`), and no other
function does, since on a smallest set where two differ they would agree
(`MinimalSubset`, `SumUnique`).  So a sum over disjoint sets splits (`TotalSplit`), more
rows cost no less (`TotalGrows`) and errors cost nothing (`TotalOfErrors`).  What remains
is which rows a report takes: no row is stamped later than now (`Stamped`, inductive by
itself), so a report without an upper bound and the one of this month see the same
rows but those of the last second.

`FleetProofs` proves, for any finite sets of workers and pods, any adapters, numbers
of GPU options, failure threshold and bounds (`FleetAssumption`):

| Theorem | Statement |
|---|---|
| `FleetInvHolds` | `Spec => []FleetInv` |
| `TypesHold` | `Spec => []TypeOK`: in particular, no more tries than the adapter makes |
| `OrphansHaveCauses` | `Spec => []OrphanHasCause` |
| `OneInstanceHolds` | `Spec => []OneInstancePerRequest` |
| `StartsCleanHolds` | `Spec => []StartsClean` |
| `CountsOnlyFailures` | `Spec => []CountsFailedProbes` |

`FleetInv` says per pod what a launch under way has made and knows (`LaunchOK`), that it
rents again only where the last instance was not named to it (`LostOK`), what the
row may name at each place of `_spin_pod` (`RowOK`), whose process it runs in
(`OwnerOK`), that failures counted are failures seen (`CountOK`) and why an instance
runs (`CauseOK`: a row in `starting` is a claim on it only while the launcher waits);
per worker, that what a loop has selected was there when it did (`BatchOK`, `VerdictOK`);
and of pending terminations, that they name instances that were made (`KillsOK`).  A step of
`_spin_pod` moves its own pod only; a process that stops, crashes or starts, and a
termination, take nothing back of what others know, and faults are only added.
`StartsClean` needs `CleanInv`, which speaks of the time while processes do not overlap:
whoever is up is alone (`Alone`), so the clean-ups it went through have seen
every row of an earlier life (`Cleaned`), and nobody else terminates what it serves
(`HeldOK`).

`ChatRequestProofs` proves, for any finite set of requests with any bodies, any users,
tier tables, prices, offers, providers and costs (`RouterAssumption`,
`ChatAssumption`; the workflows are those of the code):

| Theorem | Statement |
|---|---|
| `ChatInvHolds` | `Spec => []ChatInv` |
| `TypesHold` | `Spec => []TypeOK`: in particular, no synchronisation leaves a tier without a price |
| `AnswersAreWhole` | `Spec => []AnswerIsWhole` |
| `RowsTellOutcomes` | `Spec => []RowTellsOutcome` |
| `LimitsHold` | `Spec => []ServedWithinLimits` |
| `SlotsAreReturned` | `Spec => []SlotsReturned` |

*The router.*  `SelectTierSound` states what `select_tier` promises, without the way it
gets there (`Selected`): if it names a tier and does not refuse, the tier is configured, it is
the vision tier for an image, and, unless the client has asked for the local model, one
the user is permitted and, unless the client has named it, no higher than the signals
ask for or the candidate is the lowest.  `PriceType` is about the scan over
the providers in `refresh_tier_prices`, a recursive function: if some prefix of them
left something other than a price or `None`, a shortest one would, and one step back the
value was right.

*The handler.*  `ChatInv` holds per request: its body is still the client's but
for what preprocessing takes out (`BodyOK`); at each place, which of decision, pod, count of attempts,
answer and row are there (`PlaceOK`, `OutcomeOK`); what has been inferred by
then (`WholeOK`); and that the decision obeys the limits against the spending the budget
check has read (`LimitOK`).  The last is about the past, so it is kept by whoever spends
or synchronises prices meanwhile.  `SlotsReturned` is by cardinality of the holders of a
pod, one step entering or leaving at a time.

`AccountsProofs` proves, for any finite sets of clients, users and keys, any calls and
founders (`AccountsAssumption`, which includes that a volume form is never saved
empty, as page and endpoint require):

| Theorem | Statement |
|---|---|
| `AccountsInvHolds` | `Spec => []AccountsInv` |
| `TypesHold` | `Spec => []TypeOK` |
| `BudgetsAgreeHolds` | `Spec => []BudgetsAgree` |
| `SettingsHold` | `Spec => []SettingsAreOneForm` |
| `ChatBills` | `Spec => []ChatBillsSender` |
| `SuspendedHold` | `Spec => SuspendedStaysOut` |

The properties speak of commits, so the invariant is about the calls between load and
commit: what an open budget form has read is still in the row, or the row is raced
(`BudgetInv`), likewise the calls on an override and a volume (`OverrideInv`,
`VolumeInv`); whoever has read a key finds it on record with the same owner, and
what is sent to the pipeline for a user is a key of the user unless an operator has typed it
(`Sent`, `KeyInv`); a post under way holds for every user not overtaken the key of the last
sync (`SyncInv`); a session belongs to a user on
record (`TokenInv`).  Each part has a lemma for the steps that leave its tables alone
(`BudgetKept`, ..., `TokenKept`), so that only the actions that write a table are
looked at for its part; the commit of a rival is what makes a row raced.
`SuspendedHold` is an action property from the same invariant: a commit writes the
columns that its form has changed, and only the toggle changes `active`.

**What the constants are assumed to be.**  The assumptions are types, finiteness, and what
the configuration guarantees: orders without repetitions, a limit of at least one, `None` outside of everything it could be taken for.  TLC evaluates each of them
on every run of its module.

**Only model-checked.**  `AcquireReturns` and `IdlePodReaped`: liveness under
fairness is out of the prover's reach.  Every other property of a run that passes is
stated by a theorem.

## 10. Where code and documentation disagree

Three have a run that expects TLC to find the violation.

| Run | Statement | What happens |
|---|---|---|
| `claim_race` | "DB check makes this cross-process safe" (`bridge/instance_manager.py:200`) | two workers check the table under their own locks before either has inserted its row: both launch |
| `reap_race` | the reaper spares pods with active requests (`bridge/instance_manager.py:43-44`) | a running pod is handed out without touching `last_used_at`, so it may be past its idle timeout; the reaper awaits the row lock after looking at the counter, and the second request is marked active meanwhile |
| `prepaid_stream` | "balance is decremented immediately" (`bridge/cost_tracker.py:11`) | the session is closed before a stream's body is sent; its record assigns to a detached user |

The counter of the reaper belongs to one process, so the same happens across
workers without any race: with `Workers = {w1, w2}` and `WorkerOf <- Spread` in `reap_race.cfg`, a request of
`w2` is marked active before the reaper of `w1` has even taken its snapshot, and its pod
is terminated all the same.

**What concurrency costs.**  With `MaxInFlight = 2` in `acct_serial.cfg` (and `CreditKept` added; for `BudgetHeld`
with `Budget = 2`) TLC violates each of these promises:

| Property | Statement | What happens |
|---|---|---|
| `DailyTokensHeld` | "reject if it would exceed quota" (`bridge/quota.py:68`) | two requests read the counter before either increments it |
| `BudgetHeld` | "Reject if user would exceed monthly budget" (`bridge/quota.py:95`) | running requests are not in the sum: all pass on the same one, and the overrun is as many costs as there are requests |
| `PrepaidDecremented` | "balance is decremented immediately" (`bridge/cost_tracker.py:11`) | each writes the balance it computed from the one loaded at authentication: a charge is lost |
| `CreditKept`, `ImplementsLedger` | "Add prepaid credit" (`cli/llm_ctl.py:485`) | a request under way writes the old balance back over the credit |
| `AlertNeverFailsRequest` | the row "dedupes notifications" (`database/models.py:341`), the check answers 429 (`bridge/quota.py:8`) | two requests insert the row of one threshold: the second fails with an uncaught integrity error |

A crash between the row of an alert and its key, or one of Redis there, does the same to every
later check of that user in that month: the row stays without its key, and each insert fails.

A local request passes `check_monthly_budget` like any other, with a projection of
0: a user above the budget is refused it, although `docs/tiers.md:44` says "Zero
cost — budget gate skipped".

**Found while modelling**, without a run of their own; the models say what the code
does, so that the properties hold with these:

*Pool and providers.*

* A pod that an operator kills during its launch comes back: `_spin_pod` writes
  `starting` and `ready` without looking (`bridge/instance_manager.py:374-394`, against line 35).
* The second launch of the local provider repeats its external id `local-<tier>`
  (`providers/local.py:68`): the commit violates the unique constraint, and the row stays
  `provisioning` and makes others wait until the cutoff.
* Two processes that start or stop beside each other, as `Dockerfile.bridge` has them,
  delete, fail or terminate each other's pods; `stop` of one terminates those of all.
* A RunPod pod rented with a user's own key is terminated with the administrator's
  (`providers/runpod.py:212`), which the vendor answers with "not found": taken for done.
* `mark_pod_failed` and the stale clean-up mark a row failed and terminate nothing.
* Together's `launch` goes on with the next hardware after any error status
  (`providers/together_dedicated.py:160`), also one that follows the creation of the endpoint: one
  launch may leave an endpoint per hardware behind, and only the last is on record.
* The failures that retire a pod need not be consecutive (against `bridge/instance_manager.py:42`): a
  worker that has read the count writes it back increased over another's reset.
* Together's cooldown is on for the first ten minutes after the host has booted.
* The kill button of the Monitoring page writes the status and terminates nothing.

*Requests.*

* `downstream_model` is documented (`docs/tiers.md:85`, `docs/providers.md:190`) but not a field of
  `ChatCompletionRequest`: the fallback of the vision tier cannot be reached.
* `run_pipeline` drops the images of the last user message (against `docs/tiers.md:83`).
* Workflows bypass the user's allowed tiers (against `docs/tiers.md:95`); `llm-smart`
  ignores both the suggested tier and the optimised prompt (`bridge/multi_model.py:107,267`).
* The list of downgrades of the lowest tier wraps around to the highest (`bridge/router.py:249`).
* A timeout whose exception has no text is recorded as ok and charged
  (`bridge/cost_tracker.py:64`, against `tests/test_cost_tracker.py:86`); `Infer` of `Accounting`
  covers it by its outcome `record_ok`.
* A stream whose client leaves has no row, against "Request row written regardless of
  success/failure" (`bridge/cost_tracker.py:12`); one that switched to the pod's own model counts no tokens.
* `request.state.api_key_id` is read and never set: `requests.api_key_id` is always NULL.

*Accounts.*

* `llmctl users tiers --set` does not update `max_tier`, which the Users page keeps in sync;
  `max_tier`, `requests_per_minute`, `usd_per_month` and `tokens_per_day` of a quota are read by no check.
* Saving tier preferences on the Settings page erases the provider order.
* The Tier Overrides page preselects the tier's providers that the override has disabled, so
  that the next save enables them again; and it takes a failed fetch for "no override".
* A volume whose row is deleted while the page shows it, saved with the key field blank,
  is stored with the key "".
* `users reset-key` does not update the key map of Open WebUI: the user's chats go on
  with a revoked key.  Two overlapping syncs lose the mapping of one.
* `POST /admin/sync-openwebui` (`bridge/main.py:1265`) maps any email to any string: with
  another user's key the chats are billed to that user, with anything else they fail.
* Two budget forms for one user that overlap leave `users` and `quotas` apart; two PUTs, or a PUT
  and a delete, of one override or volume that overlap leave a mix of both.
* The Suspend button writes the opposite of what it reads when pressed (`dashboard/pages/users.py:148`):
  pressed on two pages that both show an active user, the second press re-activates.

*Billing.*

* The last second of a month is on no invoice, and rows committed after the sum are on none either.
  The dashboard proposes the current month, the rest of which is then never invoiced.
* Users who are deactivated before the run are never invoiced (against "all postpaid users").
* `ok_requests` of `/v1/usage` and the Users page count requests of any status; deleting
  pod rows at start loses the figures that the provider statistics join.

## 11. What is not modelled

`PROJECT.json` lists every component with its status.  Left out:

* encryption (`bridge/crypto.py`), the gateway and the workspace tools: one call
  each way, a pass-through, file operations; nothing is kept between two calls;
* pages, commands and endpoints that only read and print, provider balances;
* `/v1/models`, `/v1/embeddings` and the legacy completion endpoint beyond `check_rpm`;
* the wording of prompts, the parsing of vendors' JSON, Docker and compose files;
* failures of PostgreSQL and Redis other than unique constraints; preemption by a vendor.

## 12. Running

    tlc -config pool_kills.cfg MCPodPool.tla      # any run of PROJECT.json
    tlc -config acct_serial.cfg MCAccounting.tla
    tlc -config chat.cfg MCChatRequest.tla        # fleet, accounts, billing likewise
    tlapm PodPoolProofs.tla                        # the proofs
    tlapm PodRefinementProofs.tla
    tlapm AccountingProofs.tla
    tlapm AccountingSerialProofs.tla
    tlapm BillingProofs.tla
    tlapm FleetProofs.tla
    tlapm ChatRequestProofs.tla
    tlapm AccountsProofs.tla
