------------------------------- MODULE PodPool -------------------------------
(***************************************************************************)
(* The GPU pod pool of one tier: InstanceManager of bridge/instance_manager *)
(* as run by several uvicorn workers that share one database.  Tiers are    *)
(* decoupled in the code (every query, lock and flag is keyed by the tier), *)
(* so one tier is the whole story.                                          *)
(*                                                                          *)
(* A request is one acquire() coroutine followed by the use its caller      *)
(* makes of the handle.  An action is the code between two suspension       *)
(* points (awaits); what a worker does between them is atomic because a     *)
(* worker is one asyncio event loop.                                        *)
(***************************************************************************)
EXTENDS Naturals, FiniteSets

CONSTANTS
  Workers,        \* uvicorn worker processes
  Requests,       \* acquire() calls
  WorkerOf,       \* the worker that runs each request
  Providers,      \* provider names
  Kind,           \* lifecycle of each provider, see Kinds
  Configured,     \* keys of InstanceManager._providers
  Listed,         \* provider_overrides of the tier, or provider_priority_list
  Rank,           \* place of a provider in the request's priority order
  Override,       \* X-Provider header of the request, or None
  Disabled,       \* providers the user has disabled
  FailThreshold,  \* settings.health_check_fail_threshold
  Reapers,        \* bound: workers whose idle-reaper task takes steps
  Checkers,       \* bound: workers whose health-checker task takes steps
  OperatorKills,  \* bound: whether operators kill pods by hand
  None            \* Python's None

(***************************************************************************)
(* "pod" has an instance and an Ollama endpoint to probe, "dedicated" has   *)
(* an instance that launch() itself waits for, "local" has an Ollama        *)
(* endpoint but no instance, "api" has neither.                             *)
(***************************************************************************)
Kinds == {"pod", "dedicated", "local", "api"}
HasInstance(v) == Kind[v] \in {"pod", "dedicated"}
NeedsOllamaCheck(v) == Kind[v] \in {"pod", "local"}

(***************************************************************************)
(* Rows of the pods table.  _spin_pod gives its row a fresh uuid, and one   *)
(* request tries a provider at most once: the row is named by the pair.     *)
(* An API provider has one canonical row per tier, <<None, v>>.             *)
(***************************************************************************)
Pods == (Requests \cup {None}) \X Providers
PodFor(r, v) == IF Kind[v] = "api" THEN <<None, v>> ELSE <<r, v>>

ASSUME PoolAssumption ==
  /\ IsFiniteSet(Requests)
  /\ WorkerOf \in [Requests -> Workers]
  /\ Kind \in [Providers -> Kinds]
  /\ Configured \subseteq Providers
  /\ Listed \subseteq Providers
  /\ Rank \in [Requests -> [Providers -> Nat]]
  /\ Override \in [Requests -> Providers \cup {None}]
  /\ Disabled \in [Requests -> SUBSET Providers]
  /\ FailThreshold \in Nat \ {0}
  /\ Reapers \subseteq Workers
  /\ Checkers \subseteq Workers
  /\ OperatorKills \in BOOLEAN
  /\ None \notin Workers \cup Requests \cup Providers \cup Pods

VARIABLES
  pc,         \* where each request is
  cur,        \* provider the request is spinning
  tried,      \* providers its loop has been through
  handle,     \* pod of the PodHandle it was given
  lock,       \* _locks[tier] of each worker: the holder
  spinning,   \* tier \in _spinning_tiers of each worker
  active,     \* _active_requests of each worker
  row,        \* the pods table
  instance,   \* what the provider runs for a row
  killing,    \* a provider.terminate(external_id) task is pending
  failing,    \* mark_pod_failed tasks
  batch,      \* reaper loop of each worker: snapshot still to visit
  reaping,    \* reaper loop of each worker: pod past the checks
  reaped,     \* workers whose reaper has terminated the pod (history)
  probing,    \* health loop of each worker: snapshot still to visit
  verdict     \* health loop of each worker: failure count about to be written

requestVars == <<pc, cur, tried, handle>>
workerVars  == <<lock, spinning, active>>
cloudVars   == <<instance, killing>>
reaperVars  == <<batch, reaping, reaped>>
healthVars  == <<probing, verdict>>
vars == <<requestVars, workerVars, row, cloudVars, failing, reaperVars, healthVars>>

InProgressStatus == {"provisioning", "starting"}
TerminalStatus   == {"terminated", "failed"}
Status == {"none", "ready"} \cup InProgressStatus \cup TerminalStatus

Row == [status   : Status,
        named    : BOOLEAN,          \* external_id is the provider's own id
        aged     : BOOLEAN,          \* started_at < now - cold_start_timeout_sec
        idle     : BOOLEAN,          \* now - last_used_at > idle_timeout
        failures : 0..FailThreshold, \* health_failures, cut off at the threshold
        holder   : Workers \cup {None}]  \* reaper holding SELECT ... FOR UPDATE

NoRow == [status |-> "none", named |-> FALSE, aged |-> FALSE, idle |-> FALSE,
          failures |-> 0, holder |-> None]

LockLocs == {"recheck", "probe", "claim_clear", "claim_busy"}
PodLocs  == {"volume", "launch", "mark_failed", "launched", "await_ready", "publish"}
ApiLocs  == {"insert_api", "revive_api", "touch_api"}
SpinLocs == {"spin"} \cup PodLocs \cup ApiLocs
HandleLocs == {"holding", "active", "released", "done"}
Locs == {"fast", "lock", "wait", "raised", "dropped"} \cup LockLocs \cup SpinLocs \cup HandleLocs

TypeOK ==
  /\ pc \in [Requests -> Locs]
  /\ cur \in [Requests -> Providers \cup {None}]
  /\ tried \in [Requests -> SUBSET Providers]
  /\ handle \in [Requests -> Pods \cup {None}]
  /\ lock \in [Workers -> Requests \cup {None}]
  /\ spinning \in [Workers -> BOOLEAN]
  /\ active \in [Workers -> [Pods -> Nat]]
  /\ row \in [Pods -> Row]
  /\ instance \in [Pods -> {"absent", "running", "lost", "stopped"}]
  /\ killing \in [Pods -> BOOLEAN]
  /\ failing \in [Pods -> {"none", "queued", "found"}]
  /\ batch \in [Workers -> SUBSET Pods]
  /\ reaping \in [Workers -> Pods \cup {None}]
  /\ reaped \in [Pods -> SUBSET Workers]
  /\ probing \in [Workers -> SUBSET Pods]
  /\ verdict \in [Workers -> (Pods \X (0..FailThreshold)) \cup {None}]

Init ==
  /\ pc = [r \in Requests |-> "fast"]
  /\ cur = [r \in Requests |-> None]
  /\ tried = [r \in Requests |-> {}]
  /\ handle = [r \in Requests |-> None]
  /\ lock = [w \in Workers |-> None]
  /\ spinning = [w \in Workers |-> FALSE]
  /\ active = [w \in Workers |-> [p \in Pods |-> 0]]
  /\ row = [p \in Pods |-> NoRow]
  /\ instance = [p \in Pods |-> "absent"]
  /\ killing = [p \in Pods |-> FALSE]
  /\ failing = [p \in Pods |-> "none"]
  /\ batch = [w \in Workers |-> {}]
  /\ reaping = [w \in Workers |-> None]
  /\ reaped = [p \in Pods |-> {}]
  /\ probing = [w \in Workers |-> {}]
  /\ verdict = [w \in Workers |-> None]

(***************************************************************************)
(* Helpers                                                                 *)
(***************************************************************************)

Goto(r, loc) == pc' = [pc EXCEPT ![r] = loc]

\* An UPDATE waits for a row that a reaper holds FOR UPDATE.
Writable(p) == row[p].holder = None

\* Faulty variant: pods that are still starting are handed out too.
ReadyFor_StartingToo(r) ==
  {p \in Pods : /\ row[p].status \in {"starting", "ready"}
                /\ Override[r] \in {None, p[2]}
                /\ p[2] \notin Disabled[r]}

\* _get_ready_pod
ReadyFor(r) ==
  {p \in Pods : /\ row[p].status = "ready"
                /\ Override[r] \in {None, p[2]}
                /\ p[2] \notin Disabled[r]}

\* _get_in_progress_pod
InProgressFor(r) ==
  {p \in Pods : /\ row[p].status \in InProgressStatus
                /\ ~row[p].aged
                /\ p[2] \notin Disabled[r]}

Give(r, p) ==
  /\ handle' = [handle EXCEPT ![r] = p]
  /\ Goto(r, "holding")

\* The finally clause of acquire: the claim ends however the loop ends.
EndSpin(r) == spinning' = [spinning EXCEPT ![WorkerOf[r]] = FALSE]

\* provider.terminate is scheduled for pod-type providers only.
ScheduleTerminate(p) == killing' = [killing EXCEPT ![p] = @ \/ HasInstance(p[2])]

(***************************************************************************)
(* acquire: fast path, tier lock, claim or wait                            *)
(***************************************************************************)

FastPath(r) ==
  /\ pc[r] = "fast"
  /\ \/ \E p \in ReadyFor(r) : Give(r, p)
     \/ ReadyFor(r) = {} /\ Goto(r, "lock") /\ UNCHANGED handle
  /\ UNCHANGED <<cur, tried, workerVars, row, cloudVars, failing, reaperVars, healthVars>>

EnterLock(r) ==
  /\ pc[r] = "lock"
  /\ lock[WorkerOf[r]] = None
  /\ lock' = [lock EXCEPT ![WorkerOf[r]] = r]
  /\ Goto(r, "recheck")
  /\ UNCHANGED <<cur, tried, handle, spinning, active, row, cloudVars, failing,
                 reaperVars, healthVars>>

Recheck(r) ==
  /\ pc[r] = "recheck"
  /\ \/ /\ \E p \in ReadyFor(r) : Give(r, p)
        /\ lock' = [lock EXCEPT ![WorkerOf[r]] = None]
     \/ /\ ReadyFor(r) = {}
        /\ Goto(r, "probe")
        /\ UNCHANGED <<handle, lock>>
  /\ UNCHANGED <<cur, tried, spinning, active, row, cloudVars, failing, reaperVars, healthVars>>

ReadInProgress(r) ==
  /\ pc[r] = "probe"
  /\ Goto(r, IF InProgressFor(r) = {} THEN "claim_clear" ELSE "claim_busy")
  /\ UNCHANGED <<cur, tried, handle, workerVars, row, cloudVars, failing, reaperVars, healthVars>>

\* Faulty variant: the rows alone decide, _spinning_tiers is not consulted.
Claim_RowsOnly(r) ==
  /\ \/ /\ pc[r] = "claim_clear"
        /\ spinning' = [spinning EXCEPT ![WorkerOf[r]] = TRUE]
        /\ Goto(r, "spin")
     \/ /\ pc[r] = "claim_busy"
        /\ Goto(r, "wait")
        /\ UNCHANGED spinning
  /\ lock' = [lock EXCEPT ![WorkerOf[r]] = None]
  /\ UNCHANGED <<cur, tried, handle, active, row, cloudVars, failing, reaperVars, healthVars>>

Claim(r) ==
  /\ \/ /\ pc[r] = "claim_clear"
        /\ ~spinning[WorkerOf[r]]
        /\ spinning' = [spinning EXCEPT ![WorkerOf[r]] = TRUE]
        /\ Goto(r, "spin")
     \/ /\ pc[r] = "claim_busy" \/ (pc[r] = "claim_clear" /\ spinning[WorkerOf[r]])
        /\ Goto(r, "wait")
        /\ UNCHANGED spinning
  /\ lock' = [lock EXCEPT ![WorkerOf[r]] = None]
  /\ UNCHANGED <<cur, tried, handle, active, row, cloudVars, failing, reaperVars, healthVars>>

\* Faulty variant: the poll has no deadline.
Wait_NoDeadline(r) ==
  /\ pc[r] = "wait"
  /\ \E p \in ReadyFor(r) : Give(r, p)
  /\ UNCHANGED <<cur, tried, workerVars, row, cloudVars, failing, reaperVars, healthVars>>

\* The poll every 5 s finds a ready pod, or the deadline passes.
Wait(r) ==
  /\ pc[r] = "wait"
  /\ \/ \E p \in ReadyFor(r) : Give(r, p)
     \/ Goto(r, "raised") /\ UNCHANGED handle
  /\ UNCHANGED <<cur, tried, workerVars, row, cloudVars, failing, reaperVars, healthVars>>

(***************************************************************************)
(* acquire: the provider loop                                              *)
(***************************************************************************)

\* The priority list; a configured X-Provider joins it even when not listed.
Untried(r) ==
  ((Listed \cup {Override[r]}) \cap Configured) \ (Disabled[r] \cup tried[r])

\* X-Provider first, then the user's order.
Before(r, u, v) ==
  u # v /\ v # Override[r] /\ (u = Override[r] \/ Rank[r][u] < Rank[r][v])

IsNext(r, v) == v \in Untried(r) /\ \A u \in Untried(r) : ~Before(r, u, v)

TryProvider(r, v) ==
  /\ pc[r] = "spin"
  /\ IsNext(r, v)
  /\ cur' = [cur EXCEPT ![r] = v]
  /\ tried' = [tried EXCEPT ![r] = @ \cup {v}]

AllProvidersFailed(r) ==
  /\ pc[r] = "spin"
  /\ Untried(r) = {}
  /\ Goto(r, "raised")
  /\ EndSpin(r)
  /\ UNCHANGED <<cur, tried, handle, lock, active, row, cloudVars, failing,
                 reaperVars, healthVars>>

\* _spin_pod: the row is committed before anything is launched.
InsertRow(r, v) ==
  /\ TryProvider(r, v)
  /\ Kind[v] # "api"
  /\ row' = [row EXCEPT ![<<r, v>>].status = "provisioning"]
  /\ Goto(r, "volume")
  /\ UNCHANGED <<handle, workerVars, cloudVars, failing, reaperVars, healthVars>>

\* _resolve_user_volume stands outside the try: when it raises, the row stays
\* "provisioning"; VolumeValidationError ends the loop, anything else goes on.
ResolveVolume(r) ==
  /\ pc[r] = "volume"
  /\ \/ Goto(r, "launch") /\ UNCHANGED spinning
     \/ Goto(r, "spin")   /\ UNCHANGED spinning
     \/ Goto(r, "raised") /\ EndSpin(r)
  /\ UNCHANGED <<cur, tried, handle, lock, active, row, cloudVars, failing,
                 reaperVars, healthVars>>

\* provider.launch; one that raises may have created the instance and lost its id.
Launch(r) ==
  LET p == PodFor(r, cur[r])
      outcomes == {<<"launched", "running">>, <<"mark_failed", "absent">>, <<"mark_failed", "lost">>}
  IN /\ pc[r] = "launch"
     /\ \E o \in outcomes :
          /\ Goto(r, o[1])
          /\ instance' = [instance EXCEPT ![p] = IF HasInstance(cur[r]) THEN o[2] ELSE @]
     /\ UNCHANGED <<cur, tried, handle, workerVars, row, killing, failing, reaperVars, healthVars>>

\* except Exception around launch; a VolumeValidationError is then final.
MarkLaunchFailed(r) ==
  LET p == PodFor(r, cur[r])
  IN /\ pc[r] = "mark_failed"
     /\ Writable(p)
     /\ row' = [row EXCEPT ![p].status = "failed"]
     /\ \/ Goto(r, "spin")   /\ UNCHANGED spinning
        \/ Goto(r, "raised") /\ EndSpin(r)
     /\ UNCHANGED <<cur, tried, handle, lock, active, cloudVars, failing, reaperVars, healthVars>>

\* The local provider's external_id is the same for every launch of the tier:
\* UNIQUE (provider, external_id) lets only one row carry it.
NameTaken(p) ==
  Kind[p[2]] = "local" /\ \E q \in Pods \ {p} : q[2] = p[2] /\ row[q].named

\* Faulty variant: the placeholder external_id is never replaced.
MarkStarting_KeepsPlaceholder(r) ==
  LET p == PodFor(r, cur[r])
  IN /\ pc[r] = "launched"
     /\ Writable(p)
     /\ row' = [row EXCEPT ![p].status = "starting"]
     /\ Goto(r, IF NeedsOllamaCheck(cur[r]) THEN "await_ready" ELSE "publish")
     /\ UNCHANGED <<cur, tried, handle, workerVars, cloudVars, failing, reaperVars, healthVars>>

\* Written whatever the row's status has become meanwhile.
MarkStarting(r) ==
  LET p == PodFor(r, cur[r])
  IN /\ pc[r] = "launched"
     /\ Writable(p)
     /\ \/ /\ NameTaken(p)
           /\ Goto(r, "spin")
           /\ UNCHANGED row
        \/ /\ ~NameTaken(p)
           /\ row' = [row EXCEPT ![p].status = "starting", ![p].named = TRUE]
           /\ Goto(r, IF NeedsOllamaCheck(cur[r]) THEN "await_ready" ELSE "publish")
     /\ UNCHANGED <<cur, tried, handle, workerVars, cloudVars, failing, reaperVars, healthVars>>

\* _wait_for_ready and _pull_model; when one raises nobody touches the row or
\* the instance.
AwaitReady(r) ==
  /\ pc[r] = "await_ready"
  /\ Goto(r, "publish") \/ Goto(r, "spin")
  /\ UNCHANGED <<cur, tried, handle, workerVars, row, cloudVars, failing, reaperVars, healthVars>>

\* Written whatever the row's status has become meanwhile.
Publish(r) ==
  LET p == PodFor(r, cur[r])
  IN /\ pc[r] = "publish"
     /\ Writable(p)
     /\ row' = [row EXCEPT ![p].status = "ready", ![p].idle = FALSE]
     /\ Give(r, p)
     /\ EndSpin(r)
     /\ UNCHANGED <<cur, tried, lock, active, cloudVars, failing, reaperVars, healthVars>>

\* _spin_api_pod: launch() only fills in a record, so the SELECT comes first.
SelectApiRow(r, v) ==
  /\ TryProvider(r, v)
  /\ Kind[v] = "api"
  /\ LET s == row[<<None, v>>].status
     IN Goto(r, CASE s = "none"  -> "insert_api"
                  [] s = "ready" -> "touch_api"
                  [] OTHER       -> "revive_api")
  /\ UNCHANGED <<handle, workerVars, row, cloudVars, failing, reaperVars, healthVars>>

\* A second INSERT of the canonical row violates UNIQUE (provider, external_id);
\* the ORM leaves status out of the UPDATE of a row it loaded as ready.
UpsertApiRow(r) ==
  LET p == PodFor(r, cur[r])
      duplicate == pc[r] = "insert_api" /\ row[p].status # "none"
  IN /\ pc[r] \in ApiLocs
     /\ Writable(p)
     /\ \/ /\ duplicate
           /\ Goto(r, "spin")
           /\ UNCHANGED <<row, handle, spinning>>
        \/ /\ ~duplicate
           /\ row' = [row EXCEPT ![p].status = IF pc[r] = "touch_api" THEN @ ELSE "ready",
                                 ![p].named  = TRUE,
                                 ![p].idle   = FALSE]
           /\ Give(r, p)
           /\ EndSpin(r)
     /\ UNCHANGED <<cur, tried, lock, active, cloudVars, failing, reaperVars, healthVars>>

(***************************************************************************)
(* Use of the handle                                                       *)
(***************************************************************************)

MarkActive(r) ==
  /\ pc[r] = "holding"
  /\ active' = [active EXCEPT ![WorkerOf[r]][handle[r]] = @ + 1]
  /\ Goto(r, "active")
  /\ UNCHANGED <<cur, tried, handle, lock, spinning, row, cloudVars, failing,
                 reaperVars, healthVars>>

\* A pre-warm, an error before the inference, a stream nobody reads.
Drop(r) ==
  /\ pc[r] = "holding"
  /\ Goto(r, "dropped")
  /\ UNCHANGED <<cur, tried, handle, workerVars, row, cloudVars, failing, reaperVars, healthVars>>

\* Faulty variant: the stream's error path does not release.
Release_NotOnError(r) ==
  LET p == handle[r]
  IN /\ pc[r] = "active"
     /\ \/ /\ active' = [active EXCEPT ![WorkerOf[r]][p] = IF @ > 0 THEN @ - 1 ELSE 0]
           /\ UNCHANGED failing
        \/ /\ failing' = [failing EXCEPT ![p] = IF @ = "none" THEN "queued" ELSE @]
           /\ UNCHANGED active
        \/ UNCHANGED <<active, failing>>
     /\ Goto(r, "released")
     /\ UNCHANGED <<cur, tried, handle, lock, spinning, row, cloudVars, reaperVars, healthVars>>

\* release up to its first await; a stream that met a fatal provider error has
\* scheduled mark_pod_failed before.
Release(r) ==
  LET p == handle[r]
  IN /\ pc[r] = "active"
     /\ active' = [active EXCEPT ![WorkerOf[r]][p] = IF @ > 0 THEN @ - 1 ELSE 0]
     /\ failing' \in {failing, [failing EXCEPT ![p] = IF @ = "none" THEN "queued" ELSE @]}
     /\ Goto(r, "released")
     /\ UNCHANGED <<cur, tried, handle, lock, spinning, row, cloudVars, reaperVars, healthVars>>

\* release, last_used_at := now
RecordUse(r) ==
  /\ pc[r] = "released"
  /\ Writable(handle[r])
  /\ row' = [row EXCEPT ![handle[r]].idle = FALSE]
  /\ Goto(r, "done")
  /\ UNCHANGED <<cur, tried, handle, workerVars, cloudVars, failing, reaperVars, healthVars>>

\* mark_pod_failed: the row is read, then written.
ReadForFailure(p) ==
  /\ failing[p] = "queued"
  /\ failing' = [failing EXCEPT ![p] = IF row[p].status = "ready" THEN "found" ELSE "none"]
  /\ UNCHANGED <<requestVars, workerVars, row, cloudVars, reaperVars, healthVars>>

MarkPodFailed(p) ==
  /\ failing[p] = "found"
  /\ Writable(p)
  /\ row' = [row EXCEPT ![p].status = "failed"]
  /\ failing' = [failing EXCEPT ![p] = "none"]
  /\ UNCHANGED <<requestVars, workerVars, cloudVars, reaperVars, healthVars>>

(***************************************************************************)
(* Reaper loop                                                             *)
(***************************************************************************)

\* One SELECT of the ready rows; idleness is computed from this snapshot.
ReaperSnapshot(w) ==
  /\ batch[w] = {} /\ reaping[w] = None
  /\ batch' = [batch EXCEPT ![w] = {p \in Pods : row[p].status = "ready" /\ row[p].idle}]
  /\ UNCHANGED <<requestVars, workerVars, row, cloudVars, failing, reaping, reaped, healthVars>>

\* Pods with requests of this worker are skipped.
ReaperConsider(w, p) ==
  /\ p \in batch[w] /\ reaping[w] = None
  /\ batch' = [batch EXCEPT ![w] = @ \ {p}]
  /\ reaping' = [reaping EXCEPT ![w] = IF active[w][p] > 0 THEN None ELSE p]
  /\ UNCHANGED <<requestVars, workerVars, row, cloudVars, failing, reaped, healthVars>>

Holds(w) == reaping[w] # None /\ row[reaping[w]].holder = w

\* Faulty variant: the status is not re-checked under the row lock.
ReaperLock_NoRecheck(w) ==
  LET p == reaping[w]
  IN /\ p # None
     /\ ~Holds(w)
     /\ \/ /\ Writable(p)
           /\ row' = [row EXCEPT ![p].holder = w]
           /\ UNCHANGED reaping
        \/ /\ ~Writable(p)
           /\ reaping' = [reaping EXCEPT ![w] = None]
           /\ UNCHANGED row
     /\ UNCHANGED <<requestVars, workerVars, cloudVars, failing, batch, reaped, healthVars>>

\* SELECT ... FOR UPDATE SKIP LOCKED, and the re-check of the status.
ReaperLock(w) ==
  LET p == reaping[w]
  IN /\ p # None
     /\ ~Holds(w)
     /\ \/ /\ Writable(p) /\ row[p].status = "ready"
           /\ row' = [row EXCEPT ![p].holder = w]
           /\ UNCHANGED reaping
        \/ /\ ~Writable(p) \/ row[p].status # "ready"
           /\ reaping' = [reaping EXCEPT ![w] = None]
           /\ UNCHANGED row
     /\ UNCHANGED <<requestVars, workerVars, cloudVars, failing, batch, reaped, healthVars>>

\* Faulty variant: the unused PodStatus.draining is written.
ReaperCommit_Draining(w) ==
  LET p == reaping[w]
  IN /\ Holds(w)
     /\ row' = [row EXCEPT ![p].status = "draining", ![p].holder = None]
     /\ reaping' = [reaping EXCEPT ![w] = None]
     /\ reaped' = [reaped EXCEPT ![p] = @ \cup {w}]
     /\ ScheduleTerminate(p)
     /\ UNCHANGED <<requestVars, workerVars, instance, failing, batch, healthVars>>

ReaperCommit(w) ==
  LET p == reaping[w]
  IN /\ Holds(w)
     /\ row' = [row EXCEPT ![p].status = "terminated", ![p].holder = None]
     /\ reaping' = [reaping EXCEPT ![w] = None]
     /\ reaped' = [reaped EXCEPT ![p] = @ \cup {w}]
     /\ ScheduleTerminate(p)
     /\ UNCHANGED <<requestVars, workerVars, instance, failing, batch, healthVars>>

(***************************************************************************)
(* Health loop                                                             *)
(***************************************************************************)

HealthSnapshot(w) ==
  /\ probing[w] = {} /\ verdict[w] = None
  /\ probing' = [probing EXCEPT ![w] =
                   {p \in Pods : row[p].status = "ready" /\ NeedsOllamaCheck(p[2])}]
  /\ UNCHANGED <<requestVars, workerVars, row, cloudVars, failing, reaperVars, verdict>>

\* A probe succeeds, and the row is loaded: a count of 0 needs no UPDATE.
ProbeOk(w, p) ==
  /\ p \in probing[w] /\ verdict[w] = None
  /\ probing' = [probing EXCEPT ![w] = @ \ {p}]
  /\ verdict' = [verdict EXCEPT ![w] = IF row[p].failures = 0 THEN None ELSE <<p, 0>>]
  /\ UNCHANGED <<requestVars, workerVars, row, cloudVars, failing, reaperVars>>

\* A probe fails: the count is loaded and one added; at the threshold the
\* terminate task is created before the commit.  The status is not re-checked.
ProbeBad(w, p) ==
  LET n == IF row[p].failures < FailThreshold THEN row[p].failures + 1 ELSE FailThreshold
  IN /\ p \in probing[w] /\ verdict[w] = None
     /\ probing' = [probing EXCEPT ![w] = @ \ {p}]
     /\ verdict' = [verdict EXCEPT ![w] = <<p, n>>]
     /\ IF n = FailThreshold THEN ScheduleTerminate(p) ELSE UNCHANGED killing
     /\ UNCHANGED <<requestVars, workerVars, row, instance, failing, reaperVars>>

\* Faulty variant: a pod whose probe succeeds is put back to ready.
CommitVerdict_Revives(w) ==
  LET p == verdict[w][1]
      n == verdict[w][2]
  IN /\ verdict[w] # None
     /\ Writable(p)
     /\ row' = [row EXCEPT ![p].failures = n,
                           ![p].status = IF n = FailThreshold THEN "failed" ELSE "ready"]
     /\ verdict' = [verdict EXCEPT ![w] = None]
     /\ UNCHANGED <<requestVars, workerVars, cloudVars, failing, reaperVars, probing>>

CommitVerdict(w) ==
  LET p == verdict[w][1]
      n == verdict[w][2]
  IN /\ verdict[w] # None
     /\ Writable(p)
     /\ row' = [row EXCEPT ![p].failures = n,
                           ![p].status = IF n = FailThreshold THEN "failed" ELSE @]
     /\ verdict' = [verdict EXCEPT ![w] = None]
     /\ UNCHANGED <<requestVars, workerVars, cloudVars, failing, reaperVars, probing>>

(***************************************************************************)
(* Operators, the providers and time                                       *)
(***************************************************************************)

\* admin_kill_pod and `llm pods kill`: terminate() is called with the
\* external_id on record, a placeholder as long as the row is not named.
AdminKill(p) ==
  /\ OperatorKills
  /\ row[p].status # "none" /\ Writable(p)
  /\ row' = [row EXCEPT ![p].status = "terminated"]
  /\ IF row[p].named THEN ScheduleTerminate(p) ELSE UNCHANGED killing
  /\ UNCHANGED <<requestVars, workerVars, instance, failing, reaperVars, healthVars>>

\* The dashboard's Kill button writes the row only.
DashboardKill(p) ==
  /\ OperatorKills
  /\ row[p].status # "none" /\ Writable(p)
  /\ row' = [row EXCEPT ![p].status = "terminated"]
  /\ UNCHANGED <<requestVars, workerVars, cloudVars, failing, reaperVars, healthVars>>

\* provider.terminate runs; after its retries it gives up silently.
Terminate(p) ==
  /\ killing[p]
  /\ killing' = [killing EXCEPT ![p] = FALSE]
  /\ instance' \in {instance, [instance EXCEPT ![p] = IF @ = "running" THEN "stopped" ELSE @]}
  /\ UNCHANGED <<requestVars, workerVars, row, failing, reaperVars, healthVars>>

GrowIdle(p) ==
  /\ row[p].status = "ready" /\ ~row[p].idle
  /\ row' = [row EXCEPT ![p].idle = TRUE]
  /\ UNCHANGED <<requestVars, workerVars, cloudVars, failing, reaperVars, healthVars>>

GrowOld(p) ==
  /\ row[p].status \in InProgressStatus /\ ~row[p].aged
  /\ row' = [row EXCEPT ![p].aged = TRUE]
  /\ UNCHANGED <<requestVars, workerVars, cloudVars, failing, reaperVars, healthVars>>

Acquire(r) ==
  \/ FastPath(r) \/ EnterLock(r) \/ Recheck(r) \/ ReadInProgress(r) \/ Claim(r) \/ Wait(r)
  \/ AllProvidersFailed(r)
  \/ \E v \in Providers : InsertRow(r, v) \/ SelectApiRow(r, v)
  \/ ResolveVolume(r) \/ Launch(r) \/ MarkLaunchFailed(r) \/ MarkStarting(r)
  \/ AwaitReady(r) \/ Publish(r) \/ UpsertApiRow(r)

Use(r) == MarkActive(r) \/ Drop(r) \/ Release(r) \/ RecordUse(r)

Reaper(w) ==
  \/ ReaperSnapshot(w)
  \/ \E p \in Pods : ReaperConsider(w, p)
  \/ ReaperLock(w) \/ ReaperCommit(w)

Health(w) ==
  \/ HealthSnapshot(w)
  \/ \E p \in Pods : ProbeOk(w, p) \/ ProbeBad(w, p)
  \/ CommitVerdict(w)

Surroundings(p) ==
  \/ ReadForFailure(p) \/ MarkPodFailed(p) \/ Terminate(p)
  \/ AdminKill(p) \/ DashboardKill(p) \/ GrowIdle(p) \/ GrowOld(p)

Next ==
  \/ \E r \in Requests : Acquire(r) \/ Use(r)
  \/ \E w \in Reapers : Reaper(w)
  \/ \E w \in Checkers : Health(w)
  \/ \E p \in Pods : Surroundings(p)

Spec == Init /\ [][Next]_vars

(***************************************************************************)
(* Fairness: an event loop runs every coroutine that can run.  Each wait    *)
(* inside acquire ends: provider calls and probes carry HTTP time limits,   *)
(* _wait_for_ready and the waiters' poll have deadlines.  An inference      *)
(* ends within the client's 300 s.  The reaper's loop never exits.  Nothing *)
(* is asked of the health loop, of operators or of time.                    *)
(***************************************************************************)
Fairness ==
  /\ \A r \in Requests : WF_vars(Acquire(r)) /\ WF_vars(Use(r))
  /\ \A w \in Reapers :
       /\ WF_vars(ReaperSnapshot(w))
       /\ WF_vars(\E p \in Pods : ReaperConsider(w, p))
       /\ WF_vars(ReaperLock(w))
       /\ WF_vars(ReaperCommit(w))

FairSpec == Spec /\ Fairness

(***************************************************************************)
(* Properties                                                              *)
(***************************************************************************)

InSpin(r) == pc[r] \in SpinLocs
ActiveOn(r, p) == pc[r] = "active" /\ handle[r] = p
Retired(p) == row[p].status \in TerminalStatus

(***************************************************************************)
(* Single flight in one worker: the tier lock is held exactly while a       *)
(* coroutine is between EnterLock and Claim, the _spinning_tiers flag is up *)
(* exactly while one coroutine runs the provider loop, and no worker ever   *)
(* runs two of these loops (acquire, lines 202-268).                        *)
(***************************************************************************)
LockExact ==
  \A r \in Requests : pc[r] \in LockLocs <=> lock[WorkerOf[r]] = r

SpinFlagExact ==
  \A w \in Workers : spinning[w] <=> \E r \in Requests : WorkerOf[r] = w /\ InSpin(r)

OneSpinnerPerWorker ==
  \A r1, r2 \in Requests :
    InSpin(r1) /\ InSpin(r2) /\ WorkerOf[r1] = WorkerOf[r2] => r1 = r2

SingleFlight == LockExact /\ SpinFlagExact /\ OneSpinnerPerWorker

(***************************************************************************)
(* _active_requests counts what it is meant to: the requests of this worker *)
(* between mark_active and release.  In particular the max(0, ...) of       *)
(* release never hides a missing mark_active.                               *)
(***************************************************************************)
ActiveCountExact ==
  \A w \in Workers, p \in Pods :
    active[w][p] = Cardinality({r \in Requests : WorkerOf[r] = w /\ ActiveOn(r, p)})

(***************************************************************************)
(* A handle never names a pod that is still being launched: whatever raced  *)
(* with the launch, the row of a pod some request was given is ready or     *)
(* retired.                                                                 *)
(***************************************************************************)
HandedOutWasPublished ==
  \A r \in Requests :
    handle[r] # None => row[handle[r]].status \in {"ready"} \cup TerminalStatus

(***************************************************************************)
(* FOR UPDATE SKIP LOCKED and the re-check of the status: the reapers of    *)
(* all workers together terminate an instance at most once, and what they   *)
(* have terminated stays down (docs/development.md, Pod Lifecycle 5).  An   *)
(* API row is exempt: it is revived by design and terminates nothing.       *)
(***************************************************************************)
ReapedOnce ==
  \A p \in Pods :
    Kind[p[2]] # "api" /\ reaped[p] # {} =>
      /\ Retired(p)
      /\ \A w1, w2 \in reaped[p] : w1 = w2

(***************************************************************************)
(* An instance the provider runs is on record under its own id, unless its  *)
(* launcher is about to write that id.                                      *)
(***************************************************************************)
InstanceOnRecord ==
  \A p \in Pods :
    instance[p] = "running" =>
      row[p].named \/ \E r \in Requests : pc[r] = "launched" /\ p = <<r, cur[r]>>

(***************************************************************************)
(* A pod that was handed out and then retired (by a reaper, a health loop,  *)
(* a fatal stream error or an operator) never comes back.                   *)
(***************************************************************************)
RetiredStaysRetired ==
  [][\A r \in Requests, p \in Pods :
       handle[r] = p /\ Kind[p[2]] # "api" /\ Retired(p) => Retired(p)']_vars

(***************************************************************************)
(* Every acquire returns a handle or raises, whatever happens to the pods   *)
(* and to the other requests.                                               *)
(***************************************************************************)
AcquireReturns ==
  \A r \in Requests : <>(handle[r] # None \/ pc[r] = "raised")

(***************************************************************************)
(* An idle pod does not stay: no pod is ready, past its idle timeout and    *)
(* without any request on it for ever.                                      *)
(***************************************************************************)
IdlePodReaped ==
  \A p \in Pods :
    []<>~(row[p].status = "ready" /\ row[p].idle /\ \A r \in Requests : ~ActiveOn(r, p))

(***************************************************************************)
(* The inductive invariant behind them.                                    *)
(***************************************************************************)

\* What the place of a request says about its provider and its handle
Located ==
  \A r \in Requests :
    /\ pc[r] \in PodLocs \cup ApiLocs => cur[r] \in tried[r]
    /\ pc[r] \in PodLocs => Kind[cur[r]] # "api"
    /\ pc[r] \in ApiLocs => Kind[cur[r]] = "api"
    /\ pc[r] \in HandleLocs => handle[r] # None

\* Nobody can have seen the pod as ready yet.
Launching(p) == \E r \in Requests : p = <<r, cur[r]>> /\ pc[r] \in PodLocs
Fresh(p) == p[1] = None \/ p[2] \notin tried[p[1]]
Unpublished(p) == Kind[p[2]] # "api" /\ (Fresh(p) \/ Launching(p))

UnpublishedUntouched ==
  \A p \in Pods :
    Unpublished(p) =>
      row[p].status # "ready" /\ reaped[p] = {} /\ \A r \in Requests : handle[r] # p

\* A row lock is held by a reaper at work on a ready row, which nobody else changes.
HolderExact ==
  \A p \in Pods :
    row[p].holder # None => row[p].status = "ready" /\ reaping[row[p].holder] = p

\* An API row is never in launch, and one that a request is about to write exists.
ApiRows ==
  /\ \A p \in Pods : Kind[p[2]] = "api" => row[p].status \notin InProgressStatus
  /\ \A r \in Requests :
       pc[r] \in {"touch_api", "revive_api"} => row[<<None, cur[r]>>].status # "none"

InstanceKind == \A p \in Pods : instance[p] = "running" => HasInstance(p[2])

(***************************************************************************)
(* All of it together: every fact about pods that the proofs rest on.  It   *)
(* adds to the three invariants above what the table and the coroutines     *)
(* must agree on while a pod is launched, locked or upserted.               *)
(***************************************************************************)
PodInv ==
  /\ Located
  /\ UnpublishedUntouched
  /\ HolderExact
  /\ ApiRows
  /\ InstanceKind
  /\ HandedOutWasPublished
  /\ ReapedOnce
  /\ InstanceOnRecord

(***************************************************************************)
(* What the documentation says and the code does not do.                   *)
(***************************************************************************)

(***************************************************************************)
(* bridge/instance_manager.py:200, "DB check makes this cross-process safe" *)
(* - the claim of spin rights: two coroutines never both hold it.           *)
(***************************************************************************)
ClaimIsCrossProcess == \A r1, r2 \in Requests : InSpin(r1) /\ InSpin(r2) => r1 = r2

(***************************************************************************)
(* bridge/instance_manager.py:43-44, the reaper terminates pods "if no      *)
(* active requests are using them" - here of requests that were handed a    *)
(* pod which was running already, and not of the one that launched it.      *)
(***************************************************************************)
ReaperSparesUsedPods ==
  [][\A p \in Pods : reaped'[p] # reaped[p] =>
       \A r \in Requests \ {p[1]} : ~ActiveOn(r, p)]_reaped
==============================================================================
