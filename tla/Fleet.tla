-------------------------------- MODULE Fleet --------------------------------
(***************************************************************************)
(* The instances rented from GPU providers, across the lives of the bridge  *)
(* processes: the launch() and terminate() of the adapters in providers/,   *)
(* what _spin_pod does around them, and start(), stop(), crashes and the    *)
(* health checker of bridge/instance_manager.  PodPool shows one life of    *)
(* the pool and takes every provider call as one step; here a call is as    *)
(* many HTTP requests as the adapter makes of it, each of which can fail    *)
(* before or after it has had its effect.                                   *)
(***************************************************************************)
EXTENDS Naturals, FiniteSets

CONSTANTS
  Workers,        \* bridge processes that share the database
  Pods,           \* pod ids, one _spin_pod() call each
  WorkerOf,       \* the worker that makes the call
  Adapter,        \* provider adapter of the call, see Adapters
  OwnKey,         \* launch bills the user's own provider account
  Options,        \* GPU types (RunPod) or hardware ids (Together) it may try
  FailThreshold,  \* settings.health_check_fail_threshold
  Checkers,       \* bound: workers whose health-checker task takes steps
  MaxSpins,       \* bound on _spin_pod() calls in a behaviour
  MaxStarts,      \* bound on process starts in a behaviour
  None            \* Python's None

(***************************************************************************)
(* lambda_labs.py has the shape of vast.py, and mock.py and api_compat.py   *)
(* that of local.py: a launch that asks nobody and an empty terminate.      *)
(***************************************************************************)
Adapters == {"runpod", "vast", "together", "local"}

ASSUME FleetAssumption ==
  /\ IsFiniteSet(Workers) /\ IsFiniteSet(Pods)
  /\ WorkerOf \in [Pods -> Workers]
  /\ Adapter \in [Pods -> Adapters]
  /\ OwnKey \in [Pods -> BOOLEAN]
  /\ Options \in Nat \ {0}
  /\ FailThreshold \in Nat \ {0}
  /\ Checkers \subseteq Workers
  /\ MaxSpins \in Nat /\ MaxStarts \in Nat
  /\ None \notin Pods

Rents(p) == Adapter[p] # "local"
NeedsOllamaCheck(p) == Adapter[p] # "together"
LaunchTries(p) == IF Adapter[p] = "vast" THEN 3 ELSE 1
Offers(p) == CASE Adapter[p] = "runpod"   -> 2 * Options   \* SECURE, then COMMUNITY
               [] Adapter[p] = "together" -> Options
               [] OTHER                   -> 1
TerminateTries(p) == IF Adapter[p] = "vast" THEN 1 ELSE 3

VARIABLES
  proc,     \* each worker: down, a step of start() or stop(), or up
  batch,    \* rows start() or stop() has read and is about to write
  cooling,  \* each worker: Together's capacity cooldown is running
  spin,     \* each call: where _spin_pod() is
  attempt,  \* each call: tries of launch() so far (tenacity)
  offer,    \* each call: place in the list of offers
  url,      \* each call: PodInfo.endpoint_url is not empty
  row,      \* the pods table
  made,     \* instances the provider has created for the call
  alive,    \* those of them that run
  kills,    \* provider.terminate() calls under way
  verdict,  \* health checker of each worker: count about to be written
  fault,    \* what befell an instance (history)
  bad,      \* failed probes of a pod, up to the threshold (history)
  overlap,  \* a process started or stopped beside another (history)
  starts    \* process starts so far

procVars  == <<proc, batch, cooling, overlap, starts>>
spinVars  == <<spin, attempt, offer, url>>
cloudVars == <<made, alive, kills, fault>>
vars == <<procVars, spinVars, row, cloudVars, verdict, bad>>

Instances == 1 .. (IF Options > 3 THEN Options ELSE 3)   \* MostMade(p) at most
Status == {"none", "provisioning", "starting", "ready", "failed", "terminated"}
Row == [status : Status, ext : {0} \cup Instances, failures : Nat]
NoRow == [status |-> "none", ext |-> 0, failures |-> 0]

SpinLocs == {"idle", "offers", "create", "boot", "name", "failed", "await",
             "publish", "done", "past"}
Spinning(p) == spin[p] \notin {"idle", "done", "past"}
Faults == {"none", "lost_response", "error_answer", "not_running", "not_ready", "row_deleted",
           "exit", "gave_up", "own_account", "marked_failed", "dashboard_kill"}
Kill == [pod : Pods, ext : Instances, by : Workers, left : 1..3, awaited : BOOLEAN]

TypeOK ==
  /\ proc \in [Workers -> {"down", "stale", "reset", "dedicated", "up", "stopping"}]
  /\ batch \in [Workers -> SUBSET (Pods \X ({0} \cup Instances))]
  /\ cooling \in [Workers -> BOOLEAN]
  /\ spin \in [Pods -> SpinLocs]
  /\ attempt \in [Pods -> 0..3]
  /\ offer \in [Pods -> Nat]
  /\ url \in [Pods -> BOOLEAN]
  /\ row \in [Pods -> Row]
  /\ made \in [Pods -> {0} \cup Instances]
  /\ alive \in [Pods -> SUBSET Instances]
  /\ kills \subseteq Kill
  /\ verdict \in [Workers -> (Pods \X Nat) \cup {None}]
  /\ fault \in [Pods -> [Instances -> Faults]]
  /\ bad \in [Pods -> 0..FailThreshold]
  /\ overlap \in BOOLEAN
  /\ starts \in 0..MaxStarts

Init ==
  /\ proc = [w \in Workers |-> "down"]
  /\ batch = [w \in Workers |-> {}]
  /\ cooling = [w \in Workers |-> FALSE]
  /\ spin = [p \in Pods |-> "idle"]
  /\ attempt = [p \in Pods |-> 0]
  /\ offer = [p \in Pods |-> 0]
  /\ url = [p \in Pods |-> FALSE]
  /\ row = [p \in Pods |-> NoRow]
  /\ made = [p \in Pods |-> 0]
  /\ alive = [p \in Pods |-> {}]
  /\ kills = {}
  /\ verdict = [w \in Workers |-> None]
  /\ fault = [p \in Pods |-> [n \in Instances |-> "none"]]
  /\ bad = [p \in Pods |-> 0]
  /\ overlap = FALSE
  /\ starts = 0

Goto(p, loc) == spin' = [spin EXCEPT ![p] = loc]
Exists(p) == row[p].status # "none"
Befalls(p, n, what) == fault' = [fault EXCEPT ![p][n] = what]
OthersDown(w) == \A u \in Workers \ {w} : proc[u] = "down"
Terminating(p, n, w, awaited) ==
  [pod |-> p, ext |-> n, by |-> w, left |-> TerminateTries(p), awaited |-> awaited]

-----------------------------------------------------------------------------
(***************************************************************************)
(* _spin_pod() and the adapter's launch().                                  *)
(***************************************************************************)

(* _spin_pod: the placeholder row is committed before launch() is called.    *)
(* A pre-warm (create_task(acquire)) may get here while the process stops.   *)
InsertRow(p) ==
  /\ proc[WorkerOf[p]] \in {"up", "stopping"}
  /\ spin[p] = "idle"
  /\ Cardinality({q \in Pods : spin[q] # "idle"}) < MaxSpins
  /\ row' = [row EXCEPT ![p] = [NoRow EXCEPT !.status = "provisioning"]]
  /\ Goto(p, "offers")
  /\ attempt' = [attempt EXCEPT ![p] = 1]
  /\ UNCHANGED <<procVars, offer, url, cloudVars, verdict, bad>>

(* Faulty variant: tenacity is wrapped around every adapter's launch(). *)
Raise_RetriesAll(p, retryable) ==
  IF retryable /\ attempt[p] < 3
  THEN Goto(p, "offers") /\ attempt' = [attempt EXCEPT ![p] = @ + 1]
  ELSE Goto(p, "failed") /\ UNCHANGED attempt

(* launch() raises: tenacity calls it again when the adapter asks for that   *)
(* (vast and lambda: transport errors and errors marked retryable), else     *)
(* _spin_pod marks the row failed.                                           *)
Raise(p, retryable) ==
  IF retryable /\ attempt[p] < LaunchTries(p)
  THEN Goto(p, "offers") /\ attempt' = [attempt EXCEPT ![p] = @ + 1]
  ELSE Goto(p, "failed") /\ UNCHANGED attempt

(* RunPod and Vast ask the provider for its GPU types and keep those with    *)
(* enough memory; a local pod is just there.  Together refuses while it      *)
(* cools down from a miss, and on a host that has just booted (monotonic()   *)
(* counts from there).                                                       *)
FindOffers(p) ==
  /\ spin[p] = "offers"
  /\ \/ /\ Adapter[p] = "together" => ~cooling[WorkerOf[p]]
        /\ Goto(p, IF Rents(p) THEN "create" ELSE "name")
        /\ offer' = [offer EXCEPT ![p] = 1]
        /\ url' = [url EXCEPT ![p] = ~Rents(p)]
        /\ UNCHANGED attempt
     \/ /\ \E retryable \in BOOLEAN : Raise(p, retryable)
        /\ UNCHANGED <<offer, url>>
  /\ UNCHANGED <<procVars, row, cloudVars, verdict, bad>>

Rent(p) ==
  /\ spin[p] = "create"
  /\ made' = [made EXCEPT ![p] = @ + 1]
  /\ alive' = [alive EXCEPT ![p] = @ \cup {made[p] + 1}]
  /\ UNCHANGED <<procVars, offer, url, row, kills, verdict, bad>>

(* The request that rents an instance is answered with its id. *)
Created(p) == Rent(p) /\ Goto(p, "boot") /\ UNCHANGED <<attempt, fault>>

(* It rents an instance and launch() raises without its id: the answer is    *)
(* lost, unreadable or names none.                                           *)
ResponseLost(p) ==
  /\ Rent(p)
  /\ Befalls(p, made[p] + 1, "lost_response")
  /\ \E retryable \in BOOLEAN : Raise(p, retryable)

(* It fails and rents nothing. *)
CreateFails(p) ==
  /\ spin[p] = "create"
  /\ \E retryable \in BOOLEAN : Raise(p, retryable)
  /\ UNCHANGED <<procVars, offer, url, row, cloudVars, verdict, bad>>

(* The next offer; after the last one launch() raises, and Together starts   *)
(* its cooldown.                                                             *)
NextOffer(p) ==
  IF offer[p] < Offers(p)
  THEN /\ offer' = [offer EXCEPT ![p] = @ + 1]
       /\ UNCHANGED <<spin, attempt, cooling>>
  ELSE /\ Raise(p, TRUE)
       /\ cooling' = [cooling EXCEPT ![WorkerOf[p]] = @ \/ Adapter[p] = "together"]
       /\ UNCHANGED offer

(* No capacity, nothing rented: RunPod and Together go on to the next offer. *)
NoCapacity(p) ==
  /\ spin[p] = "create"
  /\ Adapter[p] \in {"runpod", "together"}
  /\ NextOffer(p)
  /\ UNCHANGED <<proc, batch, overlap, starts, url, row, cloudVars, verdict, bad>>

(* Together goes on after any error status, one that follows the creation of *)
(* the endpoint included: what it has rented there nobody knows of.          *)
ErrorAnswer(p) ==
  /\ spin[p] = "create"
  /\ Adapter[p] = "together"
  /\ made' = [made EXCEPT ![p] = @ + 1]
  /\ alive' = [alive EXCEPT ![p] = @ \cup {made[p] + 1}]
  /\ Befalls(p, made[p] + 1, "error_answer")
  /\ NextOffer(p)
  /\ UNCHANGED <<proc, batch, overlap, starts, url, row, kills, verdict, bad>>

Booted(p, seen) ==
  /\ url' = [url EXCEPT ![p] = seen]
  /\ Goto(p, "name")
  /\ UNCHANGED <<attempt, fault>>

(* Faulty variant: every adapter raises when the wait times out. *)
Boot_AlwaysRaises(p) ==
  /\ spin[p] = "boot"
  /\ Booted(p, TRUE) \/ (Raise(p, FALSE) /\ UNCHANGED <<url, fault>>)
  /\ UNCHANGED <<procVars, offer, row, made, alive, kills, verdict, bad>>

(* launch() waits for the new instance: on a timeout RunPod returns an URL   *)
(* nobody has seen, Vast an empty one, and Together raises.                  *)
Boot(p) ==
  /\ spin[p] = "boot"
  /\ \/ Booted(p, TRUE)
     \/ Adapter[p] = "vast" /\ Booted(p, FALSE)
     \/ /\ Adapter[p] = "together"
        /\ Raise(p, TRUE)
        /\ Befalls(p, made[p], "not_running")
        /\ UNCHANGED url
  /\ UNCHANGED <<procVars, offer, row, made, alive, kills, verdict, bad>>

MarkLaunchFailed(p) ==
  /\ spin[p] = "failed"
  /\ row' = [row EXCEPT ![p].status = IF Exists(p) THEN "failed" ELSE @]
  /\ Goto(p, "done")
  /\ UNCHANGED <<procVars, attempt, offer, url, cloudVars, verdict, bad>>

(* _spin_pod after launch(): the row gets the provider's id.  When another   *)
(* process has deleted it there is nothing to write to and the call raises.  *)
MarkStarting(p) ==
  /\ spin[p] = "name"
  /\ IF Exists(p)
     THEN /\ row' = [row EXCEPT ![p].status = "starting", ![p].ext = made[p]]
          /\ Goto(p, IF NeedsOllamaCheck(p) THEN "await" ELSE "publish")
          /\ UNCHANGED fault
     ELSE /\ Goto(p, "done")
          /\ IF Rents(p) THEN Befalls(p, made[p], "row_deleted") ELSE UNCHANGED fault
          /\ UNCHANGED row
  /\ UNCHANGED <<procVars, attempt, offer, url, made, alive, kills, verdict, bad>>

(* _wait_for_ready, _pull_model and _warmup_model: an empty endpoint never   *)
(* answers, and a failure leaves the row as it is and the instance running.  *)
AwaitReady(p) ==
  /\ spin[p] = "await"
  /\ \/ url[p] /\ Goto(p, "publish") /\ UNCHANGED fault
     \/ /\ Goto(p, "done")
        /\ IF Rents(p) THEN Befalls(p, made[p], "not_ready") ELSE UNCHANGED fault
  /\ UNCHANGED <<procVars, attempt, offer, url, row, made, alive, kills, verdict, bad>>

Publish(p) ==
  /\ spin[p] = "publish"
  /\ row' = [row EXCEPT ![p].status = IF Exists(p) THEN "ready" ELSE @]
  /\ Goto(p, "done")
  /\ UNCHANGED <<procVars, attempt, offer, url, cloudVars, verdict, bad>>

(* mark_pod_failed, after an inference error: nobody terminates the pod. *)
MarkPodFailed(p) ==
  /\ proc[WorkerOf[p]] = "up"
  /\ row[p].status = "ready"
  /\ row' = [row EXCEPT ![p].status = "failed"]
  /\ IF Rents(p) THEN Befalls(p, row[p].ext, "marked_failed") ELSE UNCHANGED fault
  /\ UNCHANGED <<procVars, spinVars, made, alive, kills, verdict, bad>>

(* The Kill button of the Monitoring page writes the status of the row and   *)
(* terminates nothing.                                                       *)
DashboardKill(p) ==
  /\ Exists(p)
  /\ row' = [row EXCEPT ![p].status = "terminated"]
  /\ IF row[p].ext # 0 THEN Befalls(p, row[p].ext, "dashboard_kill") ELSE UNCHANGED fault
  /\ UNCHANGED <<procVars, spinVars, made, alive, kills, verdict, bad>>

(* _reaper_loop, or the admin API, retires a ready pod: the row first, then  *)
(* terminate() as a task.  The races of the reaper, and an admin's kill of a *)
(* pod that is being launched, are PodPool's.                                *)
Retire(p) ==
  /\ row[p].status = "ready"
  /\ row' = [row EXCEPT ![p].status = "terminated"]
  /\ \E w \in Workers :
       /\ proc[w] = "up"
       /\ kills' = IF Rents(p) THEN kills \cup {Terminating(p, row[p].ext, w, FALSE)} ELSE kills
  /\ UNCHANGED <<procVars, spinVars, made, alive, fault, verdict, bad>>

Cooldown(w) ==
  /\ cooling[w]
  /\ cooling' = [cooling EXCEPT ![w] = FALSE]
  /\ UNCHANGED <<proc, batch, overlap, starts, spinVars, row, cloudVars, verdict, bad>>

-----------------------------------------------------------------------------
(***************************************************************************)
(* The adapters' terminate(): no adapter lets an error out.  RunPod and     *)
(* Together try three times and take "not found" for done; Vast and Lambda  *)
(* try once.  RunPod always asks in the name of the administrator's account.*)
(***************************************************************************)
Foreign(k) == Adapter[k.pod] = "runpod" /\ OwnKey[k.pod]
Finish(k) == kills' = kills \ {k}
Stop(k) == alive' = [alive EXCEPT ![k.pod] = @ \ {k.ext}]

TerminateDone(k) ==
  /\ k \in kills
  /\ Finish(k)
  /\ IF Foreign(k)
     THEN Befalls(k.pod, k.ext, "own_account") /\ UNCHANGED alive
     ELSE Stop(k) /\ UNCHANGED fault
  /\ UNCHANGED <<procVars, spinVars, row, made, verdict, bad>>

(* Faulty variant: the tries are counted from zero. *)
TerminateFails_OnceMore(k) ==
  /\ k \in kills
  /\ IF k.left > 0
     THEN kills' = (kills \ {k}) \cup {[k EXCEPT !.left = @ - 1]} /\ UNCHANGED fault
     ELSE Finish(k) /\ Befalls(k.pod, k.ext, "gave_up")
  /\ UNCHANGED alive \/ (~Foreign(k) /\ Stop(k))
  /\ UNCHANGED <<procVars, spinVars, row, made, verdict, bad>>

(* A failed try, which may have had its effect. *)
TerminateFails(k) ==
  /\ k \in kills
  /\ IF k.left > 1
     THEN kills' = (kills \ {k}) \cup {[k EXCEPT !.left = @ - 1]} /\ UNCHANGED fault
     ELSE Finish(k) /\ Befalls(k.pod, k.ext, "gave_up")
  /\ UNCHANGED alive \/ (~Foreign(k) /\ Stop(k))
  /\ UNCHANGED <<procVars, spinVars, row, made, verdict, bad>>

-----------------------------------------------------------------------------
(***************************************************************************)
(* The life of a process: start(), stop(), and a crash at any point.        *)
(***************************************************************************)
Start(w) ==
  /\ proc[w] = "down"
  /\ starts < MaxStarts
  /\ starts' = starts + 1
  /\ overlap' = (overlap \/ ~OthersDown(w))
  /\ cooling' = [cooling EXCEPT ![w] = FALSE]
  /\ proc' = [proc EXCEPT ![w] = "stale"]
  /\ batch' = [batch EXCEPT ![w] =
        {<<p, row[p].ext>> : p \in {q \in Pods : row[q].status \in {"provisioning", "starting"}}}]
  /\ UNCHANGED <<spinVars, row, cloudVars, verdict, bad>>

(* _cleanup_stale_pods writes the rows it has read.  A row that another      *)
(* process has deleted in between fails the flush, and start() with it.      *)
MarkStale(w) ==
  LET stale == {b[1] : b \in batch[w]} IN
  /\ proc[w] = "stale"
  /\ IF \A p \in stale : Exists(p)
     THEN /\ proc' = [proc EXCEPT ![w] = "reset"]
          /\ row' = [p \in Pods |-> IF p \in stale
                                    THEN [row[p] EXCEPT !.status = "failed"] ELSE row[p]]
          /\ fault' = [p \in Pods |-> IF p \in stale /\ row[p].ext # 0
                                      THEN [fault[p] EXCEPT ![row[p].ext] = "marked_failed"]
                                      ELSE fault[p]]
     ELSE proc' = [proc EXCEPT ![w] = "down"] /\ UNCHANGED <<row, fault>>
  /\ batch' = [batch EXCEPT ![w] = {}]
  /\ UNCHANGED <<cooling, overlap, starts, spinVars, made, alive, kills, verdict, bad>>

Delete(gone) == row' = [p \in Pods |-> IF p \in gone THEN NoRow ELSE row[p]]

(* Faulty variant: the rows of the local provider are not reset. *)
ResetApiRows_ApiOnly(w) ==
  /\ proc[w] = "reset"
  /\ UNCHANGED row
  /\ proc' = [proc EXCEPT ![w] = "dedicated"]
  /\ batch' = [batch EXCEPT ![w] =
        {<<p, row[p].ext>> : p \in {q \in Pods : Exists(q) /\ Rents(q)}}]
  /\ UNCHANGED <<cooling, overlap, starts, spinVars, cloudVars, verdict, bad>>

(* _reset_api_provider_pods; _cleanup_dedicated_pods reads its rows. *)
ResetApiRows(w) ==
  /\ proc[w] = "reset"
  /\ Delete({p \in Pods : ~Rents(p)})
  /\ proc' = [proc EXCEPT ![w] = "dedicated"]
  /\ batch' = [batch EXCEPT ![w] =
        {<<p, row[p].ext>> : p \in {q \in Pods : Exists(q) /\ Rents(q)}}]
  /\ UNCHANGED <<cooling, overlap, starts, spinVars, cloudVars, verdict, bad>>

Terminations(w, named, awaited) == {Terminating(b[1], b[2], w, awaited) : b \in named}

(* _cleanup_dedicated_pods: terminates what the rows it has read name, and   *)
(* deletes them.  An id written in between goes with its row.                *)
CleanupDedicated(w) ==
  LET missed == {p \in Pods : \E b \in batch[w] : b = <<p, 0>> /\ row[p].ext # 0} IN
  /\ proc[w] = "dedicated"
  /\ kills' = kills \cup Terminations(w, {b \in batch[w] : b[2] # 0}, FALSE)
  /\ Delete({b[1] : b \in batch[w]})
  /\ fault' = [p \in Pods |-> IF p \in missed
                              THEN [fault[p] EXCEPT ![row[p].ext] = "row_deleted"]
                              ELSE fault[p]]
  /\ proc' = [proc EXCEPT ![w] = "up"]
  /\ batch' = [batch EXCEPT ![w] = {}]
  /\ UNCHANGED <<cooling, overlap, starts, spinVars, made, alive, verdict, bad>>

(* stop() terminates the ready and starting pods of every process.  The      *)
(* server calls it once the requests of this process have been answered, but *)
(* the launches of pre-warm tasks may be under way, and go on.               *)
StopSelect(w) ==
  LET live == {p \in Pods : row[p].status \in {"ready", "starting"}} IN
  /\ proc[w] = "up"
  /\ proc' = [proc EXCEPT ![w] = "stopping"]
  /\ overlap' = (overlap \/ ~OthersDown(w))
  /\ batch' = [batch EXCEPT ![w] = {<<p, row[p].ext>> : p \in live}]
  /\ kills' = kills \cup
        Terminations(w, {<<p, row[p].ext>> : p \in {q \in live : Rents(q)}}, TRUE)
  /\ verdict' = [verdict EXCEPT ![w] = None]
  /\ UNCHANGED <<cooling, starts, spinVars, row, made, alive, fault, bad>>

(* The process goes away, and its tasks with it. *)
Exit(w) ==
  LET dropped == {k \in kills : k.by = w}
      launching == {p \in Pods : WorkerOf[p] = w /\ Rents(p)
                                 /\ spin[p] \in {"boot", "name", "await", "publish"}}
      hit(p, n) == \/ \E k \in dropped : k.pod = p /\ k.ext = n
                   \/ p \in launching /\ n = made[p]
  IN
  /\ proc' = [proc EXCEPT ![w] = "down"]
  /\ batch' = [batch EXCEPT ![w] = {}]
  /\ kills' = kills \ dropped
  /\ fault' = [p \in Pods |-> [n \in Instances |->
                  IF hit(p, n) THEN "exit" ELSE fault[p][n]]]
  /\ spin' = [p \in Pods |-> IF WorkerOf[p] = w /\ spin[p] # "idle" THEN "past" ELSE spin[p]]
  /\ verdict' = [verdict EXCEPT ![w] = None]
  /\ UNCHANGED <<cooling, overlap, starts, attempt, offer, url, made, alive, bad>>

(* stop() commits once its terminations are over; a row that is gone by then *)
(* fails the commit, which stop() logs.                                      *)
StopCommit(w) ==
  LET stopped == {b[1] : b \in batch[w]} IN
  /\ proc[w] = "stopping"
  /\ ~\E k \in kills : k.by = w /\ k.awaited
  /\ row' = IF \A p \in stopped : Exists(p)
            THEN [p \in Pods |-> IF p \in stopped
                                 THEN [row[p] EXCEPT !.status = "terminated"] ELSE row[p]]
            ELSE row
  /\ Exit(w)

Crash(w) == proc[w] # "down" /\ Exit(w) /\ UNCHANGED row

-----------------------------------------------------------------------------
(***************************************************************************)
(* _health_loop: the count is read and written in two steps.                *)
(***************************************************************************)
Probing(w, p) ==
  /\ w \in Checkers /\ proc[w] = "up"
  /\ verdict[w] = None
  /\ row[p].status = "ready"
  /\ NeedsOllamaCheck(p)

ProbeOk(w, p) ==
  /\ Probing(w, p)
  /\ row' = [row EXCEPT ![p].failures = 0]
  /\ UNCHANGED <<procVars, spinVars, cloudVars, verdict, bad>>

ProbeBad(w, p) ==
  /\ Probing(w, p)
  /\ verdict' = [verdict EXCEPT ![w] = <<p, row[p].failures + 1>>]
  /\ bad' = [bad EXCEPT ![p] = IF @ < FailThreshold THEN @ + 1 ELSE @]
  /\ UNCHANGED <<procVars, spinVars, row, cloudVars>>

(* Faulty variant: the increment is applied to the row as it now is. *)
CommitVerdict_Again(w) ==
  /\ verdict[w] # None
  /\ LET p == verdict[w][1]
         condemned == verdict[w][2] >= FailThreshold
     IN
     /\ row' = IF ~Exists(p) THEN row
               ELSE [row EXCEPT ![p].failures = @ + verdict[w][2],
                                ![p].status = IF condemned THEN "failed" ELSE @]
     /\ kills' = IF Exists(p) /\ condemned /\ Rents(p)
                 THEN kills \cup {Terminating(p, row[p].ext, w, FALSE)} ELSE kills
  /\ verdict' = [verdict EXCEPT ![w] = None]
  /\ UNCHANGED <<procVars, spinVars, made, alive, fault, bad>>

CommitVerdict(w) ==
  /\ verdict[w] # None
  /\ LET p == verdict[w][1]
         condemned == verdict[w][2] >= FailThreshold
     IN
     /\ row' = IF ~Exists(p) THEN row
               ELSE [row EXCEPT ![p].failures = verdict[w][2],
                                ![p].status = IF condemned THEN "failed" ELSE @]
     /\ kills' = IF Exists(p) /\ condemned /\ Rents(p)
                 THEN kills \cup {Terminating(p, row[p].ext, w, FALSE)} ELSE kills
  /\ verdict' = [verdict EXCEPT ![w] = None]
  /\ UNCHANGED <<procVars, spinVars, made, alive, fault, bad>>

-----------------------------------------------------------------------------
SpinPod(p) ==
  \/ InsertRow(p) \/ FindOffers(p) \/ Created(p) \/ ResponseLost(p) \/ CreateFails(p)
  \/ NoCapacity(p) \/ ErrorAnswer(p) \/ Boot(p) \/ MarkLaunchFailed(p) \/ MarkStarting(p)
  \/ AwaitReady(p) \/ Publish(p)

Ready(p) == MarkPodFailed(p) \/ DashboardKill(p) \/ Retire(p)

Process(w) ==
  \/ Start(w) \/ MarkStale(w) \/ ResetApiRows(w) \/ CleanupDedicated(w)
  \/ StopSelect(w) \/ StopCommit(w) \/ Crash(w) \/ Cooldown(w) \/ CommitVerdict(w)
  \/ \E p \in Pods : ProbeOk(w, p) \/ ProbeBad(w, p)

Next ==
  \/ \E p \in Pods : SpinPod(p) \/ Ready(p)
  \/ \E w \in Workers : Process(w)
  \/ \E k \in kills : TerminateDone(k) \/ TerminateFails(k)

Spec == Init /\ [][Next]_vars

-----------------------------------------------------------------------------
Launching(p, n) == spin[p] \in {"boot", "name"} /\ n = made[p]
Killing(p, n) == \E k \in kills : k.pod = p /\ k.ext = n
Live(p, n) ==
  /\ row[p].ext = n
  /\ \/ row[p].status = "ready"
     \/ row[p].status = "starting" /\ spin[p] \in {"await", "publish"}

Causes(p) ==
  {"lost_response", "not_ready", "row_deleted", "exit", "gave_up", "marked_failed",
   "dashboard_kill"}
  \cup (IF Adapter[p] = "together" THEN {"error_answer", "not_running"} ELSE {})
  \cup (IF Adapter[p] = "runpod" /\ OwnKey[p] THEN {"own_account"} ELSE {})

(***************************************************************************)
(* An instance that runs, and costs money, without being launched, in       *)
(* service or about to be terminated got there in one of these ways: the    *)
(* answer that names it was lost, the wait for its model failed, another    *)
(* process deleted its row, the process left in the middle, terminate()     *)
(* gave up or asked the wrong account, an inference error, a start-up or    *)
(* the Monitoring page wrote its status without terminating it or, for      *)
(* Together alone, an error status came with it or launch() gave up waiting *)
(* for it.  A starting row is in service while its launcher waits for it.   *)
(***************************************************************************)
OrphanHasCause ==
  \A p \in Pods : \A n \in alive[p] :
    Launching(p, n) \/ Killing(p, n) \/ Live(p, n) \/ fault[p][n] \in Causes(p)

(* Requests to rent, so far: one per hardware (Together) or one per try. *)
Requests(p) == IF Adapter[p] = "together" THEN offer[p] ELSE attempt[p]

(***************************************************************************)
(* A request to rent makes one instance at most.  launch() goes on to       *)
(* another request only when it does not know what the last one has made:   *)
(* it never leaves an instance behind whose id it has been told, and the    *)
(* row names the last.  RunPod, which asks once more only where there was   *)
(* no capacity, has one instance at most.                                   *)
(***************************************************************************)
OneInstancePerRequest ==
  \A p \in Pods :
    /\ made[p] <= Requests(p)
    /\ row[p].ext # 0 => row[p].ext = made[p] /\ ~Launching(p, made[p])
    /\ \A n \in Instances : n < made[p] => fault[p][n] \in {"lost_response", "error_answer"}
    /\ Adapter[p] = "runpod" => made[p] <= 1

(***************************************************************************)
(* "The bridge starts clean" (_cleanup_dedicated_pods): when processes      *)
(* start and stop one after the other, start() leaves no row of an earlier  *)
(* life, however that ended, and a pod that a running bridge hands out has  *)
(* an instance that runs and that nobody is about to terminate.             *)
(***************************************************************************)
StartsClean ==
  ~overlap => \A w \in Workers, p \in Pods :
    proc[w] = "up" =>
      /\ Exists(p) => spin[p] # "past"
      /\ row[p].status = "ready" /\ Rents(p) =>
           row[p].ext \in alive[p] /\ ~Killing(p, row[p].ext)

(***************************************************************************)
(* health_failures never counts more probes than have failed, though every  *)
(* process checks every pod and their increments overwrite one another: a   *)
(* pod is condemned after health_check_fail_threshold failures at least.    *)
(***************************************************************************)
CountsFailedProbes == \A p \in Pods : row[p].failures <= bad[p]

=============================================================================
