------------------------- MODULE PodRefinementProofs -------------------------
(***************************************************************************)
(* The pod pool implements PodLifecycle, for all values of the constants.   *)
(* LifecycleInv is invariant together with TypeOK and PodInv; under the     *)
(* three, every step of the pool is a step of PodLifecycle or leaves what   *)
(* it speaks of alone.                                                      *)
(***************************************************************************)
EXTENDS PodPoolRefinement, PodPoolProofs

(***************************************************************************)
(* LifecycleInv                                                            *)
(***************************************************************************)

\* No step takes a row out of the table.
LEMMA RowsKept ==
  ASSUME TypeOK, [Next]_vars, NEW q \in Pods, row[q].status # "none"
  PROVE  row'[q].status # "none"
<1> USE DEF requestVars, workerVars, cloudVars, reaperVars, healthVars
<1>1. row \in [Pods -> Row] /\ row[q] \in Row
      BY DEF TypeOK
<1>2. CASE UNCHANGED row
      BY <1>2
<1>3. ASSUME NEW r \in Requests, NEW v \in Providers, InsertRow(r, v)
      PROVE  row'[q].status # "none"
      BY <1>1, <1>3 DEF InsertRow, Row
<1>4. ASSUME NEW r \in Requests, MarkLaunchFailed(r) \/ MarkStarting(r) \/ Publish(r)
      PROVE  row'[q].status # "none"
      BY <1>1, <1>4 DEF MarkLaunchFailed, MarkStarting, Publish, Row
<1>5. ASSUME NEW r \in Requests, UpsertApiRow(r) PROVE row'[q].status # "none"
      BY <1>1, <1>5 DEF UpsertApiRow, Row
<1>6. ASSUME NEW r \in Requests, RecordUse(r) PROVE row'[q].status # "none"
      BY <1>1, <1>6 DEF RecordUse, Row
<1>7. ASSUME NEW w \in Workers, ReaperLock(w) \/ ReaperCommit(w) \/ CommitVerdict(w)
      PROVE  row'[q].status # "none"
      BY <1>1, <1>7 DEF ReaperLock, ReaperCommit, CommitVerdict, Row
<1>8. ASSUME NEW p \in Pods, \/ MarkPodFailed(p) \/ AdminKill(p) \/ DashboardKill(p)
                             \/ GrowIdle(p) \/ GrowOld(p)
      PROVE  row'[q].status # "none"
      BY <1>1, <1>8 DEF MarkPodFailed, AdminKill, DashboardKill, GrowIdle, GrowOld, Row
<1>9. ASSUME NEW r \in Requests, Acquire(r) \/ Use(r) PROVE row'[q].status # "none"
      BY <1>2, <1>3, <1>4, <1>5, <1>6, <1>9 DEF Acquire, Use, FastPath, EnterLock, Recheck,
         ReadInProgress, Claim, Wait, AllProvidersFailed, ResolveVolume, Launch, AwaitReady,
         SelectApiRow, MarkActive, Drop, Release
<1>10. ASSUME NEW w \in Workers, Reaper(w) \/ Health(w) PROVE row'[q].status # "none"
      BY <1>2, <1>7, <1>10 DEF Reaper, Health, ReaperSnapshot, ReaperConsider,
         HealthSnapshot, ProbeOk, ProbeBad
<1>11. ASSUME NEW p \in Pods, Surroundings(p) PROVE row'[q].status # "none"
      BY <1>2, <1>8, <1>11 DEF Surroundings, ReadForFailure, Terminate
<1>12. CASE UNCHANGED vars
      BY <1>2, <1>12 DEF vars
<1> QED BY <1>9, <1>10, <1>11, <1>12, PoolAssumption DEF Next

\* A row appears with its launcher, or is one of an API provider.
LEMMA RowAppears ==
  ASSUME TypeOK, PodInv, LifecycleInv, [Next]_vars, NEW q \in Pods,
         row[q].status = "none", row'[q].status # "none"
  PROVE  Kind[q[2]] = "api" \/ Launching(q)'
<1> USE DEF requestVars, workerVars, cloudVars, reaperVars, healthVars
<1>1. row \in [Pods -> Row] /\ row[q] \in Row
      BY DEF TypeOK
<1>2. CASE UNCHANGED row
      BY <1>2
<1>3. ASSUME NEW r \in Requests, NEW v \in Providers, InsertRow(r, v)
      PROVE  Launching(q)'
  <2>1. q = <<r, v>>
        BY <1>1, <1>3 DEF InsertRow, Row
  <2>2. pc'[r] = "volume" /\ cur'[r] = v
        BY <1>3 DEF InsertRow, TryProvider, Goto, TypeOK
  <2> QED BY <2>1, <2>2 DEF Launching, PodLocs
<1>4. ASSUME NEW r \in Requests, MarkLaunchFailed(r) \/ MarkStarting(r) \/ Publish(r)
      PROVE  FALSE
  <2>1. pc[r] \in PodLocs
        BY <1>4 DEF MarkLaunchFailed, MarkStarting, Publish, PodLocs
  <2>2. PodFor(r, cur[r]) = <<r, cur[r]>>
        BY <2>1, OwnPod
  <2>3. q = <<r, cur[r]>>
        BY <1>1, <1>4, <2>2 DEF MarkLaunchFailed, MarkStarting, Publish, Row
  <2> QED BY <2>1, <2>3 DEF LifecycleInv, RowExact, Launching
<1>5. ASSUME NEW r \in Requests, UpsertApiRow(r) PROVE Kind[q[2]] = "api"
  <2>1. PodFor(r, cur[r]) = <<None, cur[r]>> /\ Kind[cur[r]] = "api"
        BY <1>5 DEF UpsertApiRow, PodInv, Located, PodFor
  <2> QED BY <1>1, <1>5, <2>1 DEF UpsertApiRow, Row
<1>6. ASSUME NEW r \in Requests, RecordUse(r) PROVE FALSE
      BY <1>1, <1>6 DEF RecordUse, Row
<1>7. ASSUME NEW w \in Workers, ReaperLock(w) \/ ReaperCommit(w) PROVE FALSE
  <2>1. CASE ReaperLock(w)
        BY <1>1, <2>1 DEF ReaperLock, Row
  <2>2. CASE ReaperCommit(w)
    <3>1. reaping[w] \in Pods /\ row[reaping[w]].holder # None
          BY <2>2, NoneIsNothing DEF ReaperCommit, Holds, TypeOK
    <3>2. row[reaping[w]].status = "ready"
          BY <3>1 DEF PodInv, HolderExact
    <3> QED BY <1>1, <2>2, <3>2 DEF ReaperCommit, Row
  <2> QED BY <1>7, <2>1, <2>2
<1>8. ASSUME NEW w \in Workers, CommitVerdict(w) PROVE FALSE
  <2>1. verdict[w] # None /\ row[verdict[w][1]].status # "none"
        BY <1>8 DEF CommitVerdict, LifecycleInv, TasksSawRow
  <2> QED BY <1>1, <1>8, <2>1 DEF CommitVerdict, Row
<1>9. ASSUME NEW p \in Pods, MarkPodFailed(p) PROVE FALSE
  <2>1. row[p].status # "none"
        BY <1>9 DEF MarkPodFailed, LifecycleInv, TasksSawRow
  <2> QED BY <1>1, <1>9, <2>1 DEF MarkPodFailed, Row
<1>10. ASSUME NEW p \in Pods, AdminKill(p) \/ DashboardKill(p) \/ GrowIdle(p) \/ GrowOld(p)
       PROVE FALSE
      BY <1>1, <1>10 DEF AdminKill, DashboardKill, GrowIdle, GrowOld, Row
<1>11. ASSUME NEW r \in Requests, Acquire(r) \/ Use(r) PROVE Kind[q[2]] = "api" \/ Launching(q)'
      BY <1>2, <1>3, <1>4, <1>5, <1>6, <1>11 DEF Acquire, Use, FastPath, EnterLock, Recheck,
         ReadInProgress, Claim, Wait, AllProvidersFailed, ResolveVolume, Launch, AwaitReady,
         SelectApiRow, MarkActive, Drop, Release
<1>12. ASSUME NEW w \in Workers, Reaper(w) \/ Health(w) PROVE FALSE
      BY <1>2, <1>7, <1>8, <1>12 DEF Reaper, Health, ReaperSnapshot, ReaperConsider,
         HealthSnapshot, ProbeOk, ProbeBad
<1>13. ASSUME NEW p \in Pods, Surroundings(p) PROVE FALSE
      BY <1>2, <1>9, <1>10, <1>13 DEF Surroundings, ReadForFailure, Terminate
<1>14. CASE UNCHANGED vars
      BY <1>2, <1>14 DEF vars
<1> QED BY <1>11, <1>12, <1>13, <1>14, PoolAssumption DEF Next

\* The loops, the operators and the providers leave the coroutines alone.
LEMMA LoopsLeaveRequests ==
  ASSUME [Next]_vars, \A r \in Requests : ~Acquire(r) /\ ~Use(r)
  PROVE  UNCHANGED requestVars
<1>1. ASSUME NEW w \in Workers, Reaper(w) \/ Health(w) PROVE UNCHANGED requestVars
  <2>1. CASE Reaper(w)
        BY <2>1 DEF Reaper, ReaperSnapshot, ReaperConsider, ReaperLock, ReaperCommit
  <2>2. CASE Health(w)
        BY <2>2 DEF Health, HealthSnapshot, ProbeOk, ProbeBad, CommitVerdict
  <2> QED BY <1>1, <2>1, <2>2
<1>2. ASSUME NEW p \in Pods, Surroundings(p) PROVE UNCHANGED requestVars
  <2>1. CASE ReadForFailure(p) \/ MarkPodFailed(p) \/ Terminate(p)
        BY <2>1 DEF ReadForFailure, MarkPodFailed, Terminate
  <2>2. CASE AdminKill(p) \/ DashboardKill(p) \/ GrowIdle(p) \/ GrowOld(p)
        BY <2>2 DEF AdminKill, DashboardKill, GrowIdle, GrowOld
  <2> QED BY <1>2, <2>1, <2>2 DEF Surroundings
<1>3. CASE UNCHANGED vars
      BY <1>3 DEF vars
<1> QED BY <1>1, <1>2, <1>3, PoolAssumption DEF Next

\* The launch of a pod begins with its row.
LEMMA LaunchBegins ==
  ASSUME TypeOK, [Next]_vars, NEW q \in Pods, Launching(q)', ~Launching(q)
  PROVE  row'[q].status # "none"
<1> USE DEF requestVars, workerVars, cloudVars, reaperVars, healthVars
<1>1. pc \in [Requests -> Locs] /\ row \in [Pods -> Row]
      BY DEF TypeOK
<1>2. PICK s \in Requests : q = <<s, cur'[s]>> /\ pc'[s] \in PodLocs
      BY DEF Launching
<1>3. ~(cur'[s] = cur[s] /\ pc[s] \in PodLocs)
      BY <1>2 DEF Launching
<1>4. ASSUME NEW r \in Requests, NEW v \in Providers, InsertRow(r, v)
      PROVE  row'[q].status # "none"
  <2>1. r = s /\ cur'[r] = v
        BY <1>1, <1>2, <1>3, <1>4 DEF InsertRow, TryProvider, Goto, TypeOK
  <2>2. q = <<r, v>>
        BY <1>2, <2>1
  <2> QED BY <1>1, <1>4, <2>2 DEF InsertRow, Row
<1>5. ASSUME NEW r \in Requests, NEW v \in Providers, SelectApiRow(r, v) PROVE FALSE
      BY <1>1, <1>2, <1>3, <1>5 DEF SelectApiRow, TryProvider, Goto, TypeOK, PodLocs
<1>6. CASE UNCHANGED <<pc, cur>>
      BY <1>2, <1>3, <1>6
<1>7. ASSUME NEW r \in Requests, UNCHANGED cur, NEW loc \in Locs, Goto(r, loc),
             loc \in PodLocs => pc[r] \in PodLocs
      PROVE  FALSE
      BY <1>1, <1>2, <1>3, <1>7 DEF Goto
<1> USE DEF Locs, LockLocs, SpinLocs, PodLocs, ApiLocs, HandleLocs
<1>8. ASSUME NEW r \in Requests, \/ FastPath(r) \/ EnterLock(r) \/ Recheck(r) \/ ReadInProgress(r)
                                 \/ Claim(r) \/ Wait(r) \/ AllProvidersFailed(r)
      PROVE  FALSE
      BY <1>7, <1>8 DEF FastPath, EnterLock, Recheck, ReadInProgress, Claim, Wait,
         AllProvidersFailed, Give
<1>9. ASSUME NEW r \in Requests, \/ ResolveVolume(r) \/ MarkLaunchFailed(r)
                                 \/ MarkStarting(r) \/ AwaitReady(r) \/ Publish(r) \/ UpsertApiRow(r)
      PROVE  FALSE
      BY <1>7, <1>9 DEF ResolveVolume, MarkLaunchFailed, MarkStarting, AwaitReady, Publish,
         UpsertApiRow, Give
<1>10. ASSUME NEW r \in Requests, Launch(r) PROVE FALSE
  <2>1. PICK loc \in {"launched", "mark_failed"} : Goto(r, loc)
        BY <1>10 DEF Launch
  <2> QED BY <1>7, <1>10, <2>1 DEF Launch
<1>11. ASSUME NEW r \in Requests, Use(r) PROVE FALSE
      BY <1>7, <1>11 DEF Use, MarkActive, Drop, Release, RecordUse
<1>12. ASSUME NEW r \in Requests, Acquire(r) PROVE row'[q].status # "none"
      BY <1>4, <1>5, <1>8, <1>9, <1>10, <1>12 DEF Acquire
<1>13. CASE UNCHANGED requestVars
      BY <1>6, <1>13
<1> QED BY <1>11, <1>12, <1>13, LoopsLeaveRequests DEF Next

LEMMA FreshShrinks ==
  ASSUME TypeOK, [Next]_vars, NEW q \in Pods, Fresh(q)'
  PROVE  Fresh(q)
<1> USE DEF requestVars, workerVars, cloudVars, reaperVars, healthVars
<1>1. tried \in [Requests -> SUBSET Providers] /\ (q[1] = None \/ q[1] \in Requests)
      BY DEF TypeOK, Pods
<1>2. CASE UNCHANGED tried
      BY <1>2 DEF Fresh
<1>3. ASSUME NEW r \in Requests, NEW v \in Providers, TryProvider(r, v) PROVE Fresh(q)
      BY <1>1, <1>3 DEF TryProvider, Fresh
<1>4. ASSUME NEW r \in Requests, Acquire(r) PROVE Fresh(q)
      BY <1>2, <1>3, <1>4 DEF Acquire, FastPath, EnterLock, Recheck, ReadInProgress, Claim, Wait,
         AllProvidersFailed, InsertRow, SelectApiRow, ResolveVolume, Launch, MarkLaunchFailed,
         MarkStarting, AwaitReady, Publish, UpsertApiRow
<1>5. ASSUME NEW r \in Requests, Use(r) PROVE Fresh(q)
      BY <1>2, <1>5 DEF Use, MarkActive, Drop, Release, RecordUse
<1>6. CASE UNCHANGED requestVars
      BY <1>2, <1>6
<1> QED BY <1>4, <1>5, <1>6, LoopsLeaveRequests DEF Next

LEMMA HandleExactNext ==
  ASSUME TypeOK, PodInv, LifecycleInv, [Next]_vars
  PROVE  HandleExact'
<1> USE DEF requestVars
<1>1. pc \in [Requests -> Locs] /\ handle \in [Requests -> Pods \cup {None}] /\ HandleExact
      BY DEF TypeOK, LifecycleInv
<1> DEFINE With == HandleLocs \cup {"dropped"}
<1>2. CASE UNCHANGED <<pc, handle>>
      BY <1>1, <1>2 DEF HandleExact
<1>3. ASSUME NEW r \in Requests, NEW p \in Pods, Give(r, p) PROVE HandleExact'
      BY <1>1, <1>3, NoneIsNothing DEF Give, Goto, HandleExact, HandleLocs
<1>4. ASSUME NEW r \in Requests, NEW loc \in Locs, Goto(r, loc), UNCHANGED handle,
             pc[r] \in With <=> loc \in With
      PROVE  HandleExact'
      BY <1>1, <1>4 DEF Goto, HandleExact
<1> USE DEF Locs, LockLocs, SpinLocs, PodLocs, ApiLocs, HandleLocs
<1>5. ASSUME NEW r \in Requests, FastPath(r) \/ Recheck(r) \/ Wait(r) PROVE HandleExact'
  <2>1. ASSUME NEW p \in ReadyFor(r), Give(r, p) PROVE HandleExact'
        BY <1>3, <2>1 DEF ReadyFor
  <2>2. CASE /\ UNCHANGED handle
             /\ \/ pc[r] = "fast" /\ Goto(r, "lock")
                \/ pc[r] = "recheck" /\ Goto(r, "probe")
                \/ pc[r] = "wait" /\ Goto(r, "raised")
        BY <1>4, <2>2
  <2> QED BY <1>5, <2>1, <2>2 DEF FastPath, Recheck, Wait
<1>6. ASSUME NEW r \in Requests, EnterLock(r) \/ ReadInProgress(r) \/ Claim(r) \/ AllProvidersFailed(r)
      PROVE  HandleExact'
      BY <1>4, <1>6 DEF EnterLock, ReadInProgress, Claim, AllProvidersFailed
<1>7. ASSUME NEW r \in Requests, \/ ResolveVolume(r) \/ MarkLaunchFailed(r) \/ MarkStarting(r)
                                 \/ AwaitReady(r)
      PROVE  HandleExact'
      BY <1>4, <1>7 DEF ResolveVolume, MarkLaunchFailed, MarkStarting, AwaitReady
<1>8. ASSUME NEW r \in Requests, Launch(r) PROVE HandleExact'
  <2>1. PICK loc \in {"launched", "mark_failed"} : Goto(r, loc)
        BY <1>8 DEF Launch
  <2> QED BY <1>4, <1>8, <2>1 DEF Launch
<1>9. ASSUME NEW r \in Requests, NEW v \in Providers, InsertRow(r, v) \/ SelectApiRow(r, v)
      PROVE  HandleExact'
      BY <1>4, <1>9 DEF InsertRow, SelectApiRow, TryProvider
<1>10. ASSUME NEW r \in Requests, Publish(r) \/ UpsertApiRow(r) PROVE HandleExact'
  <2>1. PodFor(r, cur[r]) \in Pods
        BY <1>10, CurIsProvider, PodTypes DEF Publish, UpsertApiRow, PodInv
  <2> QED BY <1>3, <1>4, <1>10, <2>1 DEF Publish, UpsertApiRow
<1>11. ASSUME NEW r \in Requests, Use(r) PROVE HandleExact'
      BY <1>4, <1>11 DEF Use, MarkActive, Drop, Release, RecordUse
<1>12. ASSUME NEW r \in Requests, Acquire(r) PROVE HandleExact'
      BY <1>5, <1>6, <1>7, <1>8, <1>9, <1>10, <1>12 DEF Acquire
<1>13. CASE UNCHANGED requestVars
      BY <1>2, <1>13
<1> QED BY <1>11, <1>12, <1>13, LoopsLeaveRequests DEF Next

LEMMA TasksSawRowNext ==
  ASSUME TypeOK, PodInv, LifecycleInv, [Next]_vars
  PROVE  TasksSawRow'
<1> USE DEF healthVars
<1>1. /\ failing \in [Pods -> {"none", "queued", "found"}]
      /\ probing \in [Workers -> SUBSET Pods]
      /\ verdict \in [Workers -> (Pods \X (0..FailThreshold)) \cup {None}]
      /\ TasksSawRow
      BY DEF TypeOK, LifecycleInv
<1>2. \A q \in Pods : row[q].status # "none" => row'[q].status # "none"
      BY RowsKept
<1>3. CASE UNCHANGED <<failing, probing, verdict>>
      BY <1>1, <1>2, <1>3 DEF TasksSawRow
<1>4. ASSUME NEW p \in Pods, ReadForFailure(p) \/ MarkPodFailed(p) PROVE TasksSawRow'
  <2>1. \A q \in Pods : failing'[q] = "found" => row[q].status # "none"
        BY <1>1, <1>4 DEF ReadForFailure, MarkPodFailed, TasksSawRow
  <2>2. UNCHANGED <<probing, verdict>>
        BY <1>4 DEF ReadForFailure, MarkPodFailed
  <2> QED BY <1>1, <1>2, <2>1, <2>2 DEF TasksSawRow
<1>5. ASSUME NEW r \in Requests, Release(r) PROVE TasksSawRow'
  <2>1. \A q \in Pods : failing'[q] = "found" => failing[q] = "found"
        BY <1>1, <1>5 DEF Release
  <2>2. UNCHANGED <<probing, verdict>>
        BY <1>5 DEF Release
  <2> QED BY <1>1, <1>2, <2>1, <2>2 DEF TasksSawRow
<1>6. ASSUME NEW w \in Workers, UNCHANGED failing,
             \A v \in Workers \ {w} : probing'[v] = probing[v] /\ verdict'[v] = verdict[v],
             \A q \in probing'[w] : row[q].status # "none",
             verdict'[w] # None => verdict'[w][1] \in Pods /\ row[verdict'[w][1]].status # "none",
             probing'[w] \subseteq Pods
      PROVE  TasksSawRow'
      BY <1>1, <1>2, <1>6 DEF TasksSawRow
<1>7. ASSUME NEW w \in Workers, HealthSnapshot(w) PROVE TasksSawRow'
      BY <1>1, <1>6, <1>7 DEF HealthSnapshot
<1>8. ASSUME NEW w \in Workers, CommitVerdict(w) PROVE TasksSawRow'
      BY <1>1, <1>6, <1>8 DEF CommitVerdict, TasksSawRow
<1>9. ASSUME NEW w \in Workers, NEW p \in Pods, ProbeOk(w, p) \/ ProbeBad(w, p)
      PROVE  TasksSawRow'
  <2>1. p \in probing[w] /\ row[p].status # "none"
        BY <1>1, <1>9 DEF ProbeOk, ProbeBad, TasksSawRow
  <2>2. PICK n : verdict' = [verdict EXCEPT ![w] = None] \/ verdict' = [verdict EXCEPT ![w] = <<p, n>>]
        BY <1>9 DEF ProbeOk, ProbeBad
  <2>3. UNCHANGED failing /\ probing' = [probing EXCEPT ![w] = @ \ {p}]
        BY <1>9 DEF ProbeOk, ProbeBad
  <2> QED BY <1>1, <1>6, <2>1, <2>2, <2>3 DEF TasksSawRow
<1>10. ASSUME NEW r \in Requests, Acquire(r) \/ Use(r) PROVE TasksSawRow'
  <2>1. CASE Acquire(r)
        BY <1>3, <2>1 DEF Acquire, FastPath, EnterLock, Recheck, ReadInProgress, Claim, Wait,
           AllProvidersFailed, InsertRow, SelectApiRow, ResolveVolume, Launch, MarkLaunchFailed,
           MarkStarting, AwaitReady, Publish, UpsertApiRow
  <2>2. CASE Use(r)
        BY <1>3, <1>5, <2>2 DEF Use, MarkActive, Drop, RecordUse
  <2> QED BY <1>10, <2>1, <2>2
<1>11. ASSUME NEW w \in Workers, Reaper(w) PROVE TasksSawRow'
      BY <1>3, <1>11 DEF Reaper, ReaperSnapshot, ReaperConsider, ReaperLock, ReaperCommit
<1>12. ASSUME NEW w \in Workers, Health(w) PROVE TasksSawRow'
      BY <1>7, <1>8, <1>9, <1>12 DEF Health
<1>13. ASSUME NEW p \in Pods, Surroundings(p) PROVE TasksSawRow'
      BY <1>3, <1>4, <1>13 DEF Surroundings, Terminate, AdminKill, DashboardKill, GrowIdle, GrowOld
<1>14. CASE UNCHANGED vars
      BY <1>3, <1>14 DEF vars
<1> QED BY <1>10, <1>11, <1>12, <1>13, <1>14, PoolAssumption DEF Next

LEMMA LifecycleInvInit == Init => LifecycleInv
BY NoneIsNothing DEF Init, LifecycleInv, HandleExact, RowExact, TasksSawRow, Launching, NoRow,
   HandleLocs, PodLocs

LEMMA LifecycleInvNext ==
  ASSUME TypeOK, PodInv, LifecycleInv, [Next]_vars
  PROVE  LifecycleInv'
<1>1. ASSUME NEW q \in Pods, Kind[q[2]] # "api", Fresh(q)' PROVE row'[q].status = "none"
  <2>1. row[q].status = "none"
        BY <1>1, FreshShrinks DEF LifecycleInv, RowExact
  <2>2. Launching(q)' => FALSE
    <3>1. Located'
          BY TypeNext DEF PodInv
    <3> QED BY <1>1, <3>1, NoneIsNothing DEF Launching, Located, Fresh
  <2> QED BY <1>1, <2>1, <2>2, RowAppears
<1>2. ASSUME NEW q \in Pods, Launching(q)' PROVE row'[q].status # "none"
      BY <1>2, LaunchBegins, RowsKept DEF LifecycleInv, RowExact
<1> QED BY <1>1, <1>2, HandleExactNext, TasksSawRowNext DEF LifecycleInv, RowExact

LEMMA AllInvariantsHold == Spec => [](TypeOK /\ PodInv /\ LifecycleInv)
<1>1. TypeOK /\ PodInv /\ LifecycleInv /\ [Next]_vars => LifecycleInv'
      BY LifecycleInvNext
<1> QED BY <1>1, LifecycleInvInit, InvariantsHold, PTL DEF Spec

(***************************************************************************)
(* Who has a handle, which rows exist, and what the tasks have seen.        *)
(***************************************************************************)
THEOREM LifecycleInvHolds == Spec => []LifecycleInv
BY AllInvariantsHold, PTL

(***************************************************************************)
(* The step correspondence                                                 *)
(***************************************************************************)

\* A step that changes the phase of at most one pod
LEMMA PhaseBecomes ==
  ASSUME NEW p \in Pods,
         \A q \in Pods \ {p} : (Launching(q)' <=> Launching(q)) /\ row'[q].status = row[q].status
  PROVE  Phase' = [Phase EXCEPT ![p] = PhaseOf(p)']
<1>1. \A q \in Pods \ {p} : PhaseOf(q)' = PhaseOf(q)
      BY DEF PhaseOf
<1> QED BY <1>1 DEF Phase

LEMMA PhaseSame ==
  ASSUME \A q \in Pods : (Launching(q)' <=> Launching(q)) /\ row'[q].status = row[q].status
  PROVE  Phase' = Phase
BY DEF Phase, PhaseOf

\* The phase of a pod that is not being launched
LEMMA PhaseByStatus ==
  ASSUME NEW p \in Pods, ~Launching(p)
  PROVE  /\ row[p].status = "none" => PhaseOf(p) = "absent"
         /\ row[p].status = "ready" => PhaseOf(p) = "serving"
         /\ row[p].status \notin {"none", "ready"} => PhaseOf(p) = "retired"
BY DEF PhaseOf

LEMMA PhaseByStatusPrimed ==
  ASSUME NEW p \in Pods, ~Launching(p)'
  PROVE  /\ row'[p].status = "none" => PhaseOf(p)' = "absent"
         /\ row'[p].status = "ready" => PhaseOf(p)' = "serving"
         /\ row'[p].status \notin {"none", "ready"} => PhaseOf(p)' = "retired"
BY DEF PhaseOf

\* A ready row is not being launched.
LEMMA ReadyServes ==
  ASSUME TypeOK, PodInv, NEW p \in Pods, row[p].status = "ready"
  PROVE  ~Launching(p) /\ PhaseOf(p) = "serving"
<1>1. ~Launching(p)
  <2>1. SUFFICES ASSUME Launching(p) PROVE FALSE
        OBVIOUS
  <2>2. Unpublished(p)
        BY <2>1 DEF Unpublished, Launching, PodInv, Located
  <2> QED BY <2>2 DEF PodInv, UnpublishedUntouched
<1> QED BY <1>1, PhaseByStatus

\* The launch of a pod goes on, or its launcher leaves it.
LEMMA LauncherMoves ==
  ASSUME NEW r \in Requests, pc[r] \in PodLocs, UNCHANGED cur,
         \A s \in Requests \ {r} : pc'[s] = pc[s]
  PROVE  /\ \A q \in Pods \ {<<r, cur[r]>>} : Launching(q)' <=> Launching(q)
         /\ Launching(<<r, cur[r]>>)
         /\ Launching(<<r, cur[r]>>)' <=> pc'[r] \in PodLocs
BY DEF Launching

\* Requests that are not launching do not change what is being launched.
LEMMA OthersMove ==
  ASSUME NEW r \in Requests, pc[r] \notin PodLocs, pc'[r] \notin PodLocs,
         \A s \in Requests \ {r} : pc'[s] = pc[s] /\ cur'[s] = cur[s]
  PROVE  \A q \in Pods : Launching(q)' <=> Launching(q)
BY DEF Launching

Step == [Lifecycle!Next]_(Lifecycle!vars)

LEMMA StutterStep ==
  ASSUME Phase' = Phase, UNCHANGED <<handle, reaped>>
  PROVE  Step
BY DEF Step, Lifecycle!vars

LEMMA RetireStep ==
  ASSUME NEW p \in Pods, Phase[p] = "serving", Phase' = [Phase EXCEPT ![p] = "retired"],
         UNCHANGED <<handle, reaped>>
  PROVE  Step
BY DEF Step, Lifecycle!Next, Lifecycle!Retire, Lifecycle!Become

LEMMA GiveUpStep ==
  ASSUME NEW p \in Pods, Phase[p] = "launching", Phase' = [Phase EXCEPT ![p] = "retired"],
         UNCHANGED <<handle, reaped>>
  PROVE  Step
BY DEF Step, Lifecycle!Next, Lifecycle!GiveUp, Lifecycle!Become

LEMMA HandStep ==
  ASSUME NEW r \in Requests, NEW p \in Pods, Phase[p] = "serving", handle[r] = None,
         handle' = [handle EXCEPT ![r] = p], Phase' = Phase, UNCHANGED reaped
  PROVE  Step
BY DEF Step, Lifecycle!Next, Lifecycle!Hand, Lifecycle!GiveTo

\* What a request without a handle is given serves.
LEMMA GiveReady ==
  ASSUME TypeOK, PodInv, LifecycleInv, NEW r \in Requests, NEW p \in ReadyFor(r), Give(r, p),
         pc[r] \notin PodLocs \cup HandleLocs \cup {"dropped"}, UNCHANGED <<cur, row, reaped>>
  PROVE  Step
<1>1. p \in Pods /\ row[p].status = "ready" /\ handle[r] = None
      BY DEF ReadyFor, LifecycleInv, HandleExact
<1>2. /\ pc'[r] \notin PodLocs /\ handle' = [handle EXCEPT ![r] = p]
      /\ \A s \in Requests \ {r} : pc'[s] = pc[s]
      BY DEF Give, Goto, TypeOK, PodLocs
<1>3. Phase' = Phase
      BY <1>2, OthersMove, PhaseSame
<1>4. Phase[p] = "serving"
      BY <1>1, ReadyServes DEF Phase
<1> QED BY <1>1, <1>2, <1>3, <1>4, HandStep

LEMMA WaitingSteps ==
  ASSUME TypeOK, PodInv, LifecycleInv, NEW r \in Requests,
         \/ FastPath(r) \/ EnterLock(r) \/ Recheck(r) \/ ReadInProgress(r) \/ Claim(r) \/ Wait(r)
         \/ AllProvidersFailed(r)
  PROVE  Step
<1> USE DEF requestVars, workerVars, reaperVars
<1>1. UNCHANGED <<cur, row, reaped>>
      BY DEF FastPath, EnterLock, Recheck, ReadInProgress, Claim, Wait, AllProvidersFailed
<1>2. pc[r] \in {"fast", "lock", "wait", "spin"} \cup LockLocs
      BY DEF FastPath, EnterLock, Recheck, ReadInProgress, Claim, Wait, AllProvidersFailed, LockLocs
<1>3. pc[r] \notin PodLocs \cup HandleLocs \cup {"dropped"}
      BY <1>2 DEF LockLocs, PodLocs, HandleLocs
<1>4. ASSUME NEW p \in ReadyFor(r), Give(r, p) PROVE Step
      BY <1>1, <1>3, <1>4, GiveReady
<1>5. ASSUME NEW loc \in Locs \ PodLocs, Goto(r, loc), UNCHANGED handle PROVE Step
  <2>1. pc'[r] \notin PodLocs /\ \A s \in Requests \ {r} : pc'[s] = pc[s]
        BY <1>5, GotoTypes
  <2>2. Phase' = Phase
        BY <1>1, <1>3, <2>1, OthersMove, PhaseSame
  <2> QED BY <1>1, <1>5, <2>2, StutterStep
<1>6. {"lock", "recheck", "probe", "claim_clear", "claim_busy", "spin", "wait", "raised"} \subseteq Locs \ PodLocs
      BY DEF Locs, LockLocs, SpinLocs, PodLocs
<1>7. CASE FastPath(r) \/ Recheck(r) \/ Wait(r)
      BY <1>4, <1>5, <1>6, <1>7 DEF FastPath, Recheck, Wait
<1>8. CASE EnterLock(r) \/ ReadInProgress(r) \/ Claim(r) \/ AllProvidersFailed(r)
      BY <1>5, <1>6, <1>8 DEF EnterLock, ReadInProgress, Claim, AllProvidersFailed
<1> QED BY <1>7, <1>8

\* The row of a new pod: the first step of its life
LEMMA InsertRowBegins ==
  ASSUME TypeOK, PodInv, LifecycleInv, NEW r \in Requests, NEW v \in Providers, InsertRow(r, v)
  PROVE  Step
<1> DEFINE p == <<r, v>>
<1> USE DEF requestVars, reaperVars
<1>1. /\ pc[r] = "spin" /\ pc'[r] = "volume" /\ \A s \in Requests \ {r} : pc'[s] = pc[s]
      /\ cur'[r] = v /\ \A s \in Requests \ {r} : cur'[s] = cur[s]
      BY DEF InsertRow, TryProvider, Goto, TypeOK
<1>2. p \in Pods /\ Kind[v] # "api" /\ Fresh(p)
      BY PodTypes DEF InsertRow, TryProvider, IsNext, Untried, Fresh
<1>3. row[p].status = "none" /\ \A q \in Pods \ {p} : row'[q] = row[q]
      BY <1>2 DEF LifecycleInv, RowExact, InsertRow, TypeOK
<1>4. ~Launching(p) /\ Launching(p)' /\ \A q \in Pods \ {p} : Launching(q)' <=> Launching(q)
      BY <1>1 DEF Launching, PodLocs
<1>5. PhaseOf(p) = "absent" /\ PhaseOf(p)' = "launching"
      BY <1>3, <1>4 DEF PhaseOf
<1>6. Phase[p] = "absent" /\ Phase' = [Phase EXCEPT ![p] = "launching"]
      BY <1>2, <1>3, <1>4, <1>5, PhaseBecomes DEF Phase
<1>7. p \notin {q \in Pods : Kind[q[2]] = "api"} /\ UNCHANGED <<handle, reaped>>
      BY <1>2 DEF InsertRow
<1> QED BY <1>2, <1>6, <1>7 DEF Step, Lifecycle!Next, Lifecycle!Begin, Lifecycle!Become

\* The launcher goes on: the phase stays; or leaves: the pod is given up.
LEMMA LauncherStays ==
  ASSUME TypeOK, PodInv, LifecycleInv, NEW r \in Requests, pc[r] \in PodLocs,
         UNCHANGED <<cur, handle, reaped>>,
         \A s \in Requests \ {r} : pc'[s] = pc[s],
         \A q \in Pods \ {<<r, cur[r]>>} : row'[q] = row[q],
         \/ pc'[r] \in PodLocs
         \/ pc'[r] \notin PodLocs /\ row'[<<r, cur[r]>>].status \notin {"none", "ready"}
  PROVE  Step
<1> DEFINE p == <<r, cur[r]>>
<1>1. p \in Pods
      BY OwnPod
<1>2. /\ Launching(p) /\ (Launching(p)' <=> pc'[r] \in PodLocs)
      /\ \A q \in Pods \ {p} : Launching(q)' <=> Launching(q)
      BY LauncherMoves
<1>3. PhaseOf(p) = "launching"
      BY <1>2 DEF PhaseOf
<1>4. PhaseOf(p)' = IF pc'[r] \in PodLocs THEN "launching" ELSE "retired"
      BY <1>2 DEF PhaseOf
<1>5. Phase' = [Phase EXCEPT ![p] = PhaseOf(p)']
      BY <1>1, <1>2, PhaseBecomes
<1>6. Phase[p] = "launching" /\ Phase = [q \in Pods |-> Phase[q]]
      BY <1>1, <1>3 DEF Phase
<1>7. CASE pc'[r] \in PodLocs
  <2>1. Phase' = Phase
        BY <1>1, <1>4, <1>5, <1>6, <1>7
  <2> QED BY <2>1, StutterStep
<1>8. CASE pc'[r] \notin PodLocs
      BY <1>1, <1>4, <1>5, <1>6, <1>8, GiveUpStep
<1> QED BY <1>7, <1>8

LEMMA LaunchingSteps ==
  ASSUME TypeOK, PodInv, LifecycleInv, NEW r \in Requests,
         \/ ResolveVolume(r) \/ Launch(r) \/ MarkLaunchFailed(r) \/ MarkStarting(r) \/ AwaitReady(r)
  PROVE  Step
<1> DEFINE p == <<r, cur[r]>>
<1> USE DEF requestVars, workerVars, reaperVars
<1>1. /\ pc \in [Requests -> Locs] /\ row \in [Pods -> Row]
      BY DEF TypeOK
<1>2. pc[r] \in PodLocs
      BY DEF ResolveVolume, Launch, MarkLaunchFailed, MarkStarting, AwaitReady, PodLocs
<1>3. p \in Pods /\ PodFor(r, cur[r]) = p /\ row[p].status \notin {"none", "ready"} /\ row[p] \in Row
  <2>1. Launching(p)
        BY <1>2 DEF Launching
  <2> QED BY <1>1, <1>2, <2>1, OwnPod DEF LifecycleInv, RowExact
<1>4. UNCHANGED <<cur, handle, reaped>>
      BY DEF ResolveVolume, Launch, MarkLaunchFailed, MarkStarting, AwaitReady
<1>5. \A s \in Requests \ {r} : pc'[s] = pc[s]
      BY <1>1 DEF ResolveVolume, Launch, MarkLaunchFailed, MarkStarting, AwaitReady, Goto
<1>6. CASE UNCHANGED row
      BY <1>2, <1>3, <1>4, <1>5, <1>6, LauncherStays
<1>7. CASE MarkLaunchFailed(r)
  <2>1. (\A q \in Pods \ {p} : row'[q] = row[q]) /\ row'[p].status = "failed"
        BY <1>1, <1>3, <1>7 DEF MarkLaunchFailed, Row
  <2> QED BY <1>2, <1>4, <1>5, <2>1, LauncherStays
<1>8. CASE MarkStarting(r)
  <2>1. \A q \in Pods \ {p} : row'[q] = row[q]
        BY <1>1, <1>3, <1>8 DEF MarkStarting, Row
  <2>2. CASE UNCHANGED row
        BY <1>6, <2>2
  <2>3. CASE Goto(r, IF NeedsOllamaCheck(cur[r]) THEN "await_ready" ELSE "publish")
    <3>1. pc'[r] \in PodLocs
          BY <1>1, <2>3 DEF Goto, PodLocs
    <3> QED BY <1>2, <1>4, <1>5, <2>1, <3>1, LauncherStays
  <2> QED BY <1>8, <2>2, <2>3 DEF MarkStarting
<1> QED BY <1>6, <1>7, <1>8 DEF ResolveVolume, Launch, AwaitReady

LEMMA PublishServes ==
  ASSUME TypeOK, PodInv, LifecycleInv, NEW r \in Requests, Publish(r)
  PROVE  Step
<1> USE DEF requestVars, workerVars, reaperVars
<1>1. /\ pc \in [Requests -> Locs] /\ row \in [Pods -> Row]
      /\ handle \in [Requests -> Pods \cup {None}]
      BY DEF TypeOK
<1>2. pc[r] \in PodLocs /\ pc[r] = "publish"
      BY DEF Publish, PodLocs
<1>3. PICK p \in Pods : p = <<r, cur[r]>> /\ PodFor(r, cur[r]) = p /\ row[p] \in Row
      BY <1>1, <1>2, OwnPod
<1>4. handle[r] = None
      BY <1>2 DEF LifecycleInv, HandleExact, HandleLocs
<1>5. /\ row'[p].status = "ready" /\ \A q \in Pods \ {p} : row'[q] = row[q]
      BY <1>1, <1>3 DEF Publish, Row
<1>6. /\ pc'[r] \notin PodLocs /\ \A s \in Requests \ {r} : pc'[s] = pc[s]
      /\ handle' = [handle EXCEPT ![r] = p] /\ UNCHANGED <<cur, reaped>>
      BY <1>1, <1>3 DEF Publish, Give, Goto, PodLocs
<1>7. Launching(p) /\ ~Launching(p)' /\ \A q \in Pods \ {p} : Launching(q)' <=> Launching(q)
      BY <1>2, <1>3, <1>6, LauncherMoves
<1>8. PhaseOf(p) = "launching" /\ PhaseOf(p)' = "serving"
      BY <1>5, <1>7 DEF PhaseOf
<1>9. Phase[p] = "launching" /\ Phase' = [Phase EXCEPT ![p] = "serving"]
      BY <1>3, <1>5, <1>7, <1>8, PhaseBecomes DEF Phase
<1> QED BY <1>3, <1>4, <1>6, <1>9 DEF Step, Lifecycle!Next, Lifecycle!Publish, Lifecycle!Become, Lifecycle!GiveTo

LEMMA ApiSteps ==
  ASSUME TypeOK, PodInv, LifecycleInv, NEW r \in Requests,
         UpsertApiRow(r) \/ \E v \in Providers : SelectApiRow(r, v)
  PROVE  Step
<1> USE DEF requestVars, workerVars, reaperVars
<1>1. /\ pc \in [Requests -> Locs] /\ row \in [Pods -> Row]
      /\ handle \in [Requests -> Pods \cup {None}]
      BY DEF TypeOK
<1>2. ASSUME NEW v \in Providers, SelectApiRow(r, v) PROVE Step
  <2>1. /\ pc[r] = "spin" /\ pc'[r] \in ApiLocs
        /\ \A s \in Requests \ {r} : pc'[s] = pc[s] /\ cur'[s] = cur[s]
        BY <1>1, <1>2 DEF SelectApiRow, TryProvider, Goto, ApiLocs, TypeOK
  <2>2. \A q \in Pods : Launching(q)' <=> Launching(q)
        BY <2>1, OthersMove DEF PodLocs, ApiLocs
  <2>3. UNCHANGED <<handle, row, reaped>>
        BY <1>2 DEF SelectApiRow
  <2> QED BY <2>2, <2>3, PhaseSame, StutterStep
<1>3. CASE UpsertApiRow(r)
  <2>1. PICK p \in Pods : /\ p = <<None, cur[r]>> /\ PodFor(r, cur[r]) = p
                          /\ Kind[cur[r]] = "api" /\ pc[r] \in ApiLocs
        BY <1>3, CurIsProvider, PodTypes DEF UpsertApiRow, PodInv, Located, PodFor
  <2>2. row[p] \in Row
        BY <1>1, <2>1
  <2>3. UNCHANGED <<cur, reaped>>
        BY <1>3 DEF UpsertApiRow
  <2>4. CASE Goto(r, "spin") /\ UNCHANGED <<row, handle>>
    <3>1. pc'[r] = "spin" /\ \A s \in Requests \ {r} : pc'[s] = pc[s]
          BY <1>1, <2>4 DEF Goto
    <3>2. \A q \in Pods : Launching(q)' <=> Launching(q)
          BY <2>1, <2>3, <3>1, OthersMove DEF PodLocs, ApiLocs
    <3> QED BY <2>3, <2>4, <3>2, PhaseSame, StutterStep
  <2>5. CASE /\ row' = [row EXCEPT ![p].status = IF pc[r] = "touch_api" THEN @ ELSE "ready",
                                   ![p].named  = TRUE,
                                   ![p].idle   = FALSE]
             /\ Give(r, p)
    <3>1. /\ pc'[r] = "holding" /\ handle' = [handle EXCEPT ![r] = p]
          /\ \A s \in Requests \ {r} : pc'[s] = pc[s]
          BY <1>1, <2>5 DEF Give, Goto
    <3>2. /\ \A q \in Pods \ {p} : row'[q] = row[q]
          /\ row'[p].status \in {row[p].status, "ready"}
          BY <1>1, <2>1, <2>2, <2>5 DEF Row
    <3>3. \A q \in Pods : Launching(q)' <=> Launching(q)
          BY <2>1, <2>3, <3>1, OthersMove DEF PodLocs, ApiLocs
    <3>4. ~Launching(p)'
          BY <2>1, NoneIsNothing DEF Launching
    <3>5. Phase' \in {Phase, [Phase EXCEPT ![p] = "serving"]}
      <4>1. CASE row'[p].status = row[p].status
            BY <3>2, <3>3, <4>1, PhaseSame
      <4>2. CASE row'[p].status = "ready"
            BY <2>1, <3>2, <3>3, <3>4, <4>2, PhaseBecomes, PhaseByStatusPrimed
      <4> QED BY <3>2, <4>1, <4>2
    <3>6. handle[r] = None
          BY <2>1 DEF LifecycleInv, HandleExact, ApiLocs, HandleLocs
    <3>7. p \in {q \in Pods : Kind[q[2]] = "api"}
          BY <2>1
    <3> QED BY <2>1, <2>3, <3>1, <3>5, <3>6, <3>7 DEF Step, Lifecycle!Next, Lifecycle!Open, Lifecycle!GiveTo
  <2> QED BY <1>3, <2>1, <2>4, <2>5 DEF UpsertApiRow
<1> QED BY <1>2, <1>3

\* Those who retire pods find them launching, serving or retired already.
LEMMA RowRetired ==
  ASSUME TypeOK, PodInv, NEW p \in Pods, row[p].status # "none",
         row'[p].status \in {row[p].status} \cup TerminalStatus,
         \A q \in Pods \ {p} : row'[q].status = row[q].status,
         \A q \in Pods : Launching(q)' <=> Launching(q),
         UNCHANGED <<handle, reaped>>
  PROVE  Step
<1>1. CASE Launching(p) \/ row'[p].status = row[p].status
  <2>1. PhaseOf(p)' = PhaseOf(p)
        BY <1>1 DEF PhaseOf
  <2>2. Phase' = Phase
        BY <2>1, PhaseBecomes DEF Phase
  <2> QED BY <2>2, StutterStep
<1>2. CASE ~Launching(p) /\ row'[p].status \in TerminalStatus
  <2>1. Phase' = [Phase EXCEPT ![p] = "retired"]
        BY <1>2, PhaseBecomes, PhaseByStatusPrimed DEF TerminalStatus
  <2>2. CASE row[p].status = "ready"
    <3>1. Phase[p] = "serving"
          BY <2>2, ReadyServes DEF Phase
    <3> QED BY <2>1, <3>1, RetireStep
  <2>3. CASE row[p].status # "ready"
    <3>1. PhaseOf(p) = "retired"
          BY <1>2, <2>3, PhaseByStatus
    <3>2. Phase' = Phase
          BY <2>1, <3>1 DEF Phase
    <3> QED BY <3>2, StutterStep
  <2> QED BY <2>2, <2>3
<1> QED BY <1>1, <1>2

LEMMA UseSteps ==
  ASSUME TypeOK, PodInv, LifecycleInv, NEW r \in Requests, Use(r)
  PROVE  Step
<1> USE DEF requestVars, workerVars, reaperVars
<1>1. pc \in [Requests -> Locs] /\ row \in [Pods -> Row] /\ \A q \in Pods : row[q] \in Row
      BY DEF TypeOK
<1>2. UNCHANGED <<cur, handle, reaped>>
      BY DEF Use, MarkActive, Drop, Release, RecordUse
<1>3. pc[r] \notin PodLocs /\ pc'[r] \notin PodLocs /\ \A s \in Requests \ {r} : pc'[s] = pc[s]
      BY <1>1 DEF Use, MarkActive, Drop, Release, RecordUse, Goto, PodLocs
<1>4. \A q \in Pods : row'[q].status = row[q].status
      BY <1>1 DEF Use, MarkActive, Drop, Release, RecordUse, Row
<1>5. Phase' = Phase
      BY <1>2, <1>3, <1>4, OthersMove, PhaseSame
<1> QED BY <1>2, <1>5, StutterStep

LEMMA ReapingSteps ==
  ASSUME TypeOK, PodInv, LifecycleInv, NEW w \in Workers, Reaper(w)
  PROVE  Step
<1> USE DEF requestVars
<1>1. /\ row \in [Pods -> Row] /\ (\A q \in Pods : row[q] \in Row) /\ w # None
      /\ reaping \in [Workers -> Pods \cup {None}]
      BY NoneIsNothing DEF TypeOK
<1>2. UNCHANGED <<pc, cur, handle>>
      BY DEF Reaper, ReaperSnapshot, ReaperConsider, ReaperLock, ReaperCommit
<1>3. \A q \in Pods : Launching(q)' <=> Launching(q)
      BY <1>2 DEF Launching
<1>4. CASE ReaperSnapshot(w) \/ (\E p \in Pods : ReaperConsider(w, p)) \/ ReaperLock(w)
  <2>1. UNCHANGED reaped /\ \A q \in Pods : row'[q].status = row[q].status
        BY <1>1, <1>4 DEF ReaperSnapshot, ReaperConsider, ReaperLock, Row
  <2> QED BY <1>2, <1>3, <2>1, PhaseSame, StutterStep
<1>5. CASE ReaperCommit(w)
  <2>1. PICK p \in Pods : p = reaping[w] /\ row[p].holder = w
        BY <1>1, <1>5 DEF ReaperCommit, Holds
  <2>2. row[p].status = "ready"
        BY <1>1, <2>1 DEF PodInv, HolderExact
  <2>3. ~Launching(p) /\ PhaseOf(p) = "serving"
        BY <2>1, <2>2, ReadyServes
  <2>4. row'[p].status = "terminated" /\ \A q \in Pods \ {p} : row'[q] = row[q]
        BY <1>1, <1>5, <2>1 DEF ReaperCommit, Row
  <2>5. PhaseOf(p)' = "retired"
        BY <1>3, <2>1, <2>3, <2>4, PhaseByStatusPrimed
  <2>6. Phase[p] = "serving" /\ Phase' = [Phase EXCEPT ![p] = "retired"]
        BY <1>3, <2>1, <2>3, <2>4, <2>5, PhaseBecomes DEF Phase
  <2>7. reaped' = [reaped EXCEPT ![p] = @ \cup {w}]
        BY <1>5, <2>1 DEF ReaperCommit
  <2> QED BY <1>2, <2>1, <2>6, <2>7 DEF Step, Lifecycle!Next, Lifecycle!Reap, Lifecycle!Become
<1> QED BY <1>4, <1>5 DEF Reaper

LEMMA HealthSteps ==
  ASSUME TypeOK, PodInv, LifecycleInv, NEW w \in Workers, Health(w)
  PROVE  Step
<1> USE DEF requestVars, reaperVars
<1>1. row \in [Pods -> Row] /\ \A q \in Pods : row[q] \in Row
      BY DEF TypeOK
<1>2. UNCHANGED <<pc, cur, handle, reaped>>
      BY DEF Health, HealthSnapshot, ProbeOk, ProbeBad, CommitVerdict
<1>3. \A q \in Pods : Launching(q)' <=> Launching(q)
      BY <1>2 DEF Launching
<1>4. CASE UNCHANGED row
      BY <1>2, <1>3, <1>4, PhaseSame, StutterStep
<1>5. CASE CommitVerdict(w)
  <2> DEFINE p == verdict[w][1]
  <2>1. p \in Pods /\ row[p].status # "none"
        BY <1>5 DEF CommitVerdict, TypeOK, LifecycleInv, TasksSawRow
  <2>2. /\ row'[p].status \in {row[p].status, "failed"}
        /\ \A q \in Pods \ {p} : row'[q] = row[q]
        BY <1>1, <1>5, <2>1 DEF CommitVerdict, Row
  <2> QED BY <1>2, <1>3, <2>1, <2>2, RowRetired DEF TerminalStatus
<1> QED BY <1>4, <1>5 DEF Health, HealthSnapshot, ProbeOk, ProbeBad

LEMMA SurroundingSteps ==
  ASSUME TypeOK, PodInv, LifecycleInv, NEW p \in Pods, Surroundings(p)
  PROVE  Step
<1> USE DEF requestVars, reaperVars
<1>1. row \in [Pods -> Row] /\ \A q \in Pods : row[q] \in Row
      BY DEF TypeOK
<1>2. UNCHANGED <<pc, cur, handle, reaped>>
  <2>1. CASE ReadForFailure(p) \/ MarkPodFailed(p) \/ Terminate(p)
        BY <2>1 DEF ReadForFailure, MarkPodFailed, Terminate
  <2>2. CASE AdminKill(p) \/ DashboardKill(p) \/ GrowIdle(p) \/ GrowOld(p)
        BY <2>2 DEF AdminKill, DashboardKill, GrowIdle, GrowOld
  <2> QED BY <2>1, <2>2 DEF Surroundings
<1>3. \A q \in Pods : Launching(q)' <=> Launching(q)
      BY <1>2 DEF Launching
<1>4. CASE ReadForFailure(p) \/ Terminate(p) \/ GrowIdle(p) \/ GrowOld(p)
  <2>1. \A q \in Pods : row'[q].status = row[q].status
        BY <1>1, <1>4 DEF ReadForFailure, Terminate, GrowIdle, GrowOld, Row
  <2> QED BY <1>2, <1>3, <2>1, PhaseSame, StutterStep
<1>5. CASE MarkPodFailed(p) \/ AdminKill(p) \/ DashboardKill(p)
  <2>1. row'[p].status \in TerminalStatus /\ \A q \in Pods \ {p} : row'[q] = row[q]
        BY <1>1, <1>5 DEF MarkPodFailed, AdminKill, DashboardKill, Row, TerminalStatus
  <2>2. row[p].status # "none"
        BY <1>5 DEF MarkPodFailed, AdminKill, DashboardKill, LifecycleInv, TasksSawRow
  <2> QED BY <1>2, <1>3, <2>1, <2>2, RowRetired
<1> QED BY <1>4, <1>5 DEF Surroundings

LEMMA InitMaps == Init => Lifecycle!Init
<1> SUFFICES ASSUME Init PROVE Lifecycle!Init
    OBVIOUS
<1>1. \A p \in Pods : ~Launching(p) /\ row[p].status = "none"
      BY DEF Init, Launching, PodLocs, NoRow
<1>2. Phase = [p \in Pods |-> "absent"]
      BY <1>1, PhaseByStatus DEF Phase
<1> QED BY <1>2 DEF Init, Lifecycle!Init

LEMMA NextMaps ==
  ASSUME TypeOK, PodInv, LifecycleInv, [Next]_vars
  PROVE  Step
<1>1. CASE UNCHANGED vars
  <2>1. UNCHANGED <<pc, cur, handle, row, reaped>>
        BY <1>1 DEF vars, requestVars, reaperVars
  <2>2. \A q \in Pods : Launching(q)' <=> Launching(q)
        BY <2>1 DEF Launching
  <2> QED BY <2>1, <2>2, PhaseSame, StutterStep
<1>2. ASSUME NEW r \in Requests, Acquire(r) PROVE Step
      BY <1>2, WaitingSteps, InsertRowBegins, LaunchingSteps, PublishServes, ApiSteps DEF Acquire
<1>3. ASSUME NEW r \in Requests, Use(r) PROVE Step
      BY <1>3, UseSteps
<1>4. ASSUME NEW w \in Workers, Reaper(w) \/ Health(w) PROVE Step
      BY <1>4, ReapingSteps, HealthSteps
<1>5. ASSUME NEW p \in Pods, Surroundings(p) PROVE Step
      BY <1>5, SurroundingSteps
<1> QED BY <1>1, <1>2, <1>3, <1>4, <1>5, PoolAssumption DEF Next

(***************************************************************************)
(* Every behaviour of the pool is one of PodLifecycle: a pod is launched    *)
(* once, serves once and is retired once, and a request gets one pod, while *)
(* it serves - with any number of workers, loops and operators.             *)
(***************************************************************************)
THEOREM Refinement == Spec => ImplementsLifecycle
<1>1. TypeOK /\ PodInv /\ LifecycleInv /\ [Next]_vars => [Lifecycle!Next]_(Lifecycle!vars)
      BY NextMaps DEF Step
<1> QED BY <1>1, InitMaps, AllInvariantsHold, PTL DEF Spec, ImplementsLifecycle, Lifecycle!Spec

==============================================================================
