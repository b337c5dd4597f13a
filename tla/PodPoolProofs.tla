---------------------------- MODULE PodPoolProofs ----------------------------
(***************************************************************************)
(* Proofs about PodPool, for any number of workers, requests and providers, *)
(* any placement of the requests and any set of reapers and health loops.   *)
(***************************************************************************)
EXTENDS PodPool, FiniteSetTheorems, TLAPS

(***************************************************************************)
(* Type correctness.  A handle is a pod because a request that spins has    *)
(* put its provider into tried: TypeOK is inductive together with Located.  *)
(***************************************************************************)
LEMMA PodTypes ==
  ASSUME NEW r \in Requests, NEW v \in Providers
  PROVE  <<r, v>> \in Pods /\ <<None, v>> \in Pods /\ PodFor(r, v) \in Pods
BY DEF Pods, PodFor

LEMMA NoneIsNothing ==
  None \notin Workers /\ None \notin Requests /\ None \notin Providers /\ None \notin Pods
BY PoolAssumption

LEMMA CurIsProvider ==
  ASSUME TypeOK, Located, NEW r \in Requests, pc[r] \in PodLocs \cup ApiLocs
  PROVE  cur[r] \in Providers
BY DEF TypeOK, Located

LEMMA HandleIsPod ==
  ASSUME TypeOK, Located, NEW r \in Requests, pc[r] \in HandleLocs
  PROVE  handle[r] \in Pods
BY DEF TypeOK, Located

LEMMA TypeInit == Init => TypeOK /\ Located
<1> SUFFICES ASSUME Init PROVE TypeOK /\ Located
    OBVIOUS
<1>1. NoRow \in Row
      BY PoolAssumption DEF NoRow, Row, Status
<1>2. TypeOK
      BY <1>1 DEF Init, TypeOK, Locs
<1>3. Located
      BY DEF Init, Located, PodLocs, ApiLocs, HandleLocs
<1> QED BY <1>2, <1>3

(***************************************************************************)
(* What Goto, Give and EndSpin do to the types and to Located.              *)
(***************************************************************************)
LEMMA GotoTypes ==
  ASSUME TypeOK, NEW r \in Requests, NEW loc \in Locs, Goto(r, loc)
  PROVE  /\ pc' \in [Requests -> Locs]
         /\ pc'[r] = loc
         /\ \A s \in Requests \ {r} : pc'[s] = pc[s]
BY DEF TypeOK, Goto

LEMMA GiveTypes ==
  ASSUME TypeOK, NEW r \in Requests, NEW p \in Pods, Give(r, p)
  PROVE  /\ pc' \in [Requests -> Locs]
         /\ pc'[r] = "holding"
         /\ \A s \in Requests \ {r} : pc'[s] = pc[s]
         /\ handle' \in [Requests -> Pods \cup {None}]
         /\ handle'[r] = p
         /\ \A s \in Requests \ {r} : handle'[s] = handle[s]
<1>1. "holding" \in Locs
      BY DEF Locs, HandleLocs
<1> QED BY <1>1, GotoTypes DEF TypeOK, Give

\* Every UPDATE of the pods table writes a row.
LEMMA RowUpdateTypes ==
  ASSUME TypeOK, NEW p \in Pods
  PROVE  /\ row \in [Pods -> Row]
         /\ \A s \in Status :
              /\ [row EXCEPT ![p].status = s] \in [Pods -> Row]
              /\ [row EXCEPT ![p].status = s, ![p].named = TRUE] \in [Pods -> Row]
              /\ [row EXCEPT ![p].status = s, ![p].idle = FALSE] \in [Pods -> Row]
              /\ [row EXCEPT ![p].status = s, ![p].named = TRUE, ![p].idle = FALSE] \in [Pods -> Row]
              /\ [row EXCEPT ![p].status = s, ![p].holder = None] \in [Pods -> Row]
              /\ \A n \in 0..FailThreshold :
                   [row EXCEPT ![p].failures = n, ![p].status = s] \in [Pods -> Row]
         /\ \A b \in BOOLEAN : [row EXCEPT ![p].idle = b] \in [Pods -> Row]
         /\ [row EXCEPT ![p].aged = TRUE] \in [Pods -> Row]
         /\ \A w \in Workers : [row EXCEPT ![p].holder = w] \in [Pods -> Row]
<1>1. row \in [Pods -> Row] /\ row[p] \in Row
      BY DEF TypeOK
<1>2. ASSUME NEW s \in Status
      PROVE  /\ [row[p] EXCEPT !.status = s] \in Row
             /\ [row[p] EXCEPT !.status = s, !.named = TRUE] \in Row
             /\ [row[p] EXCEPT !.status = s, !.idle = FALSE] \in Row
             /\ [row[p] EXCEPT !.status = s, !.named = TRUE, !.idle = FALSE] \in Row
             /\ [row[p] EXCEPT !.status = s, !.holder = None] \in Row
             /\ \A n \in 0..FailThreshold : [row[p] EXCEPT !.failures = n, !.status = s] \in Row
      BY <1>1 DEF Row
<1>3. /\ \A b \in BOOLEAN : [row[p] EXCEPT !.idle = b] \in Row
      /\ [row[p] EXCEPT !.aged = TRUE] \in Row
      /\ \A w \in Workers : [row[p] EXCEPT !.holder = w] \in Row
      BY <1>1 DEF Row
<1> QED BY <1>1, <1>2, <1>3

LEMMA ScheduleTypes ==
  ASSUME TypeOK, NEW p \in Pods, ScheduleTerminate(p)
  PROVE  killing' \in [Pods -> BOOLEAN]
<1>1. (killing[p] \/ HasInstance(p[2])) \in BOOLEAN
      OBVIOUS
<1> QED BY <1>1 DEF TypeOK, ScheduleTerminate

LEMMA EndSpinTypes ==
  ASSUME TypeOK, NEW r \in Requests, EndSpin(r)
  PROVE  spinning' \in [Workers -> BOOLEAN]
BY DEF TypeOK, EndSpin

\* A request that moves without trying another provider
LEMMA LocatedMove ==
  ASSUME TypeOK, Located, NEW r \in Requests,
         \A s \in Requests \ {r} : pc'[s] = pc[s] /\ handle'[s] = handle[s],
         UNCHANGED <<cur, tried>>,
         pc'[r] \in HandleLocs => handle'[r] # None,
         pc'[r] \in PodLocs => pc[r] \in PodLocs,
         pc'[r] \notin ApiLocs
  PROVE  Located'
BY DEF Located, PodLocs, ApiLocs

LEMMA FastPathType ==
  ASSUME TypeOK, Located, NEW r \in Requests, FastPath(r)
  PROVE  TypeOK' /\ Located'
<1> USE DEF requestVars, workerVars, cloudVars, reaperVars, healthVars
<1>1. ASSUME NEW p \in ReadyFor(r), Give(r, p), FastPath(r) PROVE TypeOK' /\ Located'
  <2>1. p \in Pods
        BY <1>1 DEF ReadyFor
  <2>2. TypeOK'
        BY <1>1, <2>1, GiveTypes DEF FastPath, TypeOK
  <2>3. Located'
        BY <1>1, <2>1, GiveTypes, LocatedMove, NoneIsNothing DEF FastPath, PodLocs, ApiLocs
  <2> QED BY <2>2, <2>3
<1>2. ASSUME Goto(r, "lock"), UNCHANGED handle, FastPath(r) PROVE TypeOK' /\ Located'
  <2>1. "lock" \in Locs
        BY DEF Locs, LockLocs, SpinLocs
  <2>2. TypeOK'
        BY <1>2, <2>1, GotoTypes DEF FastPath, TypeOK
  <2>3. Located'
        BY <1>2, <2>1, GotoTypes, LocatedMove DEF FastPath, PodLocs, ApiLocs, HandleLocs
  <2> QED BY <2>2, <2>3
<1> QED BY <1>1, <1>2 DEF FastPath

LEMMA EnterLockType ==
  ASSUME TypeOK, Located, NEW r \in Requests, EnterLock(r)
  PROVE  TypeOK' /\ Located'
<1> USE DEF requestVars, workerVars, cloudVars, reaperVars, healthVars
<1>1. "recheck" \in Locs
      BY DEF Locs, LockLocs
<1>2. lock' \in [Workers -> Requests \cup {None}]
      BY DEF EnterLock, TypeOK
<1>3. TypeOK'
      BY <1>1, <1>2, GotoTypes DEF EnterLock, TypeOK
<1>4. Located'
      BY <1>1, GotoTypes, LocatedMove DEF EnterLock, PodLocs, ApiLocs, HandleLocs
<1> QED BY <1>3, <1>4

LEMMA RecheckType ==
  ASSUME TypeOK, Located, NEW r \in Requests, Recheck(r)
  PROVE  TypeOK' /\ Located'
<1> USE DEF requestVars, workerVars, cloudVars, reaperVars, healthVars
<1>0. lock' \in [Workers -> Requests \cup {None}]
      BY DEF Recheck, TypeOK
<1>1. ASSUME NEW p \in ReadyFor(r), Give(r, p), Recheck(r) PROVE TypeOK' /\ Located'
  <2>1. p \in Pods
        BY <1>1 DEF ReadyFor
  <2>2. TypeOK'
        BY <1>1, <2>1, <1>0, GiveTypes DEF Recheck, TypeOK
  <2>3. Located'
        BY <1>1, <2>1, GiveTypes, LocatedMove, NoneIsNothing DEF Recheck, PodLocs, ApiLocs
  <2> QED BY <2>2, <2>3
<1>2. ASSUME Goto(r, "probe"), UNCHANGED handle, Recheck(r) PROVE TypeOK' /\ Located'
  <2>1. "probe" \in Locs
        BY DEF Locs, LockLocs, SpinLocs
  <2>2. TypeOK'
        BY <1>2, <2>1, <1>0, GotoTypes DEF Recheck, TypeOK
  <2>3. Located'
        BY <1>2, <2>1, GotoTypes, LocatedMove DEF Recheck, PodLocs, ApiLocs, HandleLocs
  <2> QED BY <2>2, <2>3
<1> QED BY <1>1, <1>2 DEF Recheck

LEMMA ReadInProgressType ==
  ASSUME TypeOK, Located, NEW r \in Requests, ReadInProgress(r)
  PROVE  TypeOK' /\ Located'
<1> USE DEF requestVars, workerVars, cloudVars, reaperVars, healthVars
<1>1. PICK loc \in {"claim_clear", "claim_busy"} : Goto(r, loc)
      BY DEF ReadInProgress
<1>2. loc \in Locs
      BY DEF Locs, LockLocs
<1>3. TypeOK'
      BY <1>1, <1>2, GotoTypes DEF ReadInProgress, TypeOK
<1>4. Located'
      BY <1>1, <1>2, GotoTypes, LocatedMove DEF ReadInProgress, PodLocs, ApiLocs, HandleLocs
<1> QED BY <1>3, <1>4

LEMMA ClaimType ==
  ASSUME TypeOK, Located, NEW r \in Requests, Claim(r)
  PROVE  TypeOK' /\ Located'
<1> USE DEF requestVars, workerVars, cloudVars, reaperVars, healthVars
<1>1. PICK loc \in {"spin", "wait"} : Goto(r, loc)
      BY DEF Claim
<1>2. loc \in Locs
      BY DEF Locs, SpinLocs
<1>3. spinning' \in [Workers -> BOOLEAN] /\ lock' \in [Workers -> Requests \cup {None}]
      BY DEF Claim, TypeOK
<1>4. TypeOK'
      BY <1>1, <1>2, <1>3, GotoTypes DEF Claim, TypeOK
<1>5. Located'
      BY <1>1, <1>2, GotoTypes, LocatedMove DEF Claim, PodLocs, ApiLocs, HandleLocs
<1> QED BY <1>4, <1>5

LEMMA WaitType ==
  ASSUME TypeOK, Located, NEW r \in Requests, Wait(r)
  PROVE  TypeOK' /\ Located'
<1> USE DEF requestVars, workerVars, cloudVars, reaperVars, healthVars
<1>1. ASSUME NEW p \in ReadyFor(r), Give(r, p), Wait(r) PROVE TypeOK' /\ Located'
  <2>1. p \in Pods
        BY <1>1 DEF ReadyFor
  <2>2. TypeOK'
        BY <1>1, <2>1, GiveTypes DEF Wait, TypeOK
  <2>3. Located'
        BY <1>1, <2>1, GiveTypes, LocatedMove, NoneIsNothing DEF Wait, PodLocs, ApiLocs
  <2> QED BY <2>2, <2>3
<1>2. ASSUME Goto(r, "raised"), UNCHANGED handle, Wait(r) PROVE TypeOK' /\ Located'
  <2>1. "raised" \in Locs
        BY DEF Locs, LockLocs, SpinLocs
  <2>2. TypeOK'
        BY <1>2, <2>1, GotoTypes DEF Wait, TypeOK
  <2>3. Located'
        BY <1>2, <2>1, GotoTypes, LocatedMove DEF Wait, PodLocs, ApiLocs, HandleLocs
  <2> QED BY <2>2, <2>3
<1> QED BY <1>1, <1>2 DEF Wait

LEMMA AllProvidersFailedType ==
  ASSUME TypeOK, Located, NEW r \in Requests, AllProvidersFailed(r)
  PROVE  TypeOK' /\ Located'
<1> USE DEF requestVars, workerVars, cloudVars, reaperVars, healthVars
<1>1. TypeOK'
      BY EndSpinTypes DEF AllProvidersFailed, TypeOK, Goto, Locs
<1>2. Located'
      BY LocatedMove DEF AllProvidersFailed, TypeOK, Goto, PodLocs, ApiLocs, HandleLocs
<1> QED BY <1>1, <1>2

LEMMA InsertRowType ==
  ASSUME TypeOK, Located, NEW r \in Requests, NEW v \in Providers, InsertRow(r, v)
  PROVE  TypeOK' /\ Located'
<1> USE DEF requestVars, workerVars, cloudVars, reaperVars, healthVars
<1>1. <<r, v>> \in Pods
      BY PodTypes
<1>2. row' \in [Pods -> Row]
      BY <1>1, RowUpdateTypes DEF InsertRow, Status, InProgressStatus, TerminalStatus
<1>3. pc' \in [Requests -> Locs]
      BY DEF InsertRow, TypeOK, Goto, Locs, SpinLocs, PodLocs, ApiLocs, HandleLocs, TryProvider
<1>4. TypeOK'
      BY <1>1, <1>2, <1>3 DEF InsertRow, TypeOK, TryProvider
<1>5. Located'
      BY <1>1, <1>2, <1>3 DEF InsertRow, Located, TryProvider, TypeOK, Goto, PodLocs, ApiLocs, HandleLocs
<1> QED BY <1>4, <1>5

LEMMA ResolveVolumeType ==
  ASSUME TypeOK, Located, NEW r \in Requests, ResolveVolume(r)
  PROVE  TypeOK' /\ Located'
<1> USE DEF requestVars, workerVars, cloudVars, reaperVars, healthVars
<1>1. TypeOK'
      BY EndSpinTypes DEF ResolveVolume, TypeOK, Goto, Locs, SpinLocs, PodLocs, ApiLocs, HandleLocs
<1>2. Located'
      BY LocatedMove DEF ResolveVolume, TypeOK, Goto, PodLocs, ApiLocs, HandleLocs
<1> QED BY <1>1, <1>2

LEMMA LaunchType ==
  ASSUME TypeOK, Located, NEW r \in Requests, Launch(r)
  PROVE  TypeOK' /\ Located'
<1> USE DEF requestVars, workerVars, cloudVars, reaperVars, healthVars
<1>0. PICK o \in {<<"launched", "running">>, <<"mark_failed", "absent">>, <<"mark_failed", "lost">>} :
        /\ Goto(r, o[1])
        /\ instance' = [instance EXCEPT ![PodFor(r, cur[r])] = IF HasInstance(cur[r]) THEN o[2] ELSE @]
      BY DEF Launch
<1>1. PICK loc \in {"launched", "mark_failed"}, i \in {"absent", "running", "lost"} :
        /\ Goto(r, loc)
        /\ instance' = [instance EXCEPT ![PodFor(r, cur[r])] = IF HasInstance(cur[r]) THEN i ELSE @]
  <2>1. o[1] \in {"launched", "mark_failed"} /\ o[2] \in {"absent", "running", "lost"}
        OBVIOUS
  <2> QED BY <1>0, <2>1
<1>2. loc \in Locs
      BY DEF Locs, SpinLocs, PodLocs
<1>3. instance' \in [Pods -> {"absent", "running", "lost", "stopped"}]
  <2>1. CASE HasInstance(cur[r])
        BY <1>1, <2>1 DEF TypeOK
  <2>2. CASE ~HasInstance(cur[r])
        BY <1>1, <2>2 DEF TypeOK
  <2> QED BY <2>1, <2>2
<1>4. TypeOK'
      BY <1>1, <1>2, <1>3, GotoTypes DEF Launch, TypeOK
<1>5. Located'
      BY <1>1, <1>2, GotoTypes, LocatedMove DEF Launch, PodLocs, ApiLocs, HandleLocs
<1> QED BY <1>4, <1>5

LEMMA MarkLaunchFailedType ==
  ASSUME TypeOK, Located, NEW r \in Requests, MarkLaunchFailed(r)
  PROVE  TypeOK' /\ Located'
<1> USE DEF requestVars, workerVars, cloudVars, reaperVars, healthVars
<1>1. PodFor(r, cur[r]) \in Pods
      BY CurIsProvider, PodTypes DEF MarkLaunchFailed, PodLocs, ApiLocs
<1>2. row' \in [Pods -> Row]
      BY <1>1, RowUpdateTypes DEF MarkLaunchFailed, Status, InProgressStatus, TerminalStatus
<1>3. pc' \in [Requests -> Locs]
      BY DEF MarkLaunchFailed, TypeOK, Goto, Locs, SpinLocs, PodLocs, ApiLocs, HandleLocs
<1>4. spinning' \in [Workers -> BOOLEAN]
      BY EndSpinTypes DEF MarkLaunchFailed, TypeOK
<1>5. TypeOK'
      BY <1>1, <1>2, <1>3, <1>4 DEF MarkLaunchFailed, TypeOK
<1>6. Located'
      BY <1>1, <1>2, <1>3, <1>4, LocatedMove DEF MarkLaunchFailed, TypeOK, Goto, PodLocs, ApiLocs, HandleLocs
<1> QED BY <1>5, <1>6

LEMMA MarkStartingType ==
  ASSUME TypeOK, Located, NEW r \in Requests, MarkStarting(r)
  PROVE  TypeOK' /\ Located'
<1> USE DEF requestVars, workerVars, cloudVars, reaperVars, healthVars
<1>1. PodFor(r, cur[r]) \in Pods
      BY CurIsProvider, PodTypes DEF MarkStarting, PodLocs, ApiLocs
<1>2. row' \in [Pods -> Row]
  <2>1. CASE UNCHANGED row
        BY <2>1 DEF TypeOK
  <2>2. CASE row' = [row EXCEPT ![PodFor(r, cur[r])].status = "starting",
                                ![PodFor(r, cur[r])].named = TRUE]
        BY <1>1, <2>2, RowUpdateTypes DEF Status, InProgressStatus
  <2> QED BY <2>1, <2>2 DEF MarkStarting
<1>3. pc' \in [Requests -> Locs]
      BY DEF MarkStarting, TypeOK, Goto, Locs, SpinLocs, PodLocs, ApiLocs, HandleLocs
<1>4. TypeOK'
      BY <1>1, <1>2, <1>3 DEF MarkStarting, TypeOK
<1>5. Located'
      BY <1>1, <1>2, <1>3, LocatedMove DEF MarkStarting, TypeOK, Goto, PodLocs, ApiLocs, HandleLocs
<1> QED BY <1>4, <1>5

LEMMA AwaitReadyType ==
  ASSUME TypeOK, Located, NEW r \in Requests, AwaitReady(r)
  PROVE  TypeOK' /\ Located'
<1> USE DEF requestVars, workerVars, cloudVars, reaperVars, healthVars
<1>1. TypeOK'
      BY DEF AwaitReady, TypeOK, Goto, Locs, SpinLocs, PodLocs, ApiLocs, HandleLocs
<1>2. Located'
      BY LocatedMove DEF AwaitReady, TypeOK, Goto, PodLocs, ApiLocs, HandleLocs
<1> QED BY <1>1, <1>2

LEMMA PublishType ==
  ASSUME TypeOK, Located, NEW r \in Requests, Publish(r)
  PROVE  TypeOK' /\ Located'
<1> USE DEF requestVars, workerVars, cloudVars, reaperVars, healthVars
<1>1. PodFor(r, cur[r]) \in Pods
      BY CurIsProvider, PodTypes DEF Publish, PodLocs, ApiLocs
<1>2. row' \in [Pods -> Row]
      BY <1>1, RowUpdateTypes DEF Publish, Status, InProgressStatus, TerminalStatus
<1>3. TypeOK'
      BY <1>1, <1>2, GiveTypes, EndSpinTypes DEF Publish, TypeOK
<1>4. Located'
      BY <1>1, <1>2, GiveTypes, LocatedMove, NoneIsNothing DEF Publish, PodLocs, ApiLocs
<1> QED BY <1>3, <1>4

LEMMA SelectApiRowType ==
  ASSUME TypeOK, Located, NEW r \in Requests, NEW v \in Providers, SelectApiRow(r, v)
  PROVE  TypeOK' /\ Located'
<1> USE DEF requestVars, workerVars, cloudVars, reaperVars, healthVars
<1>1. TypeOK'
      BY DEF SelectApiRow, TypeOK, TryProvider, Goto, Locs, SpinLocs, PodLocs, ApiLocs, HandleLocs
<1>2. Located'
      BY DEF SelectApiRow, Located, TryProvider, TypeOK, Goto, PodLocs, ApiLocs, HandleLocs
<1> QED BY <1>1, <1>2

LEMMA UpsertApiRowType ==
  ASSUME TypeOK, Located, NEW r \in Requests, UpsertApiRow(r)
  PROVE  TypeOK' /\ Located'
<1> DEFINE p == PodFor(r, cur[r])
<1> USE DEF requestVars, workerVars, cloudVars, reaperVars, healthVars
<1>1. p \in Pods
      BY CurIsProvider, PodTypes DEF UpsertApiRow
<1>2. row[p].status \in Status
      BY <1>1 DEF TypeOK, Row
<1>3. row' \in [Pods -> Row]
  <2>1. CASE UNCHANGED row
        BY <2>1 DEF TypeOK
  <2>2. CASE ~UNCHANGED row
    <3>1. PICK s \in Status : row' = [row EXCEPT ![p].status = s, ![p].named = TRUE, ![p].idle = FALSE]
          BY <1>2, <2>2 DEF UpsertApiRow, Status
    <3> QED BY <1>1, <3>1, RowUpdateTypes
  <2> QED BY <2>1, <2>2
<1>4. CASE Goto(r, "spin") /\ UNCHANGED <<handle, spinning>>
  <2>1. "spin" \in Locs
        BY DEF Locs, SpinLocs
  <2>2. TypeOK'
        BY <1>3, <1>4, <2>1, GotoTypes DEF UpsertApiRow, TypeOK
  <2>3. Located'
        BY <1>4, <2>1, GotoTypes, LocatedMove DEF UpsertApiRow, PodLocs, ApiLocs, HandleLocs
  <2> QED BY <2>2, <2>3
<1>5. CASE Give(r, p) /\ EndSpin(r)
  <2>1. TypeOK'
        BY <1>1, <1>3, <1>5, GiveTypes, EndSpinTypes DEF UpsertApiRow, TypeOK
  <2>2. Located'
        BY <1>1, <1>5, GiveTypes, LocatedMove, NoneIsNothing DEF UpsertApiRow, PodLocs, ApiLocs
  <2> QED BY <2>1, <2>2
<1> QED BY <1>4, <1>5 DEF UpsertApiRow

LEMMA MarkActiveType ==
  ASSUME TypeOK, Located, NEW r \in Requests, MarkActive(r)
  PROVE  TypeOK' /\ Located'
<1> USE DEF requestVars, workerVars, cloudVars, reaperVars, healthVars
<1>1. handle[r] \in Pods
      BY HandleIsPod DEF MarkActive, HandleLocs
<1>2. active' \in [Workers -> [Pods -> Nat]]
      BY <1>1, PoolAssumption DEF MarkActive, TypeOK
<1>3. pc' \in [Requests -> Locs]
      BY DEF MarkActive, TypeOK, Goto, Locs, SpinLocs, PodLocs, ApiLocs, HandleLocs
<1>4. TypeOK'
      BY <1>1, <1>2, <1>3 DEF MarkActive, TypeOK
<1>5. Located'
      BY <1>1, <1>2, <1>3, LocatedMove DEF MarkActive, Located, TypeOK, Goto, PodLocs, ApiLocs, HandleLocs
<1> QED BY <1>4, <1>5

LEMMA DropType ==
  ASSUME TypeOK, Located, NEW r \in Requests, Drop(r)
  PROVE  TypeOK' /\ Located'
<1> USE DEF requestVars, workerVars, cloudVars, reaperVars, healthVars
<1>1. TypeOK'
      BY DEF Drop, TypeOK, Goto, Locs, SpinLocs, PodLocs, ApiLocs, HandleLocs
<1>2. Located'
      BY LocatedMove DEF Drop, Located, TypeOK, Goto, PodLocs, ApiLocs, HandleLocs
<1> QED BY <1>1, <1>2

LEMMA ReleaseType ==
  ASSUME TypeOK, Located, NEW r \in Requests, Release(r)
  PROVE  TypeOK' /\ Located'
<1> USE DEF requestVars, workerVars, cloudVars, reaperVars, healthVars
<1>1. handle[r] \in Pods
      BY HandleIsPod DEF Release, HandleLocs
<1>2. WorkerOf[r] \in Workers /\ active[WorkerOf[r]][handle[r]] \in Nat
      BY <1>1, PoolAssumption DEF TypeOK
<1>3. active' \in [Workers -> [Pods -> Nat]]
      BY <1>1, <1>2 DEF Release, TypeOK
<1>4. pc' \in [Requests -> Locs]
      BY DEF Release, TypeOK, Goto, Locs, SpinLocs, PodLocs, ApiLocs, HandleLocs
<1>5. failing' \in [Pods -> {"none", "queued", "found"}]
      BY <1>1 DEF Release, TypeOK
<1>6. TypeOK'
      BY <1>1, <1>2, <1>3, <1>4, <1>5 DEF Release, TypeOK
<1>7. Located'
      BY <1>1, <1>2, <1>3, <1>4, <1>5, LocatedMove DEF Release, Located, TypeOK, Goto, PodLocs, ApiLocs, HandleLocs
<1> QED BY <1>6, <1>7

LEMMA RecordUseType ==
  ASSUME TypeOK, Located, NEW r \in Requests, RecordUse(r)
  PROVE  TypeOK' /\ Located'
<1> USE DEF requestVars, workerVars, cloudVars, reaperVars, healthVars
<1>1. handle[r] \in Pods
      BY HandleIsPod DEF RecordUse, HandleLocs
<1>2. row' \in [Pods -> Row]
      BY <1>1, RowUpdateTypes DEF RecordUse, Status, InProgressStatus, TerminalStatus
<1>3. pc' \in [Requests -> Locs]
      BY DEF RecordUse, TypeOK, Goto, Locs, SpinLocs, PodLocs, ApiLocs, HandleLocs
<1>4. TypeOK'
      BY <1>1, <1>2, <1>3 DEF RecordUse, TypeOK
<1>5. Located'
      BY <1>1, <1>2, <1>3, LocatedMove DEF RecordUse, Located, TypeOK, Goto, PodLocs, ApiLocs, HandleLocs
<1> QED BY <1>4, <1>5

LEMMA ReaperSnapshotType ==
  ASSUME TypeOK, Located, NEW w \in Workers, ReaperSnapshot(w)
  PROVE  TypeOK' /\ Located'
<1> USE DEF requestVars, workerVars, cloudVars, reaperVars, healthVars
<1>1. TypeOK'
      BY DEF ReaperSnapshot, TypeOK
<1>2. Located'
      BY DEF ReaperSnapshot, Located
<1> QED BY <1>1, <1>2

LEMMA ReaperConsiderType ==
  ASSUME TypeOK, Located, NEW w \in Workers, NEW p \in Pods, ReaperConsider(w, p)
  PROVE  TypeOK' /\ Located'
<1> USE DEF requestVars, workerVars, cloudVars, reaperVars, healthVars
<1>1. TypeOK'
      BY DEF ReaperConsider, TypeOK
<1>2. Located'
      BY DEF ReaperConsider, Located
<1> QED BY <1>1, <1>2

LEMMA ReaperLockType ==
  ASSUME TypeOK, Located, NEW w \in Workers, ReaperLock(w)
  PROVE  TypeOK' /\ Located'
<1> USE DEF requestVars, workerVars, cloudVars, reaperVars, healthVars
<1>1. reaping[w] \in Pods
      BY DEF ReaperLock, TypeOK
<1>2. row' \in [Pods -> Row]
  <2>1. CASE UNCHANGED row
        BY <2>1 DEF TypeOK
  <2>2. CASE row' = [row EXCEPT ![reaping[w]].holder = w]
        BY <1>1, <2>2, RowUpdateTypes
  <2> QED BY <2>1, <2>2 DEF ReaperLock
<1>3. TypeOK'
      BY <1>1, <1>2 DEF ReaperLock, TypeOK
<1>4. Located'
      BY <1>1, <1>2 DEF ReaperLock, Located
<1> QED BY <1>3, <1>4

LEMMA ReaperCommitType ==
  ASSUME TypeOK, Located, NEW w \in Workers, ReaperCommit(w)
  PROVE  TypeOK' /\ Located'
<1> USE DEF requestVars, workerVars, cloudVars, reaperVars, healthVars
<1>1. reaping[w] \in Pods
      BY DEF ReaperCommit, TypeOK, Holds
<1>2. row' \in [Pods -> Row]
      BY <1>1, RowUpdateTypes DEF ReaperCommit, Status, InProgressStatus, TerminalStatus
<1>3. TypeOK'
      BY <1>1, <1>2, <1>1, ScheduleTypes DEF ReaperCommit, TypeOK
<1>4. Located'
      BY <1>1, <1>2 DEF ReaperCommit, Located
<1> QED BY <1>3, <1>4

LEMMA HealthSnapshotType ==
  ASSUME TypeOK, Located, NEW w \in Workers, HealthSnapshot(w)
  PROVE  TypeOK' /\ Located'
<1> USE DEF requestVars, workerVars, cloudVars, reaperVars, healthVars
<1>1. TypeOK'
      BY DEF HealthSnapshot, TypeOK
<1>2. Located'
      BY DEF HealthSnapshot, Located
<1> QED BY <1>1, <1>2

LEMMA ProbeOkType ==
  ASSUME TypeOK, Located, NEW w \in Workers, NEW p \in Pods, ProbeOk(w, p)
  PROVE  TypeOK' /\ Located'
<1> USE DEF requestVars, workerVars, cloudVars, reaperVars, healthVars
<1>1. TypeOK'
      BY PoolAssumption DEF ProbeOk, TypeOK
<1>2. Located'
      BY DEF ProbeOk, Located
<1> QED BY <1>1, <1>2

LEMMA ProbeBadType ==
  ASSUME TypeOK, Located, NEW w \in Workers, NEW p \in Pods, ProbeBad(w, p)
  PROVE  TypeOK' /\ Located'
<1> DEFINE n == IF row[p].failures < FailThreshold THEN row[p].failures + 1 ELSE FailThreshold
<1> USE DEF requestVars, workerVars, cloudVars, reaperVars, healthVars
<1>1. row[p].failures \in 0..FailThreshold
      BY DEF TypeOK, Row
<1>2. n \in 0..FailThreshold
      BY <1>1, PoolAssumption
<1>3. verdict' \in [Workers -> (Pods \X (0..FailThreshold)) \cup {None}]
  <2>1. verdict' = [verdict EXCEPT ![w] = <<p, n>>]
        BY DEF ProbeBad
  <2> QED BY <1>2, <2>1 DEF TypeOK
<1>4. killing' \in [Pods -> BOOLEAN]
      BY ScheduleTypes DEF ProbeBad, TypeOK
<1>5. TypeOK'
      BY <1>3, <1>4 DEF ProbeBad, TypeOK
<1>6. Located'
      BY DEF ProbeBad, Located
<1> QED BY <1>5, <1>6

LEMMA CommitVerdictType ==
  ASSUME TypeOK, Located, NEW w \in Workers, CommitVerdict(w)
  PROVE  TypeOK' /\ Located'
<1> USE DEF requestVars, workerVars, cloudVars, reaperVars, healthVars
<1>1. verdict[w][1] \in Pods /\ verdict[w][2] \in 0..FailThreshold
      BY DEF CommitVerdict, TypeOK
<1>2. row[verdict[w][1]].status \in Status
      BY <1>1 DEF TypeOK, Row
<1>3. row' \in [Pods -> Row]
      BY <1>1, <1>2, RowUpdateTypes DEF CommitVerdict, Status, TerminalStatus
<1>4. TypeOK'
      BY <1>1, <1>2, <1>3 DEF CommitVerdict, TypeOK
<1>5. Located'
      BY <1>1, <1>2, <1>3 DEF CommitVerdict, Located
<1> QED BY <1>4, <1>5

LEMMA ReadForFailureType ==
  ASSUME TypeOK, Located, NEW p \in Pods, ReadForFailure(p)
  PROVE  TypeOK' /\ Located'
<1> USE DEF requestVars, workerVars, cloudVars, reaperVars, healthVars
<1>1. TypeOK'
      BY DEF ReadForFailure, TypeOK
<1>2. Located'
      BY DEF ReadForFailure, Located
<1> QED BY <1>1, <1>2

LEMMA MarkPodFailedType ==
  ASSUME TypeOK, Located, NEW p \in Pods, MarkPodFailed(p)
  PROVE  TypeOK' /\ Located'
<1> USE DEF requestVars, workerVars, cloudVars, reaperVars, healthVars
<1>1. row' \in [Pods -> Row]
      BY RowUpdateTypes DEF MarkPodFailed, Status, InProgressStatus, TerminalStatus
<1>2. TypeOK'
      BY <1>1 DEF MarkPodFailed, TypeOK
<1>3. Located'
      BY <1>1 DEF MarkPodFailed, Located
<1> QED BY <1>2, <1>3

LEMMA AdminKillType ==
  ASSUME TypeOK, Located, NEW p \in Pods, AdminKill(p)
  PROVE  TypeOK' /\ Located'
<1> USE DEF requestVars, workerVars, cloudVars, reaperVars, healthVars
<1>1. row' \in [Pods -> Row]
      BY RowUpdateTypes DEF AdminKill, Status, InProgressStatus, TerminalStatus
<1>2. killing' \in [Pods -> BOOLEAN]
      BY ScheduleTypes DEF AdminKill, TypeOK
<1>3. TypeOK'
      BY <1>1, <1>2 DEF AdminKill, TypeOK
<1>4. Located'
      BY <1>1, <1>2 DEF AdminKill, Located
<1> QED BY <1>3, <1>4

LEMMA DashboardKillType ==
  ASSUME TypeOK, Located, NEW p \in Pods, DashboardKill(p)
  PROVE  TypeOK' /\ Located'
<1> USE DEF requestVars, workerVars, cloudVars, reaperVars, healthVars
<1>1. row' \in [Pods -> Row]
      BY RowUpdateTypes DEF DashboardKill, Status, InProgressStatus, TerminalStatus
<1>2. TypeOK'
      BY <1>1 DEF DashboardKill, TypeOK
<1>3. Located'
      BY <1>1 DEF DashboardKill, Located
<1> QED BY <1>2, <1>3

LEMMA TerminateType ==
  ASSUME TypeOK, Located, NEW p \in Pods, Terminate(p)
  PROVE  TypeOK' /\ Located'
<1> USE DEF requestVars, workerVars, cloudVars, reaperVars, healthVars
<1>1. TypeOK'
      BY DEF Terminate, TypeOK
<1>2. Located'
      BY DEF Terminate, Located
<1> QED BY <1>1, <1>2

LEMMA GrowIdleType ==
  ASSUME TypeOK, Located, NEW p \in Pods, GrowIdle(p)
  PROVE  TypeOK' /\ Located'
<1> USE DEF requestVars, workerVars, cloudVars, reaperVars, healthVars
<1>1. row' \in [Pods -> Row]
      BY RowUpdateTypes DEF GrowIdle, Status, InProgressStatus, TerminalStatus
<1>2. TypeOK'
      BY <1>1 DEF GrowIdle, TypeOK
<1>3. Located'
      BY <1>1 DEF GrowIdle, Located
<1> QED BY <1>2, <1>3

LEMMA GrowOldType ==
  ASSUME TypeOK, Located, NEW p \in Pods, GrowOld(p)
  PROVE  TypeOK' /\ Located'
<1> USE DEF requestVars, workerVars, cloudVars, reaperVars, healthVars
<1>1. row' \in [Pods -> Row]
      BY RowUpdateTypes DEF GrowOld, Status, InProgressStatus, TerminalStatus
<1>2. TypeOK'
      BY <1>1 DEF GrowOld, TypeOK
<1>3. Located'
      BY <1>1 DEF GrowOld, Located
<1> QED BY <1>2, <1>3

LEMMA AcquireType ==
  ASSUME TypeOK, Located, NEW r \in Requests, Acquire(r)
  PROVE  TypeOK' /\ Located'
BY FastPathType, EnterLockType, RecheckType, ReadInProgressType, ClaimType, WaitType,
   AllProvidersFailedType, ResolveVolumeType, LaunchType, MarkLaunchFailedType,
   MarkStartingType, AwaitReadyType, PublishType, UpsertApiRowType, InsertRowType,
   SelectApiRowType DEF Acquire

LEMMA UseType ==
  ASSUME TypeOK, Located, NEW r \in Requests, Use(r)
  PROVE  TypeOK' /\ Located'
BY MarkActiveType, DropType, ReleaseType, RecordUseType DEF Use

LEMMA ReaperType ==
  ASSUME TypeOK, Located, NEW w \in Workers, Reaper(w)
  PROVE  TypeOK' /\ Located'
BY ReaperSnapshotType, ReaperConsiderType, ReaperLockType, ReaperCommitType DEF Reaper

LEMMA HealthType ==
  ASSUME TypeOK, Located, NEW w \in Workers, Health(w)
  PROVE  TypeOK' /\ Located'
BY HealthSnapshotType, ProbeOkType, ProbeBadType, CommitVerdictType DEF Health

LEMMA SurroundingsType ==
  ASSUME TypeOK, Located, NEW p \in Pods, Surroundings(p)
  PROVE  TypeOK' /\ Located'
BY ReadForFailureType, MarkPodFailedType, TerminateType, AdminKillType, DashboardKillType,
   GrowIdleType, GrowOldType DEF Surroundings

LEMMA TypeNext ==
  ASSUME TypeOK, Located, [Next]_vars
  PROVE  TypeOK' /\ Located'
<1>1. CASE UNCHANGED vars
  <2>1. TypeOK'
        BY <1>1 DEF vars, requestVars, workerVars, cloudVars, reaperVars, healthVars, TypeOK
  <2>2. Located'
        BY <1>1 DEF vars, requestVars, workerVars, cloudVars, reaperVars, healthVars, Located
  <2> QED BY <2>1, <2>2
<1>2. CASE Next
  <2>1. ASSUME NEW r \in Requests, Acquire(r) \/ Use(r) PROVE TypeOK' /\ Located'
        BY <2>1, AcquireType, UseType
  <2>2. ASSUME NEW w \in Workers, Reaper(w) \/ Health(w) PROVE TypeOK' /\ Located'
        BY <2>2, ReaperType, HealthType
  <2>3. ASSUME NEW p \in Pods, Surroundings(p) PROVE TypeOK' /\ Located'
        BY <2>3, SurroundingsType
  <2> QED BY <1>2, <2>1, <2>2, <2>3, PoolAssumption DEF Next
<1> QED BY <1>1, <1>2

LEMMA TypesHold == Spec => [](TypeOK /\ Located)
<1>1. TypeOK /\ Located /\ [Next]_vars => (TypeOK /\ Located)'
      BY TypeNext
<1> QED BY TypeInit, <1>1, PTL DEF Spec

(***************************************************************************)
(* Every state of the pool is well typed: no coroutine, reaper, health loop *)
(* or operator writes a status, a counter or a reference outside its range. *)
(***************************************************************************)
THEOREM TypeCorrect == Spec => []TypeOK
BY TypesHold, PTL

(***************************************************************************)
(* Single flight.  A move of one request keeps SingleFlight when it neither *)
(* takes nor gives up the lock or the flag, and when it gives up the flag.  *)
(***************************************************************************)
LEMMA QuietMove ==
  ASSUME TypeOK, SingleFlight, NEW r \in Requests, UNCHANGED <<lock, spinning>>,
         \A s \in Requests \ {r} : pc'[s] = pc[s],
         pc'[r] \in LockLocs <=> pc[r] \in LockLocs,
         pc'[r] \in SpinLocs <=> pc[r] \in SpinLocs
  PROVE  SingleFlight'
<1>1. \A s \in Requests : InSpin(s)' <=> InSpin(s)
      BY DEF InSpin
<1>2. LockExact'
      BY DEF SingleFlight, LockExact
<1>3. SpinFlagExact'
      BY <1>1 DEF SingleFlight, SpinFlagExact
<1>4. OneSpinnerPerWorker'
      BY <1>1 DEF SingleFlight, OneSpinnerPerWorker
<1> QED BY <1>2, <1>3, <1>4 DEF SingleFlight

LEMMA SpinEnds ==
  ASSUME TypeOK, SingleFlight, NEW r \in Requests, UNCHANGED lock, EndSpin(r),
         \A s \in Requests \ {r} : pc'[s] = pc[s],
         pc[r] \in SpinLocs, pc'[r] \notin SpinLocs \cup LockLocs
  PROVE  SingleFlight'
<1>1. WorkerOf[r] \in Workers /\ spinning \in [Workers -> BOOLEAN]
      BY PoolAssumption DEF TypeOK
<1>2. \A s \in Requests : InSpin(s)' <=> InSpin(s) /\ s # r
      BY DEF InSpin
<1>3. LockExact'
      BY DEF SingleFlight, LockExact, LockLocs, SpinLocs, PodLocs, ApiLocs
<1>4. SpinFlagExact'
  <2>1. ASSUME NEW w \in Workers, w # WorkerOf[r]
        PROVE  spinning'[w] <=> \E s \in Requests : WorkerOf[s] = w /\ InSpin(s)'
        BY <1>1, <1>2, <2>1 DEF EndSpin, SingleFlight, SpinFlagExact
  <2>2. \A s \in Requests : WorkerOf[s] = WorkerOf[r] => ~InSpin(s)'
        BY <1>2 DEF SingleFlight, OneSpinnerPerWorker, InSpin
  <2>3. ~spinning'[WorkerOf[r]]
        BY <1>1 DEF EndSpin
  <2> QED BY <2>1, <2>2, <2>3 DEF SpinFlagExact
<1>5. OneSpinnerPerWorker'
      BY <1>2 DEF SingleFlight, OneSpinnerPerWorker
<1> QED BY <1>3, <1>4, <1>5 DEF SingleFlight

LEMMA QuietSteps ==
  ASSUME TypeOK, SingleFlight, NEW r \in Requests,
         \/ FastPath(r) \/ ReadInProgress(r) \/ Wait(r) \/ Launch(r) \/ MarkStarting(r)
         \/ \E v \in Providers : InsertRow(r, v) \/ SelectApiRow(r, v)
         \/ AwaitReady(r) \/ MarkActive(r) \/ Drop(r) \/ Release(r) \/ RecordUse(r)
  PROVE  SingleFlight'
<1> USE DEF workerVars, LockLocs, SpinLocs, PodLocs, ApiLocs
<1>0. pc \in [Requests -> Locs]
      BY DEF TypeOK
<1>1. CASE FastPath(r)
      BY <1>1, <1>0, QuietMove DEF FastPath, Goto, Give
<1>2. CASE ReadInProgress(r)
      BY <1>2, <1>0, QuietMove DEF ReadInProgress, Goto
<1>3. CASE Wait(r)
      BY <1>3, <1>0, QuietMove DEF Wait, Goto, Give
<1>4. CASE \E v \in Providers : InsertRow(r, v)
      BY <1>4, <1>0, QuietMove DEF InsertRow, TryProvider, Goto
<1>5. CASE Launch(r)
      BY <1>5, <1>0, QuietMove DEF Launch, Goto
<1>6. CASE MarkStarting(r)
      BY <1>6, <1>0, QuietMove DEF MarkStarting, Goto
<1>7. CASE AwaitReady(r)
      BY <1>7, <1>0, QuietMove DEF AwaitReady, Goto
<1>8. CASE \E v \in Providers : SelectApiRow(r, v)
      BY <1>8, <1>0, QuietMove DEF SelectApiRow, TryProvider, Goto
<1>9. CASE MarkActive(r)
      BY <1>9, <1>0, QuietMove DEF MarkActive, Goto
<1>10. CASE Drop(r)
      BY <1>10, <1>0, QuietMove DEF Drop, Goto
<1>11. CASE Release(r)
      BY <1>11, <1>0, QuietMove DEF Release, Goto
<1>12. CASE RecordUse(r)
      BY <1>12, <1>0, QuietMove DEF RecordUse, Goto
<1> QED BY <1>1, <1>2, <1>3, <1>4, <1>5, <1>6, <1>7, <1>8, <1>9, <1>10, <1>11, <1>12

LEMMA SpinSteps ==
  ASSUME TypeOK, SingleFlight, NEW r \in Requests,
         \/ AllProvidersFailed(r) \/ ResolveVolume(r) \/ MarkLaunchFailed(r)
         \/ Publish(r) \/ UpsertApiRow(r)
  PROVE  SingleFlight'
<1> USE DEF Goto, Give, LockLocs, SpinLocs, PodLocs, ApiLocs
<1>0. pc \in [Requests -> Locs]
      BY DEF TypeOK
<1>1. CASE AllProvidersFailed(r)
      BY <1>0, <1>1, SpinEnds DEF AllProvidersFailed
<1>2. CASE ResolveVolume(r)
      BY <1>0, <1>2, SpinEnds, QuietMove DEF ResolveVolume
<1>3. CASE MarkLaunchFailed(r)
      BY <1>0, <1>3, SpinEnds, QuietMove DEF MarkLaunchFailed
<1>4. CASE Publish(r)
      BY <1>0, <1>4, SpinEnds DEF Publish
<1>5. CASE UpsertApiRow(r)
      BY <1>0, <1>5, SpinEnds, QuietMove DEF UpsertApiRow
<1> QED BY <1>1, <1>2, <1>3, <1>4, <1>5

LEMMA LockSteps ==
  ASSUME TypeOK, SingleFlight, NEW r \in Requests, EnterLock(r) \/ Recheck(r) \/ Claim(r)
  PROVE  SingleFlight'
<1> USE DEF Goto, Give, LockLocs, SpinLocs, PodLocs, ApiLocs
<1>1. /\ pc \in [Requests -> Locs] /\ WorkerOf[r] \in Workers /\ None \notin Requests
      /\ lock \in [Workers -> Requests \cup {None}] /\ spinning \in [Workers -> BOOLEAN]
      BY PoolAssumption DEF TypeOK
<1>2. CASE EnterLock(r) \/ Recheck(r)
  <2>1. LockExact'
        BY <1>1, <1>2, PoolAssumption DEF EnterLock, Recheck, SingleFlight, LockExact
  <2>2. UNCHANGED spinning /\ \A s \in Requests : InSpin(s)' <=> InSpin(s)
        BY <1>1, <1>2 DEF EnterLock, Recheck, InSpin
  <2>3. SpinFlagExact' /\ OneSpinnerPerWorker'
        BY <2>2 DEF SingleFlight, SpinFlagExact, OneSpinnerPerWorker
  <2> QED BY <2>1, <2>3 DEF SingleFlight
<1>3. CASE Claim(r)
  <2>1. LockExact'
        BY <1>1, <1>3, PoolAssumption DEF Claim, SingleFlight, LockExact
  <2>2. CASE spinning' = [spinning EXCEPT ![WorkerOf[r]] = TRUE] /\ ~spinning[WorkerOf[r]] /\ pc'[r] = "spin"
    <3>1. \A s \in Requests : InSpin(s)' <=> InSpin(s) \/ s = r
          BY <1>1, <1>3, <2>2 DEF Claim, InSpin
    <3>2. \A s \in Requests : WorkerOf[s] = WorkerOf[r] => ~InSpin(s)
          BY <1>1, <2>2 DEF SingleFlight, SpinFlagExact
    <3>3. SpinFlagExact'
          BY <1>1, <2>2, <3>1 DEF SingleFlight, SpinFlagExact
    <3>4. OneSpinnerPerWorker'
          BY <3>1, <3>2 DEF SingleFlight, OneSpinnerPerWorker
    <3> QED BY <2>1, <3>3, <3>4 DEF SingleFlight
  <2>3. CASE UNCHANGED spinning /\ pc'[r] = "wait"
    <3>1. \A s \in Requests : InSpin(s)' <=> InSpin(s)
          BY <1>1, <1>3, <2>3 DEF Claim, InSpin
    <3>2. SpinFlagExact' /\ OneSpinnerPerWorker'
          BY <2>3, <3>1 DEF SingleFlight, SpinFlagExact, OneSpinnerPerWorker
    <3> QED BY <2>1, <3>2 DEF SingleFlight
  <2> QED BY <1>1, <1>3, <2>2, <2>3 DEF Claim
<1> QED BY <1>2, <1>3

LEMMA OtherSteps ==
  ASSUME SingleFlight, UNCHANGED <<pc, lock, spinning>>
  PROVE  SingleFlight'
BY DEF SingleFlight, LockExact, SpinFlagExact, OneSpinnerPerWorker, InSpin

LEMMA SingleFlightInit == Init => SingleFlight
BY PoolAssumption DEF Init, SingleFlight, LockExact, SpinFlagExact, OneSpinnerPerWorker, InSpin,
   LockLocs, SpinLocs, PodLocs, ApiLocs

LEMMA SingleFlightNext ==
  ASSUME TypeOK, SingleFlight, [Next]_vars
  PROVE  SingleFlight'
<1>1. CASE UNCHANGED vars
      BY <1>1, OtherSteps DEF vars, requestVars, workerVars
<1>2. ASSUME NEW r \in Requests, Acquire(r) \/ Use(r) PROVE SingleFlight'
      BY <1>2, QuietSteps, SpinSteps, LockSteps DEF Acquire, Use
<1>3. ASSUME NEW w \in Workers, Reaper(w) \/ Health(w) PROVE SingleFlight'
      BY <1>3, OtherSteps DEF Reaper, Health, ReaperSnapshot, ReaperConsider, ReaperLock,
         ReaperCommit, HealthSnapshot, ProbeOk, ProbeBad, CommitVerdict, requestVars, workerVars
<1>4. ASSUME NEW p \in Pods, Surroundings(p) PROVE SingleFlight'
      BY <1>4, OtherSteps DEF Surroundings, ReadForFailure, MarkPodFailed, Terminate, AdminKill,
         DashboardKill, GrowIdle, GrowOld, requestVars, workerVars
<1> QED BY <1>1, <1>2, <1>3, <1>4, PoolAssumption DEF Next

(***************************************************************************)
(* However the coroutines of a worker interleave, and whatever the other    *)
(* workers, the reapers and the operators do, acquire runs one provider     *)
(* loop per worker and tier, under an exact lock and an exact flag.         *)
(***************************************************************************)
THEOREM SingleFlightHolds == Spec => []SingleFlight
<1>1. Init => SingleFlight
      BY SingleFlightInit
<1>2. TypeOK /\ Located /\ SingleFlight /\ [Next]_vars => SingleFlight'
      BY SingleFlightNext
<1> QED BY <1>1, <1>2, TypesHold, PTL DEF Spec

(***************************************************************************)
(* The pods.  The launcher of a pod is alone with it until it is published; *)
(* afterwards its row only loses its status, or is locked by one reaper.    *)
(***************************************************************************)
LEMMA OwnPod ==
  ASSUME TypeOK, PodInv, NEW r \in Requests, pc[r] \in PodLocs
  PROVE  /\ PodFor(r, cur[r]) = <<r, cur[r]>>
         /\ <<r, cur[r]>> \in Pods
         /\ Unpublished(<<r, cur[r]>>)
         /\ ~Fresh(<<r, cur[r]>>)
         /\ row[<<r, cur[r]>>].status # "ready"
         /\ reaped[<<r, cur[r]>>] = {}
         /\ \A s \in Requests : handle[s] # <<r, cur[r]>>
<1> DEFINE p == <<r, cur[r]>>
<1>1. Kind[cur[r]] # "api" /\ cur[r] \in tried[r]
      BY DEF PodInv, Located
<1>2. p \in Pods /\ PodFor(r, cur[r]) = p
      BY <1>1, PodTypes DEF TypeOK, PodFor
<1>3. Launching(p)
      BY DEF Launching
<1>4. Unpublished(p) /\ ~Fresh(p)
      BY <1>1, <1>3, NoneIsNothing DEF Unpublished, Fresh
<1> QED BY <1>2, <1>4 DEF PodInv, UnpublishedUntouched

\* A request moves on, or is given a ready pod; the table does not change.
LEMMA RequestMove ==
  ASSUME TypeOK, PodInv, Located', NEW r \in Requests,
         UNCHANGED <<cur, tried, row, reaping, reaped, instance>>,
         \A s \in Requests \ {r} : pc'[s] = pc[s] /\ handle'[s] = handle[s],
         handle'[r] = handle[r] \/ row[handle'[r]].status = "ready",
         handle'[r] \in Pods \cup {None},
         pc[r] # "launched" \/ instance[<<r, cur[r]>>] # "running",
         pc'[r] \in PodLocs => pc[r] \in PodLocs,
         pc'[r] \notin ApiLocs
  PROVE  PodInv'
<1>1. \A p \in Pods : Unpublished(p)' => Unpublished(p)
      BY DEF Unpublished, Fresh, Launching
<1>2. UnpublishedUntouched'
      BY <1>1, NoneIsNothing DEF PodInv, UnpublishedUntouched
<1>3. HolderExact' /\ InstanceKind' /\ ReapedOnce'
      BY DEF PodInv, HolderExact, InstanceKind, ReapedOnce, Retired
<1>4. ApiRows'
      BY DEF PodInv, ApiRows, ApiLocs
<1>5. HandedOutWasPublished'
      BY DEF PodInv, HandedOutWasPublished
<1>6. InstanceOnRecord'
      BY DEF PodInv, InstanceOnRecord
<1> QED BY <1>2, <1>3, <1>4, <1>5, <1>6 DEF PodInv

\* The row of one pod is written: it is retired, or keeps its status.
LEMMA RowStep ==
  ASSUME TypeOK, PodInv, Located', NEW p \in Pods,
         UNCHANGED <<cur, tried, handle, reaping, reaped>>,
         \A s \in Requests : pc'[s] = pc[s] \/ (pc[s] = "released" /\ pc'[s] = "done"),
         \A q \in Pods : instance'[q] = "running" => instance[q] = "running",
         \A q \in Pods \ {p} : row'[q] = row[q],
         row'[p].named = row[p].named,
         row'[p].holder = row[p].holder,
         \/ row'[p].status = row[p].status
         \/ row'[p].status \in TerminalStatus /\ Writable(p)
  PROVE  PodInv'
<1>1. \A q \in Pods : Unpublished(q)' => Unpublished(q)
      BY DEF Unpublished, Fresh, Launching, PodLocs
<1>2. \A q \in Pods : /\ row'[q].status = row[q].status \/ row'[q].status \in TerminalStatus
                      /\ row'[q].named = row[q].named
                      /\ row'[q].holder = row[q].holder
                      /\ row'[q].holder # None => row'[q].status = row[q].status
      BY DEF Writable
<1>3. UnpublishedUntouched'
      BY <1>1, <1>2 DEF PodInv, UnpublishedUntouched, TerminalStatus
<1>4. HolderExact'
      BY <1>2 DEF PodInv, HolderExact
<1>5. ApiRows'
  <2>1. \A q \in Pods : Kind[q[2]] = "api" => row'[q].status \notin InProgressStatus
        BY <1>2 DEF PodInv, ApiRows, InProgressStatus, TerminalStatus
  <2>2. ASSUME NEW s \in Requests, pc'[s] \in {"touch_api", "revive_api"}
        PROVE  row'[<<None, cur'[s]>>].status # "none"
    <3>1. pc[s] \in {"touch_api", "revive_api"}
          BY <2>2
    <3>2. <<None, cur[s]>> \in Pods
          BY <3>1, CurIsProvider, PodTypes DEF PodInv, ApiLocs
    <3> QED BY <1>2, <3>1, <3>2 DEF PodInv, ApiRows, TerminalStatus
  <2> QED BY <2>1, <2>2 DEF ApiRows
<1>6. InstanceKind'
      BY DEF PodInv, InstanceKind
<1>7. HandedOutWasPublished'
  <2>1. \A s \in Requests : handle[s] # None => handle[s] \in Pods
        BY DEF TypeOK
  <2> QED BY <1>2, <2>1 DEF PodInv, HandedOutWasPublished
<1>8. ReapedOnce'
      BY <1>2 DEF PodInv, ReapedOnce, Retired
<1>9. InstanceOnRecord'
      BY <1>2 DEF PodInv, InstanceOnRecord
<1> QED BY <1>3, <1>4, <1>5, <1>6, <1>7, <1>8, <1>9 DEF PodInv

LEMMA MoveSteps ==
  ASSUME TypeOK, PodInv, Located', NEW r \in Requests,
         \/ FastPath(r) \/ EnterLock(r) \/ Recheck(r) \/ ReadInProgress(r) \/ Claim(r) \/ Wait(r)
         \/ AllProvidersFailed(r) \/ ResolveVolume(r) \/ AwaitReady(r)
         \/ MarkActive(r) \/ Drop(r) \/ Release(r)
  PROVE  PodInv'
<1> USE DEF workerVars, cloudVars, reaperVars, Goto, PodLocs, ApiLocs
<1>0. pc \in [Requests -> Locs] /\ handle \in [Requests -> Pods \cup {None}]
      BY DEF TypeOK
<1>1. CASE FastPath(r)
  <2>1. ASSUME NEW p \in ReadyFor(r), Give(r, p) PROVE PodInv'
    <3>1. p \in Pods /\ row[p].status = "ready"
          BY <2>1 DEF ReadyFor
    <3>2. handle'[r] = p /\ pc'[r] = "holding" /\ pc[r] \in {"fast", "recheck", "wait"}
          BY <1>0, <1>1, <2>1 DEF FastPath, Give
    <3>3. \A s \in Requests \ {r} : pc'[s] = pc[s] /\ handle'[s] = handle[s]
          BY <1>0, <2>1 DEF Give
    <3> QED BY <1>1, <3>1, <3>2, <3>3, RequestMove DEF FastPath
  <2>2. CASE Goto(r, "lock") /\ UNCHANGED handle
        BY <1>0, <1>1, <2>2, RequestMove DEF FastPath
  <2> QED BY <1>1, <2>1, <2>2 DEF FastPath
<1>2. CASE EnterLock(r)
      BY <1>0, <1>2, RequestMove DEF EnterLock
<1>3. CASE Recheck(r)
  <2>1. ASSUME NEW p \in ReadyFor(r), Give(r, p) PROVE PodInv'
    <3>1. p \in Pods /\ row[p].status = "ready"
          BY <2>1 DEF ReadyFor
    <3>2. handle'[r] = p /\ pc'[r] = "holding" /\ pc[r] \in {"fast", "recheck", "wait"}
          BY <1>0, <1>3, <2>1 DEF Recheck, Give
    <3>3. \A s \in Requests \ {r} : pc'[s] = pc[s] /\ handle'[s] = handle[s]
          BY <1>0, <2>1 DEF Give
    <3> QED BY <1>3, <3>1, <3>2, <3>3, RequestMove DEF Recheck
  <2>2. CASE Goto(r, "probe") /\ UNCHANGED handle
        BY <1>0, <1>3, <2>2, RequestMove DEF Recheck
  <2> QED BY <1>3, <2>1, <2>2 DEF Recheck
<1>4. CASE ReadInProgress(r)
      BY <1>0, <1>4, RequestMove DEF ReadInProgress
<1>5. CASE Claim(r)
      BY <1>0, <1>5, RequestMove DEF Claim
<1>6. CASE Wait(r)
  <2>1. ASSUME NEW p \in ReadyFor(r), Give(r, p) PROVE PodInv'
    <3>1. p \in Pods /\ row[p].status = "ready"
          BY <2>1 DEF ReadyFor
    <3>2. handle'[r] = p /\ pc'[r] = "holding" /\ pc[r] \in {"fast", "recheck", "wait"}
          BY <1>0, <1>6, <2>1 DEF Wait, Give
    <3>3. \A s \in Requests \ {r} : pc'[s] = pc[s] /\ handle'[s] = handle[s]
          BY <1>0, <2>1 DEF Give
    <3> QED BY <1>6, <3>1, <3>2, <3>3, RequestMove DEF Wait
  <2>2. CASE Goto(r, "raised") /\ UNCHANGED handle
        BY <1>0, <1>6, <2>2, RequestMove DEF Wait
  <2> QED BY <1>6, <2>1, <2>2 DEF Wait
<1>7. CASE AllProvidersFailed(r)
      BY <1>0, <1>7, RequestMove DEF AllProvidersFailed
<1>8. CASE ResolveVolume(r)
      BY <1>0, <1>8, RequestMove DEF ResolveVolume
<1>9. CASE AwaitReady(r)
      BY <1>0, <1>9, RequestMove DEF AwaitReady
<1>10. CASE MarkActive(r)
      BY <1>0, <1>10, RequestMove DEF MarkActive
<1>11. CASE Drop(r)
      BY <1>0, <1>11, RequestMove DEF Drop
<1>12. CASE Release(r)
      BY <1>0, <1>12, RequestMove DEF Release
<1> QED BY <1>1, <1>2, <1>3, <1>4, <1>5, <1>6, <1>7, <1>8, <1>9, <1>10, <1>11, <1>12

LEMMA LaunchStep ==
  ASSUME TypeOK, PodInv, Located', NEW r \in Requests, Launch(r)
  PROVE  PodInv'
<1> DEFINE p == <<r, cur[r]>>
<1> USE DEF workerVars, cloudVars, reaperVars
<1>1. pc \in [Requests -> Locs] /\ instance \in [Pods -> {"absent", "running", "lost", "stopped"}]
      BY DEF TypeOK
<1>2. pc[r] = "launch" /\ PodFor(r, cur[r]) = p /\ p \in Pods
      BY OwnPod DEF Launch, PodLocs
<1>3. PICK o \in {<<"launched", "running">>, <<"mark_failed", "absent">>, <<"mark_failed", "lost">>} :
        /\ Goto(r, o[1])
        /\ instance' = [instance EXCEPT ![p] = IF HasInstance(cur[r]) THEN o[2] ELSE @]
      BY <1>2 DEF Launch
<1>4. pc'[r] = o[1] /\ \A s \in Requests \ {r} : pc'[s] = pc[s]
      BY <1>1, <1>3 DEF Goto
<1>5. o[1] \in {"launched", "mark_failed"} /\ (o[2] = "running" => o[1] = "launched")
      OBVIOUS
<1>6. \A q \in Pods : instance'[q] = "running" =>
        instance[q] = "running" \/ (q = p /\ HasInstance(cur[r]) /\ pc'[r] = "launched")
      BY <1>1, <1>2, <1>3, <1>4, <1>5
<1>7. UNCHANGED <<cur, tried, handle, row, reaping, reaped>>
      BY DEF Launch, requestVars
<1>8. \A q \in Pods : Unpublished(q)' => Unpublished(q)
      BY <1>2, <1>4, <1>5, <1>7 DEF Unpublished, Fresh, Launching, PodLocs
<1>9. UnpublishedUntouched' /\ HolderExact' /\ HandedOutWasPublished' /\ ReapedOnce'
      BY <1>7, <1>8 DEF PodInv, UnpublishedUntouched, HolderExact, HandedOutWasPublished, ReapedOnce,
         Retired
<1>10. ApiRows'
      BY <1>4, <1>5, <1>7 DEF PodInv, ApiRows
<1>11. InstanceKind'
      BY <1>6 DEF PodInv, InstanceKind
<1>12. InstanceOnRecord'
      BY <1>2, <1>4, <1>6, <1>7 DEF PodInv, InstanceOnRecord
<1> QED BY <1>9, <1>10, <1>11, <1>12 DEF PodInv

LEMMA InsertStep ==
  ASSUME TypeOK, PodInv, Located', NEW r \in Requests, NEW v \in Providers, InsertRow(r, v)
  PROVE  PodInv'
<1> DEFINE p == <<r, v>>
<1> USE DEF workerVars, cloudVars, reaperVars
<1>1. /\ pc[r] = "spin" /\ pc'[r] = "volume" /\ \A s \in Requests \ {r} : pc'[s] = pc[s]
      /\ cur'[r] = v /\ \A s \in Requests \ {r} : cur'[s] = cur[s]
      /\ tried'[r] = tried[r] \cup {v} /\ \A s \in Requests \ {r} : tried'[s] = tried[s]
      BY DEF InsertRow, TryProvider, Goto, TypeOK
<1>2. UNCHANGED <<handle, reaping, reaped, instance>>
      BY DEF InsertRow
<1>3. p \in Pods /\ Unpublished(p) /\ Kind[v] # "api" /\ v \notin tried[r] /\ r # None
      BY PodTypes, NoneIsNothing DEF InsertRow, TryProvider, IsNext, Untried, Unpublished, Fresh
<1>4. /\ row'[p].status = "provisioning" /\ row'[p].named = row[p].named
      /\ row'[p].holder = row[p].holder
      /\ \A q \in Pods \ {p} : row'[q] = row[q]
      BY <1>3 DEF InsertRow, TypeOK, Row
<1>5. row[p].status # "ready" /\ reaped[p] = {} /\ \A s \in Requests : handle[s] # p
      BY <1>3 DEF PodInv, UnpublishedUntouched
<1>6. row[p].holder = None
      BY <1>3, <1>5 DEF PodInv, HolderExact
<1>7. \A q \in Pods \ {p} : Unpublished(q)' => Unpublished(q)
  <2>1. ASSUME NEW q \in Pods, Fresh(q)' PROVE Fresh(q)
    <3>1. q[1] = None \/ q[1] \in Requests
          BY DEF Pods
    <3> QED BY <1>1, <2>1, <3>1 DEF Fresh
  <2>2. ASSUME NEW q \in Pods \ {p}, Launching(q)' PROVE Launching(q)
        BY <1>1, <2>2 DEF Launching
  <2> QED BY <2>1, <2>2 DEF Unpublished
<1>8. UnpublishedUntouched'
      BY <1>2, <1>4, <1>5, <1>7 DEF PodInv, UnpublishedUntouched
<1>9. HolderExact' /\ InstanceKind'
      BY <1>2, <1>3, <1>4, <1>6 DEF PodInv, HolderExact, InstanceKind
<1>10. ApiRows'
  <2>1. \A q \in Pods : Kind[q[2]] = "api" => row'[q].status \notin InProgressStatus
        BY <1>3, <1>4 DEF PodInv, ApiRows
  <2>2. ASSUME NEW s \in Requests, pc'[s] \in {"touch_api", "revive_api"}
        PROVE  row'[<<None, cur'[s]>>].status # "none"
    <3>1. s # r /\ pc[s] \in {"touch_api", "revive_api"} /\ cur'[s] = cur[s]
          BY <1>1, <2>2
    <3>2. <<None, cur[s]>> \in Pods /\ <<None, cur[s]>> # p
          BY <1>3, <3>1, CurIsProvider, PodTypes DEF PodInv, ApiLocs
    <3> QED BY <1>4, <3>1, <3>2 DEF PodInv, ApiRows
  <2> QED BY <2>1, <2>2 DEF ApiRows
<1>11. HandedOutWasPublished'
      BY <1>2, <1>4, <1>5 DEF PodInv, HandedOutWasPublished, TypeOK
<1>12. ReapedOnce'
      BY <1>2, <1>4, <1>5 DEF PodInv, ReapedOnce, Retired
<1>13. InstanceOnRecord'
      BY <1>1, <1>2, <1>4 DEF PodInv, InstanceOnRecord
<1> QED BY <1>8, <1>9, <1>10, <1>11, <1>12, <1>13 DEF PodInv

\* The launcher writes the row of its pod.
LEMMA LauncherWrite ==
  ASSUME TypeOK, PodInv, Located', NEW r \in Requests, pc[r] \in PodLocs,
         UNCHANGED <<cur, tried, reaping, reaped, instance>>,
         \A s \in Requests \ {r} : pc'[s] = pc[s] /\ handle'[s] = handle[s],
         \A q \in Pods \ {<<r, cur[r]>>} : row'[q] = row[q],
         row'[<<r, cur[r]>>].holder = row[<<r, cur[r]>>].holder,
         row[<<r, cur[r]>>].named => row'[<<r, cur[r]>>].named,
         pc[r] = "launched" => row'[<<r, cur[r]>>].named,
         pc'[r] \notin ApiLocs,
         pc'[r] \in PodLocs => row'[<<r, cur[r]>>].status # "ready",
         \/ handle'[r] = handle[r]
         \/ handle'[r] = <<r, cur[r]>> /\ row'[<<r, cur[r]>>].status = "ready"
  PROVE  PodInv'
<1> DEFINE p == <<r, cur[r]>>
<1>1. /\ p \in Pods /\ Unpublished(p) /\ ~Fresh(p) /\ reaped[p] = {}
      /\ row[p].status # "ready" /\ \A s \in Requests : handle[s] # p
      BY OwnPod
<1>2. row'[p].holder = None
      BY <1>1 DEF PodInv, HolderExact
<1>3. Kind[cur[r]] # "api"
      BY DEF PodInv, Located
<1>4. \A q \in Pods : Unpublished(q)' => Unpublished(q) /\ (q = p => pc'[r] \in PodLocs)
  <2>1. ASSUME NEW q \in Pods, Fresh(q)' PROVE Fresh(q) /\ q # p
        BY <1>1, <2>1 DEF Fresh
  <2>2. ASSUME NEW q \in Pods, Launching(q)'
        PROVE  (q # p => Launching(q)) /\ (q = p => pc'[r] \in PodLocs)
        BY <2>2 DEF Launching
  <2> QED BY <1>1, <2>1, <2>2 DEF Unpublished
<1>5. UnpublishedUntouched'
  <2>1. ASSUME NEW q \in Pods \ {p}, Unpublished(q)'
        PROVE  /\ row'[q].status # "ready" /\ reaped'[q] = {}
               /\ \A s \in Requests : handle'[s] # q
        BY <1>4, <2>1 DEF PodInv, UnpublishedUntouched
  <2>2. CASE pc'[r] \in PodLocs
    <3>1. row'[p].status # "ready" /\ UNCHANGED reaped /\ handle'[r] = handle[r]
          BY <2>2
    <3> QED BY <1>1, <2>1, <3>1 DEF UnpublishedUntouched
  <2>3. CASE pc'[r] \notin PodLocs
        BY <1>4, <2>1, <2>3 DEF UnpublishedUntouched
  <2> QED BY <2>2, <2>3
<1>6. HolderExact'
      BY <1>2 DEF PodInv, HolderExact
<1>7. ApiRows'
  <2>1. \A q \in Pods : Kind[q[2]] = "api" => row'[q].status \notin InProgressStatus
        BY <1>3 DEF PodInv, ApiRows
  <2>2. ASSUME NEW s \in Requests, pc'[s] \in {"touch_api", "revive_api"}
        PROVE  row'[<<None, cur'[s]>>].status # "none"
    <3>1. pc[s] \in {"touch_api", "revive_api"}
          BY <2>2 DEF ApiLocs
    <3>2. <<None, cur[s]>> \in Pods /\ <<None, cur[s]>> # p
          BY <3>1, CurIsProvider, PodTypes, NoneIsNothing DEF PodInv, ApiLocs
    <3> QED BY <3>1, <3>2 DEF PodInv, ApiRows
  <2> QED BY <2>1, <2>2 DEF ApiRows
<1>8. InstanceKind'
      BY DEF PodInv, InstanceKind
<1>9. HandedOutWasPublished'
  <2>1. \A s \in Requests : handle[s] # None => handle[s] \in Pods \ {p}
        BY <1>1 DEF TypeOK
  <2> QED BY <2>1 DEF PodInv, HandedOutWasPublished
<1>10. ReapedOnce'
      BY <1>1 DEF PodInv, ReapedOnce, Retired
<1>11. InstanceOnRecord'
      BY DEF PodInv, InstanceOnRecord
<1> QED BY <1>5, <1>6, <1>7, <1>8, <1>9, <1>10, <1>11 DEF PodInv

LEMMA LauncherSteps ==
  ASSUME TypeOK, PodInv, Located', NEW r \in Requests,
         MarkLaunchFailed(r) \/ MarkStarting(r) \/ Publish(r)
  PROVE  PodInv'
<1> DEFINE p == <<r, cur[r]>>
<1> USE DEF workerVars, cloudVars, reaperVars
<1>1. /\ pc \in [Requests -> Locs] /\ handle \in [Requests -> Pods \cup {None}]
      /\ row \in [Pods -> Row]
      BY DEF TypeOK
<1>2. pc[r] \in PodLocs
      BY DEF MarkLaunchFailed, MarkStarting, Publish, PodLocs
<1>3. p \in Pods /\ PodFor(r, cur[r]) = p
      BY <1>2, OwnPod
<1>4. row[p] \in Row
      BY <1>1, <1>3
<1>5. CASE MarkLaunchFailed(r)
  <2>1. /\ \A q \in Pods \ {p} : row'[q] = row[q]
        /\ row'[p].holder = row[p].holder /\ row'[p].named = row[p].named
        BY <1>1, <1>3, <1>4, <1>5 DEF MarkLaunchFailed, Row
  <2>2. pc'[r] \in {"spin", "raised"} /\ pc[r] = "mark_failed" /\ \A s \in Requests \ {r} : pc'[s] = pc[s]
        BY <1>1, <1>5 DEF MarkLaunchFailed, Goto
  <2> QED BY <1>2, <1>5, <2>1, <2>2, LauncherWrite DEF MarkLaunchFailed, PodLocs, ApiLocs
<1>6. CASE MarkStarting(r)
  <2>1. /\ pc[r] = "launched" /\ pc'[r] \in {"spin", "await_ready", "publish"}
        /\ \A s \in Requests \ {r} : pc'[s] = pc[s]
        BY <1>1, <1>6 DEF MarkStarting, Goto
  <2>2. CASE NameTaken(p) /\ UNCHANGED row /\ pc'[r] = "spin"
    <3>1. instance[p] # "running"
          BY <1>3, <2>2 DEF NameTaken, PodInv, InstanceKind, HasInstance
    <3> QED BY <1>1, <1>6, <2>1, <2>2, <3>1, RequestMove DEF MarkStarting, requestVars, PodLocs, ApiLocs
  <2>3. CASE row' = [row EXCEPT ![p].status = "starting", ![p].named = TRUE]
    <3>1. /\ \A q \in Pods \ {p} : row'[q] = row[q]
          /\ row'[p].holder = row[p].holder /\ row'[p].named /\ row'[p].status = "starting"
          BY <1>1, <1>3, <1>4, <2>3 DEF Row
    <3> QED BY <1>2, <1>6, <2>1, <3>1, LauncherWrite DEF MarkStarting, ApiLocs
  <2> QED BY <1>1, <1>3, <1>6, <2>2, <2>3 DEF MarkStarting, Goto
<1>7. CASE Publish(r)
  <2>1. /\ \A q \in Pods \ {p} : row'[q] = row[q]
        /\ row'[p].holder = row[p].holder /\ row'[p].named = row[p].named
        /\ row'[p].status = "ready"
        BY <1>1, <1>3, <1>4, <1>7 DEF Publish, Row
  <2>2. /\ pc'[r] = "holding" /\ pc[r] = "publish" /\ handle'[r] = p
        /\ \A s \in Requests \ {r} : pc'[s] = pc[s] /\ handle'[s] = handle[s]
        BY <1>1, <1>3, <1>7 DEF Publish, Give, Goto
  <2> QED BY <1>2, <1>7, <2>1, <2>2, LauncherWrite DEF Publish, PodLocs, ApiLocs
<1> QED BY <1>5, <1>6, <1>7

LEMMA SelectStep ==
  ASSUME TypeOK, PodInv, Located', NEW r \in Requests, NEW v \in Providers, SelectApiRow(r, v)
  PROVE  PodInv'
<1> USE DEF workerVars, cloudVars, reaperVars
<1>1. /\ pc[r] = "spin" /\ pc'[r] \in ApiLocs /\ \A s \in Requests \ {r} : pc'[s] = pc[s]
      /\ pc'[r] \in {"touch_api", "revive_api"} => row[<<None, v>>].status # "none"
      /\ cur'[r] = v /\ \A s \in Requests \ {r} : cur'[s] = cur[s]
      /\ tried'[r] = tried[r] \cup {v} /\ \A s \in Requests \ {r} : tried'[s] = tried[s]
      BY DEF SelectApiRow, TryProvider, Goto, TypeOK, ApiLocs
<1>2. UNCHANGED <<handle, row, reaping, reaped, instance>>
      BY DEF SelectApiRow
<1>3. \A q \in Pods : Unpublished(q)' => Unpublished(q)
  <2>1. ASSUME NEW q \in Pods, Fresh(q)' PROVE Fresh(q)
    <3>1. q[1] = None \/ q[1] \in Requests
          BY DEF Pods
    <3> QED BY <1>1, <2>1, <3>1 DEF Fresh
  <2>2. ASSUME NEW q \in Pods, Launching(q)' PROVE Launching(q)
        BY <1>1, <2>2 DEF Launching, PodLocs, ApiLocs
  <2> QED BY <2>1, <2>2 DEF Unpublished
<1>4. UnpublishedUntouched' /\ HolderExact' /\ InstanceKind' /\ HandedOutWasPublished' /\ ReapedOnce'
      BY <1>2, <1>3 DEF PodInv, UnpublishedUntouched, HolderExact, InstanceKind,
         HandedOutWasPublished, ReapedOnce, Retired
<1>5. ApiRows'
      BY <1>1, <1>2 DEF PodInv, ApiRows
<1>6. InstanceOnRecord'
      BY <1>1, <1>2 DEF PodInv, InstanceOnRecord, ApiLocs
<1> QED BY <1>4, <1>5, <1>6 DEF PodInv

LEMMA UpsertStep ==
  ASSUME TypeOK, PodInv, Located', NEW r \in Requests, UpsertApiRow(r)
  PROVE  PodInv'
<1> DEFINE p == <<None, cur[r]>>
<1> USE DEF workerVars, cloudVars, reaperVars
<1>1. /\ pc \in [Requests -> Locs] /\ handle \in [Requests -> Pods \cup {None}]
      /\ row \in [Pods -> Row]
      BY DEF TypeOK
<1>2. Kind[cur[r]] = "api" /\ PodFor(r, cur[r]) = p /\ p \in Pods /\ pc[r] \in ApiLocs
      BY CurIsProvider, PodTypes DEF UpsertApiRow, PodInv, Located, PodFor
<1>3. CASE Goto(r, "spin") /\ UNCHANGED <<row, handle>>
      BY <1>1, <1>2, <1>3, RequestMove DEF UpsertApiRow, Goto, PodLocs, ApiLocs
<1>4. CASE /\ row' = [row EXCEPT ![p].status = IF pc[r] = "touch_api" THEN @ ELSE "ready",
                                 ![p].named  = TRUE,
                                 ![p].idle   = FALSE]
           /\ Give(r, p)
  <2>1. row[p] \in Row
        BY <1>1, <1>2
  <2>2. /\ \A q \in Pods \ {p} : row'[q] = row[q]
        /\ row'[p].status = IF pc[r] = "touch_api" THEN row[p].status ELSE "ready"
        /\ row'[p].holder = row[p].holder /\ row'[p].named
        BY <1>1, <1>2, <1>4, <2>1 DEF Row
  <2>3. row'[p].status \in {"ready"} \cup TerminalStatus
    <3>1. row[p].status \in Status /\ row[p].status \notin InProgressStatus
          BY <1>2, <2>1 DEF Row, PodInv, ApiRows
    <3>2. pc[r] = "touch_api" => row[p].status # "none"
          BY DEF PodInv, ApiRows
    <3> QED BY <2>2, <3>1, <3>2 DEF Status
  <2>4. row[p].holder = None
        BY <1>2 DEF UpsertApiRow, Writable
  <2>5. /\ pc'[r] = "holding" /\ handle'[r] = p
        /\ \A s \in Requests \ {r} : pc'[s] = pc[s] /\ handle'[s] = handle[s]
        BY <1>1, <1>4 DEF Give, Goto
  <2>6. UNCHANGED <<cur, tried, reaping, reaped, instance>>
        BY DEF UpsertApiRow
  <2>7. \A q \in Pods : Unpublished(q)' => Unpublished(q) /\ q # p
        BY <1>2, <2>5, <2>6 DEF Unpublished, Fresh, Launching, PodLocs
  <2>8. UnpublishedUntouched'
        BY <2>2, <2>5, <2>6, <2>7 DEF PodInv, UnpublishedUntouched
  <2>9. HolderExact' /\ InstanceKind'
        BY <2>2, <2>4, <2>6 DEF PodInv, HolderExact, InstanceKind
  <2>10. ApiRows'
    <3>1. \A q \in Pods : Kind[q[2]] = "api" => row'[q].status \notin InProgressStatus
          BY <2>2, <2>3 DEF PodInv, ApiRows, InProgressStatus, TerminalStatus
    <3>2. ASSUME NEW s \in Requests, pc'[s] \in {"touch_api", "revive_api"}
          PROVE  row'[<<None, cur'[s]>>].status # "none"
      <4>1. pc[s] \in {"touch_api", "revive_api"} /\ cur'[s] = cur[s]
            BY <2>5, <2>6, <3>2
      <4>2. <<None, cur[s]>> \in Pods
            BY <4>1, CurIsProvider, PodTypes DEF PodInv, ApiLocs
      <4> QED BY <2>2, <2>3, <4>1, <4>2 DEF PodInv, ApiRows, TerminalStatus
    <3> QED BY <3>1, <3>2 DEF ApiRows
  <2>11. HandedOutWasPublished'
    <3>1. \A s \in Requests : handle[s] # None => handle[s] \in Pods
          BY <1>1
    <3> QED BY <2>2, <2>3, <2>5, <3>1 DEF PodInv, HandedOutWasPublished
  <2>12. ReapedOnce'
        BY <1>2, <2>2, <2>6 DEF PodInv, ReapedOnce, Retired
  <2>13. InstanceOnRecord'
        BY <1>2, <2>2, <2>5, <2>6 DEF PodInv, InstanceOnRecord, ApiLocs
  <2> QED BY <2>8, <2>9, <2>10, <2>11, <2>12, <2>13 DEF PodInv
<1> QED BY <1>2, <1>3, <1>4 DEF UpsertApiRow

\* Steps that touch one row, and steps that touch none of it
LEMMA RowSteps ==
  ASSUME TypeOK, PodInv, Located'
  PROVE  /\ \A r \in Requests : RecordUse(r) => PodInv'
         /\ \A w \in Workers : CommitVerdict(w) => PodInv'
         /\ \A p \in Pods :
              (\/ MarkPodFailed(p) \/ AdminKill(p) \/ DashboardKill(p)
               \/ GrowIdle(p) \/ GrowOld(p) \/ Terminate(p)) => PodInv'
<1> USE DEF requestVars, workerVars, cloudVars, reaperVars
<1>1. /\ pc \in [Requests -> Locs] /\ row \in [Pods -> Row]
      /\ \A p \in Pods : row[p] \in Row
      BY DEF TypeOK
<1>2. ASSUME NEW r \in Requests, RecordUse(r) PROVE PodInv'
  <2>1. handle[r] \in Pods
        BY <1>2, HandleIsPod DEF RecordUse, HandleLocs, PodInv
  <2>2. \A s \in Requests : pc'[s] = pc[s] \/ (pc[s] = "released" /\ pc'[s] = "done")
        BY <1>1, <1>2 DEF RecordUse, Goto
  <2>3. /\ \A q \in Pods \ {handle[r]} : row'[q] = row[q]
        /\ row'[handle[r]].status = row[handle[r]].status
        /\ row'[handle[r]].named = row[handle[r]].named
        /\ row'[handle[r]].holder = row[handle[r]].holder
        BY <1>1, <1>2, <2>1 DEF RecordUse, Row
  <2> QED BY <1>2, <2>1, <2>2, <2>3, RowStep DEF RecordUse
<1>3. ASSUME NEW w \in Workers, CommitVerdict(w) PROVE PodInv'
  <2> DEFINE p == verdict[w][1]
  <2>1. p \in Pods /\ Writable(p)
        BY <1>3 DEF CommitVerdict, TypeOK
  <2>2. /\ \A q \in Pods \ {p} : row'[q] = row[q]
        /\ row'[p].status \in {row[p].status, "failed"}
        /\ row'[p].named = row[p].named
        /\ row'[p].holder = row[p].holder
        BY <1>1, <1>3, <2>1 DEF CommitVerdict, Row
  <2> QED BY <1>3, <2>1, <2>2, RowStep DEF CommitVerdict, TerminalStatus
<1>4. ASSUME NEW p \in Pods, MarkPodFailed(p) \/ AdminKill(p) \/ DashboardKill(p) PROVE PodInv'
  <2>1. /\ \A q \in Pods \ {p} : row'[q] = row[q]
        /\ row'[p].status \in TerminalStatus
        /\ row'[p].named = row[p].named
        /\ row'[p].holder = row[p].holder
        BY <1>1, <1>4 DEF MarkPodFailed, AdminKill, DashboardKill, Row, TerminalStatus
  <2>2. Writable(p) /\ UNCHANGED <<pc, cur, tried, handle, reaping, reaped, instance>>
        BY <1>4 DEF MarkPodFailed, AdminKill, DashboardKill
  <2> QED BY <2>1, <2>2, RowStep
<1>5. ASSUME NEW p \in Pods, GrowIdle(p) \/ GrowOld(p) PROVE PodInv'
  <2>1. /\ \A q \in Pods \ {p} : row'[q] = row[q]
        /\ row'[p].status = row[p].status
        /\ row'[p].named = row[p].named
        /\ row'[p].holder = row[p].holder
        BY <1>1, <1>5 DEF GrowIdle, GrowOld, Row
  <2>2. UNCHANGED <<pc, cur, tried, handle, reaping, reaped, instance>>
        BY <1>5 DEF GrowIdle, GrowOld
  <2> QED BY <2>1, <2>2, RowStep
<1>6. ASSUME NEW p \in Pods, Terminate(p) PROVE PodInv'
  <2>1. \A q \in Pods : instance'[q] = "running" => instance[q] = "running"
        BY <1>6 DEF Terminate, TypeOK
  <2> QED BY <1>6, <2>1, RowStep DEF Terminate
<1> QED BY <1>2, <1>3, <1>4, <1>5, <1>6

\* Steps that leave what PodInv speaks of alone
LEMMA UntouchedSteps ==
  ASSUME PodInv, UNCHANGED <<pc, cur, tried, handle, row, reaping, reaped, instance>>
  PROVE  PodInv'
BY DEF PodInv, Located, UnpublishedUntouched, HolderExact, ApiRows, InstanceKind,
   HandedOutWasPublished, ReapedOnce, InstanceOnRecord, Retired, Unpublished, Fresh, Launching

LEMMA ReaperSteps ==
  ASSUME TypeOK, PodInv, Located', NEW w \in Workers, Reaper(w)
  PROVE  PodInv'
<1> USE DEF requestVars
<1>1. /\ row \in [Pods -> Row] /\ reaping \in [Workers -> Pods \cup {None}]
      /\ reaped \in [Pods -> SUBSET Workers] /\ w # None
      /\ \A p \in Pods : row[p] \in Row
      BY NoneIsNothing DEF TypeOK
<1>2. UNCHANGED <<pc, cur, tried, handle, instance>>
      BY DEF Reaper, ReaperSnapshot, ReaperConsider, ReaperLock, ReaperCommit, cloudVars
<1>3. \A p \in Pods : Unpublished(p)' <=> Unpublished(p)
      BY <1>2 DEF Unpublished, Fresh, Launching
<1>4. CASE ReaperSnapshot(w)
      BY <1>2, <1>4, UntouchedSteps DEF ReaperSnapshot
<1>5. ASSUME NEW p \in Pods, ReaperConsider(w, p) PROVE PodInv'
  <2>1. UNCHANGED <<row, reaped>> /\ reaping[w] = None
        BY <1>5 DEF ReaperConsider
  <2>2. \A v \in Workers \ {w} : reaping'[v] = reaping[v]
        BY <1>1, <1>5 DEF ReaperConsider
  <2>3. HolderExact'
        BY <1>1, <2>1, <2>2, NoneIsNothing DEF PodInv, HolderExact, Row
  <2> QED BY <1>2, <1>3, <2>1, <2>3 DEF PodInv, UnpublishedUntouched, ApiRows, InstanceKind,
             HandedOutWasPublished, ReapedOnce, Retired, InstanceOnRecord
<1>6. CASE ReaperLock(w)
  <2> DEFINE p == reaping[w]
  <2>1. p \in Pods /\ UNCHANGED reaped /\ row[p].holder # w
        BY <1>1, <1>6 DEF ReaperLock, Holds
  <2>2. \A q \in Pods : row[q].holder # w
        BY <1>1, <2>1 DEF PodInv, HolderExact
  <2>3. CASE row' = [row EXCEPT ![p].holder = w] /\ UNCHANGED reaping /\ row[p].status = "ready"
    <3>1. /\ \A q \in Pods \ {p} : row'[q] = row[q]
          /\ row'[p].status = row[p].status /\ row'[p].named = row[p].named
          /\ row'[p].holder = w
          BY <1>1, <2>1, <2>3 DEF Row
    <3>2. \A q \in Pods : row'[q].status = row[q].status /\ row'[q].named = row[q].named
          BY <3>1
    <3>3. HolderExact'
          BY <2>3, <3>1 DEF PodInv, HolderExact
    <3>4. UnpublishedUntouched' /\ InstanceKind' /\ ReapedOnce' /\ InstanceOnRecord'
          BY <1>2, <1>3, <2>1, <3>2 DEF PodInv, UnpublishedUntouched, InstanceKind, ReapedOnce,
             Retired, InstanceOnRecord
    <3>5. HandedOutWasPublished'
          BY <1>2, <3>2 DEF TypeOK, PodInv, HandedOutWasPublished
    <3>6. ApiRows'
      <4>1. \A s \in Requests : pc[s] \in ApiLocs => <<None, cur[s]>> \in Pods
            BY CurIsProvider, PodTypes DEF PodInv
      <4> QED BY <1>2, <3>2, <4>1 DEF PodInv, ApiRows, ApiLocs
    <3> QED BY <3>3, <3>4, <3>5, <3>6 DEF PodInv
  <2>4. CASE UNCHANGED row /\ reaping' = [reaping EXCEPT ![w] = None]
    <3>1. HolderExact'
          BY <1>1, <2>2, <2>4 DEF PodInv, HolderExact, Row
    <3> QED BY <1>2, <1>3, <2>1, <2>4, <3>1 DEF PodInv, UnpublishedUntouched, ApiRows,
               InstanceKind, HandedOutWasPublished, ReapedOnce, Retired, InstanceOnRecord
  <2> QED BY <1>6, <2>3, <2>4 DEF ReaperLock
<1>7. CASE ReaperCommit(w)
  <2> DEFINE p == reaping[w]
  <2>1. p \in Pods /\ row[p].holder = w
        BY <1>1, <1>7 DEF ReaperCommit, Holds
  <2>2. row[p].status = "ready" /\ ~Unpublished(p) /\ (Kind[p[2]] # "api" => reaped[p] = {})
        BY <1>1, <2>1 DEF PodInv, HolderExact, UnpublishedUntouched, ReapedOnce, Retired, TerminalStatus
  <2>3. /\ \A q \in Pods \ {p} : row'[q] = row[q] /\ reaped'[q] = reaped[q]
        /\ row'[p].status = "terminated" /\ row'[p].named = row[p].named
        /\ row'[p].holder = None /\ reaped'[p] = reaped[p] \cup {w}
        BY <1>1, <1>7, <2>1 DEF ReaperCommit, Row
  <2>4. \A v \in Workers \ {w} : reaping'[v] = reaping[v]
        BY <1>1, <1>7 DEF ReaperCommit
  <2>5. HolderExact'
        BY <1>1, <2>1, <2>3, <2>4 DEF PodInv, HolderExact, Row
  <2>6. UnpublishedUntouched'
        BY <1>2, <1>3, <2>2, <2>3 DEF PodInv, UnpublishedUntouched
  <2>7. ReapedOnce'
        BY <2>2, <2>3 DEF PodInv, ReapedOnce, Retired, TerminalStatus
  <2>8. InstanceKind' /\ InstanceOnRecord'
        BY <1>2, <2>3 DEF PodInv, InstanceKind, InstanceOnRecord
  <2>9. HandedOutWasPublished'
    <3>1. \A s \in Requests : handle[s] # None => handle[s] \in Pods
          BY DEF TypeOK
    <3> QED BY <1>2, <2>3, <3>1 DEF PodInv, HandedOutWasPublished, TerminalStatus
  <2>10. ApiRows'
    <3>1. \A s \in Requests : pc[s] \in ApiLocs => <<None, cur[s]>> \in Pods
          BY CurIsProvider, PodTypes DEF PodInv
    <3> QED BY <1>2, <2>3, <3>1 DEF PodInv, ApiRows, ApiLocs, InProgressStatus
  <2> QED BY <2>5, <2>6, <2>7, <2>8, <2>9, <2>10 DEF PodInv
<1> QED BY <1>4, <1>5, <1>6, <1>7 DEF Reaper

LEMMA PodInvInit == Init => PodInv
<1> SUFFICES ASSUME Init PROVE PodInv
    OBVIOUS
<1>1. Located
      BY TypeInit
<1>2. /\ \A r \in Requests : pc[r] = "fast" /\ handle[r] = None
      /\ \A p \in Pods : row[p] = NoRow /\ instance[p] = "absent" /\ reaped[p] = {}
      BY DEF Init
<1>3. UnpublishedUntouched /\ HolderExact /\ InstanceKind /\ InstanceOnRecord /\ ReapedOnce
      BY <1>2, NoneIsNothing DEF UnpublishedUntouched, HolderExact, InstanceKind, InstanceOnRecord,
         ReapedOnce, NoRow
<1>4. ApiRows /\ HandedOutWasPublished
      BY <1>2 DEF ApiRows, HandedOutWasPublished, NoRow, InProgressStatus
<1> QED BY <1>1, <1>3, <1>4 DEF PodInv

LEMMA PodInvNext ==
  ASSUME TypeOK, PodInv, [Next]_vars
  PROVE  PodInv'
<1>0. Located'
      BY TypeNext DEF PodInv
<1>1. CASE UNCHANGED vars
      BY <1>1, UntouchedSteps DEF vars, requestVars, cloudVars, reaperVars
<1>2. ASSUME NEW r \in Requests, Acquire(r) \/ Use(r) PROVE PodInv'
      BY <1>0, <1>2, MoveSteps, LaunchStep, InsertStep, LauncherSteps, SelectStep, UpsertStep, RowSteps
      DEF Acquire, Use
<1>3. ASSUME NEW w \in Workers, Reaper(w) PROVE PodInv'
      BY <1>0, <1>3, ReaperSteps
<1>4. ASSUME NEW w \in Workers, Health(w) PROVE PodInv'
  <2>1. CASE CommitVerdict(w)
        BY <1>0, <2>1, RowSteps
  <2>2. CASE HealthSnapshot(w) \/ \E p \in Pods : ProbeOk(w, p) \/ ProbeBad(w, p)
        BY <2>2, UntouchedSteps DEF HealthSnapshot, ProbeOk, ProbeBad, requestVars, cloudVars, reaperVars
  <2> QED BY <1>4, <2>1, <2>2 DEF Health
<1>5. ASSUME NEW p \in Pods, Surroundings(p) PROVE PodInv'
  <2>1. CASE ReadForFailure(p)
        BY <2>1, UntouchedSteps DEF ReadForFailure, requestVars, cloudVars, reaperVars
  <2> QED BY <1>0, <1>5, <2>1, RowSteps DEF Surroundings
<1> QED BY <1>1, <1>2, <1>3, <1>4, <1>5, PoolAssumption DEF Next

LEMMA InvariantsHold == Spec => [](TypeOK /\ PodInv)
<1>1. Init => TypeOK /\ PodInv
      BY TypeInit, PodInvInit
<1>2. TypeOK /\ PodInv /\ [Next]_vars => (TypeOK /\ PodInv)'
      BY TypeNext, PodInvNext DEF PodInv
<1> QED BY <1>1, <1>2, PTL DEF Spec

(***************************************************************************)
(* What the table, the coroutines and the reapers agree on about every pod. *)
(***************************************************************************)
THEOREM PodInvHolds == Spec => []PodInv
BY InvariantsHold, PTL

(***************************************************************************)
(* No request is ever given a pod that is still being launched.             *)
(***************************************************************************)
THEOREM HandedOutHolds == Spec => []HandedOutWasPublished
<1>1. PodInv => HandedOutWasPublished
      BY DEF PodInv
<1> QED BY <1>1, PodInvHolds, PTL

(***************************************************************************)
(* The reapers of all workers terminate a pod at most once, for good.       *)
(***************************************************************************)
THEOREM ReapedOnceHolds == Spec => []ReapedOnce
<1>1. PodInv => ReapedOnce
      BY DEF PodInv
<1> QED BY <1>1, PodInvHolds, PTL

(***************************************************************************)
(* An instance the provider runs is on record under its own id, up to the   *)
(* write of its launcher.                                                   *)
(***************************************************************************)
THEOREM InstanceOnRecordHolds == Spec => []InstanceOnRecord
<1>1. PodInv => InstanceOnRecord
      BY DEF PodInv
<1> QED BY <1>1, PodInvHolds, PTL

LEMMA RetiredStep ==
  ASSUME TypeOK, PodInv, [Next]_vars, NEW r \in Requests, NEW p \in Pods,
         handle[r] = p, Kind[p[2]] # "api", Retired(p)
  PROVE  Retired(p)'
<1> USE DEF requestVars, workerVars, cloudVars, reaperVars, healthVars
<1>1. /\ row \in [Pods -> Row] /\ row[p] \in Row /\ row[p].status \in TerminalStatus
      /\ ~Unpublished(p)
      BY DEF TypeOK, Retired, PodInv, UnpublishedUntouched
<1>2. CASE UNCHANGED row
      BY <1>1, <1>2 DEF Retired
<1>3. ASSUME NEW s \in Requests, NEW v \in Providers, InsertRow(s, v) PROVE Retired(p)'
  <2>1. Unpublished(<<s, v>>)
        BY <1>3 DEF InsertRow, TryProvider, IsNext, Untried, Unpublished, Fresh
  <2>2. p # <<s, v>>
        BY <1>1, <2>1
  <2> QED BY <1>1, <1>3, <2>2 DEF InsertRow, Retired
<1>4. ASSUME NEW s \in Requests, MarkLaunchFailed(s) \/ MarkStarting(s) \/ Publish(s) PROVE Retired(p)'
  <2>1. pc[s] \in PodLocs
        BY <1>4 DEF MarkLaunchFailed, MarkStarting, Publish, PodLocs
  <2>2. PodFor(s, cur[s]) # p
        BY <1>1, <2>1, OwnPod
  <2> QED BY <1>1, <1>4, <2>2 DEF MarkLaunchFailed, MarkStarting, Publish, Retired
<1>5. ASSUME NEW s \in Requests, UpsertApiRow(s) PROVE Retired(p)'
  <2>1. PodFor(s, cur[s]) # p
        BY <1>5, PodTypes DEF UpsertApiRow, PodInv, Located, PodFor
  <2> QED BY <1>1, <1>5, <2>1 DEF UpsertApiRow, Retired
<1>6. ASSUME NEW s \in Requests, RecordUse(s) PROVE Retired(p)'
      BY <1>1, <1>6 DEF RecordUse, Retired, Row
<1>7. ASSUME NEW w \in Workers, ReaperLock(w) \/ ReaperCommit(w) PROVE Retired(p)'
      BY <1>1, <1>7 DEF ReaperLock, ReaperCommit, Retired, Row, TerminalStatus
<1>8. ASSUME NEW w \in Workers, CommitVerdict(w) PROVE Retired(p)'
      BY <1>1, <1>8 DEF CommitVerdict, Retired, Row, TerminalStatus
<1>9. ASSUME NEW q \in Pods, MarkPodFailed(q) \/ AdminKill(q) \/ DashboardKill(q) PROVE Retired(p)'
      BY <1>1, <1>9 DEF MarkPodFailed, AdminKill, DashboardKill, Retired, Row, TerminalStatus
<1>10. ASSUME NEW q \in Pods, GrowIdle(q) \/ GrowOld(q) PROVE Retired(p)'
      BY <1>1, <1>10 DEF GrowIdle, GrowOld, Retired, Row
<1>11. ASSUME NEW s \in Requests, Acquire(s) \/ Use(s) PROVE Retired(p)'
      BY <1>2, <1>3, <1>4, <1>5, <1>6, <1>11 DEF Acquire, Use, FastPath, EnterLock, Recheck,
         ReadInProgress, Claim, Wait, AllProvidersFailed, ResolveVolume, Launch, AwaitReady,
         SelectApiRow, MarkActive, Drop, Release
<1>12. ASSUME NEW w \in Workers, Reaper(w) \/ Health(w) PROVE Retired(p)'
      BY <1>2, <1>7, <1>8, <1>12 DEF Reaper, Health, ReaperSnapshot, ReaperConsider,
         HealthSnapshot, ProbeOk, ProbeBad
<1>13. ASSUME NEW q \in Pods, Surroundings(q) PROVE Retired(p)'
      BY <1>2, <1>9, <1>10, <1>13 DEF Surroundings, ReadForFailure, Terminate
<1>14. CASE UNCHANGED vars
      BY <1>2, <1>14 DEF vars
<1> QED BY <1>11, <1>12, <1>13, <1>14, PoolAssumption DEF Next

(***************************************************************************)
(* A pod that was handed out and retired never comes back, although the     *)
(* launcher and the health loop write statuses without looking at them.     *)
(***************************************************************************)
THEOREM RetiredHolds == Spec => RetiredStaysRetired
<1>1. TypeOK /\ PodInv /\ [Next]_vars =>
        [\A r \in Requests, p \in Pods :
           handle[r] = p /\ Kind[p[2]] # "api" /\ Retired(p) => Retired(p)']_vars
      BY RetiredStep
<1> QED BY <1>1, InvariantsHold, PTL DEF Spec, RetiredStaysRetired

(***************************************************************************)
(* The usage counters.                                                      *)
(***************************************************************************)
Users(w, p) == {r \in Requests : WorkerOf[r] = w /\ ActiveOn(r, p)}

LEMMA UsersFinite ==
  ASSUME NEW w, NEW p
  PROVE  IsFiniteSet(Users(w, p)) /\ Cardinality(Users(w, p)) \in Nat
<1>1. IsFiniteSet(Users(w, p))
      BY PoolAssumption, FS_Subset DEF Users
<1> QED BY <1>1, FS_CardinalityType

LEMMA SameUsers ==
  ASSUME ActiveCountExact, UNCHANGED active,
         \A r \in Requests : /\ pc'[r] = "active" <=> pc[r] = "active"
                             /\ pc[r] = "active" => handle'[r] = handle[r]
  PROVE  ActiveCountExact'
<1>1. \A r \in Requests, p \in Pods : ActiveOn(r, p)' <=> ActiveOn(r, p)
      BY DEF ActiveOn
<1>2. \A w \in Workers, p \in Pods : Users(w, p)' = Users(w, p)
      BY <1>1 DEF Users
<1> QED BY <1>2 DEF ActiveCountExact, Users

LEMMA CountUp ==
  ASSUME TypeOK, Located, ActiveCountExact, NEW r \in Requests, MarkActive(r)
  PROVE  ActiveCountExact'
<1> DEFINE u == WorkerOf[r]
           h == handle[r]
<1>1. /\ u \in Workers /\ h \in Pods /\ pc[r] = "holding"
      /\ pc'[r] = "active" /\ \A s \in Requests \ {r} : pc'[s] = pc[s]
      /\ UNCHANGED handle
      BY HandleIsPod, PoolAssumption DEF MarkActive, TypeOK, Goto, HandleLocs
<1>2. /\ active'[u][h] = active[u][h] + 1
      /\ \A w \in Workers, p \in Pods : w # u \/ p # h => active'[w][p] = active[w][p]
      BY <1>1 DEF MarkActive, TypeOK
<1>3. Users(u, h)' = Users(u, h) \cup {r} /\ r \notin Users(u, h)
      BY <1>1 DEF Users, ActiveOn
<1>4. Cardinality(Users(u, h)') = Cardinality(Users(u, h)) + 1
      BY <1>3, UsersFinite, FS_AddElement
<1>5. \A w \in Workers, p \in Pods : w # u \/ p # h => Users(w, p)' = Users(w, p)
      BY <1>1 DEF Users, ActiveOn
<1>6. \A w \in Workers, p \in Pods : active[w][p] = Cardinality(Users(w, p))
      BY DEF ActiveCountExact, Users
<1>7. ASSUME NEW w \in Workers, NEW p \in Pods PROVE active'[w][p] = Cardinality(Users(w, p)')
  <2>1. CASE w = u /\ p = h
        BY <1>1, <1>2, <1>4, <1>6, <2>1
  <2>2. CASE w # u \/ p # h
        BY <1>2, <1>5, <1>6, <2>2
  <2> QED BY <2>1, <2>2
<1> QED BY <1>7 DEF ActiveCountExact, Users

LEMMA CountDown ==
  ASSUME TypeOK, Located, ActiveCountExact, NEW r \in Requests, Release(r)
  PROVE  ActiveCountExact'
<1> DEFINE u == WorkerOf[r]
           h == handle[r]
<1>1. /\ u \in Workers /\ h \in Pods /\ pc[r] = "active"
      /\ pc'[r] = "released" /\ \A s \in Requests \ {r} : pc'[s] = pc[s]
      /\ UNCHANGED handle
      BY HandleIsPod, PoolAssumption DEF Release, TypeOK, Goto, HandleLocs
<1>2. Users(u, h)' = Users(u, h) \ {r} /\ r \in Users(u, h)
      BY <1>1 DEF Users, ActiveOn
<1>3. Cardinality(Users(u, h)') = Cardinality(Users(u, h)) - 1
      BY <1>2, UsersFinite, FS_RemoveElement
<1>4. Cardinality(Users(u, h)) > 0
      BY <1>2, UsersFinite, FS_EmptySet
<1>5. \A w \in Workers, p \in Pods : active[w][p] = Cardinality(Users(w, p))
      BY DEF ActiveCountExact, Users
<1>6. /\ active'[u][h] = active[u][h] - 1
      /\ \A w \in Workers, p \in Pods : w # u \/ p # h => active'[w][p] = active[w][p]
      BY <1>1, <1>4, <1>5, UsersFinite DEF Release, TypeOK
<1>7. \A w \in Workers, p \in Pods : w # u \/ p # h => Users(w, p)' = Users(w, p)
      BY <1>1 DEF Users, ActiveOn
<1>8. ASSUME NEW w \in Workers, NEW p \in Pods PROVE active'[w][p] = Cardinality(Users(w, p)')
  <2>1. CASE w = u /\ p = h
        BY <1>1, <1>3, <1>5, <1>6, <2>1
  <2>2. CASE w # u \/ p # h
        BY <1>5, <1>6, <1>7, <2>2
  <2> QED BY <2>1, <2>2
<1> QED BY <1>8 DEF ActiveCountExact, Users

LEMMA CountNext ==
  ASSUME TypeOK, PodInv, ActiveCountExact, [Next]_vars
  PROVE  ActiveCountExact'
<1> USE DEF requestVars, workerVars, cloudVars, reaperVars, healthVars
<1>0. pc \in [Requests -> Locs] /\ handle \in [Requests -> Pods \cup {None}]
      BY DEF TypeOK
<1>1. CASE UNCHANGED <<pc, handle, active>>
      BY <1>1, SameUsers
<1>2. ASSUME NEW r \in Requests, UNCHANGED active, pc[r] # "active", pc'[r] # "active",
             \A s \in Requests \ {r} : pc'[s] = pc[s] /\ handle'[s] = handle[s]
      PROVE  ActiveCountExact'
      BY <1>2, SameUsers
<1>3. ASSUME NEW r \in Requests, Acquire(r) PROVE ActiveCountExact'
  <2>1. /\ UNCHANGED active /\ pc[r] # "active" /\ pc'[r] # "active"
        /\ \A s \in Requests \ {r} : pc'[s] = pc[s] /\ handle'[s] = handle[s]
    <3>1. CASE FastPath(r) \/ EnterLock(r) \/ Recheck(r) \/ ReadInProgress(r) \/ Claim(r) \/ Wait(r)
          BY <1>0, <3>1 DEF FastPath, EnterLock, Recheck, ReadInProgress, Claim, Wait, Goto, Give
    <3>2. CASE AllProvidersFailed(r) \/ ResolveVolume(r) \/ Launch(r) \/ MarkLaunchFailed(r)
          BY <1>0, <3>2 DEF AllProvidersFailed, ResolveVolume, Launch, MarkLaunchFailed, Goto
    <3>3. CASE \E v \in Providers : InsertRow(r, v) \/ SelectApiRow(r, v)
          BY <1>0, <3>3 DEF InsertRow, SelectApiRow, TryProvider, Goto
    <3>4. CASE MarkStarting(r) \/ AwaitReady(r) \/ Publish(r) \/ UpsertApiRow(r)
          BY <1>0, <3>4 DEF MarkStarting, AwaitReady, Publish, UpsertApiRow, Goto, Give, ApiLocs
    <3> QED BY <1>3, <3>1, <3>2, <3>3, <3>4 DEF Acquire
  <2> QED BY <1>2, <2>1
<1>4. ASSUME NEW r \in Requests, Use(r) PROVE ActiveCountExact'
  <2>1. CASE MarkActive(r) \/ Release(r)
        BY <2>1, CountUp, CountDown DEF PodInv
  <2>2. CASE Drop(r) \/ RecordUse(r)
    <3>1. /\ UNCHANGED active /\ pc[r] # "active" /\ pc'[r] # "active"
          /\ \A s \in Requests \ {r} : pc'[s] = pc[s] /\ handle'[s] = handle[s]
          BY <1>0, <2>2 DEF Drop, RecordUse, Goto
    <3> QED BY <1>2, <3>1
  <2> QED BY <1>4, <2>1, <2>2 DEF Use
<1>5. ASSUME NEW w \in Workers, Reaper(w) \/ Health(w) PROVE UNCHANGED <<pc, handle, active>>
      BY <1>5 DEF Reaper, Health, ReaperSnapshot, ReaperConsider, ReaperLock, ReaperCommit,
         HealthSnapshot, ProbeOk, ProbeBad, CommitVerdict
<1>6. ASSUME NEW p \in Pods, Surroundings(p) PROVE UNCHANGED <<pc, handle, active>>
      BY <1>6 DEF Surroundings, ReadForFailure, MarkPodFailed, Terminate, AdminKill, DashboardKill,
         GrowIdle, GrowOld
<1>7. CASE UNCHANGED vars
      BY <1>1, <1>7 DEF vars
<1> QED BY <1>1, <1>3, <1>4, <1>5, <1>6, <1>7, PoolAssumption DEF Next

LEMMA CountInit == Init => ActiveCountExact
<1> SUFFICES ASSUME Init, NEW w \in Workers, NEW p \in Pods
             PROVE  active[w][p] = Cardinality(Users(w, p))
    BY DEF ActiveCountExact, Users
<1>1. Users(w, p) = {}
      BY DEF Init, Users, ActiveOn
<1> QED BY <1>1, FS_EmptySet DEF Init

(***************************************************************************)
(* The usage counters the reaper reads are exact, for any number of         *)
(* requests: no release is missed, none is counted twice.                   *)
(***************************************************************************)
THEOREM ActiveCountHolds == Spec => []ActiveCountExact
<1>1. TypeOK /\ PodInv /\ ActiveCountExact /\ [Next]_vars => ActiveCountExact'
      BY CountNext
<1> QED BY <1>1, CountInit, InvariantsHold, PTL DEF Spec
==============================================================================
