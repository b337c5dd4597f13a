----------------------------- MODULE FleetProofs -----------------------------
(***************************************************************************)
(* Proofs about Fleet, for any workers, pods, adapters and options, any     *)
(* threshold, and any number of calls, checkers and starts.                 *)
(***************************************************************************)
EXTENDS Fleet, TLAPS

-----------------------------------------------------------------------------
(***************************************************************************)
(* The inductive invariant: of each pod, of each worker, of the             *)
(* terminations under way, and of all while processes do not overlap.       *)
(***************************************************************************)

(* Places of a call after its row has got the provider's id. *)
Late == {"await", "publish", "done", "past"}
Named(p) == Exists(p) /\ Rents(p) => row[p].ext # 0

(* launch() makes at most one instance per request, and none for "local". *)
MostMade(p) == IF Adapter[p] = "together" THEN Options ELSE LaunchTries(p)
LaunchOK(p) ==
  /\ attempt[p] <= LaunchTries(p)
  /\ made[p] <= Requests(p) /\ Requests(p) <= MostMade(p)
  /\ spin[p] = "idle" => attempt[p] = 0 /\ offer[p] = 0 /\ row[p] = NoRow
  /\ spin[p] # "idle" => attempt[p] # 0
  /\ spin[p] = "offers" =>
       made[p] < attempt[p] /\ (Adapter[p] = "together" => offer[p] = 0)
  /\ spin[p] = "create" => made[p] < Requests(p)
  /\ spin[p] \in {"create", "boot"} => Rents(p)
  /\ spin[p] \in {"boot", "name", "await", "publish"} /\ Rents(p) => made[p] # 0
  /\ ~Rents(p) => made[p] = 0
  /\ \A n \in alive[p] : n <= made[p]

(* It asks for another only where the last was not named to it. *)
Unnamed == {"lost_response", "error_answer"}
LostOK(p) == \A n \in Instances :
  /\ n < made[p] => fault[p][n] \in Unnamed
  /\ n = made[p] /\ spin[p] \in {"offers", "create"} => fault[p][n] \in Unnamed

(* The row names the last instance, and only once launch() has returned. *)
RowOK(p) ==
  /\ row[p].status = "none" => row[p] = NoRow
  /\ row[p].ext # 0 => row[p].ext = made[p] /\ spin[p] \in Late
  /\ spin[p] \in {"await", "publish"} \/ row[p].status \in {"starting", "ready"} => Named(p)
  /\ row[p].status = "ready" => spin[p] \in {"done", "past"}

(* Only a pod that was ready is counted, and at the limit it no longer is. *)
CountOK(p) ==
  /\ row[p].failures <= bad[p]
  /\ row[p].failures # 0 => spin[p] \in {"done", "past"}
  /\ row[p].status = "ready" => row[p].failures < FailThreshold

(* What runs without a claim on it has a cause. *)
CauseOK(p) ==
  /\ \A n \in Instances : fault[p][n] \in Causes(p) \cup {"none"}
  /\ \A n \in alive[p] :
       Launching(p, n) \/ Killing(p, n) \/ Live(p, n) \/ fault[p][n] \in Causes(p)

(* Calls live in a process that is up or stops. *)
Running(w) == proc[w] \in {"up", "stopping"}
OwnerOK(p) == Spinning(p) \/ spin[p] = "done" => Running(WorkerOf[p])

PodOK(p) == LaunchOK(p) /\ LostOK(p) /\ RowOK(p) /\ CountOK(p) /\ CauseOK(p) /\ OwnerOK(p)

(* What was read from a row stays true of its pod.  What stop() waits for    *)
(* has been terminated, or something befell it.                              *)
Awaited(w, b) == \E k \in kills : k.pod = b[1] /\ k.ext = b[2] /\ k.by = w /\ k.awaited
BatchOK(w) == \A b \in batch[w] :
  /\ b[2] # 0 => b[2] = made[b[1]] /\ spin[b[1]] \in Late
  /\ proc[w] = "stopping" /\ Rents(b[1]) => b[2] # 0
  /\ proc[w] = "stopping" /\ b[2] \in alive[b[1]] =>
       fault[b[1]][b[2]] \in Causes(b[1]) \/ Awaited(w, b)

VerdictOK(w) == verdict[w] # None =>
  /\ Named(verdict[w][1]) /\ spin[verdict[w][1]] \in {"done", "past"}
  /\ verdict[w][2] <= bad[verdict[w][1]]

KillsOK == \A k \in kills : k.ext = made[k.pod] /\ spin[k.pod] \in Late /\ Rents(k.pod)

(* Without overlap one process has all claims, from its start-up on. *)
Held(p) ==
  /\ proc[WorkerOf[p]] = "up"
  /\ \/ spin[p] \in {"boot", "name", "await", "publish"}
     \/ spin[p] = "done" /\ row[p].status \in {"starting", "ready"}
HeldOK(p) == Rents(p) /\ Held(p) => made[p] \in alive[p] /\ ~Killing(p, made[p])
Cleaned(p) == Exists(p) => \A w \in Workers :
  /\ proc[w] = "dedicated" => \E b \in batch[w] : b[1] = p
  /\ proc[w] = "up" => spin[p] # "past"
Alone == \A u, w \in Workers : proc[u] # "down" /\ proc[w] # "down" => u = w
CleanInv == ~overlap => Alone /\ \A p \in Pods : Cleaned(p) /\ HeldOK(p)

FleetInv ==
  /\ TypeOK /\ KillsOK /\ CleanInv
  /\ \A p \in Pods : PodOK(p)
  /\ \A w \in Workers : BatchOK(w) /\ VerdictOK(w)

-----------------------------------------------------------------------------
(***************************************************************************)
(* Calls: a step of _spin_pod() concerns its own pod alone.                 *)
(***************************************************************************)
Aside(q) ==
  /\ spin'[q] = spin[q] /\ attempt'[q] = attempt[q] /\ offer'[q] = offer[q] /\ made'[q] = made[q]
  /\ alive'[q] = alive[q] /\ row'[q] = row[q] /\ fault'[q] = fault[q]

(* What others hold of the pod outlasts the step. *)
CallMove(p) ==
  /\ \A q \in Pods \ {p} : Aside(q)
  /\ UNCHANGED <<proc, batch, kills, verdict, bad, overlap>>
  /\ spin[p] \in Late => spin'[p] \in Late /\ made'[p] = made[p] /\ alive'[p] = alive[p]
  /\ spin[p] \in {"done", "past"} => spin'[p] = spin[p] /\ (Named(p) => Named(p)')
  /\ \A n \in Instances : fault[p][n] \in Causes(p) => fault'[p][n] \in Causes(p)

LEMMA MoveKeeps ==
  ASSUME FleetInv, NEW p \in Pods, NEW v \in Workers, Running(v), CallMove(p),
         TypeOK', PodOK(p)', ~overlap => HeldOK(p)' /\ spin'[p] # "past"
  PROVE  FleetInv'
<1>1. \A q \in Pods \ {p} : Aside(q)
  BY DEF CallMove
<1>2. ASSUME NEW q \in Pods, q # p PROVE PodOK(q)'
  <2>1. Aside(q) /\ PodOK(q) /\ UNCHANGED <<proc, kills, bad>>
    BY <1>1, <1>2 DEF FleetInv, CallMove
  <2>2. LaunchOK(q)' /\ LostOK(q)'
    BY <2>1 DEF PodOK, LaunchOK, LostOK, Requests, Aside
  <2>3. RowOK(q)' /\ CountOK(q)' /\ OwnerOK(q)'
    BY <2>1 DEF PodOK, RowOK, Named, Exists, CountOK, OwnerOK, Running, Spinning, Aside
  <2>4. CauseOK(q)'
    BY <2>1 DEF PodOK, CauseOK, Launching, Killing, Live, Aside
  <2> QED
    BY <2>2, <2>3, <2>4 DEF PodOK
<1>3. KillsOK'
  <2> SUFFICES ASSUME NEW k \in kills PROVE (k.ext = made[k.pod] /\ spin[k.pod] \in Late)'
    BY DEF FleetInv, KillsOK, CallMove
  <2>1. k.pod \in Pods /\ k.ext = made[k.pod] /\ spin[k.pod] \in Late
    BY DEF FleetInv, KillsOK, TypeOK, Kill
  <2> QED
    BY <1>1, <2>1 DEF CallMove, Aside
<1>4. ASSUME NEW w \in Workers PROVE BatchOK(w)' /\ VerdictOK(w)'
  <2>1. ASSUME NEW b \in batch[w]
        PROVE  /\ b[2] # 0 => b[2] = made'[b[1]] /\ spin'[b[1]] \in Late
               /\ proc[w] = "stopping" /\ Rents(b[1]) => b[2] # 0
               /\ proc[w] = "stopping" /\ b[2] \in alive'[b[1]] =>
                    fault'[b[1]][b[2]] \in Causes(b[1]) \/ Awaited(w, b)
    <3>1. b[1] \in Pods /\ b[2] \in {0} \cup Instances
      BY <1>4, <2>1 DEF FleetInv, TypeOK
    <3>2. /\ b[2] # 0 => b[2] = made[b[1]] /\ spin[b[1]] \in Late
          /\ proc[w] = "stopping" /\ Rents(b[1]) => b[2] # 0
          /\ proc[w] = "stopping" /\ b[2] \in alive[b[1]] =>
               fault[b[1]][b[2]] \in Causes(b[1]) \/ Awaited(w, b)
      BY <1>4, <2>1 DEF FleetInv, BatchOK
    <3>3. b[2] \in alive'[b[1]] => b[2] \in Instances
      BY <3>1 DEF TypeOK, Instances
    <3>4. CASE b[1] = p
      BY <3>1, <3>2, <3>3, <3>4 DEF CallMove, Instances
    <3>5. CASE b[1] # p
      BY <1>1, <3>1, <3>2, <3>5 DEF Aside
    <3> QED
      BY <3>4, <3>5
  <2>2. BatchOK(w)'
    BY <2>1 DEF BatchOK, CallMove, Awaited
  <2>3. VerdictOK(w)'
    BY <1>1, <1>4 DEF FleetInv, VerdictOK, Named, Exists, Aside, CallMove, TypeOK
  <2> QED
    BY <2>2, <2>3
<1>5. CleanInv'
  <2> SUFFICES ASSUME ~overlap PROVE Alone' /\ \A q \in Pods : Cleaned(q)' /\ HeldOK(q)'
    BY DEF CleanInv, CallMove
  <2>1. Alone /\ \A q \in Pods : Cleaned(q) /\ HeldOK(q)
    BY DEF FleetInv, CleanInv
  <2>2. Cleaned(p)'
    BY <2>1 DEF Cleaned, Alone, Running, CallMove
  <2>3. ASSUME NEW q \in Pods, q # p PROVE Cleaned(q)' /\ HeldOK(q)'
    BY <1>1, <2>1, <2>3 DEF Cleaned, HeldOK, Held, Killing, Exists, Aside, CallMove
  <2> QED
    BY <2>1, <2>2, <2>3 DEF Alone, CallMove
<1> QED
  BY <1>2, <1>3, <1>4, <1>5 DEF FleetInv


LEMMA CallKeeps ==
  ASSUME FleetInv, NEW p \in Pods, Running(WorkerOf[p]), CallMove(p),
         TypeOK', PodOK(p)', ~overlap => HeldOK(p)' /\ spin'[p] # "past"
  PROVE  FleetInv'
BY MoveKeeps, FleetAssumption
LEMMA Tries == ASSUME NEW p \in Pods PROVE LaunchTries(p) \in 1..3
BY DEF LaunchTries

LEMMA TriesToTerminate == ASSUME NEW p \in Pods PROVE TerminateTries(p) \in 1..3
BY DEF TerminateTries

LEMMA Numbers ==
  ASSUME TypeOK, NEW p \in Pods
  PROVE  /\ made[p] \in Nat /\ attempt[p] \in 0..3 /\ offer[p] \in Nat
         /\ LaunchTries(p) \in 1..3 /\ Options \in Nat \ {0}
         /\ Instances \subseteq Nat \ {0} /\ MostMade(p) \in Nat
         /\ \A n \in Nat \ {0} : n <= MostMade(p) => n \in Instances
BY Tries, FleetAssumption DEF TypeOK, Instances, MostMade

(* What was lost stays lost: later only the last instance meets with things. *)
LEMMA LostKeeps ==
  ASSUME TypeOK, NEW p \in Pods, LostOK(p), made'[p] = made[p],
         spin'[p] \notin {"offers", "create"},
         \A n \in Instances \ {made[p]} : fault'[p][n] = fault[p][n]
  PROVE  LostOK(p)'
<1>1. made[p] \in Nat /\ Instances \subseteq Nat
  BY Numbers
<1>2. ASSUME NEW n \in Instances, n < made[p] PROVE fault'[p][n] \in Unnamed
  <2>1. n # made[p]
    BY <1>1, <1>2
  <2> QED
    BY <1>2, <2>1 DEF LostOK
<1> QED
  BY <1>2 DEF LostOK, Instances

(* launch() raises: another try, or the call goes on to mark its row. *)
LEMMA RaiseMoves ==
  ASSUME TypeOK, NEW p \in Pods, NEW retryable \in BOOLEAN, Raise(p, retryable)
  PROVE  /\ spin' \in [Pods -> SpinLocs] /\ attempt' \in [Pods -> 0..3]
         /\ \A q \in Pods \ {p} : spin'[q] = spin[q] /\ attempt'[q] = attempt[q]
         /\ \/ /\ spin'[p] = "offers" /\ attempt[p] < LaunchTries(p)
               /\ attempt'[p] = attempt[p] + 1
            \/ spin'[p] = "failed" /\ attempt'[p] = attempt[p]
<1>1. LaunchTries(p) \in 1..3
  BY Tries
<1>2. CASE retryable /\ attempt[p] < LaunchTries(p)
  <2>1. /\ attempt' = [attempt EXCEPT ![p] = attempt[p] + 1]
        /\ spin' = [spin EXCEPT ![p] = "offers"]
    BY <1>2 DEF Raise, Goto
  <2>2. attempt[p] \in 0..3
    BY DEF TypeOK
  <2>3. attempt[p] + 1 \in 0..3
    BY <1>1, <1>2, <2>2
  <2> QED
    BY <1>2, <2>1, <2>3 DEF TypeOK, SpinLocs
<1>3. CASE ~(retryable /\ attempt[p] < LaunchTries(p))
  BY <1>3 DEF Raise, Goto, TypeOK, SpinLocs
<1> QED
  BY <1>2, <1>3

(* Something befalls one instance. *)
LEMMA BefallsMoves ==
  ASSUME TypeOK, NEW p \in Pods, NEW n \in Instances, NEW what \in Faults,
         Befalls(p, n, what)
  PROVE  /\ fault' \in [Pods -> [Instances -> Faults]]
         /\ \A q \in Pods \ {p} : fault'[q] = fault[q]
         /\ fault'[p][n] = what
         /\ \A m \in Instances \ {n} : fault'[p][m] = fault[p][m]
BY DEF TypeOK, Befalls

(* One column of one row is written. *)
LEMMA StatusMoves ==
  ASSUME TypeOK, NEW p \in Pods, NEW s \in Status, row' = [row EXCEPT ![p].status = s]
  PROVE  /\ row' \in [Pods -> Row] /\ row'[p].status = s
         /\ row'[p].ext = row[p].ext /\ row'[p].failures = row[p].failures
         /\ \A q \in Pods \ {p} : row'[q] = row[q]
<1> DEFINE new == [row[p] EXCEPT !.status = s]
<1>1. row[p] \in Row /\ row \in [Pods -> Row]
  BY DEF TypeOK
<1>2. /\ new \in Row /\ new.status = s
      /\ new.ext = row[p].ext /\ new.failures = row[p].failures
  BY <1>1 DEF Row
<1>3. row' = [row EXCEPT ![p] = new]
  OBVIOUS
<1> HIDE DEF new
<1> QED
  BY <1>1, <1>2, <1>3

(* The row is inserted once, before anything has been made for the call. *)
LEMMA InsertRowStep ==
  ASSUME FleetInv, NEW p \in Pods, InsertRow(p)
  PROVE  FleetInv'
<1> DEFINE new == [NoRow EXCEPT !.status = "provisioning"]
<1>1. /\ TypeOK /\ PodOK(p) /\ spin[p] = "idle" /\ Running(WorkerOf[p])
      /\ UNCHANGED <<procVars, offer, url, cloudVars, verdict, bad>>
      /\ row' = [row EXCEPT ![p] = new]
      /\ spin' = [spin EXCEPT ![p] = "offers"] /\ attempt' = [attempt EXCEPT ![p] = 1]
  BY DEF FleetInv, InsertRow, Goto, Running
<1>2. new \in Row /\ new.status = "provisioning" /\ new.ext = 0 /\ new.failures = 0
  BY DEF NoRow, Row, Status
<1> HIDE DEF new
<1>3. TypeOK'
  BY <1>1, <1>2 DEF TypeOK, SpinLocs, procVars, cloudVars
<1>4. CallMove(p)
  BY <1>1 DEF CallMove, Aside, TypeOK, Late, procVars, cloudVars
<1>5. /\ spin'[p] = "offers" /\ attempt'[p] = 1 /\ made'[p] = made[p] /\ alive'[p] = alive[p]
      /\ row'[p] = new
  BY <1>1 DEF TypeOK, cloudVars
<1>6. made[p] = 0 /\ offer[p] = 0
  BY <1>1, Numbers DEF PodOK, LaunchOK, Requests
<1>7. alive[p] = {} /\ Instances \subseteq Nat \ {0}
  BY <1>1, <1>6, Numbers DEF TypeOK, PodOK, LaunchOK
<1>8. PodOK(p)'
  <2>1. LaunchOK(p)' /\ LostOK(p)'
    <3>1. LaunchTries(p) \in 1..3 /\ Options \in Nat \ {0}
      BY Tries, FleetAssumption
    <3>2. offer'[p] = 0
      BY <1>1, <1>6
    <3>3. Requests(p)' \in {0, 1} /\ MostMade(p) \in Nat \ {0}
      BY <1>5, <3>1, <3>2 DEF Requests, MostMade
    <3>4. LaunchOK(p)'
      BY <1>5, <1>6, <1>7, <3>1, <3>2, <3>3 DEF LaunchOK
    <3>5. ASSUME NEW n \in Instances PROVE ~(n < 0) /\ n # 0
      BY <1>7, <3>5
    <3> QED
      BY <1>5, <1>6, <3>4, <3>5 DEF LostOK
  <2>2. RowOK(p)' /\ CountOK(p)' /\ OwnerOK(p)'
    BY <1>1, <1>2, <1>5, FleetAssumption
       DEF TypeOK, RowOK, CountOK, OwnerOK, Running, Spinning, procVars
  <2>3. CauseOK(p)'
    BY <1>1, <1>5, <1>7 DEF CauseOK, PodOK, cloudVars
  <2> QED
    BY <2>1, <2>2, <2>3 DEF PodOK
<1>9. HeldOK(p)'
  BY <1>5 DEF HeldOK, Held
<1> QED
  BY <1>1, <1>3, <1>4, <1>5, <1>8, <1>9, CallKeeps

(* Until launch() returns, the row is the placeholder or gone. *)
LEMMA LaunchingMoves ==
  ASSUME FleetInv, NEW p \in Pods, Spinning(p), spin[p] \notin Late, TypeOK',
         \A q \in Pods \ {p} : Aside(q),
         UNCHANGED <<proc, batch, kills, verdict, bad, overlap, row>>,
         Spinning(p)', spin'[p] \notin Late, LaunchOK(p)', LostOK(p)', CauseOK(p)',
         ~overlap => HeldOK(p)',
         \A n \in Instances : fault[p][n] \in Causes(p) => fault'[p][n] \in Causes(p)
  PROVE  FleetInv'
<1>1. TypeOK /\ PodOK(p) /\ Running(WorkerOf[p])
  BY DEF FleetInv, PodOK, OwnerOK
<1>2. CallMove(p)
  BY DEF CallMove, Late
<1>3. PodOK(p)'
  <2>1. row[p].ext = 0 /\ row[p].failures = 0 /\ row[p].status # "ready"
    BY <1>1, FleetAssumption DEF PodOK, RowOK, CountOK, Late, TypeOK, Row
  <2>2. (row[p].status = "starting" => Named(p)) /\ spin'[p] \notin {"await", "publish"}
    BY <1>1 DEF PodOK, RowOK, Late
  <2> QED
    BY <1>1, <2>1, <2>2 DEF PodOK, RowOK, CountOK, OwnerOK, Running, Spinning, Late, Named, Exists
<1>4. spin'[p] # "past"
  BY DEF Spinning
<1> QED
  BY <1>1, <1>2, <1>3, <1>4, CallKeeps

LEMMA FindOffersStep ==
  ASSUME FleetInv, NEW p \in Pods, FindOffers(p)
  PROVE  FleetInv'
<1>1. /\ TypeOK /\ LaunchOK(p) /\ LostOK(p) /\ CauseOK(p) /\ spin[p] = "offers"
      /\ UNCHANGED <<procVars, row, cloudVars, verdict, bad>>
  BY DEF FleetInv, PodOK, FindOffers
<1>2. /\ spin' \in [Pods -> SpinLocs] /\ attempt' \in [Pods -> 0..3]
      /\ offer' \in [Pods -> Nat] /\ url' \in [Pods -> BOOLEAN]
      /\ \A q \in Pods \ {p} :
           spin'[q] = spin[q] /\ attempt'[q] = attempt[q] /\ offer'[q] = offer[q]
      /\ \/ /\ spin'[p] = "offers" /\ attempt[p] < LaunchTries(p)
            /\ attempt'[p] = attempt[p] + 1 /\ offer'[p] = offer[p]
         \/ spin'[p] = "failed" /\ attempt'[p] = attempt[p] /\ offer'[p] = offer[p]
         \/ /\ spin'[p] = (IF Rents(p) THEN "create" ELSE "name")
            /\ attempt'[p] = attempt[p] /\ offer'[p] = 1
  <2>1. CASE spin' = [spin EXCEPT ![p] = IF Rents(p) THEN "create" ELSE "name"]
             /\ offer' = [offer EXCEPT ![p] = 1] /\ url' = [url EXCEPT ![p] = ~Rents(p)]
             /\ attempt' = attempt
    BY <1>1, <2>1 DEF TypeOK, SpinLocs, Rents
  <2>2. CASE (\E retryable \in BOOLEAN : Raise(p, retryable)) /\ UNCHANGED <<offer, url>>
    BY <1>1, <2>2, RaiseMoves DEF TypeOK
  <2> QED
    BY <2>1, <2>2 DEF FindOffers, Goto
<1>3. TypeOK'
  BY <1>1, <1>2 DEF TypeOK, procVars, cloudVars
<1>4. LaunchOK(p)' /\ LostOK(p)'
  <2>1. /\ made[p] \in Nat /\ attempt[p] \in 0..3 /\ offer[p] \in Nat
        /\ LaunchTries(p) \in 1..3 /\ Options \in Nat \ {0}
    BY <1>1, Numbers
  <2>2. made'[p] = made[p] /\ alive'[p] = alive[p]
    BY <1>1 DEF cloudVars
  <2>3. /\ made[p] <= Requests(p)' /\ Requests(p)' <= MostMade(p)
        /\ spin'[p] = "create" => made[p] < Requests(p)'
    <3>1. CASE Adapter[p] = "together"
      BY <1>1, <1>2, <2>1, <3>1 DEF LaunchOK, Requests, MostMade, LaunchTries
    <3>2. CASE Adapter[p] # "together"
      BY <1>1, <1>2, <2>1, <3>2 DEF LaunchOK, Requests, MostMade
    <3> QED
      BY <3>1, <3>2
  <2>4. spin'[p] = "offers" => made[p] < attempt'[p] /\ (Adapter[p] = "together" => offer'[p] = 0)
    BY <1>1, <1>2, <2>1 DEF LaunchOK
  <2>5. spin'[p] \in {"create", "boot"} => Rents(p)
    BY <1>2
  <2>6. ~Rents(p) => made[p] = 0
    BY <1>1 DEF LaunchOK
  <2>7. /\ attempt'[p] # 0 /\ attempt'[p] <= LaunchTries(p)
        /\ spin'[p] \notin {"idle", "boot", "await", "publish"}
        /\ (spin'[p] = "name" => ~Rents(p))
    BY <1>1, <1>2, <2>1 DEF LaunchOK
  <2>8. LaunchOK(p)'
    BY <1>1, <2>2, <2>3, <2>4, <2>5, <2>6, <2>7 DEF LaunchOK
  <2> QED
    BY <1>1, <2>2, <2>8 DEF LostOK, cloudVars
<1>5. CauseOK(p)'
  BY <1>1, <1>2 DEF CauseOK, Launching, Killing, Live, cloudVars
<1>6. HeldOK(p)'
  <2>1. Rents(p) => spin'[p] \in {"offers", "failed", "create"}
    BY <1>2
  <2> QED
    BY <2>1 DEF HeldOK, Held
<1> QED
  BY <1>1, <1>2, <1>3, <1>4, <1>5, <1>6, LaunchingMoves
     DEF Aside, Spinning, Late, procVars, cloudVars

(* The provider creates an instance, whose number is one more. *)
MadeOneMore(p) ==
  /\ made' = [made EXCEPT ![p] = @ + 1]
  /\ alive' = [alive EXCEPT ![p] = @ \cup {made[p] + 1}]

LEMMA Rented ==
  ASSUME TypeOK, NEW p \in Pods, LaunchOK(p), spin[p] = "create", MadeOneMore(p)
  PROVE  /\ Rents(p) /\ made[p] + 1 \in Instances /\ made[p] + 1 <= Requests(p)
         /\ made[p] + 1 \notin alive[p]
         /\ made' \in [Pods -> {0} \cup Instances] /\ alive' \in [Pods -> SUBSET Instances]
         /\ made'[p] = made[p] + 1 /\ alive'[p] = alive[p] \cup {made[p] + 1}
         /\ \A q \in Pods \ {p} : made'[q] = made[q] /\ alive'[q] = alive[q]
         /\ \A n \in alive'[p] : n <= made'[p]
<1>1. /\ made[p] \in Nat /\ Requests(p) \in Nat /\ MostMade(p) \in Nat
      /\ made[p] < Requests(p) /\ Requests(p) <= MostMade(p) /\ Rents(p)
  BY Numbers DEF LaunchOK, Requests
<1>2. made[p] + 1 \in Instances /\ made[p] + 1 <= Requests(p)
  BY <1>1, Numbers
<1>3. /\ made' = [made EXCEPT ![p] = made[p] + 1]
      /\ alive' = [alive EXCEPT ![p] = alive[p] \cup {made[p] + 1}]
  BY DEF MadeOneMore
<1>4. alive[p] \subseteq Instances /\ \A n \in alive[p] : n <= made[p]
  BY DEF TypeOK, LaunchOK
<1>5. made[p] + 1 \notin alive[p] /\ \A n \in alive[p] \cup {made[p] + 1} : n <= made[p] + 1
  BY <1>1, <1>4 DEF Instances
<1> QED
  BY <1>1, <1>2, <1>3, <1>5 DEF TypeOK

(* What another request is made after has been lost. *)
LEMMA RentedLost ==
  ASSUME TypeOK, NEW p \in Pods, LostOK(p), spin[p] = "create", made'[p] = made[p] + 1,
         \A n \in Instances \ {made[p] + 1} : fault'[p][n] = fault[p][n],
         fault'[p][made[p] + 1] \in Unnamed \/ spin'[p] \notin {"offers", "create"}
  PROVE  LostOK(p)'
<1>1. made[p] \in Nat /\ Instances \subseteq Nat
  BY Numbers
<1>2. ASSUME NEW n \in Instances, n < made'[p] PROVE fault'[p][n] \in Unnamed
  <2>1. n # made[p] + 1 /\ (n < made[p] \/ n = made[p])
    BY <1>1, <1>2
  <2> QED
    BY <1>2, <2>1 DEF LostOK
<1> QED
  BY <1>2 DEF LostOK

LEMMA CreatedStep ==
  ASSUME FleetInv, NEW p \in Pods, Created(p)
  PROVE  FleetInv'
<1>1. /\ TypeOK /\ LaunchOK(p) /\ LostOK(p) /\ CauseOK(p) /\ KillsOK
      /\ spin[p] = "create" /\ MadeOneMore(p)
      /\ spin' = [spin EXCEPT ![p] = "boot"] /\ UNCHANGED <<attempt, fault>>
      /\ UNCHANGED <<procVars, offer, url, row, kills, verdict, bad>>
  BY DEF FleetInv, PodOK, Created, Rent, MadeOneMore, Goto
<1>2. /\ Rents(p) /\ made[p] + 1 \in Instances /\ made[p] + 1 <= Requests(p)
      /\ made' \in [Pods -> {0} \cup Instances] /\ alive' \in [Pods -> SUBSET Instances]
      /\ made'[p] = made[p] + 1 /\ alive'[p] = alive[p] \cup {made[p] + 1}
      /\ \A q \in Pods \ {p} : made'[q] = made[q] /\ alive'[q] = alive[q]
      /\ \A n \in alive'[p] : n <= made'[p]
  BY <1>1, Rented
<1>3. TypeOK'
  BY <1>1, <1>2 DEF TypeOK, SpinLocs, procVars
<1>4. spin'[p] = "boot" /\ \A q \in Pods \ {p} : spin'[q] = spin[q]
  BY <1>1 DEF TypeOK
<1>5. LaunchOK(p)' /\ LostOK(p)'
  <2>1. made'[p] # 0 /\ made'[p] <= Requests(p)
    BY <1>1, <1>2, Numbers
  <2>2. Requests(p)' = Requests(p)
    BY <1>1 DEF Requests
  <2>3. LaunchOK(p)'
    BY <1>1, <1>2, <1>4, <2>1, <2>2 DEF LaunchOK
  <2>4. LostOK(p)'
    BY <1>1, <1>2, <1>4, RentedLost
  <2> QED
    BY <2>3, <2>4
<1>6. CauseOK(p)'
  <2>1. ASSUME NEW n \in alive[p]
        PROVE  (Killing(p, n) \/ Live(p, n) \/ fault[p][n] \in Causes(p))'
    BY <1>1, <2>1 DEF CauseOK, Launching, Killing, Live
  <2>2. Launching(p, made[p])'
    BY <1>4 DEF Launching
  <2> QED
    BY <1>1, <1>2, <2>1, <2>2 DEF CauseOK
<1>7. HeldOK(p)'
  <2>1. ~Killing(p, made[p])'
    BY <1>1 DEF Killing, KillsOK, Late
  <2> QED
    BY <1>2, <2>1 DEF HeldOK
<1> QED
  BY <1>1, <1>2, <1>3, <1>4, <1>5, <1>6, <1>7, LaunchingMoves
     DEF Aside, Spinning, Late, procVars

(* The next offer, or launch() raises. *)
LEMMA NextOfferMoves ==
  ASSUME TypeOK, NEW p \in Pods, spin[p] = "create", LaunchOK(p), NextOffer(p)
  PROVE  /\ spin' \in [Pods -> SpinLocs] /\ attempt' \in [Pods -> 0..3]
         /\ offer' \in [Pods -> Nat] /\ cooling' \in [Workers -> BOOLEAN]
         /\ \A q \in Pods \ {p} :
              spin'[q] = spin[q] /\ attempt'[q] = attempt[q] /\ offer'[q] = offer[q]
         /\ \/ /\ spin'[p] = "offers" /\ attempt[p] < LaunchTries(p)
               /\ attempt'[p] = attempt[p] + 1 /\ offer'[p] = offer[p]
            \/ spin'[p] = "failed" /\ attempt'[p] = attempt[p] /\ offer'[p] = offer[p]
            \/ /\ spin'[p] = "create" /\ attempt'[p] = attempt[p]
               /\ offer'[p] = offer[p] + 1 /\ offer[p] < Offers(p)
<1>1. CASE offer[p] < Offers(p) /\ offer' = [offer EXCEPT ![p] = @ + 1]
           /\ UNCHANGED <<spin, attempt, cooling>>
  BY <1>1 DEF TypeOK
<1>2. CASE Raise(p, TRUE) /\ UNCHANGED offer
           /\ cooling' = [cooling EXCEPT ![WorkerOf[p]] = @ \/ Adapter[p] = "together"]
  <2>1. cooling' \in [Workers -> BOOLEAN]
    BY <1>2 DEF TypeOK
  <2> QED
    BY <1>2, <2>1, RaiseMoves DEF TypeOK
<1> QED
  BY <1>1, <1>2 DEF NextOffer

(* After a request that rented nothing, or whose answer does not name what it *)
(* rented: another try, another offer, or the end.                            *)
Unanswered(p, m) ==
  /\ m = made[p] \/ m = made[p] + 1
  /\ m <= Requests(p)
  /\ \A n \in alive'[p] : n <= m
  /\ made'[p] = m
  /\ \/ /\ spin'[p] = "offers" /\ attempt[p] < LaunchTries(p)
        /\ attempt'[p] = attempt[p] + 1 /\ offer'[p] = offer[p]
     \/ spin'[p] = "failed" /\ attempt'[p] = attempt[p] /\ offer'[p] = offer[p]
     \/ /\ spin'[p] = "create" /\ attempt'[p] = attempt[p]
        /\ offer'[p] = offer[p] + 1 /\ offer[p] < Offers(p)
        /\ Adapter[p] = "together" \/ m = made[p]

LEMMA UnansweredOK ==
  ASSUME TypeOK, NEW p \in Pods, LaunchOK(p), spin[p] = "create", NEW m, Unanswered(p, m)
  PROVE  LaunchOK(p)'
<1>1. /\ made[p] \in Nat /\ m \in Nat /\ attempt[p] \in 0..3 /\ offer[p] \in Nat
      /\ LaunchTries(p) \in 1..3 /\ Options \in Nat \ {0} /\ attempt[p] # 0
      /\ attempt[p] <= LaunchTries(p) /\ made[p] < Requests(p) /\ Rents(p)
      /\ Requests(p) <= MostMade(p)
  BY Numbers DEF LaunchOK, Unanswered
<1>2. CASE Adapter[p] = "together"
  <2>1. LaunchTries(p) = 1 /\ Offers(p) = Options /\ MostMade(p) = Options
        /\ Requests(p) = offer[p] /\ Requests(p)' = offer'[p]
    BY <1>2 DEF LaunchTries, Offers, MostMade, Requests
  <2> QED
    BY <1>1, <1>2, <2>1 DEF LaunchOK, Unanswered
<1>3. CASE Adapter[p] # "together"
  <2>1. MostMade(p) = LaunchTries(p) /\ Requests(p) = attempt[p] /\ Requests(p)' = attempt'[p]
    BY <1>3 DEF MostMade, Requests
  <2> QED
    BY <1>1, <1>3, <2>1 DEF LaunchOK, Unanswered
<1> QED
  BY <1>2, <1>3

(* The request makes an instance whose id launch() does not get. *)
LEMMA UnnamedStep ==
  ASSUME FleetInv, NEW p \in Pods, NEW what \in Unnamed, what \in Causes(p),
         spin[p] = "create", MadeOneMore(p), Befalls(p, made[p] + 1, what),
         Unanswered(p, made[p] + 1),
         \A q \in Pods \ {p} :
           spin'[q] = spin[q] /\ attempt'[q] = attempt[q] /\ offer'[q] = offer[q],
         spin' \in [Pods -> SpinLocs], attempt' \in [Pods -> 0..3],
         offer' \in [Pods -> Nat], cooling' \in [Workers -> BOOLEAN],
         UNCHANGED <<proc, batch, overlap, starts, url, row, kills, verdict, bad>>
  PROVE  FleetInv'
<1>1. TypeOK /\ LaunchOK(p) /\ LostOK(p) /\ CauseOK(p)
  BY DEF FleetInv, PodOK
<1>2. /\ Rents(p) /\ made[p] + 1 \in Instances /\ made[p] + 1 <= Requests(p)
      /\ made[p] + 1 \notin alive[p]
      /\ made' \in [Pods -> {0} \cup Instances] /\ alive' \in [Pods -> SUBSET Instances]
      /\ made'[p] = made[p] + 1 /\ alive'[p] = alive[p] \cup {made[p] + 1}
      /\ \A q \in Pods \ {p} : made'[q] = made[q] /\ alive'[q] = alive[q]
      /\ \A n \in alive'[p] : n <= made'[p]
  BY <1>1, Rented
<1>3. /\ fault' \in [Pods -> [Instances -> Faults]]
      /\ \A q \in Pods \ {p} : fault'[q] = fault[q]
      /\ fault'[p][made[p] + 1] = what
      /\ \A n \in Instances \ {made[p] + 1} : fault'[p][n] = fault[p][n]
  BY <1>1, <1>2, BefallsMoves DEF Unnamed, Faults
<1>4. TypeOK'
  BY <1>1, <1>2, <1>3 DEF TypeOK
<1>5. LaunchOK(p)' /\ LostOK(p)'
  BY <1>1, <1>2, <1>3, UnansweredOK, RentedLost
<1>6. CauseOK(p)'
  <2>1. \A n \in alive[p] : n \in Instances \ {made[p] + 1}
    BY <1>1, <1>2 DEF TypeOK
  <2>2. ASSUME NEW n \in alive[p]
        PROVE  (Killing(p, n) \/ Live(p, n) \/ fault[p][n] \in Causes(p))'
    BY <1>1, <1>3, <2>1, <2>2 DEF CauseOK, Launching, Killing, Live
  <2> QED
    BY <1>1, <1>2, <1>3, <2>2 DEF CauseOK
<1>7. spin'[p] \in {"offers", "failed", "create"}
  BY DEF Unanswered
<1>8. HeldOK(p)'
  BY <1>7 DEF HeldOK, Held
<1>9. \A n \in Instances : fault[p][n] \in Causes(p) => fault'[p][n] \in Causes(p)
  BY <1>3
<1> QED
  BY <1>1, <1>2, <1>3, <1>4, <1>5, <1>6, <1>7, <1>8, <1>9, LaunchingMoves
     DEF Aside, Spinning, Late

LEMMA ResponseLostStep ==
  ASSUME FleetInv, NEW p \in Pods, ResponseLost(p)
  PROVE  FleetInv'
<1>1. PICK retryable \in BOOLEAN : Raise(p, retryable)
  BY DEF ResponseLost
<1>2. TypeOK /\ LaunchOK(p) /\ spin[p] = "create" /\ MadeOneMore(p)
  BY DEF FleetInv, PodOK, ResponseLost, Rent, MadeOneMore
<1>3. /\ Befalls(p, made[p] + 1, "lost_response")
      /\ UNCHANGED <<procVars, offer, url, row, kills, verdict, bad>>
  BY DEF ResponseLost, Rent
<1>4. /\ spin' \in [Pods -> SpinLocs] /\ attempt' \in [Pods -> 0..3]
      /\ \A q \in Pods \ {p} : spin'[q] = spin[q] /\ attempt'[q] = attempt[q]
      /\ \/ /\ spin'[p] = "offers" /\ attempt[p] < LaunchTries(p)
            /\ attempt'[p] = attempt[p] + 1
         \/ spin'[p] = "failed" /\ attempt'[p] = attempt[p]
  BY <1>1, <1>2, RaiseMoves
<1>5. /\ made[p] + 1 <= Requests(p) /\ made'[p] = made[p] + 1
      /\ \A n \in alive'[p] : n <= made'[p]
  BY <1>2, Rented
<1>6. Unanswered(p, made[p] + 1)
  BY <1>3, <1>4, <1>5 DEF Unanswered
<1>7. "lost_response" \in Unnamed /\ "lost_response" \in Causes(p)
  BY DEF Unnamed, Causes
<1>8. offer' \in [Pods -> Nat] /\ cooling' \in [Workers -> BOOLEAN]
  BY <1>2, <1>3 DEF TypeOK, procVars
<1>9. UNCHANGED <<proc, batch, overlap, starts, url, row, kills, verdict, bad>>
  BY <1>3 DEF procVars
<1> QED
  BY <1>2, <1>3, <1>4, <1>6, <1>7, <1>8, <1>9, UnnamedStep

LEMMA ErrorAnswerStep ==
  ASSUME FleetInv, NEW p \in Pods, ErrorAnswer(p)
  PROVE  FleetInv'
<1>1. /\ TypeOK /\ LaunchOK(p) /\ spin[p] = "create" /\ MadeOneMore(p)
      /\ Befalls(p, made[p] + 1, "error_answer") /\ NextOffer(p) /\ Adapter[p] = "together"
      /\ UNCHANGED <<proc, batch, overlap, starts, url, row, kills, verdict, bad>>
  BY DEF FleetInv, PodOK, ErrorAnswer, MadeOneMore
<1>2. /\ spin' \in [Pods -> SpinLocs] /\ attempt' \in [Pods -> 0..3]
      /\ offer' \in [Pods -> Nat] /\ cooling' \in [Workers -> BOOLEAN]
      /\ \A q \in Pods \ {p} :
           spin'[q] = spin[q] /\ attempt'[q] = attempt[q] /\ offer'[q] = offer[q]
      /\ \/ /\ spin'[p] = "offers" /\ attempt[p] < LaunchTries(p)
            /\ attempt'[p] = attempt[p] + 1 /\ offer'[p] = offer[p]
         \/ spin'[p] = "failed" /\ attempt'[p] = attempt[p] /\ offer'[p] = offer[p]
         \/ /\ spin'[p] = "create" /\ attempt'[p] = attempt[p]
            /\ offer'[p] = offer[p] + 1 /\ offer[p] < Offers(p)
  BY <1>1, NextOfferMoves
<1>3. /\ made[p] + 1 <= Requests(p) /\ made'[p] = made[p] + 1
      /\ \A n \in alive'[p] : n <= made'[p]
  BY <1>1, Rented
<1>4. Unanswered(p, made[p] + 1)
  BY <1>1, <1>2, <1>3 DEF Unanswered
<1>5. "error_answer" \in Unnamed /\ "error_answer" \in Causes(p)
  BY <1>1 DEF Unnamed, Causes
<1> QED
  BY <1>1, <1>2, <1>4, <1>5, UnnamedStep

LEMMA CreateFailsStep ==
  ASSUME FleetInv, NEW p \in Pods, CreateFails(p) \/ NoCapacity(p)
  PROVE  FleetInv'
<1>1. /\ TypeOK /\ LaunchOK(p) /\ LostOK(p) /\ CauseOK(p) /\ spin[p] = "create"
      /\ UNCHANGED <<proc, batch, overlap, starts, url, row, cloudVars, verdict, bad>>
  BY DEF FleetInv, PodOK, CreateFails, NoCapacity, procVars
<1>2. /\ spin' \in [Pods -> SpinLocs] /\ attempt' \in [Pods -> 0..3]
      /\ offer' \in [Pods -> Nat] /\ cooling' \in [Workers -> BOOLEAN]
      /\ \A q \in Pods \ {p} :
           spin'[q] = spin[q] /\ attempt'[q] = attempt[q] /\ offer'[q] = offer[q]
      /\ \/ /\ spin'[p] = "offers" /\ attempt[p] < LaunchTries(p)
            /\ attempt'[p] = attempt[p] + 1 /\ offer'[p] = offer[p]
         \/ spin'[p] = "failed" /\ attempt'[p] = attempt[p] /\ offer'[p] = offer[p]
         \/ /\ spin'[p] = "create" /\ attempt'[p] = attempt[p]
            /\ offer'[p] = offer[p] + 1 /\ offer[p] < Offers(p)
  <2>1. CASE CreateFails(p)
    BY <1>1, <2>1, RaiseMoves DEF TypeOK, CreateFails, procVars
  <2>2. CASE NoCapacity(p)
    BY <1>1, <2>2, NextOfferMoves DEF NoCapacity
  <2> QED
    BY <2>1, <2>2
<1>3. TypeOK'
  BY <1>1, <1>2 DEF TypeOK, cloudVars
<1>4. made'[p] = made[p] /\ alive'[p] = alive[p] /\ fault'[p] = fault[p]
  BY <1>1 DEF cloudVars
<1>5. LaunchOK(p)' /\ LostOK(p)'
  <2>1. made[p] <= Requests(p) /\ \A n \in alive[p] : n <= made[p]
    BY <1>1 DEF LaunchOK
  <2>2. Unanswered(p, made[p])
    BY <1>2, <1>4, <2>1 DEF Unanswered
  <2>3. LostOK(p)'
    BY <1>1, <1>4 DEF LostOK
  <2> QED
    BY <1>1, <2>2, <2>3, UnansweredOK
<1>6. CauseOK(p)'
  BY <1>1, <1>2, <1>4 DEF CauseOK, Launching, Killing, Live, cloudVars
<1>7. HeldOK(p)'
  BY <1>2 DEF HeldOK, Held
<1> QED
  BY <1>1, <1>2, <1>3, <1>5, <1>6, <1>7, LaunchingMoves
     DEF Aside, Spinning, Late, cloudVars

LEMMA BootStep ==
  ASSUME FleetInv, NEW p \in Pods, Boot(p)
  PROVE  FleetInv'
<1>1. /\ TypeOK /\ LaunchOK(p) /\ LostOK(p) /\ CauseOK(p) /\ KillsOK /\ spin[p] = "boot"
      /\ ~overlap => HeldOK(p)
      /\ UNCHANGED <<procVars, offer, row, made, alive, kills, verdict, bad>>
  BY DEF FleetInv, PodOK, CleanInv, Boot
<1>2. CASE \E seen \in BOOLEAN : Booted(p, seen)
  <2>1. /\ spin' = [spin EXCEPT ![p] = "name"] /\ UNCHANGED <<attempt, fault>>
        /\ url' \in [Pods -> BOOLEAN]
    BY <1>1, <1>2 DEF Booted, Goto, TypeOK
  <2>2. spin'[p] = "name" /\ \A q \in Pods \ {p} : spin'[q] = spin[q]
    BY <1>1, <2>1 DEF TypeOK
  <2>3. TypeOK'
    BY <1>1, <2>1 DEF TypeOK, SpinLocs, procVars
  <2>4. LaunchOK(p)' /\ LostOK(p)'
    BY <1>1, <2>1, <2>2 DEF LaunchOK, LostOK, Requests
  <2>5. CauseOK(p)'
    BY <1>1, <2>1, <2>2 DEF CauseOK, Launching, Killing, Live
  <2>6. ~overlap => HeldOK(p)'
    BY <1>1, <2>1, <2>2 DEF HeldOK, Held, Killing, procVars
  <2> QED
    BY <1>1, <2>1, <2>2, <2>3, <2>4, <2>5, <2>6, LaunchingMoves
       DEF Aside, Spinning, Late, procVars
<1>3. CASE /\ Adapter[p] = "together" /\ Raise(p, TRUE)
           /\ Befalls(p, made[p], "not_running") /\ UNCHANGED url
  <2>1. /\ spin' \in [Pods -> SpinLocs] /\ attempt' \in [Pods -> 0..3]
        /\ \A q \in Pods \ {p} : spin'[q] = spin[q] /\ attempt'[q] = attempt[q]
        /\ \/ /\ spin'[p] = "offers" /\ attempt[p] < LaunchTries(p)
              /\ attempt'[p] = attempt[p] + 1
           \/ spin'[p] = "failed" /\ attempt'[p] = attempt[p]
    BY <1>1, <1>3, RaiseMoves
  <2>2. made[p] \in Instances /\ attempt[p] \in 0..3 /\ attempt[p] # 0 /\ LaunchTries(p) = 1
    BY <1>1, <1>3 DEF TypeOK, LaunchOK, LaunchTries
  <2>3. /\ fault' \in [Pods -> [Instances -> Faults]]
        /\ \A q \in Pods \ {p} : fault'[q] = fault[q]
        /\ fault'[p][made[p]] = "not_running" /\ "not_running" \in Causes(p)
        /\ \A n \in Instances \ {made[p]} : fault'[p][n] = fault[p][n]
    BY <1>1, <1>3, <2>2 DEF TypeOK, Faults, Befalls, Causes
  <2>4. TypeOK'
    BY <1>1, <1>3, <2>1, <2>3 DEF TypeOK, procVars
  <2>5. LaunchOK(p)' /\ LostOK(p)'
    <3>1. spin'[p] = "failed" /\ attempt'[p] = attempt[p]
      BY <2>1, <2>2
    <3> QED
      BY <1>1, <2>3, <3>1, LostKeeps DEF LaunchOK, Requests
  <2>6. CauseOK(p)'
    <3>1. \A n \in alive[p] : n \in Instances
      BY <1>1 DEF TypeOK
    <3> QED
      BY <1>1, <2>3, <3>1 DEF CauseOK, Launching, Killing, Live
  <2>7. HeldOK(p)'
    BY <2>1 DEF HeldOK, Held
  <2>8. \A n \in Instances : fault[p][n] \in Causes(p) => fault'[p][n] \in Causes(p)
    BY <2>3
  <2> QED
    BY <1>1, <2>1, <2>3, <2>4, <2>5, <2>6, <2>7, <2>8, LaunchingMoves
       DEF Aside, Spinning, Late, procVars
<1> QED
  BY <1>2, <1>3 DEF Boot

LEMMA MarkLaunchFailedStep ==
  ASSUME FleetInv, NEW p \in Pods, MarkLaunchFailed(p)
  PROVE  FleetInv'
<1>1. /\ TypeOK /\ PodOK(p) /\ spin[p] = "failed" /\ Running(WorkerOf[p])
      /\ row' = [row EXCEPT ![p].status = IF Exists(p) THEN "failed" ELSE @]
      /\ spin' = [spin EXCEPT ![p] = "done"]
      /\ UNCHANGED <<procVars, attempt, offer, url, cloudVars, verdict, bad>>
  BY DEF FleetInv, PodOK, OwnerOK, Spinning, MarkLaunchFailed, Goto
<1>2. /\ spin'[p] = "done" /\ \A q \in Pods \ {p} : spin'[q] = spin[q] /\ row'[q] = row[q]
      /\ row' \in [Pods -> Row]
      /\ row'[p].ext = row[p].ext /\ row'[p].failures = row[p].failures
      /\ row[p].status = "none" => row'[p].status = "none" /\ row'[p] = NoRow
      /\ row[p].status # "none" => row'[p].status = "failed"
  <2> DEFINE s == IF Exists(p) THEN "failed" ELSE row[p].status
  <2>1. s \in Status /\ row' = [row EXCEPT ![p].status = s]
    BY <1>1 DEF TypeOK, Row, Status
  <2>2. /\ row[p].status = "none" => s = "none"
        /\ row[p].status # "none" => s = "failed"
    BY DEF Exists
  <2> HIDE DEF s
  <2>3. /\ row' \in [Pods -> Row] /\ row'[p].status = s
        /\ row'[p].ext = row[p].ext /\ row'[p].failures = row[p].failures
        /\ \A q \in Pods \ {p} : row'[q] = row[q]
    BY <1>1, <2>1, StatusMoves
  <2>4. row[p].status = "none" => row'[p] = NoRow
    BY <1>1, <2>2, <2>3 DEF TypeOK, PodOK, RowOK, Row, NoRow
  <2> QED
    BY <1>1, <2>2, <2>3, <2>4 DEF TypeOK
<1>3. TypeOK'
  BY <1>1, <1>2 DEF TypeOK, SpinLocs, procVars, cloudVars
<1>4. CallMove(p)
  BY <1>1, <1>2 DEF CallMove, Aside, Late, procVars, cloudVars
<1>5. row[p].ext = 0 /\ row[p].failures = 0 /\ bad[p] \in Nat
  BY <1>1, FleetAssumption DEF TypeOK, PodOK, RowOK, CountOK, Late
<1>6. PodOK(p)'
  <2>1. LaunchOK(p)' /\ LostOK(p)'
    BY <1>1, <1>2, LostKeeps DEF PodOK, LaunchOK, Requests, cloudVars
  <2>2. RowOK(p)' /\ CountOK(p)' /\ OwnerOK(p)'
    BY <1>1, <1>2, <1>5 DEF PodOK, RowOK, CountOK, OwnerOK, Running, Spinning, procVars
  <2>3. CauseOK(p)'
    <3>1. \A n \in alive[p] : n # 0
      BY <1>1 DEF TypeOK, Instances
    <3> QED
      BY <1>1, <1>2, <1>5, <3>1 DEF PodOK, CauseOK, Launching, Killing, Live, cloudVars
  <2> QED
    BY <2>1, <2>2, <2>3 DEF PodOK
<1>7. HeldOK(p)'
  BY <1>2 DEF HeldOK, Held
<1> QED
  BY <1>1, <1>2, <1>3, <1>4, <1>6, <1>7, CallKeeps

LEMMA MarkStartingStep ==
  ASSUME FleetInv, NEW p \in Pods, MarkStarting(p)
  PROVE  FleetInv'
<1>1. /\ TypeOK /\ PodOK(p) /\ KillsOK /\ spin[p] = "name" /\ Running(WorkerOf[p])
      /\ ~overlap => HeldOK(p)
      /\ UNCHANGED <<procVars, attempt, offer, url, made, alive, kills, verdict, bad>>
  BY DEF FleetInv, CleanInv, PodOK, OwnerOK, Spinning, MarkStarting
<1>2. /\ row[p].ext = 0 /\ row[p].failures = 0 /\ bad[p] \in Nat /\ row[p].status # "ready"
      /\ made[p] \in {0} \cup Instances /\ (Rents(p) => made[p] \in Instances /\ made[p] # 0)
  BY <1>1, FleetAssumption DEF TypeOK, PodOK, LaunchOK, RowOK, CountOK, Late
<1>3. \A n \in alive[p] : n \in Instances /\ n # 0
  BY <1>1 DEF TypeOK, Instances
<1>4. CASE Exists(p)
  <2>1. /\ row' = [row EXCEPT ![p].status = "starting", ![p].ext = made[p]]
        /\ spin' = [spin EXCEPT ![p] = IF NeedsOllamaCheck(p) THEN "await" ELSE "publish"]
        /\ UNCHANGED fault
    BY <1>4 DEF MarkStarting, Goto
  <2>2. /\ spin'[p] \in {"await", "publish"} /\ row'[p].status = "starting"
        /\ row'[p].ext = made[p] /\ row'[p].failures = row[p].failures
        /\ row' \in [Pods -> Row]
        /\ \A q \in Pods \ {p} : spin'[q] = spin[q] /\ row'[q] = row[q]
    <3> DEFINE new == [row[p] EXCEPT !.status = "starting", !.ext = made[p]]
    <3>1. row[p] \in Row /\ row \in [Pods -> Row] /\ made[p] \in {0} \cup Instances
      BY <1>1, <1>2 DEF TypeOK
    <3>2. /\ new \in Row /\ new.status = "starting"
          /\ new.ext = made[p] /\ new.failures = row[p].failures
      BY <3>1 DEF Row, Status
    <3>3. row' = [row EXCEPT ![p] = new]
      BY <2>1
    <3> HIDE DEF new
    <3>4. /\ row' \in [Pods -> Row] /\ row'[p] = new
          /\ \A q \in Pods \ {p} : row'[q] = row[q]
      BY <3>1, <3>2, <3>3
    <3>5. /\ spin'[p] \in {"await", "publish"}
          /\ \A q \in Pods \ {p} : spin'[q] = spin[q]
      BY <1>1, <2>1 DEF TypeOK
    <3> QED
      BY <3>2, <3>4, <3>5
  <2>3. TypeOK'
    BY <1>1, <2>1, <2>2 DEF TypeOK, SpinLocs, procVars
  <2>4. CallMove(p)
    BY <1>1, <2>1, <2>2 DEF CallMove, Aside, Late, procVars
  <2>5. PodOK(p)'
    <3>1. LaunchOK(p)' /\ LostOK(p)'
      BY <1>1, <2>1, <2>2, LostKeeps DEF PodOK, LaunchOK, Requests
    <3>2. RowOK(p)' /\ CountOK(p)' /\ OwnerOK(p)'
      BY <1>1, <1>2, <2>2 DEF RowOK, CountOK, OwnerOK, Running, Spinning, Named, Exists, Late,
                              Instances, procVars
    <3>3. CauseOK(p)'
      BY <1>1, <1>2, <1>3, <2>1, <2>2 DEF PodOK, CauseOK, Launching, Killing, Live
    <3> QED
      BY <3>1, <3>2, <3>3 DEF PodOK
  <2>6. ~overlap => HeldOK(p)'
    BY <1>1, <2>1, <2>2 DEF HeldOK, Held, Killing, procVars
  <2> QED
    BY <1>1, <2>2, <2>3, <2>4, <2>5, <2>6, CallKeeps
<1>5. CASE ~Exists(p)
  <2>1. /\ spin' = [spin EXCEPT ![p] = "done"] /\ UNCHANGED row
        /\ IF Rents(p) THEN Befalls(p, made[p], "row_deleted") ELSE UNCHANGED fault
    BY <1>5 DEF MarkStarting, Goto
  <2>2. /\ spin'[p] = "done" /\ \A q \in Pods \ {p} : spin'[q] = spin[q]
    BY <1>1, <2>1 DEF TypeOK
  <2>3. /\ fault' \in [Pods -> [Instances -> Faults]] /\ "row_deleted" \in Causes(p)
        /\ \A q \in Pods \ {p} : fault'[q] = fault[q]
        /\ Rents(p) => fault'[p][made[p]] = "row_deleted"
        /\ \A n \in Instances : (Rents(p) /\ n = made[p]) \/ fault'[p][n] = fault[p][n]
    <3>1. "row_deleted" \in Faults /\ "row_deleted" \in Causes(p)
      BY DEF Faults, Causes
    <3>2. CASE Rents(p)
      BY <1>1, <1>2, <2>1, <3>1, <3>2, BefallsMoves
    <3>3. CASE ~Rents(p)
      BY <1>1, <2>1, <3>1, <3>3 DEF TypeOK
    <3> QED
      BY <3>2, <3>3
  <2>4. TypeOK'
    BY <1>1, <2>1, <2>3 DEF TypeOK, SpinLocs, procVars
  <2>5. CallMove(p)
    BY <1>1, <2>1, <2>2, <2>3 DEF CallMove, Aside, Late, procVars
  <2>6. PodOK(p)'
    <3>1. LaunchOK(p)' /\ LostOK(p)'
      <4>1. \A n \in Instances \ {made[p]} : fault'[p][n] = fault[p][n]
        BY <2>3
      <4> QED
        BY <1>1, <2>1, <2>2, <4>1, LostKeeps DEF PodOK, LaunchOK, Requests
    <3>2. RowOK(p)' /\ CountOK(p)' /\ OwnerOK(p)'
      BY <1>1, <1>2, <1>5, <2>1, <2>2 DEF PodOK, RowOK, CountOK, OwnerOK, Running, Spinning, Exists,
                                          procVars
    <3>3. \A n \in alive[p] : n = made[p] => Rents(p)
      BY <1>1, <1>3 DEF PodOK, LaunchOK
    <3>4. CauseOK(p)'
      BY <1>1, <1>3, <2>1, <2>3, <3>3 DEF PodOK, CauseOK, Launching, Killing, Live
    <3> QED
      BY <3>1, <3>2, <3>4 DEF PodOK
  <2>7. HeldOK(p)'
    BY <1>5, <2>1, <2>2 DEF HeldOK, Held, Exists
  <2> QED
    BY <1>1, <2>2, <2>4, <2>5, <2>6, <2>7, CallKeeps
<1> QED
  BY <1>4, <1>5

LEMMA AwaitReadyStep ==
  ASSUME FleetInv, NEW p \in Pods, AwaitReady(p)
  PROVE  FleetInv'
<1>1. /\ TypeOK /\ PodOK(p) /\ spin[p] = "await" /\ Running(WorkerOf[p])
      /\ ~overlap => HeldOK(p)
      /\ UNCHANGED <<procVars, attempt, offer, url, row, made, alive, kills, verdict, bad>>
  BY DEF FleetInv, CleanInv, PodOK, OwnerOK, Spinning, AwaitReady
<1>2. /\ spin' \in [Pods -> SpinLocs] /\ spin'[p] \in {"publish", "done"}
      /\ \A q \in Pods \ {p} : spin'[q] = spin[q]
  BY <1>1 DEF TypeOK, SpinLocs, AwaitReady, Goto
<1>3. /\ fault' \in [Pods -> [Instances -> Faults]] /\ "not_ready" \in Causes(p)
      /\ \A q \in Pods \ {p} : fault'[q] = fault[q]
      /\ \A n \in Instances \ {made[p]} : fault'[p][n] = fault[p][n]
      /\ fault'[p] = fault[p] \/ fault'[p][made[p]] = "not_ready"
      /\ Rents(p) => spin'[p] = "publish" \/ fault'[p][made[p]] = "not_ready"
  <2>1. "not_ready" \in Faults /\ "not_ready" \in Causes(p)
    BY DEF Faults, Causes
  <2>2. Rents(p) => made[p] \in Instances
    BY <1>1 DEF PodOK, LaunchOK, TypeOK
  <2>3. CASE UNCHANGED fault /\ (Rents(p) => spin'[p] = "publish")
    BY <1>1, <2>1, <2>3 DEF TypeOK
  <2>4. CASE Rents(p) /\ Befalls(p, made[p], "not_ready")
    BY <1>1, <2>1, <2>2, <2>4, BefallsMoves
  <2>5. spin' = [spin EXCEPT ![p] = "publish"] => spin'[p] = "publish"
    BY <1>1 DEF TypeOK
  <2> QED
    BY <2>3, <2>4, <2>5 DEF AwaitReady, Goto
<1>4. TypeOK'
  BY <1>1, <1>2, <1>3 DEF TypeOK, procVars
<1>5. CallMove(p)
  BY <1>1, <1>2, <1>3 DEF CallMove, Aside, Late, procVars
<1>6. PodOK(p)'
  <2>1. LaunchOK(p)' /\ LostOK(p)'
    BY <1>1, <1>2, <1>3, LostKeeps DEF PodOK, LaunchOK, Requests
  <2>2. RowOK(p)' /\ CountOK(p)' /\ OwnerOK(p)'
    BY <1>1, <1>2, FleetAssumption
       DEF PodOK, RowOK, CountOK, OwnerOK, Running, Spinning, Named, Exists, Late, procVars
  <2>3. CauseOK(p)'
    <3>1. \A n \in alive[p] : n \in Instances /\ Rents(p)
      BY <1>1 DEF PodOK, LaunchOK, TypeOK, Instances
    <3>2. ASSUME NEW n \in alive[p]
          PROVE  (\/ Launching(p, n) \/ Killing(p, n) \/ Live(p, n) \/ fault[p][n] \in Causes(p))'
      <4>1. CASE n = made[p] /\ spin'[p] # "publish"
        BY <1>3, <3>1, <4>1
      <4>2. CASE n # made[p] \/ spin'[p] = "publish"
        <5>1. fault[p][n] \in Causes(p) => fault'[p][n] \in Causes(p)
          BY <1>3, <3>1
        <5>2. ~Launching(p, n)
          BY <1>1 DEF Launching
        <5>3. Live(p, n) => Live(p, n)' \/ fault'[p][n] \in Causes(p)
          <6>1. n # 0 /\ row[p].status # "ready" /\ (row[p].ext # 0 => row[p].ext = made[p])
            BY <1>1, <3>1, Numbers DEF PodOK, RowOK
          <6> QED
            BY <1>1, <1>2, <4>2, <6>1 DEF Live
        <5> QED
          BY <1>1, <5>1, <5>2, <5>3 DEF PodOK, CauseOK, Killing
      <4> QED
        BY <4>1, <4>2
    <3> QED
      BY <1>1, <1>3, <3>2 DEF PodOK, CauseOK
  <2> QED
    BY <2>1, <2>2, <2>3 DEF PodOK
<1>7. ~overlap => HeldOK(p)'
  BY <1>1, <1>2 DEF HeldOK, Held, Killing, procVars
<1> QED
  BY <1>1, <1>2, <1>4, <1>5, <1>6, <1>7, CallKeeps

LEMMA PublishStep ==
  ASSUME FleetInv, NEW p \in Pods, Publish(p)
  PROVE  FleetInv'
<1>1. /\ TypeOK /\ PodOK(p) /\ spin[p] = "publish" /\ Running(WorkerOf[p])
      /\ ~overlap => HeldOK(p)
      /\ row' = [row EXCEPT ![p].status = IF Exists(p) THEN "ready" ELSE @]
      /\ spin' = [spin EXCEPT ![p] = "done"]
      /\ UNCHANGED <<procVars, attempt, offer, url, cloudVars, verdict, bad>>
  BY DEF FleetInv, CleanInv, PodOK, OwnerOK, Spinning, Publish, Goto
<1>2. /\ spin'[p] = "done" /\ \A q \in Pods \ {p} : spin'[q] = spin[q] /\ row'[q] = row[q]
      /\ row' \in [Pods -> Row]
      /\ row'[p].ext = row[p].ext /\ row'[p].failures = row[p].failures
      /\ row[p].status = "none" => row'[p].status = "none" /\ row'[p] = NoRow
      /\ row[p].status # "none" => row'[p].status = "ready"
  <2> DEFINE s == IF Exists(p) THEN "ready" ELSE row[p].status
  <2>1. s \in Status /\ row' = [row EXCEPT ![p].status = s]
    BY <1>1 DEF TypeOK, Row, Status
  <2>2. /\ row[p].status = "none" => s = "none"
        /\ row[p].status # "none" => s = "ready"
    BY DEF Exists
  <2> HIDE DEF s
  <2>3. /\ row' \in [Pods -> Row] /\ row'[p].status = s
        /\ row'[p].ext = row[p].ext /\ row'[p].failures = row[p].failures
        /\ \A q \in Pods \ {p} : row'[q] = row[q]
    BY <1>1, <2>1, StatusMoves
  <2>4. row[p].status = "none" => row'[p] = NoRow
    BY <1>1, <2>2, <2>3 DEF TypeOK, PodOK, RowOK, Row, NoRow
  <2> QED
    BY <1>1, <2>2, <2>3, <2>4 DEF TypeOK
<1>3. TypeOK'
  BY <1>1, <1>2 DEF TypeOK, SpinLocs, procVars, cloudVars
<1>4. CallMove(p)
  BY <1>1, <1>2 DEF CallMove, Aside, Late, procVars, cloudVars
<1>5. row[p].failures = 0 /\ bad[p] \in Nat /\ 0 < FailThreshold /\ Named(p)
  BY <1>1, FleetAssumption DEF TypeOK, PodOK, RowOK, CountOK
<1>6. PodOK(p)'
  <2>1. LaunchOK(p)' /\ LostOK(p)'
    BY <1>1, <1>2, LostKeeps DEF PodOK, LaunchOK, Requests, cloudVars
  <2>2. RowOK(p)' /\ CountOK(p)' /\ OwnerOK(p)'
    BY <1>1, <1>2, <1>5 DEF PodOK, RowOK, CountOK, OwnerOK, Running, Spinning, Named, Exists, Late,
                            procVars, cloudVars
  <2>3. CauseOK(p)'
    <3>1. \A n : Live(p, n) => Live(p, n)'
      BY <1>2 DEF Live
    <3> QED
      BY <1>1, <1>2, <3>1 DEF PodOK, CauseOK, Launching, Killing, cloudVars
  <2> QED
    BY <2>1, <2>2, <2>3 DEF PodOK
<1>7. ~overlap => HeldOK(p)'
  BY <1>1, <1>2 DEF HeldOK, Held, Killing, cloudVars, procVars
<1> QED
  BY <1>1, <1>2, <1>3, <1>4, <1>6, <1>7, CallKeeps

LEMMA MarkPodFailedStep ==
  ASSUME FleetInv, NEW p \in Pods, MarkPodFailed(p)
  PROVE  FleetInv'
<1>1. /\ TypeOK /\ PodOK(p) /\ proc[WorkerOf[p]] = "up" /\ row[p].status = "ready"
      /\ row' = [row EXCEPT ![p].status = "failed"]
      /\ IF Rents(p) THEN Befalls(p, row[p].ext, "marked_failed") ELSE UNCHANGED fault
      /\ UNCHANGED <<procVars, spinVars, made, alive, kills, verdict, bad>>
  BY DEF FleetInv, MarkPodFailed
<1>2. /\ spin[p] \in {"done", "past"} /\ (~overlap => spin[p] # "past")
      /\ Rents(p) => row[p].ext \in Instances
  BY <1>1, FleetAssumption
     DEF FleetInv, CleanInv, Cleaned, Exists, PodOK, RowOK, Named, TypeOK, Row
<1>3. /\ row' \in [Pods -> Row] /\ row'[p].ext = row[p].ext
      /\ row'[p].failures = row[p].failures
      /\ row'[p].status = "failed" /\ \A q \in Pods \ {p} : row'[q] = row[q]
  BY <1>1, StatusMoves DEF Status
<1>4. /\ fault' \in [Pods -> [Instances -> Faults]] /\ "marked_failed" \in Causes(p)
      /\ \A q \in Pods \ {p} : fault'[q] = fault[q]
      /\ Rents(p) => fault'[p][row[p].ext] = "marked_failed"
      /\ \A n \in Instances : (Rents(p) /\ n = row[p].ext) \/ fault'[p][n] = fault[p][n]
  <2>1. "marked_failed" \in Faults /\ "marked_failed" \in Causes(p)
    BY DEF Faults, Causes
  <2>2. CASE Rents(p)
    BY <1>1, <1>2, <2>1, <2>2, BefallsMoves
  <2>3. CASE ~Rents(p)
    BY <1>1, <2>1, <2>3 DEF TypeOK
  <2> QED
    BY <2>2, <2>3
<1>5. TypeOK'
  BY <1>1, <1>3, <1>4 DEF TypeOK, procVars, spinVars
<1>6. CallMove(p)
  BY <1>1, <1>3, <1>4 DEF CallMove, Aside, Named, Exists, procVars, spinVars
<1>7. PodOK(p)'
  <2>1. LaunchOK(p)' /\ LostOK(p)'
    <3>1. Rents(p) => row[p].ext = made[p]
      BY <1>1, <1>2 DEF PodOK, RowOK, Instances
    <3> QED
      BY <1>1, <1>2, <1>4, <3>1, LostKeeps DEF PodOK, LaunchOK, Requests, spinVars
  <2>2. RowOK(p)' /\ CountOK(p)' /\ OwnerOK(p)'
    BY <1>1, <1>2, <1>3 DEF PodOK, RowOK, CountOK, OwnerOK, Running, Spinning, procVars, spinVars
  <2>3. \A n \in alive[p] : n \in Instances /\ Rents(p)
    BY <1>1 DEF PodOK, LaunchOK, TypeOK, Instances
  <2>4. CauseOK(p)'
    BY <1>1, <1>4, <2>3 DEF PodOK, CauseOK, Launching, Killing, Live, spinVars
  <2> QED
    BY <2>1, <2>2, <2>4 DEF PodOK
<1>8. HeldOK(p)'
  BY <1>1, <1>2, <1>3 DEF HeldOK, Held, spinVars
<1> QED
  BY <1>1, <1>2, <1>5, <1>6, <1>7, <1>8, CallKeeps DEF spinVars, Running

-----------------------------------------------------------------------------
(***************************************************************************)
(* Processes and terminations: their steps take nothing back that others    *)
(* know of a pod.                                                           *)
(***************************************************************************)
Settled(q) ==
  /\ made'[q] = made[q] /\ attempt'[q] = attempt[q] /\ offer'[q] = offer[q]
  /\ alive'[q] \subseteq alive[q]
  /\ spin'[q] = spin[q] \/ (spin[q] # "idle" /\ spin'[q] = "past")
  /\ bad[q] <= bad'[q]
  /\ \A n \in Instances :
       \/ fault'[q][n] = fault[q][n]
       \/ fault'[q][n] \in Causes(q) /\ n = made[q] /\ spin'[q] \notin {"offers", "create"}
  /\ \/ row'[q] = row[q]
     \/ row'[q] = NoRow
     \/ /\ Exists(q) /\ row'[q].status \in {"failed", "terminated"}
        /\ row'[q].ext = row[q].ext /\ row'[q].failures = row[q].failures

LEMMA SettledPod ==
  ASSUME FleetInv, TypeOK', NEW q \in Pods, Settled(q), OwnerOK(q)',
         \A n \in alive'[q] : (\/ Launching(q, n) \/ Killing(q, n) \/ Live(q, n)
                               \/ fault[q][n] \in Causes(q))'
  PROVE  PodOK(q)'
<1>1. TypeOK /\ PodOK(q)
  BY DEF FleetInv
<1>2. LaunchOK(q)' /\ LostOK(q)'
  <2>1. LaunchOK(q)'
    BY <1>1 DEF Settled, PodOK, LaunchOK, Requests, Exists, NoRow
  <2>2. LostOK(q) /\ made'[q] = made[q]
    BY <1>1 DEF PodOK, Settled
  <2>3. LostOK(q)'
    <3>1. spin'[q] \in {"offers", "create"} => spin[q] \in {"offers", "create"}
      BY DEF Settled
    <3>2. ASSUME NEW n \in Instances
          PROVE  \/ fault'[q][n] = fault[q][n]
                 \/ n = made[q] /\ spin'[q] \notin {"offers", "create"}
      BY DEF Settled
    <3>3. made[q] \in Nat /\ Instances \subseteq Nat
      BY <1>1, Numbers
    <3>4. ASSUME NEW n \in Instances, n < made[q] PROVE fault'[q][n] \in Unnamed
      BY <2>2, <3>2, <3>3, <3>4 DEF LostOK
    <3>5. ASSUME NEW n \in Instances, n = made[q], spin'[q] \in {"offers", "create"}
          PROVE  fault'[q][n] \in Unnamed
      BY <2>2, <3>1, <3>2, <3>5 DEF LostOK
    <3> QED
      BY <2>2, <3>4, <3>5 DEF LostOK, Instances
  <2> QED
    BY <2>1, <2>3
<1>3. RowOK(q)'
  BY <1>1 DEF Settled, PodOK, RowOK, LaunchOK, Named, Exists, NoRow, Late
<1>4. CountOK(q)'
  <2>1. bad[q] \in Nat /\ bad'[q] \in Nat /\ bad[q] <= bad'[q] /\ row[q].failures \in Nat
    BY <1>1, FleetAssumption DEF TypeOK, Row, Settled
  <2>2. row'[q].failures \in {0, row[q].failures}
    BY DEF Settled, NoRow
  <2> QED
    BY <1>1, <2>1, <2>2 DEF Settled, PodOK, CountOK, NoRow
<1>5. CauseOK(q)'
  BY <1>1 DEF Settled, PodOK, CauseOK
<1> QED
  BY <1>2, <1>3, <1>4, <1>5 DEF PodOK

LEMMA SettledBatch ==
  ASSUME FleetInv, TypeOK', \A q \in Pods : Settled(q), NEW u \in Workers,
         batch'[u] = batch[u], proc'[u] = proc[u],
         \A b \in batch[u] : Awaited(u, b) =>
           \/ Awaited(u, b)'
           \/ b[2] \notin alive'[b[1]] \/ fault'[b[1]][b[2]] \in Causes(b[1])
  PROVE  BatchOK(u)'
<1> SUFFICES
      ASSUME NEW b \in batch[u]
      PROVE  /\ b[2] # 0 => b[2] = made'[b[1]] /\ spin'[b[1]] \in Late
             /\ proc'[u] = "stopping" /\ Rents(b[1]) => b[2] # 0
             /\ proc'[u] = "stopping" /\ b[2] \in alive'[b[1]] =>
                  fault'[b[1]][b[2]] \in Causes(b[1]) \/ Awaited(u, b)'
  BY DEF BatchOK
<1>1. b[1] \in Pods /\ Settled(b[1])
  BY DEF FleetInv, TypeOK
<1>2. /\ b[2] # 0 => b[2] = made[b[1]] /\ spin[b[1]] \in Late
      /\ proc[u] = "stopping" /\ Rents(b[1]) => b[2] # 0
      /\ proc[u] = "stopping" /\ b[2] \in alive[b[1]] =>
           fault[b[1]][b[2]] \in Causes(b[1]) \/ Awaited(u, b)
  BY DEF FleetInv, BatchOK
<1>3. b[2] \in alive'[b[1]] => b[2] \in Instances
  BY <1>1 DEF TypeOK
<1> QED
  BY <1>1, <1>2, <1>3 DEF Settled, Late

LEMMA SettledVerdict ==
  ASSUME FleetInv, TypeOK', \A q \in Pods : Settled(q), NEW u \in Workers,
         verdict'[u] \in {verdict[u], None}
  PROVE  VerdictOK(u)'
<1> SUFFICES ASSUME verdict'[u] # None
             PROVE  /\ Named(verdict[u][1])' /\ spin'[verdict[u][1]] \in {"done", "past"}
                    /\ verdict[u][2] <= bad'[verdict[u][1]]
  BY DEF VerdictOK, Named, Exists
<1> DEFINE p == verdict[u][1]
<1>1. /\ p \in Pods /\ Settled(p) /\ verdict[u][2] \in Nat
      /\ bad[p] \in Nat /\ bad'[p] \in Nat /\ verdict[u][2] <= bad[p]
      /\ Named(p) /\ spin[p] \in {"done", "past"}
  BY FleetAssumption DEF FleetInv, VerdictOK, TypeOK
<1> QED
  BY <1>1 DEF Settled, Named, Exists, NoRow

LEMMA SettledKills ==
  ASSUME FleetInv, \A q \in Pods : Settled(q),
         \A k \in kills' : \/ \E j \in kills : j.pod = k.pod /\ j.ext = k.ext
                           \/ /\ k.pod \in Pods /\ Rents(k.pod)
                              /\ k.ext = made[k.pod] /\ spin[k.pod] \in Late
  PROVE  KillsOK'
<1> SUFFICES ASSUME NEW k \in kills'
             PROVE  k.ext = made'[k.pod] /\ spin'[k.pod] \in Late /\ Rents(k.pod)
  BY DEF KillsOK
<1>1. k.pod \in Pods /\ Rents(k.pod) /\ k.ext = made[k.pod] /\ spin[k.pod] \in Late
  BY DEF FleetInv, KillsOK, TypeOK, Kill
<1> QED
  BY <1>1 DEF Settled, Late

(* A step after which everything that the invariant reads is the same. *)
LEMMA StillKeeps ==
  ASSUME FleetInv, TypeOK',
         UNCHANGED <<proc, batch, spin, attempt, offer, row, made, alive, kills, verdict,
                     fault, bad, overlap>>
  PROVE  FleetInv'
<1>1. ASSUME NEW q \in Pods PROVE Settled(q)
  BY <1>1, FleetAssumption DEF FleetInv, TypeOK, Settled
<1>2. ASSUME NEW q \in Pods PROVE PodOK(q)'
  BY <1>1, <1>2, SettledPod
     DEF FleetInv, PodOK, CauseOK, OwnerOK, Running, Spinning, Launching, Killing, Live
<1>3. \A u \in Workers : BatchOK(u)' /\ VerdictOK(u)'
  BY <1>1, SettledBatch, SettledVerdict DEF Awaited
<1>4. KillsOK'
  BY <1>1, SettledKills
<1>5. CleanInv'
  BY DEF FleetInv, CleanInv, Alone, Cleaned, HeldOK, Held, Killing, Exists
<1> QED
  BY <1>2, <1>3, <1>4, <1>5 DEF FleetInv

(* A pod is retired: its row leaves service, and what it names is terminated *)
(* or left behind for a reason.                                              *)
LEMMA RetiredKeeps ==
  ASSUME FleetInv, NEW p \in Pods, Exists(p), row' = [row EXCEPT ![p].status = "terminated"],
         TypeOK', kills \subseteq kills',
         \A k \in kills' \ kills : k.pod = p /\ Rents(p) /\ k.ext = row[p].ext /\ row[p].ext # 0
                                   /\ row[p].status = "ready",
         \A n \in Instances : fault'[p][n] = fault[p][n] \/ (fault'[p][n] \in Causes(p) /\ n = row[p].ext),
         \A q \in Pods \ {p} : fault'[q] = fault[q],
         \A n \in alive[p] : Live(p, n) => Killing(p, n)' \/ fault'[p][n] \in Causes(p),
         UNCHANGED <<proc, batch, overlap, spin, attempt, offer, made, alive, verdict, bad>>
  PROVE  FleetInv'
<1>1. /\ row'[p].status = "terminated" /\ row'[p].ext = row[p].ext
      /\ row'[p].failures = row[p].failures /\ row' \in [Pods -> Row]
      /\ \A q \in Pods \ {p} : row'[q] = row[q]
  BY StatusMoves DEF FleetInv, Status
<1>2. ASSUME NEW q \in Pods PROVE Settled(q)
  <2>1. bad[q] <= bad'[q]
    BY <1>2, FleetAssumption DEF FleetInv, TypeOK
  <2>2. CASE q = p
    <3>1. ASSUME NEW n \in Instances, fault'[p][n] # fault[p][n]
          PROVE  fault'[p][n] \in Causes(p) /\ n = made[p] /\ spin[p] \in Late
      <4>1. n # 0 /\ n = row[p].ext /\ fault'[p][n] \in Causes(p)
        BY <3>1, Numbers DEF FleetInv
      <4> QED
        BY <4>1 DEF FleetInv, PodOK, RowOK
    <3> QED
      BY <1>1, <2>1, <2>2, <3>1 DEF Settled, Late
  <2>3. CASE q # p
    BY <1>1, <2>1, <2>3 DEF Settled
  <2> QED
    BY <2>2, <2>3
<1>3. ASSUME NEW q \in Pods PROVE PodOK(q)'
  <2>1. TypeOK /\ PodOK(q)
    BY DEF FleetInv
  <2>2. OwnerOK(q)'
    BY <2>1 DEF PodOK, OwnerOK, Running, Spinning
  <2>3. ASSUME NEW n \in alive[q]
        PROVE  (Launching(q, n) \/ Killing(q, n) \/ Live(q, n) \/ fault[q][n] \in Causes(q))'
    <3>1. n \in Instances /\ (fault[q][n] \in Causes(q) => fault'[q][n] \in Causes(q))
      BY <1>2, <2>1, <2>3 DEF TypeOK, Settled
    <3>2. Launching(q, n) \/ Killing(q, n) \/ Live(q, n) \/ fault[q][n] \in Causes(q)
      BY <2>1, <2>3 DEF PodOK, CauseOK
    <3>3. Killing(q, n) => Killing(q, n)'
      BY DEF Killing
    <3>4. Live(q, n) => (Killing(q, n) \/ Live(q, n) \/ fault[q][n] \in Causes(q))'
      <4>1. CASE q = p
        BY <2>3, <4>1
      <4>2. CASE q # p
        BY <1>1, <4>2 DEF Live
      <4> QED
        BY <4>1, <4>2
    <3> QED
      BY <3>1, <3>2, <3>3, <3>4 DEF Launching
  <2> QED
    BY <1>2, <2>2, <2>3, SettledPod
<1>4. \A u \in Workers : BatchOK(u)' /\ VerdictOK(u)'
  BY <1>2, SettledBatch, SettledVerdict DEF Awaited
<1>5. KillsOK'
  <2>1. ASSUME NEW k \in kills', k \notin kills
        PROVE  /\ k.pod \in Pods /\ Rents(k.pod)
               /\ k.ext = made[k.pod] /\ spin[k.pod] \in Late
    BY <2>1 DEF FleetInv, PodOK, RowOK
  <2> QED
    BY <1>2, <2>1, SettledKills
<1>6. CleanInv'
  <2> SUFFICES ASSUME ~overlap PROVE Alone' /\ \A q \in Pods : Cleaned(q)' /\ HeldOK(q)'
    BY DEF CleanInv
  <2>1. Alone /\ \A q \in Pods : Cleaned(q) /\ HeldOK(q)
    BY DEF FleetInv, CleanInv
  <2>2. \A q \in Pods : Cleaned(q)'
    BY <1>1, <2>1 DEF Cleaned, Exists
  <2>3. ASSUME NEW q \in Pods, q # p PROVE HeldOK(q)'
    BY <1>1, <2>1, <2>3 DEF HeldOK, Held, Killing
  <2>4. HeldOK(p)'
    <3>1. Held(p)' => Held(p) /\ spin[p] \notin {"done", "past"}
      BY <1>1 DEF Held
    <3>2. row[p].status = "ready" => spin[p] \in {"done", "past"}
      BY DEF FleetInv, PodOK, RowOK
    <3>3. Held(p)' => kills' = kills
      BY <3>1, <3>2
    <3> QED
      BY <2>1, <3>1, <3>3 DEF HeldOK, Killing
  <2> QED
    BY <2>1, <2>2, <2>3, <2>4 DEF Alone
<1> QED
  BY <1>3, <1>4, <1>5, <1>6 DEF FleetInv

LEMMA DashboardKillStep ==
  ASSUME FleetInv, NEW p \in Pods, DashboardKill(p)
  PROVE  FleetInv'
<1>1. /\ TypeOK /\ PodOK(p) /\ Exists(p)
      /\ row' = [row EXCEPT ![p].status = "terminated"]
      /\ IF row[p].ext # 0 THEN Befalls(p, row[p].ext, "dashboard_kill") ELSE UNCHANGED fault
      /\ UNCHANGED <<procVars, spinVars, made, alive, kills, verdict, bad>>
  BY DEF FleetInv, DashboardKill
<1>2. row[p].ext \in {0} \cup Instances /\ "dashboard_kill" \in Faults /\ "dashboard_kill" \in Causes(p)
  BY <1>1 DEF TypeOK, Row, Faults, Causes
<1>3. /\ fault' \in [Pods -> [Instances -> Faults]]
      /\ \A q \in Pods \ {p} : fault'[q] = fault[q]
      /\ row[p].ext # 0 => fault'[p][row[p].ext] = "dashboard_kill"
      /\ \A n \in Instances : n # row[p].ext => fault'[p][n] = fault[p][n]
  <2>1. CASE row[p].ext # 0
    BY <1>1, <1>2, <2>1, BefallsMoves
  <2>2. CASE row[p].ext = 0
    BY <1>1, <2>2 DEF TypeOK
  <2> QED
    BY <2>1, <2>2
<1>4. \A n \in Instances : n # 0
  BY <1>1, Numbers
<1>5. row' \in [Pods -> Row]
  BY <1>1, StatusMoves DEF Status
<1>6. TypeOK'
  BY <1>1, <1>3, <1>5 DEF TypeOK, procVars, spinVars
<1>7. \A n \in alive[p] : Live(p, n) => fault'[p][n] \in Causes(p)
  BY <1>1, <1>2, <1>3, <1>4 DEF Live, TypeOK
<1>8. \A n \in Instances :
        fault'[p][n] = fault[p][n] \/ (fault'[p][n] \in Causes(p) /\ n = row[p].ext)
  BY <1>2, <1>3, <1>4
<1> QED
  BY <1>1, <1>3, <1>6, <1>7, <1>8, RetiredKeeps DEF procVars, spinVars

LEMMA RetireStep ==
  ASSUME FleetInv, NEW p \in Pods, Retire(p)
  PROVE  FleetInv'
<1>1. PICK w \in Workers :
        kills' = IF Rents(p) THEN kills \cup {Terminating(p, row[p].ext, w, FALSE)} ELSE kills
  BY DEF Retire
<1>2. /\ TypeOK /\ PodOK(p) /\ row[p].status = "ready"
      /\ row' = [row EXCEPT ![p].status = "terminated"]
      /\ UNCHANGED <<procVars, spinVars, made, alive, fault, verdict, bad>>
  BY DEF FleetInv, Retire
<1>3. Exists(p) /\ (Rents(p) => row[p].ext \in Instances /\ row[p].ext # 0)
  BY <1>2 DEF Exists, PodOK, RowOK, Named, TypeOK, Row
<1>4. row' \in [Pods -> Row]
  BY <1>2, StatusMoves DEF Status
<1>5. Rents(p) => /\ Terminating(p, row[p].ext, w, FALSE) \in Kill
                  /\ Terminating(p, row[p].ext, w, FALSE).pod = p
                  /\ Terminating(p, row[p].ext, w, FALSE).ext = row[p].ext
  BY <1>3, TriesToTerminate DEF Terminating, Kill
<1>6. TypeOK'
  BY <1>1, <1>2, <1>4, <1>5 DEF TypeOK, procVars, spinVars
<1>7. \A n \in alive[p] : Live(p, n) => Killing(p, n)'
  <2>1. \A n \in alive[p] : Rents(p)
    BY <1>2 DEF PodOK, LaunchOK, TypeOK, Instances
  <2> QED
    BY <1>1, <1>5, <2>1 DEF Live, Killing
<1>8. /\ kills \subseteq kills'
      /\ \A k \in kills' \ kills : k.pod = p /\ Rents(p) /\ k.ext = row[p].ext /\ row[p].ext # 0
                                   /\ row[p].status = "ready"
  BY <1>1, <1>2, <1>3, <1>5
<1> QED
  BY <1>2, <1>3, <1>6, <1>7, <1>8, RetiredKeeps DEF procVars, spinVars

LEMMA CooldownStep ==
  ASSUME FleetInv, NEW w \in Workers, Cooldown(w)
  PROVE  FleetInv'
<1>1. TypeOK'
  BY DEF FleetInv, TypeOK, Cooldown, spinVars, cloudVars
<1> QED
  BY <1>1, StillKeeps DEF Cooldown, spinVars, cloudVars

(* start() begins: what it reads from the rows is true of the pods. *)
LEMMA StartStep ==
  ASSUME FleetInv, NEW w \in Workers, Start(w)
  PROVE  FleetInv'
<1> DEFINE reads == {<<p, row[p].ext>> :
                       p \in {q \in Pods : row[q].status \in {"provisioning", "starting"}}}
<1>1. /\ TypeOK /\ CleanInv /\ (\A q \in Pods : PodOK(q)) /\ proc[w] = "down"
      /\ proc' = [proc EXCEPT ![w] = "stale"] /\ batch' = [batch EXCEPT ![w] = reads]
      /\ overlap' = (overlap \/ ~OthersDown(w))
      /\ UNCHANGED <<spinVars, row, cloudVars, verdict, bad>>
  BY DEF FleetInv, Start
<1>2. reads \subseteq Pods \X ({0} \cup Instances)
  BY <1>1 DEF TypeOK, Row
<1>3. /\ proc'[w] = "stale" /\ \A u \in Workers \ {w} : proc'[u] = proc[u] /\ batch'[u] = batch[u]
      /\ batch'[w] = reads
  BY <1>1 DEF TypeOK
<1>4. TypeOK'
  <2>1. /\ proc' \in [Workers -> {"down", "stale", "reset", "dedicated", "up", "stopping"}]
        /\ batch' \in [Workers -> SUBSET (Pods \X ({0} \cup Instances))]
    BY <1>1, <1>2 DEF TypeOK
  <2>2. overlap' \in BOOLEAN
    BY <1>1 DEF TypeOK
  <2>3. cooling' \in [Workers -> BOOLEAN]
    BY DEF FleetInv, TypeOK, Start
  <2>4. starts' \in 0..MaxStarts
    BY FleetAssumption DEF FleetInv, TypeOK, Start
  <2> QED
    BY <1>1, <2>1, <2>2, <2>3, <2>4 DEF TypeOK, spinVars, cloudVars
<1>5. ASSUME NEW q \in Pods PROVE Settled(q)
  BY <1>1, <1>5, FleetAssumption DEF TypeOK, Settled, spinVars, cloudVars
<1>6. ASSUME NEW q \in Pods PROVE PodOK(q)'
  <2>1. OwnerOK(q)'
    BY <1>1, <1>3, FleetAssumption DEF PodOK, OwnerOK, Running, Spinning, spinVars
  <2>2. CauseOK(q)'
    BY <1>1 DEF PodOK, CauseOK, Launching, Killing, Live, spinVars, cloudVars
  <2> QED
    BY <1>4, <1>5, <2>1, <2>2, SettledPod DEF CauseOK
<1>7. ASSUME NEW u \in Workers PROVE BatchOK(u)'
  <2>1. CASE u = w
    <3> SUFFICES ASSUME NEW b \in reads, b[2] # 0
                 PROVE  b[2] = made[b[1]] /\ spin[b[1]] \in Late
      BY <1>1, <1>3, <2>1 DEF BatchOK, spinVars, cloudVars
    <3>1. PICK p \in Pods : b = <<p, row[p].ext>>
      OBVIOUS
    <3> QED
      BY <1>1, <3>1 DEF PodOK, RowOK
  <2>2. CASE u # w
    BY <1>1, <1>3, <1>4, <1>5, <2>2, SettledBatch DEF Awaited, cloudVars
  <2> QED
    BY <2>1, <2>2
<1>8. \A u \in Workers : VerdictOK(u)'
  BY <1>1, <1>4, <1>5, SettledVerdict
<1>9. KillsOK'
  BY <1>1, <1>5, SettledKills DEF cloudVars
<1>10. CleanInv'
  <2> SUFFICES ASSUME ~overlap, OthersDown(w)
               PROVE  Alone' /\ \A p \in Pods : Cleaned(p)' /\ HeldOK(p)'
    BY <1>1 DEF CleanInv
  <2>1. \A u \in Workers \ {w} : proc'[u] = "down"
    BY <1>3 DEF OthersDown
  <2>2. \A p \in Pods : ~Held(p)'
    <3> SUFFICES ASSUME NEW p \in Pods PROVE ~Held(p)'
      OBVIOUS
    <3>1. WorkerOf[p] \in Workers /\ proc[WorkerOf[p]] = "down" /\ proc'[WorkerOf[p]] # "up"
      BY <1>1, <1>3, <2>1, FleetAssumption DEF OthersDown
    <3> QED
      BY <1>1, <3>1 DEF Held, PodOK, OwnerOK, Running, Spinning, spinVars
  <2> QED
    BY <1>3, <2>1, <2>2 DEF Alone, Cleaned, HeldOK
<1> QED
  BY <1>4, <1>6, <1>7, <1>8, <1>9, <1>10 DEF FleetInv

(* _cleanup_stale_pods writes: what its rows name has been marked failed. *)
LEMMA MarkStaleStep ==
  ASSUME FleetInv, NEW w \in Workers, MarkStale(w)
  PROVE  FleetInv'
<1> DEFINE stale == {b[1] : b \in batch[w]}
<1>1. /\ TypeOK /\ CleanInv /\ (\A q \in Pods : PodOK(q)) /\ proc[w] = "stale"
      /\ batch' = [batch EXCEPT ![w] = {}]
      /\ UNCHANGED <<cooling, overlap, starts, spinVars, made, alive, kills, verdict, bad>>
  BY DEF FleetInv, MarkStale
<1>2. PICK next \in {"reset", "down"} : proc' = [proc EXCEPT ![w] = next]
  BY DEF MarkStale
<1>3. /\ proc'[w] \in {"reset", "down"} /\ batch'[w] = {}
      /\ \A u \in Workers \ {w} : proc'[u] = proc[u] /\ batch'[u] = batch[u]
  BY <1>1, <1>2 DEF TypeOK
<1>4. ASSUME NEW q \in Pods
      PROVE  \/ row'[q] = row[q] /\ fault'[q] = fault[q]
             \/ /\ Exists(q) /\ row'[q].status = "failed" /\ row'[q] \in Row
                /\ row'[q].ext = row[q].ext /\ row'[q].failures = row[q].failures
                /\ \A n \in Instances :
                     \/ n = row[q].ext /\ fault'[q][n] = "marked_failed"
                     \/ n # row[q].ext /\ fault'[q][n] = fault[q][n]
  <2>1. CASE \A p \in stale : Exists(p)
    <3>1. /\ row' = [p \in Pods |-> IF p \in stale
                                    THEN [row[p] EXCEPT !.status = "failed"] ELSE row[p]]
          /\ fault' = [p \in Pods |-> IF p \in stale /\ row[p].ext # 0
                                      THEN [fault[p] EXCEPT ![row[p].ext] = "marked_failed"]
                                      ELSE fault[p]]
      BY <2>1 DEF MarkStale
    <3>2. CASE q \notin stale
      BY <1>4, <3>1, <3>2
    <3>3. CASE q \in stale
      <4> DEFINE new == [row[q] EXCEPT !.status = "failed"]
      <4>1. row'[q] = new /\ Exists(q) /\ row[q] \in Row /\ fault[q] \in [Instances -> Faults]
        BY <1>1, <1>4, <2>1, <3>1, <3>3 DEF TypeOK
      <4>2. /\ new \in Row /\ new.status = "failed"
            /\ new.ext = row[q].ext /\ new.failures = row[q].failures
        BY <4>1 DEF Row, Status
      <4>3. fault'[q] = IF row[q].ext # 0 THEN [fault[q] EXCEPT ![row[q].ext] = "marked_failed"]
                        ELSE fault[q]
        BY <1>4, <3>1, <3>3
      <4>4. \A n \in Instances : n # 0
        BY DEF Instances
      <4> HIDE DEF new
      <4> QED
        BY <4>1, <4>2, <4>3, <4>4
    <3> QED
      BY <3>2, <3>3
  <2>2. CASE ~\A p \in stale : Exists(p)
    BY <2>2 DEF MarkStale
  <2> QED
    BY <2>1, <2>2
<1>5. TypeOK'
  <2>1. row' \in [Pods -> Row] /\ fault' \in [Pods -> [Instances -> Faults]]
    <3>1. CASE \A p \in stale : Exists(p)
      <4>1. \A p \in Pods : row[p] \in Row /\ [row[p] EXCEPT !.status = "failed"] \in Row
        BY <1>1 DEF TypeOK, Row, Status
      <4>2. \A p \in Pods : /\ fault[p] \in [Instances -> Faults]
                            /\ [fault[p] EXCEPT ![row[p].ext] = "marked_failed"]
                                 \in [Instances -> Faults]
        BY <1>1 DEF TypeOK, Faults
      <4> QED
        BY <3>1, <4>1, <4>2 DEF MarkStale
    <3>2. CASE ~\A p \in stale : Exists(p)
      BY <1>1, <3>2 DEF MarkStale, TypeOK
    <3> QED
      BY <3>1, <3>2
  <2>2. proc' \in [Workers -> {"down", "stale", "reset", "dedicated", "up", "stopping"}]
    BY <1>1, <1>2 DEF TypeOK
  <2>3. batch' \in [Workers -> SUBSET (Pods \X ({0} \cup Instances))]
    BY <1>1 DEF TypeOK
  <2> QED
    BY <1>1, <2>1, <2>2, <2>3 DEF TypeOK, spinVars
<1>6. ASSUME NEW q \in Pods PROVE Settled(q)
  <2>1. "marked_failed" \in Causes(q)
    BY DEF Causes
  <2>2. row[q].ext # 0 => row[q].ext = made[q] /\ spin[q] \notin {"offers", "create"}
    BY <1>1, <1>6 DEF PodOK, RowOK, Late
  <2>3. \A n \in Instances :
          \/ fault'[q][n] = fault[q][n]
          \/ fault'[q][n] \in Causes(q) /\ n = made[q] /\ spin'[q] \notin {"offers", "create"}
    BY <1>1, <1>4, <1>6, <2>1, <2>2 DEF Instances, spinVars
  <2> QED
    BY <1>1, <1>4, <1>6, <2>3, FleetAssumption DEF TypeOK, Settled, spinVars
<1>7. ASSUME NEW q \in Pods PROVE PodOK(q)'
  <2>1. OwnerOK(q)'
    BY <1>1, <1>3, FleetAssumption DEF PodOK, OwnerOK, Running, Spinning, spinVars
  <2>2. ASSUME NEW n \in alive'[q]
        PROVE  (Launching(q, n) \/ Killing(q, n) \/ Live(q, n) \/ fault[q][n] \in Causes(q))'
    <3>1. n \in alive[q] /\ n \in Instances /\ "marked_failed" \in Causes(q)
      BY <1>1, <2>2 DEF TypeOK, Causes
    <3>2. Launching(q, n) \/ Killing(q, n) \/ Live(q, n) \/ fault[q][n] \in Causes(q)
      BY <1>1, <3>1 DEF PodOK, CauseOK
    <3> QED
      BY <1>1, <1>4, <3>1, <3>2 DEF Launching, Killing, Live, spinVars
  <2> QED
    BY <1>5, <1>6, <1>7, <2>1, <2>2, SettledPod
<1>8. ASSUME NEW u \in Workers PROVE BatchOK(u)'
  BY <1>1, <1>3, <1>5, <1>6, <1>8, SettledBatch DEF BatchOK, Awaited
<1>9. \A u \in Workers : VerdictOK(u)'
  BY <1>1, <1>5, <1>6, SettledVerdict
<1>10. KillsOK'
  BY <1>1, <1>6, SettledKills
<1>11. CleanInv'
  <2> SUFFICES ASSUME ~overlap PROVE Alone' /\ \A p \in Pods : Cleaned(p)' /\ HeldOK(p)'
    BY <1>1 DEF CleanInv
  <2>1. Alone /\ \A u \in Workers \ {w} : proc[u] = "down"
    BY <1>1 DEF CleanInv, Alone
  <2>2. \A p \in Pods : ~Held(p)'
    <3> SUFFICES ASSUME NEW p \in Pods PROVE ~Held(p)'
      OBVIOUS
    <3>1. WorkerOf[p] \in Workers /\ proc[WorkerOf[p]] \notin {"up", "stopping"}
      BY <1>1, <2>1, FleetAssumption
    <3> QED
      BY <1>1, <3>1 DEF Held, PodOK, OwnerOK, Running, Spinning, spinVars
  <2> QED
    BY <1>3, <2>1, <2>2 DEF Alone, Cleaned, HeldOK
<1> QED
  BY <1>5, <1>7, <1>8, <1>9, <1>10, <1>11 DEF FleetInv

(* While one process alone is not down, and not yet up, it holds no pod. *)
LEMMA NobodyHolds ==
  ASSUME FleetInv, ~overlap, NEW w \in Workers,
         proc[w] \in {"stale", "reset", "dedicated"}
  PROVE  /\ \A u \in Workers \ {w} : proc[u] = "down"
         /\ \A p \in Pods : spin[p] \in {"idle", "past"}
<1>1. \A u \in Workers \ {w} : proc[u] = "down"
  BY DEF FleetInv, CleanInv, Alone
<1>2. ASSUME NEW p \in Pods PROVE spin[p] \in {"idle", "past"}
  <2>1. WorkerOf[p] \in Workers /\ proc[WorkerOf[p]] \notin {"up", "stopping"}
    BY <1>1, FleetAssumption
  <2>2. PodOK(p) /\ spin[p] \in SpinLocs
    BY DEF FleetInv, TypeOK
  <2> QED
    BY <2>1, <2>2 DEF PodOK, OwnerOK, Running, Spinning
<1> QED
  BY <1>1, <1>2

LEMMA ResetApiRowsStep ==
  ASSUME FleetInv, NEW w \in Workers, ResetApiRows(w)
  PROVE  FleetInv'
<1> DEFINE reads == {<<p, row[p].ext>> : p \in {q \in Pods : Exists(q) /\ Rents(q)}}
<1>1. /\ TypeOK /\ CleanInv /\ (\A q \in Pods : PodOK(q)) /\ proc[w] = "reset"
      /\ proc' = [proc EXCEPT ![w] = "dedicated"] /\ batch' = [batch EXCEPT ![w] = reads]
      /\ row' = [p \in Pods |-> IF ~Rents(p) THEN NoRow ELSE row[p]]
      /\ UNCHANGED <<cooling, overlap, starts, spinVars, cloudVars, verdict, bad>>
  BY DEF FleetInv, ResetApiRows, Delete
<1>2. reads \subseteq Pods \X ({0} \cup Instances)
  BY <1>1 DEF TypeOK, Row
<1>3. /\ proc'[w] = "dedicated" /\ batch'[w] = reads
      /\ \A u \in Workers \ {w} : proc'[u] = proc[u] /\ batch'[u] = batch[u]
      /\ \A q \in Pods : row'[q] = IF Rents(q) THEN row[q] ELSE NoRow
  BY <1>1 DEF TypeOK
<1>4. TypeOK'
  <2>1. /\ proc' \in [Workers -> {"down", "stale", "reset", "dedicated", "up", "stopping"}]
        /\ batch' \in [Workers -> SUBSET (Pods \X ({0} \cup Instances))]
    BY <1>1, <1>2 DEF TypeOK
  <2>2. NoRow \in Row
    BY DEF NoRow, Row, Status
  <2>3. row' \in [Pods -> Row]
    BY <1>1, <2>2 DEF TypeOK
  <2> QED
    BY <1>1, <2>1, <2>3 DEF TypeOK, spinVars, cloudVars
<1>5. ASSUME NEW q \in Pods PROVE Settled(q)
  BY <1>1, <1>3, <1>5, FleetAssumption DEF TypeOK, Settled, spinVars, cloudVars
<1>6. ASSUME NEW q \in Pods PROVE PodOK(q)'
  <2>1. OwnerOK(q)'
    BY <1>1, <1>3, FleetAssumption DEF PodOK, OwnerOK, Running, Spinning, spinVars
  <2>2. ASSUME NEW n \in alive'[q]
        PROVE  (Launching(q, n) \/ Killing(q, n) \/ Live(q, n) \/ fault[q][n] \in Causes(q))'
    <3>1. n \in alive[q] /\ n \in Instances /\ n <= made[q] /\ made[q] \in {0} \cup Instances
      BY <1>1, <1>6, <2>2 DEF TypeOK, PodOK, LaunchOK, cloudVars
    <3>2. Rents(q)
      BY <1>1, <1>6, <3>1 DEF PodOK, LaunchOK, Instances
    <3> QED
      BY <1>1, <1>3, <1>6, <3>1, <3>2
         DEF PodOK, CauseOK, Launching, Killing, Live, spinVars, cloudVars
  <2> QED
    BY <1>4, <1>5, <1>6, <2>1, <2>2, SettledPod
<1>7. ASSUME NEW u \in Workers PROVE BatchOK(u)'
  <2>1. CASE u = w
    <3> SUFFICES ASSUME NEW b \in reads, b[2] # 0
                 PROVE  b[2] = made[b[1]] /\ spin[b[1]] \in Late
      BY <1>1, <1>3, <2>1 DEF BatchOK, spinVars, cloudVars
    <3>1. PICK p \in Pods : b = <<p, row[p].ext>>
      OBVIOUS
    <3> QED
      BY <1>1, <3>1 DEF PodOK, RowOK
  <2>2. CASE u # w
    BY <1>1, <1>3, <1>4, <1>5, <2>2, SettledBatch DEF Awaited, cloudVars
  <2> QED
    BY <2>1, <2>2
<1>8. \A u \in Workers : VerdictOK(u)'
  BY <1>1, <1>4, <1>5, SettledVerdict
<1>9. KillsOK'
  BY <1>1, <1>5, SettledKills DEF cloudVars
<1>10. CleanInv'
  <2> SUFFICES ASSUME ~overlap PROVE Alone' /\ \A p \in Pods : Cleaned(p)' /\ HeldOK(p)'
    BY <1>1 DEF CleanInv
  <2>1. /\ \A u \in Workers \ {w} : proc[u] = "down"
        /\ \A p \in Pods : spin[p] \in {"idle", "past"}
    BY <1>1, NobodyHolds
  <2>2. ASSUME NEW p \in Pods, Exists(p)' PROVE \E b \in reads : b[1] = p
    <3>1. Rents(p) /\ Exists(p)
      BY <1>3, <2>2 DEF Exists, NoRow
    <3>2. <<p, row[p].ext>> \in reads
      BY <3>1
    <3> QED
      BY <3>2
  <2> QED
    BY <1>1, <1>3, <2>1, <2>2 DEF Alone, Cleaned, HeldOK, Held, spinVars
<1> QED
  BY <1>4, <1>6, <1>7, <1>8, <1>9, <1>10 DEF FleetInv

(* _cleanup_dedicated_pods: every id it has read is being terminated when   *)
(* its row goes, and an id it has not read has got a cause.                 *)
LEMMA CleanupDedicatedStep ==
  ASSUME FleetInv, NEW w \in Workers, CleanupDedicated(w)
  PROVE  FleetInv'
<1> DEFINE gone == {b[1] : b \in batch[w]}
           missed == {p \in Pods : \E b \in batch[w] : b = <<p, 0>> /\ row[p].ext # 0}
           named == {b \in batch[w] : b[2] # 0}
<1>1. /\ TypeOK /\ CleanInv /\ KillsOK /\ (\A q \in Pods : PodOK(q)) /\ proc[w] = "dedicated"
      /\ proc' = [proc EXCEPT ![w] = "up"] /\ batch' = [batch EXCEPT ![w] = {}]
      /\ kills' = kills \cup Terminations(w, named, FALSE)
      /\ row' = [p \in Pods |-> IF p \in gone THEN NoRow ELSE row[p]]
      /\ fault' = [p \in Pods |-> IF p \in missed
                                  THEN [fault[p] EXCEPT ![row[p].ext] = "row_deleted"]
                                  ELSE fault[p]]
      /\ UNCHANGED <<cooling, overlap, starts, spinVars, made, alive, verdict, bad>>
  BY DEF FleetInv, CleanupDedicated, Delete
<1>2. /\ proc'[w] = "up" /\ batch'[w] = {}
      /\ \A u \in Workers \ {w} : proc'[u] = proc[u] /\ batch'[u] = batch[u]
      /\ \A q \in Pods : row'[q] = IF q \in gone THEN NoRow ELSE row[q]
  BY <1>1 DEF TypeOK
<1>3. ASSUME NEW b \in named
      PROVE  /\ b[1] \in Pods /\ b[2] \in Instances /\ b[2] = made[b[1]]
             /\ spin[b[1]] \in Late /\ Rents(b[1])
  <2>1. b[1] \in Pods /\ b[2] \in Instances
    BY <1>1, <1>3 DEF TypeOK
  <2>2. b[2] = made[b[1]] /\ spin[b[1]] \in Late
    BY <1>3 DEF FleetInv, BatchOK
  <2> QED
    BY <1>1, <2>1, <2>2 DEF PodOK, LaunchOK, Instances
<1>4. ASSUME NEW k \in kills' \ kills
      PROVE  \E b \in named : k = Terminating(b[1], b[2], w, FALSE)
  BY <1>1, <1>4 DEF Terminations
<1>5. ASSUME NEW k \in kills' \ kills
      PROVE  /\ k \in Kill /\ k.pod \in Pods /\ Rents(k.pod)
             /\ k.ext = made[k.pod] /\ spin[k.pod] \in Late
  <2>1. PICK b \in named : k = Terminating(b[1], b[2], w, FALSE)
    BY <1>4, <1>5
  <2>2. b[1] \in Pods /\ b[2] \in Instances
    BY <1>3
  <2>3. k \in Kill /\ k.pod = b[1] /\ k.ext = b[2]
    <3>1. TerminateTries(b[1]) \in 1..3
      BY <2>2, TriesToTerminate
    <3> QED
      BY <2>1, <2>2, <3>1 DEF Terminating, Kill
  <2> QED
    BY <1>3, <2>3
<1>6. ASSUME NEW q \in Pods, NEW n \in Instances
      PROVE  /\ fault'[q][n] \in {fault[q][n], "row_deleted"}
             /\ q \in missed /\ n = row[q].ext => fault'[q][n] = "row_deleted"
             /\ fault'[q][n] # fault[q][n] => n = row[q].ext
  BY <1>1, <1>6 DEF TypeOK
<1>7. TypeOK'
  <2>1. /\ proc' \in [Workers -> {"down", "stale", "reset", "dedicated", "up", "stopping"}]
        /\ batch' \in [Workers -> SUBSET (Pods \X ({0} \cup Instances))]
    BY <1>1 DEF TypeOK
  <2>2. NoRow \in Row
    BY DEF NoRow, Row, Status
  <2>3. row' \in [Pods -> Row]
    BY <1>1, <2>2 DEF TypeOK
  <2>4. \A p \in Pods : /\ fault[p] \in [Instances -> Faults]
                        /\ [fault[p] EXCEPT ![row[p].ext] = "row_deleted"]
                             \in [Instances -> Faults]
    BY <1>1 DEF TypeOK, Faults
  <2>5. fault' \in [Pods -> [Instances -> Faults]]
    BY <1>1, <2>4
  <2>6. kills' \subseteq Kill
    BY <1>1, <1>5 DEF TypeOK
  <2> QED
    BY <1>1, <2>1, <2>3, <2>5, <2>6 DEF TypeOK, spinVars
<1>8. ASSUME NEW q \in Pods PROVE Settled(q)
  <2>1. "row_deleted" \in Causes(q)
    BY DEF Causes
  <2>2. row[q].ext # 0 => row[q].ext = made[q] /\ spin[q] \notin {"offers", "create"}
    BY <1>1, <1>8 DEF PodOK, RowOK, Late
  <2>3. \A n \in Instances :
          \/ fault'[q][n] = fault[q][n]
          \/ fault'[q][n] \in Causes(q) /\ n = made[q] /\ spin'[q] \notin {"offers", "create"}
    BY <1>1, <1>6, <1>8, <2>1, <2>2 DEF spinVars
  <2> QED
    BY <1>1, <1>2, <1>8, <2>3, FleetAssumption DEF TypeOK, Settled, spinVars
<1>9. ASSUME NEW q \in Pods PROVE PodOK(q)'
  <2>1. OwnerOK(q)'
    BY <1>1, <1>2, FleetAssumption DEF PodOK, OwnerOK, Running, Spinning, spinVars
  <2>2. ASSUME NEW n \in alive'[q]
        PROVE  (Launching(q, n) \/ Killing(q, n) \/ Live(q, n) \/ fault[q][n] \in Causes(q))'
    <3>1. n \in alive[q] /\ n \in Instances /\ n # 0 /\ "row_deleted" \in Causes(q)
      BY <1>1, <2>2 DEF TypeOK, Causes, Instances
    <3>2. Launching(q, n) \/ Killing(q, n) \/ Live(q, n) \/ fault[q][n] \in Causes(q)
      BY <1>1, <3>1 DEF PodOK, CauseOK
    <3>3. CASE Live(q, n) /\ q \in gone
      <4>1. PICK b \in batch[w] : b[1] = q
        BY <3>3
      <4>2. row[q].ext = n /\ n = made[q]
        BY <1>1, <3>1, <3>3 DEF Live, PodOK, RowOK
      <4>3. CASE b[2] = 0
        <5>1. b = <<q, 0>>
          BY <1>1, <4>1, <4>3 DEF TypeOK
        <5> QED
          BY <1>6, <3>1, <4>2, <5>1
      <4>4. CASE b[2] # 0
        <5> DEFINE k == Terminating(b[1], b[2], w, FALSE)
        <5>1. k \in kills' /\ b[2] = n
          BY <1>1, <1>3, <4>1, <4>2, <4>4 DEF Terminations
        <5>2. k.pod = b[1] /\ k.ext = b[2]
          BY DEF Terminating
        <5> HIDE DEF k
        <5> QED
          BY <4>1, <5>1, <5>2 DEF Killing
      <4> QED
        BY <4>3, <4>4
    <3>4. CASE ~(Live(q, n) /\ q \in gone)
      BY <1>1, <1>2, <1>6, <3>1, <3>2, <3>4 DEF Launching, Killing, Live, spinVars
    <3> QED
      BY <3>3, <3>4
  <2> QED
    BY <1>7, <1>8, <1>9, <2>1, <2>2, SettledPod
<1>10. ASSUME NEW u \in Workers PROVE BatchOK(u)'
  BY <1>1, <1>2, <1>7, <1>8, <1>10, SettledBatch DEF BatchOK, Awaited
<1>11. \A u \in Workers : VerdictOK(u)'
  BY <1>1, <1>7, <1>8, SettledVerdict
<1>12. KillsOK'
  BY <1>5, <1>8, SettledKills
<1>13. CleanInv'
  <2> SUFFICES ASSUME ~overlap PROVE Alone' /\ \A p \in Pods : Cleaned(p)' /\ HeldOK(p)'
    BY <1>1 DEF CleanInv
  <2>1. /\ \A u \in Workers \ {w} : proc[u] = "down"
        /\ \A p \in Pods : spin[p] \in {"idle", "past"} /\ Cleaned(p)
    BY <1>1, NobodyHolds DEF CleanInv
  <2>2. ASSUME NEW p \in Pods PROVE ~Exists(p)'
    BY <1>1, <1>2, <2>1, <2>2 DEF Cleaned, Exists, NoRow
  <2> QED
    BY <1>1, <1>2, <2>1, <2>2 DEF Alone, Cleaned, HeldOK, Held, spinVars
<1> QED
  BY <1>7, <1>9, <1>10, <1>11, <1>12, <1>13 DEF FleetInv

(* stop() has selected its pods: a termination is awaited for each of them. *)
LEMMA StopSelectStep ==
  ASSUME FleetInv, NEW w \in Workers, StopSelect(w)
  PROVE  FleetInv'
<1> DEFINE live == {p \in Pods : row[p].status \in {"ready", "starting"}}
           reads == {<<p, row[p].ext>> : p \in live}
           asked == {<<p, row[p].ext>> : p \in {q \in live : Rents(q)}}
<1>1. /\ TypeOK /\ CleanInv /\ (\A q \in Pods : PodOK(q)) /\ proc[w] = "up"
      /\ proc' = [proc EXCEPT ![w] = "stopping"] /\ batch' = [batch EXCEPT ![w] = reads]
      /\ kills' = kills \cup Terminations(w, asked, TRUE)
      /\ overlap' = (overlap \/ ~OthersDown(w))
      /\ verdict' = [verdict EXCEPT ![w] = None]
      /\ UNCHANGED <<cooling, starts, spinVars, row, made, alive, fault, bad>>
  BY DEF FleetInv, StopSelect
<1>2. reads \subseteq Pods \X ({0} \cup Instances)
  BY <1>1 DEF TypeOK, Row
<1>3. /\ proc'[w] = "stopping" /\ batch'[w] = reads
      /\ \A u \in Workers \ {w} : proc'[u] = proc[u] /\ batch'[u] = batch[u]
      /\ \A u \in Workers : verdict'[u] \in {verdict[u], None}
  BY <1>1 DEF TypeOK
<1>4. ASSUME NEW p \in live, Rents(p)
      PROVE  /\ p \in Pods /\ row[p].ext \in Instances /\ row[p].ext = made[p]
             /\ spin[p] \in Late
  <2>1. Named(p) /\ Exists(p) /\ row[p].ext \in {0} \cup Instances
    BY <1>1, <1>4 DEF PodOK, RowOK, Exists, TypeOK, Row
  <2> QED
    BY <1>1, <1>4, <2>1 DEF PodOK, RowOK, Named
<1>5. ASSUME NEW k \in kills' \ kills
      PROVE  /\ k \in Kill /\ k.pod \in Pods /\ Rents(k.pod)
             /\ k.ext = made[k.pod] /\ spin[k.pod] \in Late
  <2>1. PICK b \in asked : k = Terminating(b[1], b[2], w, TRUE)
    BY <1>1, <1>5 DEF Terminations
  <2>2. PICK p \in live : Rents(p) /\ b = <<p, row[p].ext>>
    OBVIOUS
  <2>3. b[1] = p /\ b[2] = row[p].ext
    BY <2>2
  <2>4. /\ p \in Pods /\ row[p].ext \in Instances /\ row[p].ext = made[p]
        /\ spin[p] \in Late /\ Rents(p) /\ TerminateTries(p) \in 1..3
    BY <1>4, <2>2, TriesToTerminate
  <2> QED
    BY <2>1, <2>3, <2>4 DEF Terminating, Kill
<1>6. ASSUME NEW p \in live, Rents(p)
      PROVE  \E k \in kills' : k.pod = p /\ k.ext = row[p].ext /\ k.by = w /\ k.awaited
  <2>1. PICK b \in asked : b = <<p, row[p].ext>>
    BY <1>6
  <2> DEFINE k == Terminating(b[1], b[2], w, TRUE)
  <2>2. k \in kills'
    BY <1>1 DEF Terminations
  <2>3. k.pod = p /\ k.ext = row[p].ext /\ k.by = w /\ k.awaited
    BY <2>1 DEF Terminating
  <2> HIDE DEF k
  <2> QED
    BY <2>2, <2>3
<1>7. TypeOK'
  <2>1. /\ proc' \in [Workers -> {"down", "stale", "reset", "dedicated", "up", "stopping"}]
        /\ batch' \in [Workers -> SUBSET (Pods \X ({0} \cup Instances))]
    BY <1>1, <1>2 DEF TypeOK
  <2>2. kills' \subseteq Kill
    BY <1>1, <1>5 DEF TypeOK
  <2>3. overlap' \in BOOLEAN /\ verdict' \in [Workers -> (Pods \X Nat) \cup {None}]
    BY <1>1 DEF TypeOK
  <2> QED
    BY <1>1, <2>1, <2>2, <2>3 DEF TypeOK, spinVars
<1>8. ASSUME NEW q \in Pods PROVE Settled(q)
  BY <1>1, <1>8, FleetAssumption DEF TypeOK, Settled, spinVars
<1>9. ASSUME NEW q \in Pods PROVE PodOK(q)'
  <2>1. OwnerOK(q)'
    BY <1>1, <1>3, FleetAssumption DEF PodOK, OwnerOK, Running, Spinning, spinVars
  <2>2. CauseOK(q)'
    BY <1>1 DEF PodOK, CauseOK, Launching, Killing, Live, spinVars
  <2> QED
    BY <1>7, <1>8, <2>1, <2>2, SettledPod DEF CauseOK
<1>10. ASSUME NEW u \in Workers PROVE BatchOK(u)'
  <2>1. CASE u = w
    <3> SUFFICES
          ASSUME NEW b \in reads
          PROVE  /\ b[2] # 0 => b[2] = made[b[1]] /\ spin[b[1]] \in Late
                 /\ Rents(b[1]) => b[2] # 0
                 /\ b[2] \in alive[b[1]] => Awaited(w, b)'
      BY <1>1, <1>3, <2>1 DEF BatchOK, spinVars
    <3>1. PICK p \in live : b = <<p, row[p].ext>>
      OBVIOUS
    <3>2. b[1] = p /\ b[2] = row[p].ext
      BY <3>1
    <3>3. b[2] # 0 => b[2] = made[p] /\ spin[p] \in Late
      BY <1>1, <3>2 DEF PodOK, RowOK
    <3>4. CASE Rents(p)
      BY <1>4, <1>6, <3>2, <3>3, <3>4 DEF Awaited, Instances
    <3>5. CASE ~Rents(p)
      BY <1>1, <3>2, <3>3, <3>5 DEF PodOK, LaunchOK, TypeOK, Instances
    <3> QED
      BY <3>4, <3>5
  <2>2. CASE u # w
    BY <1>1, <1>3, <1>7, <1>8, <2>2, SettledBatch DEF Awaited
  <2> QED
    BY <2>1, <2>2
<1>11. \A u \in Workers : VerdictOK(u)'
  BY <1>3, <1>7, <1>8, SettledVerdict
<1>12. KillsOK'
  BY <1>5, <1>8, SettledKills
<1>13. CleanInv'
  <2> SUFFICES ASSUME ~overlap, OthersDown(w)
               PROVE  Alone' /\ \A p \in Pods : Cleaned(p)' /\ HeldOK(p)'
    BY <1>1 DEF CleanInv
  <2>1. \A u \in Workers \ {w} : proc'[u] = "down"
    BY <1>3 DEF OthersDown
  <2>2. ASSUME NEW p \in Pods PROVE ~Held(p)'
    <3>1. WorkerOf[p] \in Workers /\ proc'[WorkerOf[p]] # "up"
      BY <1>3, <2>1, FleetAssumption
    <3>2. OwnerOK(p)'
      BY <1>9 DEF PodOK
    <3> QED
      BY <3>1, <3>2 DEF Held, OwnerOK, Running, Spinning
  <2> QED
    BY <1>3, <2>1, <2>2 DEF Alone, Cleaned, HeldOK
<1> QED
  BY <1>7, <1>9, <1>10, <1>11, <1>12, <1>13 DEF FleetInv

(* A process leaves: what it was launching or terminating has got a cause.   *)
(* Rows that its stop() has marked terminated name instances that are gone.  *)
LEMMA ExitStep ==
  ASSUME FleetInv, NEW w \in Workers, StopCommit(w) \/ Crash(w)
  PROVE  FleetInv'
<1> DEFINE stopped == {b[1] : b \in batch[w]}
           dropped == {k \in kills : k.by = w}
           launching == {p \in Pods : WorkerOf[p] = w /\ Rents(p)
                                      /\ spin[p] \in {"boot", "name", "await", "publish"}}
           hit(p, n) == \/ \E k \in dropped : k.pod = p /\ k.ext = n
                        \/ p \in launching /\ n = made[p]
<1>1. /\ TypeOK /\ CleanInv /\ KillsOK /\ (\A q \in Pods : PodOK(q)) /\ proc[w] # "down"
      /\ proc' = [proc EXCEPT ![w] = "down"] /\ batch' = [batch EXCEPT ![w] = {}]
      /\ kills' = kills \ dropped
      /\ fault' = [p \in Pods |-> [n \in Instances |->
                      IF hit(p, n) THEN "exit" ELSE fault[p][n]]]
      /\ spin' = [p \in Pods |-> IF WorkerOf[p] = w /\ spin[p] # "idle" THEN "past" ELSE spin[p]]
      /\ verdict' = [verdict EXCEPT ![w] = None]
      /\ UNCHANGED <<cooling, overlap, starts, attempt, offer, url, made, alive, bad>>
  BY DEF FleetInv, StopCommit, Crash, Exit
<1>2. /\ proc'[w] = "down" /\ batch'[w] = {}
      /\ \A u \in Workers \ {w} : proc'[u] = proc[u] /\ batch'[u] = batch[u]
      /\ \A u \in Workers : verdict'[u] \in {verdict[u], None}
  BY <1>1 DEF TypeOK
<1>3. ASSUME NEW q \in Pods
      PROVE  /\ WorkerOf[q] = w => spin'[q] \in {"idle", "past"}
             /\ WorkerOf[q] # w => spin'[q] = spin[q]
             /\ spin'[q] = spin[q] \/ (spin[q] # "idle" /\ spin'[q] = "past")
             /\ \A n \in Instances : fault'[q][n] = IF hit(q, n) THEN "exit" ELSE fault[q][n]
  BY <1>1, <1>3
<1>4. ASSUME NEW q \in Pods
      PROVE  \/ row'[q] = row[q]
             \/ /\ proc[w] = "stopping" /\ q \in stopped
                /\ \A k \in dropped : ~k.awaited
                /\ Exists(q) /\ row'[q].status = "terminated" /\ row'[q] \in Row
                /\ row'[q].ext = row[q].ext /\ row'[q].failures = row[q].failures
  <2>1. CASE UNCHANGED row
    BY <2>1
  <2>2. CASE StopCommit(w) /\ (\A p \in stopped : Exists(p))
    <3>1. /\ row' = [p \in Pods |-> IF p \in stopped
                                    THEN [row[p] EXCEPT !.status = "terminated"] ELSE row[p]]
          /\ proc[w] = "stopping" /\ ~\E k \in kills : k.by = w /\ k.awaited
      BY <2>2 DEF StopCommit
    <3>2. CASE q \in stopped
      <4>1. row[q] \in Row /\ row'[q] = [row[q] EXCEPT !.status = "terminated"]
        BY <1>1, <1>4, <3>1, <3>2 DEF TypeOK
      <4>2. /\ row'[q] \in Row /\ row'[q].status = "terminated"
            /\ row'[q].ext = row[q].ext /\ row'[q].failures = row[q].failures
        BY <4>1 DEF Row, Status
      <4> QED
        BY <2>2, <3>1, <3>2, <4>2
    <3>3. CASE q \notin stopped
      BY <1>4, <3>1, <3>3
    <3> QED
      BY <3>2, <3>3
  <2> QED
    BY <2>1, <2>2 DEF StopCommit, Crash
<1>5. TypeOK'
  <2>1. row' \in [Pods -> Row]
    <3>1. CASE UNCHANGED row
      BY <1>1, <3>1 DEF TypeOK
    <3>2. CASE row' = [p \in Pods |-> IF p \in stopped
                                      THEN [row[p] EXCEPT !.status = "terminated"] ELSE row[p]]
      <4>1. \A p \in Pods : row[p] \in Row /\ [row[p] EXCEPT !.status = "terminated"] \in Row
        BY <1>1 DEF TypeOK, Row, Status
      <4> QED
        BY <3>2, <4>1
    <3> QED
      BY <3>1, <3>2 DEF StopCommit, Crash
  <2>2. /\ proc' \in [Workers -> {"down", "stale", "reset", "dedicated", "up", "stopping"}]
        /\ batch' \in [Workers -> SUBSET (Pods \X ({0} \cup Instances))]
        /\ verdict' \in [Workers -> (Pods \X Nat) \cup {None}]
    BY <1>1 DEF TypeOK
  <2>3. spin' \in [Pods -> SpinLocs] /\ kills' \subseteq Kill
    BY <1>1 DEF TypeOK, SpinLocs
  <2>4. fault' \in [Pods -> [Instances -> Faults]]
    <3>1. \A p \in Pods : \A n \in Instances :
            (IF hit(p, n) THEN "exit" ELSE fault[p][n]) \in Faults
      BY <1>1 DEF TypeOK, Faults
    <3> QED
      BY <1>1, <3>1
  <2> QED
    BY <1>1, <2>1, <2>2, <2>3, <2>4 DEF TypeOK
<1>6. ASSUME NEW q \in Pods PROVE Settled(q)
  <2>1. "exit" \in Causes(q)
    BY DEF Causes
  <2>2. \/ row'[q] = row[q]
        \/ /\ Exists(q) /\ row'[q].status \in {"failed", "terminated"}
           /\ row'[q].ext = row[q].ext /\ row'[q].failures = row[q].failures
    BY <1>4
  <2>3. ASSUME NEW n \in Instances
        PROVE  \/ fault'[q][n] = fault[q][n]
               \/ fault'[q][n] \in Causes(q) /\ n = made[q] /\ spin'[q] \notin {"offers", "create"}
    <3>1. hit(q, n) => n = made[q] /\ spin[q] \notin {"offers", "create"}
      BY <1>1 DEF KillsOK, Late
    <3> QED
      BY <1>3, <2>1, <3>1
  <2> QED
    BY <1>1, <1>3, <1>6, <2>2, <2>3, FleetAssumption DEF TypeOK, Settled
<1>7. ASSUME NEW q \in Pods PROVE PodOK(q)'
  <2>1. OwnerOK(q)'
    BY <1>1, <1>2, <1>3, FleetAssumption DEF PodOK, OwnerOK, Running, Spinning
  <2>2. ASSUME NEW n \in alive'[q]
        PROVE  (Launching(q, n) \/ Killing(q, n) \/ Live(q, n) \/ fault[q][n] \in Causes(q))'
    <3>1. /\ n \in alive[q] /\ n \in Instances /\ n # 0 /\ Rents(q)
          /\ "exit" \in Causes(q)
      BY <1>1, <2>2 DEF TypeOK, PodOK, LaunchOK, Causes, Instances
    <3>2. hit(q, n) => fault'[q][n] \in Causes(q)
      BY <1>3, <3>1
    <3>3. CASE Launching(q, n)
      <4>1. WorkerOf[q] = w => hit(q, n)
        BY <3>1, <3>3 DEF Launching
      <4> QED
        BY <1>1, <1>3, <3>2, <3>3, <4>1 DEF Launching
    <3>4. CASE Killing(q, n)
      BY <1>1, <3>2, <3>4 DEF Killing
    <3>5. CASE fault[q][n] \in Causes(q)
      BY <1>3, <3>1, <3>5
    <3>6. CASE Live(q, n)
      <4>1. CASE row'[q] = row[q]
        <5>1. CASE row[q].status = "ready"
          BY <3>6, <4>1, <5>1 DEF Live
        <5>2. CASE spin[q] \in {"await", "publish"} /\ WorkerOf[q] = w
          <6>1. n = made[q]
            BY <1>1, <3>1, <3>6 DEF Live, PodOK, RowOK
          <6>2. hit(q, n)
            BY <3>1, <5>2, <6>1
          <6> QED
            BY <3>2, <6>2
        <5>3. CASE spin[q] \in {"await", "publish"} /\ WorkerOf[q] # w
          BY <1>3, <3>6, <4>1, <5>3 DEF Live
        <5> QED
          BY <3>6, <5>1, <5>2, <5>3 DEF Live
      <4>2. CASE proc[w] = "stopping" /\ q \in stopped /\ \A k \in dropped : ~k.awaited
        <5>1. PICK b \in batch[w] : b[1] = q
          BY <4>2
        <5>2. row[q].ext = n /\ n = made[q]
          BY <1>1, <3>1, <3>6 DEF Live, PodOK, RowOK
        <5>3. b[2] = n
          BY <3>1, <4>2, <5>1, <5>2 DEF FleetInv, BatchOK
        <5>4. fault[q][n] \in Causes(q) \/ Awaited(w, b)
          BY <3>1, <4>2, <5>1, <5>3 DEF FleetInv, BatchOK
        <5>5. ~Awaited(w, b)
          BY <4>2 DEF Awaited
        <5> QED
          BY <3>5, <5>4, <5>5
      <4> QED
        BY <1>4, <4>1, <4>2
    <3> QED
      BY <1>1, <3>1, <3>3, <3>4, <3>5, <3>6 DEF PodOK, CauseOK
  <2> QED
    BY <1>5, <1>6, <1>7, <2>1, <2>2, SettledPod
<1>8. ASSUME NEW u \in Workers PROVE BatchOK(u)'
  <2>1. CASE u = w
    BY <1>2, <2>1 DEF BatchOK
  <2>2. CASE u # w
    <3>1. \A b \in batch[u] : Awaited(u, b) => Awaited(u, b)'
      BY <1>1, <2>2 DEF Awaited
    <3> QED
      BY <1>2, <1>5, <1>6, <2>2, <3>1, SettledBatch
  <2> QED
    BY <2>1, <2>2
<1>9. \A u \in Workers : VerdictOK(u)'
  BY <1>2, <1>5, <1>6, SettledVerdict
<1>10. KillsOK'
  BY <1>1, <1>6, SettledKills
<1>11. CleanInv'
  <2> SUFFICES ASSUME ~overlap PROVE Alone' /\ \A p \in Pods : Cleaned(p)' /\ HeldOK(p)'
    BY <1>1 DEF CleanInv
  <2>1. \A u \in Workers : proc'[u] = "down"
    BY <1>1, <1>2 DEF CleanInv, Alone
  <2>2. ASSUME NEW p \in Pods PROVE ~Held(p)'
    <3>1. WorkerOf[p] \in Workers /\ proc'[WorkerOf[p]] = "down" /\ OwnerOK(p)'
      BY <1>7, <2>1, FleetAssumption DEF PodOK
    <3> QED
      BY <3>1 DEF Held, OwnerOK, Running, Spinning
  <2> QED
    BY <2>1, <2>2 DEF Alone, Cleaned, HeldOK
<1> QED
  BY <1>5, <1>7, <1>8, <1>9, <1>10, <1>11 DEF FleetInv

-----------------------------------------------------------------------------
(***************************************************************************)
(* The health checker, and the terminations under way.                      *)
(***************************************************************************)
LEMMA ProbeOkStep ==
  ASSUME FleetInv, NEW w \in Workers, NEW p \in Pods, ProbeOk(w, p)
  PROVE  FleetInv'
<1>1. /\ TypeOK /\ PodOK(p) /\ proc[w] = "up" /\ row[p].status = "ready"
      /\ row' = [row EXCEPT ![p].failures = 0]
      /\ UNCHANGED <<procVars, spinVars, cloudVars, verdict, bad>>
  BY DEF FleetInv, ProbeOk, Probing
<1>2. /\ row' \in [Pods -> Row] /\ \A q \in Pods \ {p} : row'[q] = row[q]
      /\ row'[p].status = row[p].status /\ row'[p].ext = row[p].ext
      /\ row'[p].failures = 0
  <2> DEFINE new == [row[p] EXCEPT !.failures = 0]
  <2>1. row \in [Pods -> Row] /\ row[p] \in Row
    BY <1>1 DEF TypeOK
  <2>2. /\ new \in Row /\ new.status = row[p].status /\ new.ext = row[p].ext
        /\ new.failures = 0
    BY <2>1 DEF Row
  <2>3. row' = [row EXCEPT ![p] = new]
    BY <1>1
  <2> HIDE DEF new
  <2> QED
    BY <2>1, <2>2, <2>3
<1>3. TypeOK'
  BY <1>1, <1>2 DEF TypeOK, procVars, spinVars, cloudVars
<1>4. CallMove(p)
  BY <1>1, <1>2 DEF CallMove, Aside, Named, Exists, procVars, spinVars, cloudVars
<1>5. PodOK(p)'
  <2>1. LaunchOK(p)' /\ LostOK(p)'
    <3>1. row[p] # NoRow
      BY <1>1 DEF NoRow
    <3> QED
      BY <1>1, <3>1 DEF PodOK, LaunchOK, Requests, LostOK, spinVars, cloudVars
  <2>2. RowOK(p)' /\ OwnerOK(p)'
    BY <1>1, <1>2 DEF PodOK, RowOK, OwnerOK, Running, Spinning, Named, Exists, procVars, spinVars,
                      cloudVars
  <2>3. CountOK(p)'
    <3>1. bad[p] \in Nat /\ 0 < FailThreshold
      BY <1>1, FleetAssumption DEF TypeOK
    <3> QED
      BY <1>1, <1>2, <3>1 DEF CountOK
  <2>4. CauseOK(p)'
    BY <1>1, <1>2 DEF PodOK, CauseOK, Launching, Killing, Live, spinVars, cloudVars
  <2> QED
    BY <2>1, <2>2, <2>3, <2>4 DEF PodOK
<1>6. ~overlap => HeldOK(p)' /\ spin'[p] # "past"
  BY <1>1, <1>2 DEF FleetInv, CleanInv, Cleaned, Exists, HeldOK, Held, Killing,
                    procVars, spinVars, cloudVars
<1> QED
  BY <1>1, <1>3, <1>4, <1>5, <1>6, MoveKeeps DEF Running

(* A failed probe is counted before the count that includes it is written. *)
LEMMA ProbeBadStep ==
  ASSUME FleetInv, NEW w \in Workers, NEW p \in Pods, ProbeBad(w, p)
  PROVE  FleetInv'
<1>1. /\ TypeOK /\ CleanInv /\ (\A q \in Pods : PodOK(q)) /\ row[p].status = "ready"
      /\ verdict' = [verdict EXCEPT ![w] = <<p, row[p].failures + 1>>]
      /\ bad' = [bad EXCEPT ![p] = IF bad[p] < FailThreshold THEN bad[p] + 1 ELSE bad[p]]
      /\ UNCHANGED <<procVars, spinVars, row, cloudVars>>
  BY DEF FleetInv, ProbeBad, Probing
<1>2. /\ row[p].failures \in Nat /\ row[p].failures <= bad[p]
      /\ row[p].failures < FailThreshold /\ FailThreshold \in Nat /\ bad[p] \in 0..FailThreshold
      /\ Named(p) /\ spin[p] \in {"done", "past"}
  BY <1>1, FleetAssumption DEF TypeOK, Row, PodOK, RowOK, CountOK
<1>3. /\ bad'[p] \in 0..FailThreshold /\ bad[p] <= bad'[p] /\ row[p].failures + 1 <= bad'[p]
      /\ \A q \in Pods \ {p} : bad'[q] = bad[q]
  <2>1. bad'[p] = (IF bad[p] < FailThreshold THEN bad[p] + 1 ELSE bad[p])
        /\ \A q \in Pods \ {p} : bad'[q] = bad[q]
    BY <1>1 DEF TypeOK
  <2> QED
    BY <1>2, <2>1
<1>4. TypeOK'
  <2>1. bad' \in [Pods -> 0..FailThreshold]
    BY <1>1, <1>3 DEF TypeOK
  <2>2. verdict' \in [Workers -> (Pods \X Nat) \cup {None}]
    BY <1>1, <1>2 DEF TypeOK
  <2> QED
    BY <1>1, <2>1, <2>2 DEF TypeOK, procVars, spinVars, cloudVars
<1>5. ASSUME NEW q \in Pods PROVE Settled(q)
  BY <1>1, <1>3, <1>5, FleetAssumption DEF TypeOK, Settled, spinVars, cloudVars
<1>6. ASSUME NEW q \in Pods PROVE PodOK(q)'
  <2>1. CauseOK(q)' /\ OwnerOK(q)'
    BY <1>1, <1>6 DEF PodOK, CauseOK, OwnerOK, Running, Spinning, Launching, Killing, Live,
                      procVars, spinVars, cloudVars
  <2> QED
    BY <1>4, <1>5, <1>6, <2>1, SettledPod DEF CauseOK
<1>7. ASSUME NEW u \in Workers PROVE VerdictOK(u)'
  <2>1. CASE u = w
    <3>1. verdict'[w] = <<p, row[p].failures + 1>>
      BY <1>1 DEF TypeOK
    <3> QED
      BY <1>1, <1>2, <1>3, <2>1, <3>1 DEF VerdictOK, Named, Exists, spinVars
  <2>2. CASE u # w
    <3>1. verdict'[u] = verdict[u]
      BY <1>1, <2>2 DEF TypeOK
    <3> QED
      BY <1>4, <1>5, <3>1, SettledVerdict
  <2> QED
    BY <2>1, <2>2
<1>8. \A u \in Workers : BatchOK(u)'
  BY <1>1, <1>4, <1>5, SettledBatch DEF Awaited, procVars, cloudVars
<1>9. KillsOK'
  BY <1>1, <1>5, SettledKills DEF cloudVars
<1>10. CleanInv'
  BY <1>1 DEF CleanInv, Alone, Cleaned, HeldOK, Held, Killing, Exists, procVars, spinVars,
              cloudVars
<1> QED
  BY <1>4, <1>6, <1>7, <1>8, <1>9, <1>10 DEF FleetInv

(* The count is written, and a pod at the limit is condemned. *)
LEMMA CommitVerdictStep ==
  ASSUME FleetInv, NEW w \in Workers, CommitVerdict(w)
  PROVE  FleetInv'
<1>0. PICK p \in Pods, count \in Nat : verdict[w] = <<p, count>>
  BY DEF FleetInv, TypeOK, CommitVerdict
<1>1. /\ TypeOK /\ CleanInv /\ KillsOK /\ (\A q \in Pods : PodOK(q)) /\ verdict[w] # None
      /\ verdict' = [verdict EXCEPT ![w] = None]
      /\ UNCHANGED <<procVars, spinVars, made, alive, fault, bad>>
  BY DEF FleetInv, CommitVerdict
<1>2. /\ p \in Pods /\ count \in Nat /\ count <= bad[p] /\ bad[p] \in Nat
      /\ FailThreshold \in Nat /\ row[p] \in Row
      /\ Named(p) /\ spin[p] \in {"done", "past"}
  <2>1. verdict[w][1] = p /\ verdict[w][2] = count
    BY <1>0
  <2>2. Named(p) /\ spin[p] \in {"done", "past"} /\ count <= bad[p]
    BY <1>1, <2>1 DEF FleetInv, VerdictOK
  <2> QED
    BY <1>0, <1>1, <2>2, FleetAssumption DEF TypeOK
<1>3. \A u \in Workers : verdict'[u] \in {verdict[u], None}
  BY <1>1 DEF TypeOK
<1>4. verdict' \in [Workers -> (Pods \X Nat) \cup {None}]
  BY <1>1 DEF TypeOK
<1>5. CASE ~Exists(p)
  <2>1. UNCHANGED <<row, kills>>
    BY <1>0, <1>5 DEF CommitVerdict
  <2>2. TypeOK'
    BY <1>1, <1>4, <2>1 DEF TypeOK, procVars, spinVars
  <2>3. ASSUME NEW q \in Pods PROVE Settled(q)
    BY <1>1, <2>1, <2>3, FleetAssumption DEF TypeOK, Settled, spinVars
  <2>4. ASSUME NEW q \in Pods PROVE PodOK(q)'
    <3>1. CauseOK(q)' /\ OwnerOK(q)'
      BY <1>1, <2>1, <2>4 DEF PodOK, CauseOK, OwnerOK, Running, Spinning, Launching, Killing,
                              Live, procVars, spinVars
    <3> QED
      BY <2>2, <2>3, <2>4, <3>1, SettledPod DEF CauseOK
  <2>5. \A u \in Workers : BatchOK(u)' /\ VerdictOK(u)'
    BY <1>1, <1>3, <2>1, <2>2, <2>3, SettledBatch, SettledVerdict DEF Awaited, procVars
  <2>6. KillsOK'
    BY <2>1, <2>3, SettledKills
  <2>7. CleanInv'
    BY <1>1, <2>1 DEF CleanInv, Alone, Cleaned, HeldOK, Held, Killing, Exists, procVars,
                      spinVars
  <2> QED
    BY <2>2, <2>4, <2>5, <2>6, <2>7 DEF FleetInv
<1>6. CASE Exists(p)
  <2> DEFINE condemned == count >= FailThreshold
             s == IF condemned THEN "failed" ELSE row[p].status
             new == [row[p] EXCEPT !.failures = count, !.status = s]
             k == Terminating(p, row[p].ext, w, FALSE)
  <2>1. /\ row' = [row EXCEPT ![p] = new]
        /\ kills' = IF condemned /\ Rents(p) THEN kills \cup {k} ELSE kills
    <3>1. verdict[w][1] = p /\ verdict[w][2] = count
      BY <1>0
    <3>2. /\ row' = [row EXCEPT ![p].failures = count,
                             ![p].status = IF count >= FailThreshold THEN "failed" ELSE @]
          /\ kills' = IF count >= FailThreshold /\ Rents(p)
                      THEN kills \cup {Terminating(p, row[p].ext, w, FALSE)} ELSE kills
      BY <1>6, <3>1 DEF CommitVerdict
    <3>3. row[p] \in [status : Status, ext : {0} \cup Instances, failures : Nat]
      BY <1>2 DEF Row
    <3>4. [row[p] EXCEPT !.failures = count].status = row[p].status
      BY <3>3
    <3> QED
      BY <1>1, <3>2, <3>4 DEF TypeOK
  <2>2. new \in Row /\ new.status = s /\ new.ext = row[p].ext /\ new.failures = count
    <3>1. s \in Status
      BY <1>2 DEF Row, Status
    <3> HIDE DEF s
    <3> QED
      BY <1>2, <3>1 DEF Row
  <2>3. s # "none" /\ (condemned => s = "failed") /\ (~condemned => s = row[p].status)
    BY <1>6 DEF Exists
  <2>4. condemned \/ count < FailThreshold
    BY <1>2
  <2>5. Rents(p) => row[p].ext \in Instances /\ row[p].ext = made[p] /\ spin[p] \in Late
    BY <1>1, <1>2, <1>6 DEF Named, PodOK, RowOK, Row
  <2>6. k.pod = p /\ k.ext = row[p].ext /\ (Rents(p) => k \in Kill)
    BY <1>2, <2>5, TriesToTerminate DEF Terminating, Kill
  <2> HIDE DEF s, new, condemned, k
  <2>7. /\ row' \in [Pods -> Row] /\ \A q \in Pods \ {p} : row'[q] = row[q]
        /\ row'[p].status = s /\ row'[p].ext = row[p].ext /\ row'[p].failures = count
    BY <1>1, <1>2, <2>1, <2>2 DEF TypeOK
  <2>8. /\ kills \subseteq kills' /\ \A j \in kills' \ kills : j = k /\ Rents(p)
        /\ condemned /\ Rents(p) => k \in kills'
        /\ ~condemned => kills' = kills
    BY <2>1
  <2>9. TypeOK'
    <3>1. kills' \subseteq Kill
      BY <1>1, <2>6, <2>8 DEF TypeOK
    <3> QED
      BY <1>1, <1>4, <2>7, <3>1 DEF TypeOK, procVars, spinVars
  <2>10. ASSUME NEW q \in Pods PROVE PodOK(q)'
    <3>1. ASSUME NEW n \in Instances, Killing(q, n) PROVE Killing(q, n)'
      BY <2>8, <3>1 DEF Killing
    <3>2. OwnerOK(q)' /\ \A n \in Instances : Launching(q, n) => Launching(q, n)'
      BY <1>1, <2>10 DEF PodOK, OwnerOK, Running, Spinning, Launching, procVars, spinVars
    <3>3. CASE q = p
      <4>1. LaunchOK(p)' /\ LostOK(p)'
        BY <1>1, <1>2 DEF PodOK, LaunchOK, Requests, LostOK, spinVars
      <4>2. RowOK(p)'
        BY <1>1, <1>2, <2>3, <2>7 DEF PodOK, RowOK, Named, Exists, spinVars
      <4>3. CountOK(p)'
        BY <1>1, <1>2, <2>3, <2>4, <2>7 DEF CountOK, spinVars
      <4>4. ASSUME NEW n \in alive'[p]
            PROVE  (\/ Launching(p, n) \/ Killing(p, n) \/ Live(p, n)
                    \/ fault[p][n] \in Causes(p))'
        <5>1. n \in alive[p] /\ n \in Instances /\ Rents(p)
          <6>1. n \in alive[p] /\ n \in Instances /\ n <= made[p] /\ made[p] \in Nat
            BY <1>1, <1>2, <4>4, Numbers DEF TypeOK, PodOK, LaunchOK
          <6>2. ~Rents(p) => made[p] = 0
            BY <1>1, <1>2 DEF PodOK, LaunchOK
          <6> QED
            BY <6>1, <6>2 DEF Instances
        <5>2. CASE Live(p, n) /\ condemned
          BY <2>6, <2>8, <5>1, <5>2 DEF Live, Killing
        <5>3. CASE Live(p, n) /\ ~condemned
          BY <1>1, <2>3, <2>7, <5>3 DEF Live, spinVars
        <5>4. CASE ~Live(p, n)
          BY <1>1, <1>2, <3>1, <3>2, <3>3, <5>1, <5>4 DEF PodOK, CauseOK
        <5> QED
          BY <5>2, <5>3, <5>4
      <4>5. CauseOK(p)'
        BY <1>1, <1>2, <4>4 DEF PodOK, CauseOK
      <4> QED
        BY <3>2, <3>3, <4>1, <4>2, <4>3, <4>5 DEF PodOK
    <3>4. CASE q # p
      <4>1. row'[q] = row[q]
        BY <2>7, <2>10, <3>4
      <4>2. Settled(q)
        BY <1>1, <2>10, <4>1, FleetAssumption DEF TypeOK, Settled, spinVars
      <4>3. ASSUME NEW n \in alive'[q]
            PROVE  (\/ Launching(q, n) \/ Killing(q, n) \/ Live(q, n)
                    \/ fault[q][n] \in Causes(q))'
        <5>1. n \in alive[q] /\ n \in Instances
          BY <1>1, <2>10, <4>3 DEF TypeOK
        <5> QED
          BY <1>1, <2>10, <3>1, <3>2, <4>1, <5>1 DEF PodOK, CauseOK, Live, spinVars
      <4> QED
        BY <2>9, <2>10, <3>2, <4>2, <4>3, SettledPod
    <3> QED
      BY <3>3, <3>4
  <2>11. ASSUME NEW u \in Workers PROVE BatchOK(u)'
    <3>1. \A b \in batch[u] : Awaited(u, b) => Awaited(u, b)'
      BY <2>8 DEF Awaited
    <3> QED
      BY <1>1, <3>1 DEF FleetInv, BatchOK, procVars, spinVars
  <2>12. ASSUME NEW u \in Workers PROVE VerdictOK(u)'
    <3>1. CASE verdict'[u] = None
      BY <3>1 DEF VerdictOK
    <3>2. CASE verdict'[u] = verdict[u] /\ verdict[u] # None
      <4>1. PICK r \in Pods : verdict[u][1] = r
        BY <1>1, <2>12, <3>2 DEF TypeOK
      <4>2. Named(r) /\ spin[r] \in {"done", "past"} /\ verdict[u][2] <= bad[r]
        BY <2>12, <3>2, <4>1 DEF FleetInv, VerdictOK
      <4>3. Named(r)'
        BY <1>6, <2>3, <2>7, <4>2 DEF Named, Exists
      <4> QED
        BY <1>1, <3>2, <4>1, <4>2, <4>3 DEF VerdictOK, spinVars
    <3> QED
      BY <1>3, <2>12, <3>1, <3>2
  <2>13. KillsOK'
    BY <1>1, <2>5, <2>6, <2>8 DEF KillsOK, spinVars
  <2>14. CleanInv'
    <3> SUFFICES ASSUME ~overlap PROVE Alone' /\ \A q \in Pods : Cleaned(q)' /\ HeldOK(q)'
      BY <1>1 DEF CleanInv, procVars
    <3>1. Alone /\ \A q \in Pods : Cleaned(q) /\ HeldOK(q)
      BY <1>1 DEF CleanInv
    <3>2. \A q \in Pods : Cleaned(q)'
      BY <1>1, <1>6, <2>7, <3>1 DEF Cleaned, Exists, procVars, spinVars
    <3>3. HeldOK(p)'
      <4>1. CASE condemned
        BY <1>1, <1>2, <2>3, <2>7, <4>1 DEF HeldOK, Held, spinVars
      <4>2. CASE ~condemned
        BY <1>1, <1>2, <2>3, <2>7, <2>8, <3>1, <4>2
           DEF HeldOK, Held, Killing, procVars, spinVars
      <4> QED
        BY <4>1, <4>2
    <3>4. ASSUME NEW q \in Pods, q # p PROVE HeldOK(q)'
      BY <1>1, <2>6, <2>7, <2>8, <3>1, <3>4 DEF HeldOK, Held, Killing, procVars, spinVars
    <3> QED
      BY <1>1, <3>1, <3>2, <3>3, <3>4 DEF Alone, procVars
  <2> QED
    BY <2>9, <2>10, <2>11, <2>12, <2>13, <2>14 DEF FleetInv
<1> QED
  BY <1>5, <1>6

(* What a try of terminate() does to the set of terminations, the instance  *)
(* and its fault: it goes on, or it is over and the instance is gone or has *)
(* got a cause.                                                             *)
KillMove(k) ==
  /\ \A j \in kills : j # k => j \in kills'
  /\ \A j \in kills' : \E i \in kills : i.pod = j.pod /\ i.ext = j.ext
  /\ \/ \E j \in kills' : j.pod = k.pod /\ j.ext = k.ext /\ j.by = k.by /\ j.awaited = k.awaited
     \/ k.ext \notin alive'[k.pod]
     \/ fault'[k.pod][k.ext] \in Causes(k.pod)
  /\ \A q \in Pods : \A n \in alive[q] : n \in alive'[q] \/ (q = k.pod /\ n = k.ext)
  /\ \A q \in Pods : alive'[q] \subseteq alive[q]
  /\ \A q \in Pods, n \in Instances : 
       fault'[q][n] = fault[q][n] \/ (q = k.pod /\ n = k.ext /\ fault'[q][n] \in Causes(q))

LEMMA KillKeeps ==
  ASSUME FleetInv, NEW k \in kills, TypeOK', KillMove(k),
         UNCHANGED <<procVars, spinVars, row, made, verdict, bad>>
  PROVE  FleetInv'
<1>1. /\ TypeOK /\ CleanInv /\ (\A q \in Pods : PodOK(q))
      /\ k.pod \in Pods /\ k.ext \in Instances /\ k.ext = made[k.pod]
      /\ spin[k.pod] \notin {"offers", "create"}
  BY DEF FleetInv, TypeOK, KillsOK, Kill, Late
<1>2. ASSUME NEW q \in Pods PROVE Settled(q)
  BY <1>1, <1>2, FleetAssumption DEF TypeOK, Settled, KillMove, procVars, spinVars
<1>3. ASSUME NEW q \in Pods PROVE PodOK(q)'
  <2>1. OwnerOK(q)'
    BY <1>1, <1>3 DEF PodOK, OwnerOK, Running, Spinning, procVars, spinVars
  <2>2. ASSUME NEW n \in alive'[q]
        PROVE  (Launching(q, n) \/ Killing(q, n) \/ Live(q, n) \/ fault[q][n] \in Causes(q))'
    <3>1. n \in alive[q] /\ n \in Instances
      BY <1>1, <1>3, <2>2 DEF TypeOK, KillMove
    <3>2. Launching(q, n) \/ Killing(q, n) \/ Live(q, n) \/ fault[q][n] \in Causes(q)
      BY <1>1, <1>3, <3>1 DEF PodOK, CauseOK
    <3>3. CASE Killing(q, n)
      <4>1. PICK j \in kills : j.pod = q /\ j.ext = n
        BY <3>3 DEF Killing
      <4> QED
        BY <2>2, <4>1 DEF KillMove, Killing
    <3>4. CASE ~Killing(q, n)
      BY <1>3, <3>1, <3>2, <3>4 DEF Launching, Live, KillMove, spinVars
    <3> QED
      BY <3>3, <3>4
  <2> QED
    BY <1>2, <1>3, <2>1, <2>2, SettledPod
<1>4. ASSUME NEW u \in Workers PROVE BatchOK(u)'
  <2>1. ASSUME NEW b \in batch[u], Awaited(u, b)
        PROVE  \/ Awaited(u, b)'
               \/ b[2] \notin alive'[b[1]] \/ fault'[b[1]][b[2]] \in Causes(b[1])
    <3>1. PICK j \in kills : j.pod = b[1] /\ j.ext = b[2] /\ j.by = u /\ j.awaited
      BY <2>1 DEF Awaited
    <3> QED
      BY <3>1 DEF KillMove, Awaited
  <2> QED
    BY <1>2, <1>4, <2>1, SettledBatch DEF procVars
<1>5. \A u \in Workers : VerdictOK(u)'
  BY <1>2, SettledVerdict
<1>6. KillsOK'
  <2>1. \A j \in kills' : \E i \in kills : i.pod = j.pod /\ i.ext = j.ext
    BY DEF KillMove
  <2> QED
    BY <1>2, <2>1, SettledKills
<1>7. CleanInv'
  <2> SUFFICES ASSUME ~overlap PROVE Alone' /\ \A p \in Pods : Cleaned(p)' /\ HeldOK(p)'
    BY DEF CleanInv, procVars
  <2>1. Alone /\ \A p \in Pods : Cleaned(p) /\ HeldOK(p)
    BY <1>1 DEF CleanInv
  <2>2. ASSUME NEW p \in Pods PROVE HeldOK(p)'
    <3> SUFFICES ASSUME Rents(p), Held(p)' PROVE (made[p] \in alive[p] /\ ~Killing(p, made[p]))'
      BY DEF HeldOK
    <3>1. made[p] \in alive[p] /\ ~Killing(p, made[p])
      BY <2>1, <2>2 DEF HeldOK, Held, procVars, spinVars
    <3>2. ~(p = k.pod /\ made[p] = k.ext)
      BY <3>1 DEF Killing
    <3> QED
      BY <2>2, <3>1, <3>2 DEF KillMove, Killing
  <2> QED
    BY <2>1, <2>2 DEF Alone, Cleaned, Exists, procVars, spinVars
<1> QED
  BY <1>3, <1>4, <1>5, <1>6, <1>7 DEF FleetInv

LEMMA TerminateDoneStep ==
  ASSUME FleetInv, NEW k \in kills, TerminateDone(k)
  PROVE  FleetInv'
<1>1. /\ TypeOK /\ k \in Kill /\ k.pod \in Pods /\ k.ext \in Instances
      /\ kills' = kills \ {k}
      /\ UNCHANGED <<procVars, spinVars, row, made, verdict, bad>>
  BY DEF FleetInv, TypeOK, Kill, TerminateDone, Finish
<1>2. CASE Foreign(k)
  <2>1. Befalls(k.pod, k.ext, "own_account") /\ UNCHANGED alive
    BY <1>2 DEF TerminateDone
  <2>2. "own_account" \in Causes(k.pod) /\ "own_account" \in Faults
    BY <1>2 DEF Foreign, Causes, Faults
  <2>3. /\ fault' \in [Pods -> [Instances -> Faults]]
        /\ \A q \in Pods \ {k.pod} : fault'[q] = fault[q]
        /\ fault'[k.pod][k.ext] = "own_account"
        /\ \A m \in Instances \ {k.ext} : fault'[k.pod][m] = fault[k.pod][m]
    BY <1>1, <2>1, <2>2, BefallsMoves
  <2>4. TypeOK'
    BY <1>1, <2>1, <2>3 DEF TypeOK, procVars, spinVars
  <2>5. KillMove(k)
    BY <1>1, <2>1, <2>2, <2>3 DEF KillMove
  <2> QED
    BY <1>1, <2>4, <2>5, KillKeeps
<1>3. CASE ~Foreign(k)
  <2>1. alive' = [alive EXCEPT ![k.pod] = alive[k.pod] \ {k.ext}] /\ UNCHANGED fault
    BY <1>3 DEF TerminateDone, Stop
  <2>2. /\ alive' \in [Pods -> SUBSET Instances] /\ alive'[k.pod] = alive[k.pod] \ {k.ext}
        /\ \A q \in Pods \ {k.pod} : alive'[q] = alive[q]
    BY <1>1, <2>1 DEF TypeOK
  <2>3. TypeOK'
    BY <1>1, <2>1, <2>2 DEF TypeOK, procVars, spinVars
  <2>4. KillMove(k)
    BY <1>1, <2>1, <2>2 DEF KillMove
  <2> QED
    BY <1>1, <2>3, <2>4, KillKeeps
<1> QED
  BY <1>2, <1>3

LEMMA TerminateFailsStep ==
  ASSUME FleetInv, NEW k \in kills, TerminateFails(k)
  PROVE  FleetInv'
<1>1. /\ TypeOK /\ k \in Kill /\ k.pod \in Pods /\ k.ext \in Instances
      /\ UNCHANGED <<procVars, spinVars, row, made, verdict, bad>>
  BY DEF FleetInv, TypeOK, Kill, TerminateFails
<1>2. /\ alive' \in [Pods -> SUBSET Instances]
      /\ \A q \in Pods : /\ alive'[q] \subseteq alive[q]
                         /\ \A n \in alive[q] : n \in alive'[q] \/ (q = k.pod /\ n = k.ext)
  BY <1>1 DEF TypeOK, TerminateFails, Stop
<1>3. CASE k.left > 1
  <2> DEFINE again == [k EXCEPT !.left = @ - 1]
  <2>1. kills' = (kills \ {k}) \cup {again} /\ UNCHANGED fault
    BY <1>3 DEF TerminateFails
  <2>2. k.left - 1 \in 1..3
    BY <1>1, <1>3 DEF Kill
  <2>3. /\ again \in Kill /\ again.pod = k.pod /\ again.ext = k.ext /\ again.by = k.by
        /\ again.awaited = k.awaited
    BY <1>1, <2>2 DEF Kill
  <2> HIDE DEF again
  <2>4. TypeOK'
    BY <1>1, <1>2, <2>1, <2>3 DEF TypeOK, procVars, spinVars
  <2>5. KillMove(k)
    BY <1>1, <1>2, <2>1, <2>3 DEF KillMove
  <2> QED
    BY <1>1, <2>4, <2>5, KillKeeps
<1>4. CASE ~(k.left > 1)
  <2>1. kills' = kills \ {k} /\ Befalls(k.pod, k.ext, "gave_up")
    BY <1>4 DEF TerminateFails, Finish
  <2>2. "gave_up" \in Causes(k.pod) /\ "gave_up" \in Faults
    BY DEF Causes, Faults
  <2>3. /\ fault' \in [Pods -> [Instances -> Faults]]
        /\ \A q \in Pods \ {k.pod} : fault'[q] = fault[q]
        /\ fault'[k.pod][k.ext] = "gave_up"
        /\ \A m \in Instances \ {k.ext} : fault'[k.pod][m] = fault[k.pod][m]
    BY <1>1, <2>1, <2>2, BefallsMoves
  <2>4. TypeOK'
    BY <1>1, <1>2, <2>1, <2>3 DEF TypeOK, procVars, spinVars
  <2>5. KillMove(k)
    BY <1>1, <1>2, <2>1, <2>2, <2>3 DEF KillMove
  <2> QED
    BY <1>1, <2>4, <2>5, KillKeeps
<1> QED
  BY <1>3, <1>4

-----------------------------------------------------------------------------
(***************************************************************************)
(* The theorems.                                                            *)
(***************************************************************************)
LEMMA FleetInvInit == Init => FleetInv
<1> SUFFICES ASSUME Init PROVE FleetInv
  OBVIOUS
<1>1. TypeOK
  <2>1. NoRow \in Row
    BY DEF NoRow, Row, Status
  <2>2. 0 \in 0..FailThreshold /\ 0 \in 0..MaxStarts
    BY FleetAssumption
  <2>3. /\ proc \in [Workers -> {"down", "stale", "reset", "dedicated", "up", "stopping"}]
        /\ batch \in [Workers -> SUBSET (Pods \X ({0} \cup Instances))]
        /\ cooling \in [Workers -> BOOLEAN] /\ overlap \in BOOLEAN
        /\ verdict \in [Workers -> (Pods \X Nat) \cup {None}] /\ kills \subseteq Kill
    BY DEF Init
  <2>4. /\ spin \in [Pods -> SpinLocs] /\ attempt \in [Pods -> 0..3] /\ offer \in [Pods -> Nat]
        /\ url \in [Pods -> BOOLEAN] /\ made \in [Pods -> {0} \cup Instances]
        /\ alive \in [Pods -> SUBSET Instances]
    BY DEF Init, SpinLocs
  <2>5. fault \in [Pods -> [Instances -> Faults]]
    BY DEF Init, Faults
  <2> QED
    BY <2>1, <2>2, <2>3, <2>4, <2>5 DEF Init, TypeOK
<1>2. ASSUME NEW p \in Pods PROVE PodOK(p)
  <2>1. LaunchTries(p) \in 1..3 /\ bad[p] = 0 /\ row[p] = NoRow /\ spin[p] = "idle"
        /\ made[p] = 0 /\ attempt[p] = 0 /\ offer[p] = 0 /\ alive[p] = {}
        /\ \A n \in Instances : fault[p][n] = "none"
    BY <1>2, Tries DEF Init
  <2>2. LaunchOK(p)
    BY <2>1, FleetAssumption DEF LaunchOK, Requests, MostMade
  <2>3. RowOK(p) /\ CountOK(p)
    BY <2>1 DEF RowOK, CountOK, NoRow
  <2>4. CauseOK(p) /\ OwnerOK(p)
    BY <2>1 DEF CauseOK, OwnerOK, Running, Spinning
  <2>5. LostOK(p)
    BY <2>1 DEF LostOK, Instances
  <2> QED
    BY <2>2, <2>3, <2>4, <2>5 DEF PodOK
<1>3. KillsOK /\ \A w \in Workers : BatchOK(w) /\ VerdictOK(w)
  BY DEF Init, KillsOK, BatchOK, VerdictOK
<1>4. CleanInv
  BY DEF Init, CleanInv, Alone, Cleaned, HeldOK, Held
<1> QED
  BY <1>1, <1>2, <1>3, <1>4 DEF FleetInv

LEMMA FleetInvNext == FleetInv /\ [Next]_vars => FleetInv'
<1> SUFFICES ASSUME FleetInv, [Next]_vars PROVE FleetInv'
  OBVIOUS
<1>1. ASSUME NEW p \in Pods, SpinPod(p) PROVE FleetInv'
  BY <1>1, InsertRowStep, FindOffersStep, CreatedStep, ResponseLostStep, CreateFailsStep,
     ErrorAnswerStep, BootStep, MarkLaunchFailedStep, MarkStartingStep,
     AwaitReadyStep, PublishStep
     DEF SpinPod
<1>2. ASSUME NEW p \in Pods, Ready(p) PROVE FleetInv'
  BY <1>2, MarkPodFailedStep, DashboardKillStep, RetireStep DEF Ready
<1>3. ASSUME NEW w \in Workers, Process(w) PROVE FleetInv'
  BY <1>3, StartStep, MarkStaleStep, ResetApiRowsStep, CleanupDedicatedStep, StopSelectStep,
     ExitStep, CooldownStep, CommitVerdictStep, ProbeOkStep, ProbeBadStep
     DEF Process
<1>4. ASSUME NEW k \in kills, TerminateDone(k) \/ TerminateFails(k) PROVE FleetInv'
  BY <1>4, TerminateDoneStep, TerminateFailsStep
<1>5. CASE UNCHANGED vars
  <2>1. TypeOK'
    BY <1>5 DEF FleetInv, TypeOK, vars, procVars, spinVars, cloudVars
  <2> QED
    BY <1>5, <2>1, StillKeeps DEF vars, procVars, spinVars, cloudVars
<1> QED
  BY <1>1, <1>2, <1>3, <1>4, <1>5 DEF Next

(* The inductive invariant, which the others follow from: each call, each    *)
(* row, each worker's batch and verdict and each termination agree on which  *)
(* instance of a pod is meant, whatever fails, crashes or overlaps.          *)
THEOREM FleetInvHolds == Spec => []FleetInv
BY FleetInvInit, FleetInvNext, PTL DEF Spec

(* Every variable has its type: no try of launch() or terminate() beyond the *)
(* adapter's limit, no row with a status the code does not write.            *)
THEOREM TypesHold == Spec => []TypeOK
<1>1. FleetInv => TypeOK
  BY DEF FleetInv
<1> QED
  BY <1>1, FleetInvHolds, PTL

(* An instance that costs money without being launched, in service or about  *)
(* to be terminated has one of the causes the code leaves open, for any      *)
(* number of bridge processes that crash, overlap and clean up.              *)
THEOREM OrphansHaveCauses == Spec => []OrphanHasCause
<1>1. FleetInv => OrphanHasCause
  BY DEF FleetInv, PodOK, CauseOK, OrphanHasCause
<1> QED
  BY <1>1, FleetInvHolds, PTL

(* A request to rent makes one instance at most; launch() asks again only   *)
(* where it was not told what the last request has made; the row names the   *)
(* last instance; RunPod has one at most.                                    *)
THEOREM OneInstanceHolds == Spec => []OneInstancePerRequest
<1>1. ASSUME FleetInv PROVE OneInstancePerRequest
  <2> SUFFICES ASSUME NEW p \in Pods
               PROVE  /\ made[p] <= Requests(p)
                      /\ row[p].ext # 0 => row[p].ext = made[p] /\ ~Launching(p, made[p])
                      /\ \A n \in Instances : n < made[p] =>
                           fault[p][n] \in {"lost_response", "error_answer"}
                      /\ Adapter[p] = "runpod" => made[p] <= 1
    BY DEF OneInstancePerRequest
  <2>1. LaunchOK(p) /\ LostOK(p) /\ RowOK(p) /\ made[p] \in Nat /\ attempt[p] \in 0..3
    BY <1>1, Numbers DEF FleetInv, PodOK
  <2>2. Adapter[p] = "runpod" => LaunchTries(p) = 1 /\ Requests(p) = attempt[p]
    BY DEF LaunchTries, Requests
  <2>3. made[p] <= Requests(p) /\ attempt[p] <= LaunchTries(p)
    BY <2>1 DEF LaunchOK
  <2>4. Adapter[p] = "runpod" => made[p] <= 1
    BY <2>1, <2>2, <2>3
  <2>5. \A n \in Instances : n < made[p] => fault[p][n] \in {"lost_response", "error_answer"}
    BY <2>1 DEF LostOK, Unnamed
  <2>6. row[p].ext # 0 => row[p].ext = made[p] /\ ~Launching(p, made[p])
    BY <2>1 DEF RowOK, Launching, Late
  <2> QED
    BY <2>3, <2>4, <2>5, <2>6
<1> QED
  BY <1>1, FleetInvHolds, PTL

(* When processes start and stop one after the other, a running bridge has   *)
(* no row of an earlier life, and a rented pod that it hands out runs and    *)
(* nobody is about to terminate it.                                          *)
THEOREM StartsCleanHolds == Spec => []StartsClean
<1>1. ASSUME FleetInv PROVE StartsClean
  <2> SUFFICES ASSUME ~overlap, NEW w \in Workers, NEW p \in Pods, proc[w] = "up"
               PROVE  /\ Exists(p) => spin[p] # "past"
                      /\ row[p].status = "ready" /\ Rents(p) =>
                           row[p].ext \in alive[p] /\ ~Killing(p, row[p].ext)
    BY DEF StartsClean
  <2>1. Alone /\ Cleaned(p) /\ HeldOK(p) /\ PodOK(p)
    BY <1>1 DEF FleetInv, CleanInv
  <2>2. Exists(p) => spin[p] # "past"
    BY <2>1 DEF Cleaned
  <2>3. ASSUME row[p].status = "ready", Rents(p)
        PROVE  row[p].ext \in alive[p] /\ ~Killing(p, row[p].ext)
    <3>1. spin[p] = "done" /\ row[p].ext = made[p]
      BY <2>1, <2>2, <2>3 DEF PodOK, RowOK, Named, Exists
    <3>2. WorkerOf[p] \in Workers /\ proc[WorkerOf[p]] = "up"
      BY <2>1, <3>1, FleetAssumption DEF PodOK, OwnerOK, Running, Alone
    <3> QED
      BY <2>1, <2>3, <3>1, <3>2 DEF HeldOK, Held
  <2> QED
    BY <2>2, <2>3
<1> QED
  BY <1>1, FleetInvHolds, PTL

(* health_failures never counts more probes than have failed, whatever       *)
(* processes check a pod at the same time.                                   *)
THEOREM CountsOnlyFailures == Spec => []CountsFailedProbes
<1>1. FleetInv => CountsFailedProbes
  BY DEF FleetInv, PodOK, CountOK, CountsFailedProbes
<1> QED
  BY <1>1, FleetInvHolds, PTL
=============================================================================
