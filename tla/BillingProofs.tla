---------------------------- MODULE BillingProofs ----------------------------
(***************************************************************************)
(* Proofs about Billing, for any users, requests, costs and length of the   *)
(* month, and any number of billing runs.                                   *)
(***************************************************************************)
EXTENDS Billing, FiniteSetTheorems, WellFoundedInduction, TLAPS

(* The types that the records of TypeOK leave open. *)
Pending == [user : Users, rows : SUBSET Requests, seen : SUBSET Requests]
RunRecord == [pc : {"idle", "next", "sum", "done", "failed"}, month : Month, todo : SUBSET Users,
              user : Users \cup {None}, pending : SUBSET Pending, owed : SUBSET Users]

Types ==
  /\ now \in 0 .. MaxTime
  /\ row \in [Requests -> Row \cup {None}]
  /\ committed \in SUBSET Requests
  /\ active \in [Users -> BOOLEAN]
  /\ invoice \in [Users -> [Month -> Invoice \cup {None}]]
  /\ run \in [Runs -> RunRecord]

(* Only a row that has been flushed is committed. *)
Flushed == \A r \in committed : row[r] # None

(* A run sums one user at a time, and each of them once; it holds nothing    *)
(* before it begins or after it ends.                                        *)
OneSumEach ==
  \A i \in Runs :
    /\ run[i].pc \in {"idle", "done", "failed"} => run[i].todo = {} /\ run[i].pending = {}
    /\ run[i].pc = "sum" => run[i].user \in Users \ run[i].todo
    /\ \A p \in run[i].pending :
         /\ p.user \notin run[i].todo
         /\ run[i].pc = "sum" => p.user # run[i].user

(* What a sum has: the billable rows of its period among those it has seen. *)
SumOf(u, m, rows, seen) ==
  /\ rows \subseteq seen
  /\ \A r \in seen : r \in committed /\ UserOf[r] = u
  /\ \A r \in seen : r \in rows <=> Ok(r) /\ Within(r, m)

SumsExact ==
  /\ \A i \in Runs : \A p \in run[i].pending : SumOf(p.user, run[i].month, p.rows, p.seen)
  /\ \A u \in Users : \A m \in Month : invoice[u][m] # None =>
       SumOf(u, m, invoice[u][m].rows, invoice[u][m].seen)

(* A user who had something to pay is still to come, is being summed, waits *)
(* for the commit or has an invoice.                                        *)
OwedPending ==
  \A i \in Runs : \A u \in run[i].owed :
    /\ Billable(u, run[i].month) # {}
    /\ \/ u \in run[i].todo
       \/ run[i].pc = "sum" /\ run[i].user = u
       \/ \E p \in run[i].pending : p.user = u
       \/ invoice[u][run[i].month] # None

BillingInv == Types /\ Flushed /\ OneSumEach /\ SumsExact /\ OwedPending

-----------------------------------------------------------------------------
(***************************************************************************)
(* The clock                                                               *)
(***************************************************************************)
LEMMA FirstMonth == 0 \in Month
<1>1. Ticks \in Nat /\ Ticks >= 2 /\ MaxTime \in Nat
  BY BillingAssumption
<1>2. MaxTime \div Ticks \in Int /\ 0 <= MaxTime \div Ticks
  BY <1>1
<1> QED
  BY <1>2 DEF Month, MonthOf

(* The periods of two months do not meet. *)
LEMMA PeriodsApart ==
  ASSUME NEW m \in Month, NEW n \in Month, m < n, NEW r, row[r].at \in Nat,
         Within(r, m), Within(r, n)
  PROVE  FALSE
<1>1. Ticks \in Nat /\ m \in Nat /\ n \in Nat
  BY BillingAssumption DEF Month
<1>2. PICK k \in Nat : n = m + 1 + k
  <2>1. n - (m + 1) \in Nat /\ n = m + 1 + (n - (m + 1))
    BY <1>1
  <2> QED
    BY <2>1
<1>3. n * Ticks = (m + 1) * Ticks + k * Ticks
  BY <1>1, <1>2
<1>4. k * Ticks \in Nat /\ (m + 1) * Ticks \in Nat
  BY <1>1, <1>2
<1>5. n * Ticks <= row[r].at /\ row[r].at <= (m + 1) * Ticks - 2
  BY DEF Within, PeriodEnd
<1> QED
  BY <1>3, <1>4, <1>5

(* A time that is not in the last second of its month is in its period. *)
LEMMA InPeriod ==
  ASSUME NEW r, row[r].at \in Nat, ~LastSecond(row[r].at)
  PROVE  Within(r, MonthOf(row[r].at))
<1> DEFINE t == row[r].at
<1> DEFINE q == t \div Ticks
<1>1. Ticks \in Nat /\ Ticks >= 2 /\ t \in Nat
  BY BillingAssumption
<1>2. q \in Int /\ t % Ticks \in Int /\ t = q * Ticks + (t % Ticks)
  <2>1. q \in Int /\ t % Ticks \in Int
    BY <1>1
  <2>2. ASSUME NEW a \in Nat, NEW b \in Nat, b >= 2
        PROVE  a = (a \div b) * b + (a % b)
    BY <2>2, Z3
  <2> QED
    BY <1>1, <2>1, <2>2
<1>3. 0 <= t % Ticks /\ t % Ticks < Ticks
  BY <1>1
<1>4. t % Ticks # Ticks - 1
  BY DEF LastSecond
<1>5. q * Ticks \in Int /\ (q + 1) * Ticks = q * Ticks + Ticks
  BY <1>1, <1>2
<1>6. q * Ticks <= t /\ t <= (q + 1) * Ticks - 2
  <2> HIDE DEF q, t
  <2> QED
    BY <1>1, <1>2, <1>3, <1>4, <1>5
<1> QED
  BY <1>6 DEF Within, PeriodEnd, MonthOf

-----------------------------------------------------------------------------
(***************************************************************************)
(* The inductive invariant                                                  *)
(***************************************************************************)
LEMMA InitInv == Init => BillingInv
<1> SUFFICES ASSUME Init PROVE BillingInv
  OBVIOUS
<1>1. Idle \in RunRecord
  BY FirstMonth DEF Idle, RunRecord
<1>2. Types
  BY <1>1, BillingAssumption DEF Types, Init
<1>3. Flushed /\ OneSumEach /\ SumsExact /\ OwedPending
  BY DEF Init, Flushed, OneSumEach, SumsExact, OwedPending, Idle
<1> QED
  BY <1>2, <1>3 DEF BillingInv

(* What is recorded meanwhile: rows are added, the committed ones kept. *)
Records ==
  /\ UNCHANGED <<invoice, run>>
  /\ committed \subseteq committed'
  /\ \A r \in committed : row'[r] = row[r]

LEMMA RecordsKeepSums ==
  ASSUME BillingInv, Records
  PROVE  OneSumEach' /\ SumsExact' /\ OwedPending'
<1> USE DEF Records
<1>1. ASSUME NEW u, NEW m, NEW rows, NEW seen, SumOf(u, m, rows, seen)
      PROVE  SumOf(u, m, rows, seen)'
  BY <1>1 DEF SumOf, Ok, Within, PeriodEnd
<1>2. ASSUME NEW u, NEW m, Billable(u, m) # {}
      PROVE  (Billable(u, m) # {})'
  <2>1. PICK r : r \in Billable(u, m)
    BY <1>2
  <2>2. (r \in Billable(u, m))'
    BY <2>1 DEF Billable, RowsOf, Ok, Within, PeriodEnd
  <2> QED
    BY <2>2
<1>3. OneSumEach'
  BY DEF BillingInv, OneSumEach
<1>4. SumsExact'
  <2>1. \A i \in Runs : \A p \in run[i].pending : SumOf(p.user, run[i].month, p.rows, p.seen)'
    BY <1>1 DEF BillingInv, SumsExact
  <2>2. \A u \in Users : \A m \in Month : invoice[u][m] # None =>
          SumOf(u, m, invoice[u][m].rows, invoice[u][m].seen)'
    BY <1>1 DEF BillingInv, SumsExact
  <2> QED
    BY <2>1, <2>2 DEF SumsExact
<1>5. OwedPending'
  <2> SUFFICES ASSUME NEW i \in Runs', NEW u \in run'[i].owed
               PROVE  /\ (Billable(u, run[i].month) # {})'
                      /\ (\/ u \in run[i].todo
                          \/ run[i].pc = "sum" /\ run[i].user = u
                          \/ \E p \in run[i].pending : p.user = u
                          \/ invoice[u][run[i].month] # None)'
    BY DEF OwedPending
  <2>1. (Billable(u, run[i].month) # {})'
    BY <1>2 DEF BillingInv, OwedPending
  <2> QED
    BY <2>1 DEF BillingInv, OwedPending
<1> QED
  BY <1>3, <1>4, <1>5

LEMMA RecordSteps ==
  ASSUME BillingInv,
         \/ Tick
         \/ \E r \in Requests : Flush(r) \/ CommitRow(r)
         \/ \E u \in Users : SetActive(u)
         \/ UNCHANGED vars
  PROVE  BillingInv'
<1>1. Types'
  <2>1. CASE Tick
    BY <2>1, BillingAssumption DEF BillingInv, Types, Tick, ledgerVars
  <2>2. ASSUME NEW r \in Requests, Flush(r) PROVE Types'
    <3>1. PICK ok \in BOOLEAN : row' = [row EXCEPT ![r] = [at |-> now, ok |-> ok]]
      BY <2>2 DEF Flush
    <3>2. now \in Nat
      BY BillingAssumption DEF BillingInv, Types
    <3> QED
      BY <2>2, <3>1, <3>2 DEF BillingInv, Types, Flush, Row
  <2>3. ASSUME NEW r \in Requests, CommitRow(r) PROVE Types'
    BY <2>3 DEF BillingInv, Types, CommitRow
  <2>4. ASSUME NEW u \in Users, SetActive(u) PROVE Types'
    BY <2>4 DEF BillingInv, Types, SetActive, ledgerVars
  <2>5. CASE UNCHANGED vars
    BY <2>5 DEF BillingInv, Types, vars, ledgerVars
  <2> QED
    BY <2>1, <2>2, <2>3, <2>4, <2>5
<1>2. Flushed' /\ Records
  <2>1. ASSUME NEW r \in Requests, Flush(r) PROVE Flushed' /\ Records
    BY <2>1, NoneAssumption DEF BillingInv, Types, Flushed, Flush, Records, Row
  <2>2. ASSUME NEW r \in Requests, CommitRow(r) PROVE Flushed' /\ Records
    BY <2>2 DEF BillingInv, Flushed, CommitRow, Records
  <2>3. CASE Tick \/ (\E u \in Users : SetActive(u)) \/ UNCHANGED vars
    BY <2>3 DEF BillingInv, Flushed, Tick, SetActive, Records, vars, ledgerVars
  <2> QED
    BY <2>1, <2>2, <2>3
<1> QED
  BY <1>1, <1>2, RecordsKeepSums DEF BillingInv

LEMMA BeginStep ==
  ASSUME BillingInv, NEW i \in Runs, NEW m \in Month, Begin(i, m)
  PROVE  BillingInv'
<1> DEFINE found == {u \in Users : active[u]}
           owed == {u \in found : Billable(u, m) # {}}
<1>1. /\ run[i] \in RunRecord /\ run[i].pc = "idle"
      /\ run' = [run EXCEPT ![i] = [run[i] EXCEPT !.pc = "next", !.month = m,
                                                 !.todo = found, !.owed = owed]]
      /\ UNCHANGED <<now, row, committed, active, invoice>>
  BY DEF Begin, BillingInv, Types, ledgerVars
<1>2. Types'
  BY <1>1 DEF BillingInv, Types, RunRecord
<1>3. Flushed' /\ \A u, n : Billable(u, n)' = Billable(u, n)
  BY <1>1 DEF BillingInv, Flushed, Billable, RowsOf, Ok, Within, PeriodEnd
<1>4. run[i].pending = {}
  BY <1>1 DEF BillingInv, OneSumEach
<1>5. OneSumEach'
  BY <1>1, <1>4 DEF BillingInv, OneSumEach, Types, RunRecord
<1>6. SumsExact'
  BY <1>1, <1>4 DEF BillingInv, SumsExact, SumOf, Ok, Within, PeriodEnd, Types, RunRecord
<1>7. OwedPending'
  <2> SUFFICES ASSUME NEW j \in Runs, NEW u \in run'[j].owed
               PROVE  /\ Billable(u, run'[j].month) # {}
                      /\ \/ u \in run'[j].todo
                         \/ run'[j].pc = "sum" /\ run'[j].user = u
                         \/ \E p \in run'[j].pending : p.user = u
                         \/ invoice'[u][run'[j].month] # None
    BY <1>3 DEF OwedPending
  <2>1. CASE j = i
    BY <1>1, <2>1 DEF BillingInv, Types, RunRecord
  <2>2. CASE j # i
    BY <1>1, <2>2 DEF BillingInv, OwedPending, Types
  <2> QED
    BY <2>1, <2>2
<1> QED
  BY <1>2, <1>3, <1>5, <1>6, <1>7 DEF BillingInv

(* The steps that change the todo, user and pending of one run alone. *)
LEMMA CheckExistingStep ==
  ASSUME BillingInv, NEW i \in Runs, NEW u \in Users, CheckExisting(i, u)
  PROVE  BillingInv'
<1> DEFINE m == run[i].month
           skip == invoice[u][m] # None
<1>1. /\ run[i] \in RunRecord /\ run[i].pc = "next" /\ u \in run[i].todo
      /\ run' = [run EXCEPT ![i] =
             IF skip THEN [run[i] EXCEPT !.todo = @ \ {u}]
             ELSE [run[i] EXCEPT !.todo = @ \ {u}, !.user = u, !.pc = "sum"]]
      /\ UNCHANGED <<now, row, committed, active, invoice>>
  BY DEF CheckExisting, BillingInv, Types, ledgerVars
<1>2. Types'
  BY <1>1 DEF BillingInv, Types, RunRecord
<1>3. Flushed' /\ \A v, n : Billable(v, n)' = Billable(v, n)
  BY <1>1 DEF BillingInv, Flushed, Billable, RowsOf, Ok, Within, PeriodEnd
<1>4. /\ run'[i].month = m /\ run'[i].owed = run[i].owed
      /\ run'[i].pending = run[i].pending
      /\ run'[i].todo = run[i].todo \ {u}
      /\ run'[i].pc = (IF skip THEN "next" ELSE "sum")
      /\ ~skip => run'[i].user = u
      /\ \A j \in Runs \ {i} : run'[j] = run[j]
  BY <1>1 DEF BillingInv, Types, RunRecord
<1>5. OneSumEach'
  BY <1>1, <1>4 DEF BillingInv, OneSumEach
<1>6. SumsExact'
  BY <1>1, <1>4 DEF BillingInv, SumsExact, SumOf, Ok, Within, PeriodEnd
<1>7. OwedPending'
  BY <1>1, <1>3, <1>4 DEF BillingInv, OwedPending
<1> QED
  BY <1>2, <1>3, <1>5, <1>6, <1>7 DEF BillingInv

LEMMA AggregateStep ==
  ASSUME BillingInv, NEW i \in Runs, Aggregate(i)
  PROVE  BillingInv'
<1> DEFINE u == run[i].user
           m == run[i].month
           rows == Billable(u, m)
           new == [user |-> u, rows |-> rows, seen |-> RowsOf(u)]
           sums == IF rows = {} THEN run[i].pending ELSE run[i].pending \cup {new}
<1>1. /\ run[i] \in RunRecord /\ run[i].pc = "sum"
      /\ run' = [run EXCEPT ![i] = [run[i] EXCEPT !.pc = "next", !.pending = sums]]
      /\ UNCHANGED <<now, row, committed, active, invoice>>
  BY DEF Aggregate, BillingInv, Types, ledgerVars
<1>2. new \in Pending
  BY <1>1 DEF BillingInv, OneSumEach, Types, Pending, RowsOf, Billable
<1>3. Types'
  BY <1>1, <1>2 DEF BillingInv, Types, RunRecord
<1>4. Flushed' /\ \A v, n : Billable(v, n)' = Billable(v, n)
  BY <1>1 DEF BillingInv, Flushed, Billable, RowsOf, Ok, Within, PeriodEnd
<1>5. /\ run'[i].month = m /\ run'[i].owed = run[i].owed /\ run'[i].pending = sums
      /\ run'[i].todo = run[i].todo /\ run'[i].pc = "next"
      /\ \A j \in Runs \ {i} : run'[j] = run[j]
  BY <1>1 DEF BillingInv, Types, RunRecord
<1>6. OneSumEach'
  BY <1>1, <1>5 DEF BillingInv, OneSumEach
<1>7. SumsExact'
  <2>1. SumOf(u, m, rows, RowsOf(u))
    BY DEF SumOf, Billable, RowsOf
  <2>2. \A v, n, s, t : SumOf(v, n, s, t)' <=> SumOf(v, n, s, t)
    BY <1>1 DEF SumOf, Ok, Within, PeriodEnd
  <2> QED
    BY <1>1, <1>5, <2>1, <2>2 DEF BillingInv, SumsExact
<1>8. OwedPending'
  <2> SUFFICES ASSUME NEW j \in Runs, NEW v \in run'[j].owed
               PROVE  /\ Billable(v, run'[j].month) # {}
                      /\ \/ v \in run'[j].todo
                         \/ run'[j].pc = "sum" /\ run'[j].user = v
                         \/ \E p \in run'[j].pending : p.user = v
                         \/ invoice'[v][run'[j].month] # None
    BY <1>4 DEF OwedPending
  <2>1. CASE j # i
    BY <1>1, <1>5, <2>1 DEF BillingInv, OwedPending
  <2>2. CASE j = i /\ v = u
    <3>1. rows # {}
      BY <1>5, <2>2 DEF BillingInv, OwedPending
    <3>2. new \in run'[j].pending /\ new.user = v
      BY <1>5, <2>2, <3>1
    <3> QED
      BY <1>5, <2>2, <3>1, <3>2
  <2>3. CASE j = i /\ v # u
    BY <1>1, <1>5, <2>3 DEF BillingInv, OwedPending
  <2> QED
    BY <2>1, <2>2, <2>3
<1> QED
  BY <1>3, <1>4, <1>6, <1>7, <1>8 DEF BillingInv

(* The steps that write invoices, and those that end a run. *)
LEMMA EndOfRun ==
  ASSUME BillingInv, NEW i \in Runs, NEW pc \in {"done", "failed"}, End(i, pc)
  PROVE  /\ run' \in [Runs -> RunRecord]
         /\ run'[i].pc = pc /\ run'[i].month = run[i].month
         /\ run'[i].todo = {} /\ run'[i].pending = {}
         /\ run'[i].owed = (IF pc = "done" THEN run[i].owed ELSE {})
         /\ \A j \in Runs \ {i} : run'[j] = run[j]
<1>1. run[i] \in RunRecord
  BY DEF BillingInv, Types
<1> DEFINE ended == [Idle EXCEPT !.pc = pc, !.month = run[i].month,
                                 !.owed = IF pc = "done" THEN run[i].owed ELSE {}]
<1>2. /\ ended \in RunRecord
      /\ ended.pc = pc /\ ended.month = run[i].month
      /\ ended.todo = {} /\ ended.pending = {}
      /\ ended.owed = (IF pc = "done" THEN run[i].owed ELSE {})
  BY <1>1 DEF Idle, RunRecord
<1>3. run' = [run EXCEPT ![i] = ended]
  BY DEF End
<1> HIDE DEF ended
<1> QED
  BY <1>2, <1>3 DEF BillingInv, Types

LEMMA FailRunStep ==
  ASSUME BillingInv, NEW i \in Runs,
         End(i, "failed"), UNCHANGED <<now, row, committed, active, invoice>>
  PROVE  BillingInv'
<1>1. /\ run' \in [Runs -> RunRecord]
      /\ run'[i].pc = "failed" /\ run'[i].owed = {}
      /\ run'[i].todo = {} /\ run'[i].pending = {}
      /\ \A j \in Runs \ {i} : run'[j] = run[j]
  BY EndOfRun
<1>2. Types'
  BY <1>1 DEF BillingInv, Types
<1>3. Flushed' /\ \A v, n : Billable(v, n)' = Billable(v, n)
  BY DEF BillingInv, Flushed, Billable, RowsOf, Ok, Within, PeriodEnd
<1>4. OneSumEach'
  BY <1>1 DEF BillingInv, OneSumEach
<1>5. SumsExact'
  BY <1>1 DEF BillingInv, SumsExact, SumOf, Ok, Within, PeriodEnd
<1>6. OwedPending'
  BY <1>1, <1>3 DEF BillingInv, OwedPending
<1> QED
  BY <1>2, <1>3, <1>4, <1>5, <1>6 DEF BillingInv

(* Invoices stay, and what is new has its exact sum. *)
LEMMA InvoicesWritten ==
  ASSUME BillingInv, NEW i \in Runs, NEW m \in Month, m = run[i].month,
         \A p \in run[i].pending : invoice[p.user][m] = None,
         invoice' = [u \in Users |->
           IF {p \in run[i].pending : p.user = u} = {} THEN invoice[u]
           ELSE [invoice[u] EXCEPT ![m] =
                   LET p == CHOOSE p \in {p \in run[i].pending : p.user = u} : TRUE
                   IN  [rows |-> p.rows, status |-> "open", seen |-> p.seen]]]
  PROVE  /\ invoice' \in [Users -> [Month -> Invoice \cup {None}]]
         /\ \A u \in Users, n \in Month : invoice[u][n] # None => invoice'[u][n] = invoice[u][n]
         /\ \A p \in run[i].pending : invoice'[p.user][m] # None
         /\ \A u \in Users, n \in Month : invoice'[u][n] # None =>
              SumOf(u, n, invoice'[u][n].rows, invoice'[u][n].seen)
<1> DEFINE new(u) == {p \in run[i].pending : p.user = u}
           chosen(u) == CHOOSE p \in new(u) : TRUE
           made(u) == [rows |-> chosen(u).rows, status |-> "open", seen |-> chosen(u).seen]
<1>1. run[i].pending \subseteq Pending
  BY DEF BillingInv, Types, RunRecord
<1>2. ASSUME NEW u \in Users, new(u) # {}
      PROVE  /\ chosen(u) \in run[i].pending /\ chosen(u).user = u
             /\ made(u) \in Invoice /\ made(u) # None
             /\ SumOf(u, m, made(u).rows, made(u).seen)
             /\ invoice[u][m] = None
  <2>1. chosen(u) \in new(u)
    BY <1>2
  <2>2. chosen(u) \in run[i].pending /\ chosen(u).user = u /\ chosen(u) \in Pending
    BY <1>1, <2>1
  <2>3. made(u) \in Invoice
    BY <2>2 DEF Pending, Invoice
  <2>4. SumOf(u, m, chosen(u).rows, chosen(u).seen)
    BY <2>2 DEF BillingInv, SumsExact
  <2> QED
    BY <2>2, <2>3, <2>4, NoneAssumption
<1>3. ASSUME NEW u \in Users, NEW n \in Month
      PROVE  invoice'[u][n] = (IF new(u) # {} /\ n = m THEN made(u) ELSE invoice[u][n])
  BY <1>3 DEF BillingInv, Types
<1>4. invoice' \in [Users -> [Month -> Invoice \cup {None}]]
  <2> SUFFICES ASSUME NEW u \in Users PROVE invoice'[u] \in [Month -> Invoice \cup {None}]
    OBVIOUS
  <2>1. CASE new(u) = {}
    BY <2>1 DEF BillingInv, Types
  <2>2. CASE new(u) # {}
    <3>1. invoice'[u] = [invoice[u] EXCEPT ![m] = made(u)]
      BY <2>2
    <3>2. made(u) \in Invoice
      BY <1>2, <2>2
    <3> QED
      BY <3>1, <3>2 DEF BillingInv, Types
  <2> QED
    BY <2>1, <2>2
<1> HIDE DEF made, chosen
<1>5. \A u \in Users, n \in Month : invoice[u][n] # None => invoice'[u][n] = invoice[u][n]
  BY <1>2, <1>3
<1>6. \A p \in run[i].pending : invoice'[p.user][m] # None
  <2> SUFFICES ASSUME NEW p \in run[i].pending PROVE invoice'[p.user][m] # None
    OBVIOUS
  <2>1. p.user \in Users /\ p \in new(p.user)
    BY <1>1 DEF Pending
  <2>2. new(p.user) # {}
    BY <2>1
  <2> HIDE DEF new
  <2>3. made(p.user) # None
    BY <1>2, <2>1, <2>2
  <2>4. invoice'[p.user][m] = made(p.user)
    BY <1>3, <2>1, <2>2
  <2> QED
    BY <2>3, <2>4
<1>7. \A u \in Users, n \in Month : invoice'[u][n] # None =>
        SumOf(u, n, invoice'[u][n].rows, invoice'[u][n].seen)
  BY <1>2, <1>3 DEF BillingInv, SumsExact
<1> QED
  BY <1>4, <1>5, <1>6, <1>7

LEMMA CommitRunStep ==
  ASSUME BillingInv, NEW i \in Runs, CommitRun(i)
  PROVE  BillingInv'
<1> DEFINE m == run[i].month
<1>1. CASE End(i, "failed") /\ UNCHANGED invoice
  BY <1>1, FailRunStep DEF CommitRun, ledgerVars
<1>2. CASE ~(End(i, "failed") /\ UNCHANGED invoice)
  <2>1. /\ run[i].pc = "next" /\ run[i].todo = {}
        /\ End(i, "done")
        /\ UNCHANGED <<now, row, committed, active>>
    BY <1>2 DEF CommitRun, ledgerVars
  <2>2. /\ run' \in [Runs -> RunRecord]
        /\ run'[i].pc = "done" /\ run'[i].month = m
        /\ run'[i].todo = {} /\ run'[i].pending = {}
        /\ run'[i].owed = run[i].owed
        /\ \A j \in Runs \ {i} : run'[j] = run[j]
    BY <2>1, EndOfRun
  <2>3. m \in Month
    BY DEF BillingInv, Types, RunRecord
  <2>4. /\ invoice' \in [Users -> [Month -> Invoice \cup {None}]]
        /\ \A u \in Users, n \in Month : invoice[u][n] # None => invoice'[u][n] = invoice[u][n]
        /\ \A p \in run[i].pending : invoice'[p.user][m] # None
        /\ \A u \in Users, n \in Month : invoice'[u][n] # None =>
             SumOf(u, n, invoice'[u][n].rows, invoice'[u][n].seen)
    BY <1>2, <2>3, InvoicesWritten DEF CommitRun
  <2>5. Types'
    BY <2>1, <2>2, <2>4 DEF BillingInv, Types
  <2>6. Flushed' /\ \A v, n : Billable(v, n)' = Billable(v, n)
    BY <2>1 DEF BillingInv, Flushed, Billable, RowsOf, Ok, Within, PeriodEnd
  <2>7. OneSumEach'
    BY <2>2 DEF BillingInv, OneSumEach
  <2>8. SumsExact'
    <3>1. \A v, n, s, t : SumOf(v, n, s, t)' <=> SumOf(v, n, s, t)
      BY <2>1 DEF SumOf, Ok, Within, PeriodEnd
    <3> QED
      BY <2>2, <2>4, <3>1 DEF BillingInv, SumsExact
  <2>9. OwedPending'
    <3> SUFFICES ASSUME NEW j \in Runs, NEW v \in run'[j].owed
                 PROVE  /\ Billable(v, run'[j].month) # {}
                        /\ \/ v \in run'[j].todo
                           \/ run'[j].pc = "sum" /\ run'[j].user = v
                           \/ \E p \in run'[j].pending : p.user = v
                           \/ invoice'[v][run'[j].month] # None
      BY <2>6 DEF OwedPending
    <3>1. v \in Users /\ run[j].month \in Month
      BY <2>2 DEF BillingInv, Types, RunRecord
    <3>2. CASE j # i
      <4>1. run'[j] = run[j] /\ v \in run[j].owed
        BY <2>2, <3>2
      <4>2. invoice[v][run[j].month] # None => invoice'[v][run[j].month] # None
        BY <2>4, <3>1
      <4> QED
        BY <4>1, <4>2 DEF BillingInv, OwedPending
    <3>3. CASE j = i
      BY <2>1, <2>2, <2>4, <3>1, <3>3 DEF BillingInv, OwedPending
    <3> QED
      BY <3>2, <3>3
  <2> QED
    BY <2>5, <2>6, <2>7, <2>8, <2>9 DEF BillingInv
<1> QED
  BY <1>1, <1>2

LEMMA SettleStep ==
  ASSUME BillingInv, NEW u \in Users, NEW m \in Month, Settle(u, m)
  PROVE  BillingInv'
<1>1. PICK status \in {"paid", "void"} :
        /\ invoice[u][m] # None
        /\ invoice' = [invoice EXCEPT ![u][m].status = status]
        /\ UNCHANGED <<now, row, committed, active, run>>
  BY DEF Settle, ledgerVars
<1>2. invoice[u][m] \in Invoice
  BY <1>1 DEF BillingInv, Types
<1> DEFINE settled == [invoice[u][m] EXCEPT !.status = status]
<1>3. /\ settled \in Invoice /\ settled # None
      /\ settled.rows = invoice[u][m].rows /\ settled.seen = invoice[u][m].seen
  BY <1>2, NoneAssumption DEF Invoice
<1>4. /\ invoice' \in [Users -> [Month -> Invoice \cup {None}]]
      /\ \A v \in Users, n \in Month :
           invoice'[v][n] = (IF v = u /\ n = m THEN settled ELSE invoice[v][n])
  <2>1. invoice' = [invoice EXCEPT ![u][m] = settled]
    BY <1>1
  <2> HIDE DEF settled
  <2> QED
    BY <1>3, <2>1 DEF BillingInv, Types
<1> HIDE DEF settled
<1>5. Types'
  BY <1>1, <1>4 DEF BillingInv, Types
<1>6. Flushed' /\ \A v, n : Billable(v, n)' = Billable(v, n)
  BY <1>1 DEF BillingInv, Flushed, Billable, RowsOf, Ok, Within, PeriodEnd
<1>7. OneSumEach'
  BY <1>1 DEF BillingInv, OneSumEach
<1>8. SumsExact'
  <2>1. \A v, n, s, t : SumOf(v, n, s, t)' <=> SumOf(v, n, s, t)
    BY <1>1 DEF SumOf, Ok, Within, PeriodEnd
  <2> QED
    BY <1>1, <1>3, <1>4, <2>1 DEF BillingInv, SumsExact
<1>9. OwedPending'
  <2>1. \A v \in Users, n \in Month : invoice[v][n] # None => invoice'[v][n] # None
    BY <1>3, <1>4
  <2>2. \A j \in Runs : run[j].owed \subseteq Users /\ run[j].month \in Month
    BY DEF BillingInv, Types, RunRecord
  <2> QED
    BY <1>1, <1>6, <2>1, <2>2 DEF BillingInv, OwedPending
<1> QED
  BY <1>5, <1>6, <1>7, <1>8, <1>9 DEF BillingInv

LEMMA NextInv == BillingInv /\ [Next]_vars => BillingInv'
<1> SUFFICES ASSUME BillingInv, [Next]_vars PROVE BillingInv'
  OBVIOUS
<1>1. CASE Tick \/ (\E r \in Requests : Flush(r) \/ CommitRow(r)) \/ UNCHANGED vars
  BY <1>1, RecordSteps
<1>2. ASSUME NEW u \in Users, SetActive(u) PROVE BillingInv'
  BY <1>2, RecordSteps
<1>3. ASSUME NEW u \in Users, NEW m \in Month, Settle(u, m) PROVE BillingInv'
  BY <1>3, SettleStep
<1>4. ASSUME NEW i \in Runs, NEW m \in Month, Begin(i, m) PROVE BillingInv'
  BY <1>4, BeginStep
<1>5. ASSUME NEW i \in Runs, NEW u \in Users, CheckExisting(i, u) PROVE BillingInv'
  BY <1>5, CheckExistingStep
<1>6. ASSUME NEW i \in Runs, Aggregate(i) PROVE BillingInv'
  BY <1>6, AggregateStep
<1>7. ASSUME NEW i \in Runs, CommitRun(i) PROVE BillingInv'
  BY <1>7, CommitRunStep
<1>8. ASSUME NEW i \in Runs, FailRun(i) PROVE BillingInv'
  BY <1>8, FailRunStep DEF FailRun, ledgerVars
<1> QED
  BY <1>1, <1>2, <1>3, <1>4, <1>5, <1>6, <1>7, <1>8 DEF Next

-----------------------------------------------------------------------------
(***************************************************************************)
(* What follows                                                             *)
(***************************************************************************)

(* The invariant behind the others (bills_run, record_request): rows are    *)
(* kept, sums are exact for what they have seen, who owes is not forgotten.  *)
THEOREM BillingInvHolds == Spec => []BillingInv
<1> QED
  BY InitInv, NextInv, PTL DEF Spec

(* Every reachable state of rows, runs and invoices is well typed; a sum     *)
(* under way has committed rows only (READ COMMITTED in bills_run).          *)
THEOREM BillingTypes == Spec => []TypeOK
<1>1. BillingInv => TypeOK
  <2> SUFFICES ASSUME BillingInv PROVE TypeOK
    OBVIOUS
  <2>1. \A i \in Runs : run[i] \in RunRecord
    BY DEF BillingInv, Types
  <2>2. committed \subseteq {r \in Requests : row[r] # None}
    BY DEF BillingInv, Types, Flushed
  <2>3. \A i \in Runs : \A p \in run[i].pending : p.user \notin run[i].todo /\ p.rows \subseteq committed
    BY DEF BillingInv, OneSumEach, SumsExact, SumOf
  <2> QED
    BY <2>1, <2>2, <2>3 DEF TypeOK, BillingInv, Types, RunRecord
<1> QED
  BY <1>1, BillingInvHolds, PTL

(* A committed row has a time. *)
LEMMA RowTime ==
  ASSUME BillingInv, NEW r \in committed
  PROVE  row[r].at \in Nat
BY DEF BillingInv, Types, Flushed, Row

(* No request is on two invoices of a user, however runs overlap and repeat  *)
(* (bills_run): the periods of two months do not meet.                       *)
THEOREM InvoicedOnceHolds == Spec => []InvoicedOnce
<1>1. BillingInv => InvoicedOnce
  <2> SUFFICES ASSUME BillingInv, NEW u \in Users, NEW m \in Month, NEW n \in Month,
                      m # n, invoice[u][m] # None, invoice[u][n] # None,
                      NEW r \in invoice[u][m].rows, r \in invoice[u][n].rows
               PROVE  FALSE
    BY DEF InvoicedOnce
  <2>1. r \in committed /\ Within(r, m) /\ Within(r, n)
    BY DEF BillingInv, SumsExact, SumOf
  <2>2. row[r].at \in Nat
    BY <2>1, RowTime
  <2>3. m < n \/ n < m
    BY DEF Month
  <2> QED
    BY <2>1, <2>2, <2>3, PeriodsApart
<1> QED
  BY <1>1, BillingInvHolds, PTL

(* Who had something to pay has an invoice once a run has reported success,  *)
(* and an invoice misses what the last second and late commits leave out, no *)
(* more (bills_run, _period_bounds).                                         *)
THEOREM InvoiceCompleteHolds == Spec => []InvoiceComplete
<1>1. ASSUME BillingInv, NEW i \in Runs, run[i].pc = "done", NEW u \in run[i].owed
      PROVE  invoice[u][run[i].month] # None
  BY <1>1 DEF BillingInv, OneSumEach, OwedPending
<1>2. ASSUME BillingInv, NEW u \in Users, NEW m \in Month, invoice[u][m] # None,
             NEW r \in RowsOf(u), Ok(r), MonthOf(row[r].at) = m,
             ~LastSecond(row[r].at), r \in invoice[u][m].seen
      PROVE  r \in invoice[u][m].rows
  <2>1. row[r].at \in Nat
    BY <1>2, RowTime DEF RowsOf
  <2>2. Within(r, m)
    BY <1>2, <2>1, InPeriod
  <2> QED
    BY <1>2, <2>2 DEF BillingInv, SumsExact, SumOf
<1>3. BillingInv => InvoiceComplete
  BY <1>1, <1>2 DEF InvoiceComplete
<1> QED
  BY <1>3, BillingInvHolds, PTL

-----------------------------------------------------------------------------
(***************************************************************************)
(* Sums.  A sum over a finite set of requests is the number of its coins:   *)
(* one for each request and each cent that it costs.                        *)
(***************************************************************************)

(* Finite sets are well-founded: the step that replaces an induction.       *)
LEMMA MinimalSubset ==
  ASSUME NEW S, IsFiniteSet(S), NEW Bad \in SUBSET SUBSET S, Bad # {}
  PROVE  \E T \in Bad : \A U \in Bad : U \subseteq T => U = T
<1>1. IsWellFoundedOn(StrictSubsetOrdering(S), SUBSET S)
  BY FS_StrictSubsetOrderingWellFounded, FS_FiniteSubsetsOfFinite
<1>2. PICK T \in Bad : \A U \in Bad : <<U, T>> \notin StrictSubsetOrdering(S)
  BY <1>1, WFMin
<1> QED
  BY <1>2 DEF StrictSubsetOrdering

(* f adds up w over the subsets of S, as MapThenSumSet does. *)
Chosen(s) == CHOOSE x \in s : TRUE
Sums(f, w, S) ==
  \A s \in SUBSET S : f[s] = IF s = {} THEN 0 ELSE w[Chosen(s)] + f[s \ {Chosen(s)}]

(* There is one such function: a smallest set where two differ cannot be.   *)
LEMMA SumUnique ==
  ASSUME NEW S, IsFiniteSet(S), NEW w, NEW f, NEW g, Sums(f, w, S), Sums(g, w, S)
  PROVE  f[S] = g[S]
<1> DEFINE Bad == {s \in SUBSET S : f[s] # g[s]}
<1> SUFFICES ASSUME Bad # {} PROVE FALSE
  OBVIOUS
<1>1. PICK T \in Bad : \A U \in Bad : U \subseteq T => U = T
  <2>1. Bad \in SUBSET SUBSET S
    OBVIOUS
  <2> HIDE DEF Bad
  <2> QED
    BY <2>1, MinimalSubset
<1>2. CASE T = {}
  BY <1>1, <1>2 DEF Sums
<1>3. CASE T # {}
  <2> DEFINE U == T \ {Chosen(T)}
  <2>1. Chosen(T) \in T /\ U \in SUBSET S /\ U \subseteq T /\ U # T
    BY <1>1, <1>3 DEF Chosen
  <2>2. f[U] = g[U]
    BY <1>1, <2>1
  <2> QED
    BY <1>1, <1>3, <2>2 DEF Sums
<1> QED
  BY <1>2, <1>3

(* The coins *)
Pile(w, x) == {x} \X (1 .. w[x])
Coins(w, S) == UNION {Pile(w, x) : x \in S}

LEMMA PileSize ==
  ASSUME NEW w, NEW x, w[x] \in Nat
  PROVE  IsFiniteSet(Pile(w, x)) /\ Cardinality(Pile(w, x)) = w[x]
<1>1. IsFiniteSet({x}) /\ Cardinality({x}) = 1
  BY FS_Singleton
<1>2. IsFiniteSet(1 .. w[x]) /\ Cardinality(1 .. w[x]) = w[x]
  BY FS_Interval
<1>3. IsFiniteSet(Pile(w, x)) /\ Cardinality(Pile(w, x)) = Cardinality({x}) * Cardinality(1 .. w[x])
  BY <1>1, <1>2, FS_Product DEF Pile
<1>4. \A n \in Nat : 1 * n = n
  OBVIOUS
<1> QED
  BY <1>1, <1>2, <1>3, <1>4

LEMMA CoinsFinite ==
  ASSUME NEW S, IsFiniteSet(S), NEW w, \A x \in S : w[x] \in Nat
  PROVE  IsFiniteSet(Coins(w, S)) /\ Cardinality(Coins(w, S)) \in Nat
<1> DEFINE T == {Pile(w, x) : x \in S}
           f == [x \in S |-> Pile(w, x)]
<1>1. f \in Surjection(S, T)
  BY DEF Surjection
<1>2. IsFiniteSet(T)
  <2> HIDE DEF f, T
  <2> QED
    BY <1>1, FS_Surjection
<1>3. \A t \in T : IsFiniteSet(t)
  BY PileSize
<1>4. IsFiniteSet(UNION T)
  <2> HIDE DEF T
  <2> QED
    BY <1>2, <1>3, FS_UNION
<1> QED
  BY <1>4, FS_CardinalityType DEF Coins

LEMMA CoinsSplit ==
  ASSUME NEW S, IsFiniteSet(S), NEW w, \A x \in S : w[x] \in Nat, NEW A, NEW B,
         S = A \cup B, A \cap B = {}
  PROVE  Cardinality(Coins(w, S)) = Cardinality(Coins(w, A)) + Cardinality(Coins(w, B))
<1>1. IsFiniteSet(A) /\ IsFiniteSet(B)
  BY FS_Subset
<1>2. /\ IsFiniteSet(Coins(w, A)) /\ Cardinality(Coins(w, A)) \in Nat
      /\ IsFiniteSet(Coins(w, B)) /\ Cardinality(Coins(w, B)) \in Nat
  BY <1>1, CoinsFinite
<1>3. Coins(w, S) = Coins(w, A) \cup Coins(w, B)
  BY DEF Coins
<1>4. Coins(w, A) \cap Coins(w, B) = {}
  BY DEF Coins, Pile
<1>5. Cardinality({}) = 0
  BY FS_EmptySet
<1>6. Cardinality(Coins(w, A) \cup Coins(w, B)) =
        Cardinality(Coins(w, A)) + Cardinality(Coins(w, B)) - Cardinality(Coins(w, A) \cap Coins(w, B))
  BY <1>2, FS_Union
<1>7. Cardinality(Coins(w, A) \cap Coins(w, B)) = 0
  BY <1>4, <1>5
<1>8. Cardinality(Coins(w, S)) = Cardinality(Coins(w, A) \cup Coins(w, B))
  BY <1>3
<1> QED
  BY <1>2, <1>6, <1>7, <1>8

LEMMA CoinsNone ==
  ASSUME NEW S, NEW w, \A x \in S : w[x] = 0
  PROVE  Cardinality(Coins(w, S)) = 0
<1>1. Coins(w, S) = {}
  BY DEF Coins, Pile
<1> QED
  BY <1>1, FS_EmptySet

(* Counting coins is a way to add up, and so the only one. *)
LEMMA CoinsSum ==
  ASSUME NEW S, IsFiniteSet(S), NEW w, \A x \in S : w[x] \in Nat
  PROVE  LET g == [s \in SUBSET S |-> Cardinality(Coins(w, s))]
         IN  g = [s \in SUBSET S |-> g[s]] /\ Sums(g, w, S)
<1> DEFINE g == [s \in SUBSET S |-> Cardinality(Coins(w, s))]
<1>1. ASSUME NEW s \in SUBSET S, s # {}
      PROVE  g[s] = w[Chosen(s)] + g[s \ {Chosen(s)}]
  <2> DEFINE x == Chosen(s)
  <2>1. x \in s /\ s = {x} \cup (s \ {x}) /\ {x} \cap (s \ {x}) = {} /\ w[x] \in Nat
    BY <1>1 DEF Chosen
  <2>2. IsFiniteSet(s) /\ \A y \in s : w[y] \in Nat
    BY FS_Subset
  <2> HIDE DEF x
  <2>3. Cardinality(Coins(w, s)) = Cardinality(Coins(w, {x})) + Cardinality(Coins(w, s \ {x}))
    BY <2>1, <2>2, CoinsSplit
  <2>4. Coins(w, {x}) = Pile(w, x)
    BY DEF Coins
  <2>5. Cardinality(Coins(w, {x})) = w[x]
    BY <2>1, <2>4, PileSize
  <2> QED
    BY <2>3, <2>5 DEF x
<1>2. g[{}] = 0
  <2>1. Cardinality(Coins(w, {})) = 0
    BY CoinsNone
  <2> QED
    BY <2>1
<1>3. Sums(g, w, S)
  BY <1>1, <1>2 DEF Sums
<1> QED
  BY <1>3

(* A sum of the reports *)
Costs == [r \in Requests |-> Cost(r)]
LEMMA CostsType == \A r \in Requests : Costs[r] \in Nat /\ (~Ok(r) => Costs[r] = 0)
BY BillingAssumption DEF Costs, Cost

LEMMA TotalIsCoins ==
  ASSUME NEW S \in SUBSET Requests
  PROVE  Total(S) = Cardinality(Coins(Costs, S)) /\ Total(S) \in Nat
<1> DEFINE Rec(f) == f = [s \in SUBSET S |-> IF s = {} THEN 0 ELSE
                            LET x == CHOOSE x \in s : TRUE IN Cost(x) + f[s \ {x}]]
           iter == CHOOSE f : Rec(f)
           g == [s \in SUBSET S |-> Cardinality(Coins(Costs, s))]
<1>1. IsFiniteSet(S) /\ \A x \in S : Costs[x] \in Nat
  BY BillingAssumption, FS_Subset, CostsType
<1>2. g = [s \in SUBSET S |-> g[s]] /\ Sums(g, Costs, S)
  BY <1>1, CoinsSum
<1>3. g[S] = Cardinality(Coins(Costs, S)) /\ g[S] \in Nat
  BY <1>1, CoinsFinite
<1> HIDE DEF g
<1>4. \A s \in SUBSET S : s # {} =>
        /\ (CHOOSE x \in s : TRUE) \in s
        /\ Cost(CHOOSE x \in s : TRUE) = Costs[CHOOSE x \in s : TRUE]
  BY DEF Costs
<1>5. Rec(g)
  <2>1. \A s \in SUBSET S : g[s] = IF s = {} THEN 0 ELSE
          LET x == CHOOSE x \in s : TRUE IN Cost(x) + g[s \ {x}]
    BY <1>2, <1>4 DEF Sums, Chosen
  <2> QED
    BY <1>2, <2>1
<1>6. Rec(iter)
  BY <1>5
<1>7. Total(S) = iter[S]
  BY DEF Total, MapThenSumSet, MapThenFoldSet
<1> HIDE DEF iter
<1>8. Sums(iter, Costs, S)
  <2>1. \A s \in SUBSET S : iter[s] = IF s = {} THEN 0 ELSE
          LET x == CHOOSE x \in s : TRUE IN Cost(x) + iter[s \ {x}]
    BY <1>6
  <2> QED
    BY <1>4, <2>1 DEF Sums, Chosen
<1>9. iter[S] = g[S]
  BY <1>1, <1>2, <1>8, SumUnique
<1> QED
  BY <1>3, <1>7, <1>9

LEMMA TotalSplit ==
  ASSUME NEW S \in SUBSET Requests, NEW A, NEW B, S = A \cup B, A \cap B = {}
  PROVE  Total(S) = Total(A) + Total(B)
<1>1. IsFiniteSet(S) /\ \A x \in S : Costs[x] \in Nat
  BY BillingAssumption, FS_Subset, CostsType
<1>2. Cardinality(Coins(Costs, S)) = Cardinality(Coins(Costs, A)) + Cardinality(Coins(Costs, B))
  BY <1>1, CoinsSplit
<1> QED
  BY <1>2, TotalIsCoins

LEMMA TotalOfErrors ==
  ASSUME NEW S \in SUBSET Requests, \A r \in S : ~Ok(r)
  PROVE  Total(S) = 0
BY CostsType, CoinsNone, TotalIsCoins

LEMMA TotalGrows ==
  ASSUME NEW S \in SUBSET Requests, NEW A \in SUBSET S
  PROVE  Total(A) <= Total(S)
<1>1. S = A \cup (S \ A) /\ A \cap (S \ A) = {}
  OBVIOUS
<1>2. Total(S) = Total(A) + Total(S \ A)
  BY <1>1, TotalSplit
<1> QED
  BY <1>2, TotalIsCoins

-----------------------------------------------------------------------------
(***************************************************************************)
(* The reports                                                              *)
(***************************************************************************)

(* Rows carry the time at which they were flushed (created_at). *)
Stamped == \A r \in Requests : row[r] # None => row[r].at <= now

LEMMA StampedHolds == Spec => [](BillingInv /\ Stamped)
<1>1. Init => BillingInv /\ Stamped
  BY InitInv DEF Init, Stamped
<1>2. ASSUME BillingInv, Stamped, [Next]_vars PROVE BillingInv' /\ Stamped'
  <2>1. BillingInv'
    BY <1>2, NextInv
  <2>2. now \in Nat /\ row \in [Requests -> Row \cup {None}]
    BY <1>2 DEF BillingInv, Types
  <2>3. ASSUME Tick PROVE Stamped'
    <3> SUFFICES ASSUME NEW r \in Requests, row[r] # None PROVE row[r].at <= now + 1
      BY <2>3 DEF Tick, ledgerVars, Stamped
    <3>1. row[r].at \in Nat /\ row[r].at <= now
      BY <1>2, <2>2 DEF Row, Stamped
    <3> QED
      BY <2>2, <3>1
  <2>4. ASSUME NEW r \in Requests, Flush(r) PROVE Stamped'
    <3>1. PICK ok : row' = [row EXCEPT ![r] = [at |-> now, ok |-> ok]]
      BY <2>4 DEF Flush
    <3> QED
      BY <1>2, <2>2, <2>4, <3>1 DEF Flush, Stamped
  <2>5. ASSUME UNCHANGED <<now, row>> PROVE Stamped'
    BY <1>2, <2>5 DEF Stamped
  <2>6. Tick \/ (\E r \in Requests : Flush(r)) \/ UNCHANGED <<now, row>>
    BY <1>2 DEF Next, vars, ledgerVars, CommitRow, SetActive, Settle, Aggregate, CommitRun, FailRun,
                Begin, CheckExisting
  <2> QED
    BY <2>1, <2>3, <2>4, <2>5, <2>6
<1> QED
  BY <1>1, <1>2, PTL DEF Spec

(* The rows of the current month are those of its period and those of its    *)
(* last second.                                                             *)
LEMMA ThisMonth ==
  ASSUME BillingInv, Stamped, NEW r \in committed, MonthStart <= row[r].at
  PROVE  Within(r, MonthOf(now)) <=> ~LastSecond(row[r].at)
<1>1. row[r].at \in Nat /\ row[r].at <= now /\ now \in Nat
  BY RowTime DEF BillingInv, Types, Flushed, Stamped
<1>2. Ticks \in Nat /\ Ticks >= 2
  BY BillingAssumption
<1> DEFINE m == now \div Ticks
           t == row[r].at
<1>3. m \in Nat /\ m * Ticks <= now /\ now < m * Ticks + Ticks
  <2>1. ASSUME NEW a \in Nat, NEW b \in Nat, b >= 2
        PROVE  a \div b \in Nat /\ (a \div b) * b <= a /\ a < (a \div b) * b + b
    BY <2>1, Z3
  <2> QED
    BY <1>1, <1>2, <2>1
<1> HIDE DEF m
<1>4. m * Ticks \in Nat /\ (m + 1) * Ticks = m * Ticks + Ticks
  BY <1>2, <1>3
<1>5. m * Ticks <= t /\ t < m * Ticks + Ticks
  BY <1>1, <1>2, <1>3, <1>4 DEF MonthStart, MonthOf, m
<1>6. t % Ticks = t - m * Ticks
  <2>1. t - m * Ticks \in 0 .. Ticks - 1 /\ t = m * Ticks + (t - m * Ticks)
    BY <1>1, <1>2, <1>4, <1>5
  <2>2. ASSUME NEW k \in Nat, NEW b \in Nat, b >= 2, NEW d \in 0 .. b - 1
        PROVE  (k * b + d) % b = d
    BY <2>2, Z3
  <2> QED
    BY <1>2, <1>3, <2>1, <2>2
<1> QED
  BY <1>1, <1>2, <1>4, <1>5, <1>6 DEF Within, PeriodEnd, MonthOf, LastSecond, m

(* `gain` is the sum of what `budget` says of each user. *)
LEMMA GainIsSum ==
  ASSUME BillingInv, NEW m \in Month
  PROVE  MapThenSumSet(LAMBDA u : CmdBudget(u, m), Users) = Gain(m)
<1> DEFINE All(s) == UNION {Billable(u, m) : u \in s}
           w == [u \in Users |-> CmdBudget(u, m)]
           g == [s \in SUBSET Users |-> Total(All(s))]
           Rec(f) == f = [s \in SUBSET Users |-> IF s = {} THEN 0 ELSE
                            LET x == CHOOSE x \in s : TRUE IN CmdBudget(x, m) + f[s \ {x}]]
           iter == CHOOSE f : Rec(f)
<1>1. \A u \in Users : Billable(u, m) \in SUBSET Requests
  BY DEF Billable, RowsOf, BillingInv, Types
<1>2. ASSUME NEW s \in SUBSET Users, NEW x \in s
      PROVE  g[s] = CmdBudget(x, m) + g[s \ {x}]
  <2>1. All(s) \in SUBSET Requests
    BY <1>1
  <2>2. All(s) = Billable(x, m) \cup All(s \ {x})
    OBVIOUS
  <2>3. Billable(x, m) \cap All(s \ {x}) = {}
    BY DEF Billable, RowsOf
  <2> HIDE DEF All
  <2>4. Total(All(s)) = Total(Billable(x, m)) + Total(All(s \ {x}))
    BY <2>1, <2>2, <2>3, TotalSplit
  <2> QED
    BY <2>4 DEF CmdBudget
<1>3. g[{}] = 0
  <2>1. Total({}) = 0
    BY TotalOfErrors
  <2> QED
    BY <2>1
<1>4. g[Users] = Gain(m)
  BY DEF Gain
<1>5. g = [s \in SUBSET Users |-> g[s]]
  OBVIOUS
<1> HIDE DEF g
<1>6. \A s \in SUBSET Users : s # {} =>
        (CHOOSE x \in s : TRUE) \in s /\ (CHOOSE x \in s : TRUE) \in Users
  OBVIOUS
<1>7. Rec(g)
  <2>1. \A s \in SUBSET Users : g[s] = IF s = {} THEN 0 ELSE
          LET x == CHOOSE x \in s : TRUE IN CmdBudget(x, m) + g[s \ {x}]
    BY <1>2, <1>3, <1>6
  <2> QED
    BY <1>5, <2>1
<1>8. Rec(iter)
  BY <1>7
<1>9. MapThenSumSet(LAMBDA u : CmdBudget(u, m), Users) = iter[Users]
  BY DEF MapThenSumSet, MapThenFoldSet
<1> HIDE DEF iter
<1>10. Sums(g, w, Users)
  BY <1>2, <1>3, <1>6 DEF Sums, Chosen
<1>11. Sums(iter, w, Users)
  <2>1. \A s \in SUBSET Users : iter[s] = IF s = {} THEN 0 ELSE
          LET x == CHOOSE x \in s : TRUE IN CmdBudget(x, m) + iter[s \ {x}]
    BY <1>8
  <2> QED
    BY <1>6, <2>1 DEF Sums, Chosen
<1>12. iter[Users] = g[Users]
  BY <1>10, <1>11, SumUnique, BillingAssumption
<1> QED
  BY <1>4, <1>9, <1>12

(* /v1/usage, the Users and Overview pages, `budget`, `gain`, `costs` and    *)
(* `bills show` tell one story about the same rows, up to the month's last   *)
(* second.                                                                  *)
THEOREM ReportsAgreeHolds == Spec => []ReportsAgree
<1>1. ASSUME BillingInv, Stamped, NEW u \in Users
      PROVE  /\ GetUsage(u).cost = UserStats(u).cost
             /\ DailyCosts(u, MonthStart) = MonthlySpend(u)
             /\ MonthlySpend(u) - CmdBudget(u, MonthOf(now)) =
                  Total({r \in OkOf(Since(u, MonthStart)) : LastSecond(row[r].at)})
             /\ \A m \in Month : invoice[u][m] # None =>
                  Total(invoice[u][m].rows) <= BillsShow(u, m).cost
  <2> DEFINE all == Since(u, MonthStart)
             ok == OkOf(all)
             last == {r \in ok : LastSecond(row[r].at)}
             month == Billable(u, MonthOf(now))
  <2>1. all \in SUBSET Requests /\ ok \in SUBSET all /\ last \in SUBSET ok /\ all \subseteq committed
    BY <1>1 DEF Since, RowsOf, OkOf, BillingInv, Types
  <2>2. Total(all) = Total(ok)
    <3>1. all = ok \cup (all \ ok) /\ ok \cap (all \ ok) = {}
      BY <2>1
    <3>2. \A r \in all \ ok : ~Ok(r)
      BY DEF OkOf
    <3> HIDE DEF all, ok
    <3>3. Total(all) = Total(ok) + Total(all \ ok)
      BY <2>1, <3>1, TotalSplit
    <3>4. Total(all \ ok) = 0
      BY <2>1, <3>2, TotalOfErrors
    <3> QED
      BY <2>1, <3>3, <3>4, TotalIsCoins
  <2>3. Total(ok) = Total(month) + Total(last)
    <3>1. \A r \in ok : Within(r, MonthOf(now)) <=> ~LastSecond(row[r].at)
      BY <1>1, <2>1, ThisMonth DEF OkOf, Since
    <3>2. \A r \in month : r \in ok
      BY DEF Billable, OkOf, Since, Within, MonthStart
    <3>3. \A r \in ok : Within(r, MonthOf(now)) => r \in month
      BY DEF Billable, OkOf, Since
    <3>4. \A r \in month : Within(r, MonthOf(now))
      BY DEF Billable
    <3>5. ok = month \cup last /\ month \cap last = {}
      BY <3>1, <3>2, <3>3, <3>4
    <3> HIDE DEF ok, month, last
    <3> QED
      BY <2>1, <3>5, TotalSplit
  <2>4. Total(month) \in Nat /\ Total(last) \in Nat
    <3>1. month \in SUBSET Requests
      BY <1>1 DEF Billable, RowsOf, BillingInv, Types
    <3> HIDE DEF ok, month, last, all
    <3> QED
      BY <2>1, <3>1, TotalIsCoins
  <2>5. ASSUME NEW m \in Month, invoice[u][m] # None
        PROVE  Total(invoice[u][m].rows) <= Total(Billable(u, m))
    <3>1. SumOf(u, m, invoice[u][m].rows, invoice[u][m].seen)
      BY <1>1, <2>5 DEF BillingInv, SumsExact
    <3>2. invoice[u][m].rows \in SUBSET Billable(u, m)
      BY <3>1 DEF SumOf, Billable, RowsOf
    <3>3. Billable(u, m) \in SUBSET Requests
      BY <1>1 DEF Billable, RowsOf, BillingInv, Types
    <3> QED
      BY <3>2, <3>3, TotalGrows
  <2>6. GetUsage(u).cost = Total(all) /\ UserStats(u).cost = Total(ok)
        /\ MonthlySpend(u) = Total(ok) /\ DailyCosts(u, MonthStart) = Total(ok)
        /\ CmdBudget(u, MonthOf(now)) = Total(month)
        /\ \A m \in Month : BillsShow(u, m).cost = Total(Billable(u, m))
    BY DEF GetUsage, UserStats, MonthlySpend, DailyCosts, CmdBudget, BillsShow
  <2>7. Total({r \in OkOf(Since(u, MonthStart)) : LastSecond(row[r].at)}) = Total(last)
    OBVIOUS
  <2>8. Total(ok) - Total(month) = Total(last)
    <3> HIDE DEF ok, month, last
    <3> QED
      BY <2>3, <2>4
  <2> HIDE DEF all, ok, month, last
  <2> QED
    BY <2>2, <2>5, <2>6, <2>7, <2>8
<1>2. ASSUME BillingInv, NEW m \in Month PROVE CmdCosts(m) = Gain(m)
  <2>1. OkOf({r \in committed : Within(r, m)}) = UNION {Billable(u, m) : u \in Users}
    <3>1. \A r \in committed : UserOf[r] \in Users
      BY <1>2, BillingAssumption DEF BillingInv, Types
    <3> QED
      BY <3>1 DEF OkOf, Billable, RowsOf
  <2> QED
    BY <2>1 DEF CmdCosts, Gain
<1>3. BillingInv /\ Stamped => ReportsAgree
  BY <1>1, <1>2, GainIsSum DEF ReportsAgree
<1> QED
  BY <1>3, StampedHolds, PTL

==============================================================================
