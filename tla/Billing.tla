-------------------------------- MODULE Billing --------------------------------
(***************************************************************************)
(* From request rows to invoices: `llmctl bills run`, the dashboard's       *)
(* Billing page, and the reports that add up the same rows (/v1/usage,      *)
(* `llmctl costs`, the Overview page).  Several operators may run the month *)
(* at once while requests are still being recorded.  Time is counted in     *)
(* ticks; the last tick of a month is the second that begins at 23:59:59.   *)
(***************************************************************************)
EXTENDS Integers, FiniteSetsExt

CONSTANTS
  Users,        \* postpaid users
  Requests,     \* inferences, one row each
  UserOf,       \* who made the request
  MayFail,      \* bound: requests that may end in an error
  CostOf,       \* what it costs when it succeeds
  Touched,      \* bound: users suspended, and whose invoices are settled, by hand
  Runs,         \* billing runs, by the CLI or by the dashboard
  Ticks,        \* ticks in a month
  MaxTime,      \* bound on the clock
  None          \* Python's None

ASSUME BillingAssumption ==
  /\ IsFiniteSet(Users) /\ IsFiniteSet(Requests)
  /\ UserOf \in [Requests -> Users]
  /\ CostOf \in [Requests -> Nat]
  /\ Ticks \in Nat /\ Ticks >= 2
  /\ MaxTime \in Nat

VARIABLES
  now,        \* the clock
  row,        \* each request: the row its session has flushed, or None
  committed,  \* the rows everybody sees
  active,     \* users.is_active
  invoice,    \* each user and month: the invoices table
  run         \* each billing run: where it is and what it holds

ledgerVars == <<row, committed>>
vars == <<now, ledgerVars, active, invoice, run>>

MonthOf(t) == t \div Ticks
Month == 0 .. MonthOf(MaxTime)
LastSecond(t) == t % Ticks = Ticks - 1
Row == [at : Nat, ok : BOOLEAN]
Invoice == [rows : SUBSET Requests, status : {"open", "paid", "void"},
            seen : SUBSET Requests]
ASSUME NoneAssumption == None \notin Row \cup Invoice \cup Users

Idle == [pc |-> "idle", month |-> 0, todo |-> {}, user |-> None, pending |-> {}, owed |-> {}]

TypeOK ==
  /\ now \in 0 .. MaxTime
  /\ row \in [Requests -> Row \cup {None}]
  /\ committed \subseteq {r \in Requests : row[r] # None}
  /\ active \in [Users -> BOOLEAN]
  /\ invoice \in [Users -> [Month -> Invoice \cup {None}]]
  /\ \A i \in Runs :
       /\ run[i].pc \in {"idle", "next", "sum", "done", "failed"}
       /\ run[i].month \in Month
       /\ run[i].todo \subseteq Users /\ run[i].owed \subseteq Users
       /\ \A p \in run[i].pending : p.user \notin run[i].todo /\ p.rows \subseteq committed

Init ==
  /\ now = 0
  /\ row = [r \in Requests |-> None]
  /\ committed = {}
  /\ active = [u \in Users |-> TRUE]
  /\ invoice = [u \in Users |-> [m \in Month |-> None]]
  /\ run = [i \in Runs |-> Idle]

(***************************************************************************)
(* Sums of costs, over sets of requests.                                    *)
(***************************************************************************)
Ok(r) == row[r].ok

(* Faulty variant: an error is billed like an answer. *)
Cost_ErrorsToo(r) == CostOf[r]

(* record_request: an error costs nothing. *)
Cost(r) == IF Ok(r) THEN CostOf[r] ELSE 0

Total(rows) == MapThenSumSet(Cost, rows)

(* Faulty variant: rows count as soon as they are flushed. *)
RowsOf_Flushed(u) == {r \in Requests : row[r] # None /\ UserOf[r] = u}

(* READ COMMITTED: what other sessions have flushed is not seen. *)
RowsOf(u) == {r \in committed : UserOf[r] = u}

-----------------------------------------------------------------------------
(***************************************************************************)
(* What is recorded meanwhile.                                              *)
(***************************************************************************)
Tick ==
  /\ now < MaxTime
  /\ now' = now + 1
  /\ UNCHANGED <<ledgerVars, active, invoice, run>>

(* created_at is taken when the row is flushed ... *)
Flush(r) ==
  /\ row[r] = None
  /\ \E ok \in (IF r \in MayFail THEN BOOLEAN ELSE {TRUE}) :
       row' = [row EXCEPT ![r] = [at |-> now, ok |-> ok]]
  /\ UNCHANGED <<now, committed, active, invoice, run>>

(* ... and others see it once it is committed. *)
CommitRow(r) ==
  /\ row[r] # None /\ r \notin committed
  /\ committed' = committed \cup {r}
  /\ UNCHANGED <<now, row, active, invoice, run>>

(* `users deactivate`, or Suspend and Activate on the Users page. *)
SetActive(u) ==
  /\ u \in Touched
  /\ active' = [active EXCEPT ![u] = ~@]
  /\ UNCHANGED <<now, ledgerVars, invoice, run>>

-----------------------------------------------------------------------------
(***************************************************************************)
(* A billing run: one transaction, READ COMMITTED.                          *)
(***************************************************************************)

(* Faulty variant: the period ends where the next one begins. *)
PeriodEnd_NextStart(m) == (m + 1) * Ticks

(* _period_bounds: the end is 23:59:59.000 of the last day. *)
PeriodEnd(m) == (m + 1) * Ticks - 2

(* The period of month m has the row. *)
Within(r, m) == m * Ticks <= row[r].at /\ row[r].at <= PeriodEnd(m)
Billable(u, m) == {r \in RowsOf(u) : Ok(r) /\ Within(r, m)}
End(i, pc) == run' = [run EXCEPT ![i] = [Idle EXCEPT !.pc = pc, !.month = run[i].month,
                                         !.owed = IF pc = "done" THEN run[i].owed ELSE {}]]

(* The active postpaid users; owed is what the run should leave invoiced. *)
Begin(i, m) ==
  LET found == {u \in Users : active[u]} IN
  /\ run[i].pc = "idle"
  /\ m <= MonthOf(now)
  /\ run' = [run EXCEPT ![i].pc = "next", ![i].month = m, ![i].todo = found,
                        ![i].owed = {u \in found : Billable(u, m) # {}}]
  /\ UNCHANGED <<now, ledgerVars, active, invoice>>

(* Faulty variant: the first user who has an invoice ends the loop. *)
CheckExisting_Stops(i, u) ==
  /\ run[i].pc = "next" /\ u \in run[i].todo
  /\ run' = IF invoice[u][run[i].month] # None
            THEN [run EXCEPT ![i].todo = {}]
            ELSE [run EXCEPT ![i].todo = @ \ {u}, ![i].user = u, ![i].pc = "sum"]
  /\ UNCHANGED <<now, ledgerVars, active, invoice>>

(* A user who has an invoice for the month, in whatever status, is skipped. *)
CheckExisting(i, u) ==
  /\ run[i].pc = "next" /\ u \in run[i].todo
  /\ run' = IF invoice[u][run[i].month] # None
            THEN [run EXCEPT ![i].todo = @ \ {u}]
            ELSE [run EXCEPT ![i].todo = @ \ {u}, ![i].user = u, ![i].pc = "sum"]
  /\ UNCHANGED <<now, ledgerVars, active, invoice>>

(* The sum and the count of the user's ok rows; no invoice without a row. *)
Aggregate(i) ==
  LET rows == Billable(run[i].user, run[i].month) IN
  /\ run[i].pc = "sum"
  /\ run' = [run EXCEPT ![i].pc = "next",
       ![i].pending = IF rows = {} THEN @
                      ELSE @ \cup {[user |-> run[i].user, rows |-> rows, seen |-> RowsOf(run[i].user)]}]
  /\ UNCHANGED <<now, ledgerVars, active, invoice>>

(* One commit for all: an invoice that another run has inserted meanwhile    *)
(* breaks uq_invoices_user_period and undoes the whole run.                  *)
CommitRun(i) ==
  LET m == run[i].month
      new(u) == {p \in run[i].pending : p.user = u}
  IN
  /\ run[i].pc = "next" /\ run[i].todo = {}
  /\ IF \A p \in run[i].pending : invoice[p.user][m] = None
     THEN /\ invoice' = [u \in Users |-> IF new(u) = {} THEN invoice[u]
               ELSE [invoice[u] EXCEPT ![m] =
                       LET p == CHOOSE p \in new(u) : TRUE
                       IN  [rows |-> p.rows, status |-> "open", seen |-> p.seen]]]
          /\ End(i, "done")
     ELSE End(i, "failed") /\ UNCHANGED invoice
  /\ UNCHANGED <<now, ledgerVars, active>>

(* The connection is lost, or the database breaks a deadlock of two runs. *)
FailRun(i) ==
  /\ run[i].pc \in {"next", "sum"}
  /\ End(i, "failed")
  /\ UNCHANGED <<now, ledgerVars, active, invoice>>

-----------------------------------------------------------------------------
(***************************************************************************)
(* The Invoices tab.  A page drawn while the invoice was open may still     *)
(* show its buttons, and nobody looks at the status again.                  *)
(***************************************************************************)
Settle(u, m) ==
  /\ u \in Touched
  /\ invoice[u][m] # None
  /\ \E status \in {"paid", "void"} : invoice' = [invoice EXCEPT ![u][m].status = status]
  /\ UNCHANGED <<now, ledgerVars, active, run>>

-----------------------------------------------------------------------------
Next ==
  \/ Tick
  \/ \E r \in Requests : Flush(r) \/ CommitRow(r)
  \/ \E u \in Users : SetActive(u) \/ \E m \in Month : Settle(u, m)
  \/ \E i \in Runs :
       \/ Aggregate(i) \/ CommitRun(i) \/ FailRun(i)
       \/ \E m \in Month : Begin(i, m)
       \/ \E u \in Users : CheckExisting(i, u)

Spec == Init /\ [][Next]_vars

-----------------------------------------------------------------------------
(***************************************************************************)
(* The reports: what each of them selects, counts and adds up.              *)
(***************************************************************************)
Since(u, t) == {r \in RowsOf(u) : row[r].at >= t}
OkOf(rows) == {r \in rows : Ok(r)}
MonthStart == MonthOf(now) * Ticks

(* GET /v1/usage, this_month: the cost of every row, whatever its status. *)
GetUsage(u) ==
  LET rows == Since(u, MonthStart)
  IN [requests |-> Cardinality(rows), cost |-> Total(rows)]

(* The Overview page, and in the same words the budget check: ok rows. *)
MonthlySpend(u) == Total(OkOf(Since(u, MonthStart)))

(* The Users page: the cost of the ok rows, and the number of all. *)
UserStats(u) == [requests |-> Cardinality(Since(u, MonthStart)), cost |-> MonthlySpend(u)]

(* The charts of the Overview page, since some day. *)
DailyCosts(u, t) == Total(OkOf(Since(u, t)))

(* `bills show`: the invoice, and the ok rows of its period. *)
BillsShow(u, m) == [invoice |-> invoice[u][m], cost |-> Total(Billable(u, m))]

(* `budget`: of the user, or of the active ones. *)
CmdBudget(u, m) == Total(Billable(u, m))

(* `gain` and `costs`: of all users. *)
Gain(m) == Total(UNION {Billable(u, m) : u \in Users})
CmdCosts(m) == Total(OkOf({r \in committed : Within(r, m)}))

(***************************************************************************)
(* No request is paid for twice: the periods of two invoices of a user do   *)
(* not share a row, though runs overlap and may be repeated (bills_run).    *)
(***************************************************************************)
InvoicedOnce ==
  \A u \in Users : \A m, n \in Month :
    m # n /\ invoice[u][m] # None /\ invoice[u][n] # None =>
      invoice[u][m].rows \cap invoice[u][n].rows = {}

(***************************************************************************)
(* "Rolls up all `ok` requests for postpaid users in the selected month"    *)
(* (dashboard/pages/billing.py:115).  A run that reports success leaves an  *)
(* invoice for every user who had something to pay when it began, however   *)
(* many users were skipped on the way and whichever runs went on beside it; *)
(* and an invoice has the rows of its month, up to what the code really     *)
(* misses: those of the month's last second and those committed only after  *)
(* the sum had been read, which no later run picks up.                      *)
(***************************************************************************)
InvoiceComplete ==
  /\ \A i \in Runs : run[i].pc = "done" =>
       \A u \in run[i].owed : invoice[u][run[i].month] # None
  /\ \A u \in Users : \A m \in Month : invoice[u][m] # None =>
       \A r \in RowsOf(u) :
         Ok(r) /\ MonthOf(row[r].at) = m =>
           \/ r \in invoice[u][m].rows
           \/ LastSecond(row[r].at)
           \/ r \notin invoice[u][m].seen

(***************************************************************************)
(* The reports tell one story: what a user sees under /v1/usage is what the *)
(* Overview and the Users page show and the budget check counts; `costs`    *)
(* and `gain` are the sum of what `budget` and `bills show` say of each     *)
(* user; and the month's reports and the invoice fall short of the current  *)
(* spending only by the last second and by late rows.                       *)
(***************************************************************************)
ReportsAgree ==
  /\ \A u \in Users :
       /\ GetUsage(u).cost = UserStats(u).cost
       /\ DailyCosts(u, MonthStart) = MonthlySpend(u)
       /\ MonthlySpend(u) - CmdBudget(u, MonthOf(now)) =
            Total({r \in OkOf(Since(u, MonthStart)) : LastSecond(row[r].at)})
       /\ \A m \in Month : invoice[u][m] # None =>
            Total(invoice[u][m].rows) <= BillsShow(u, m).cost
  /\ \A m \in Month :
       /\ MapThenSumSet(LAMBDA u : CmdBudget(u, m), Users) = Gain(m)
       /\ CmdCosts(m) = Gain(m)

=============================================================================
