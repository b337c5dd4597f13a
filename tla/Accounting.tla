------------------------------ MODULE Accounting ------------------------------
(***************************************************************************)
(* Admission and accounting of the requests of one user: bridge/quota.py    *)
(* and bridge/cost_tracker.py as called by chat_completions in              *)
(* bridge/main.py.  Every key, row and counter belongs to one user.         *)
(*                                                                          *)
(* Nothing here is local to a worker: requests meet in Redis and PostgreSQL *)
(* only, so a request is a process of its own.  An action is one Redis      *)
(* pipeline or one database transaction.  The horizon is one day of one     *)
(* month: the day's counter and the month's sum do not start anew.          *)
(***************************************************************************)
EXTENDS Naturals, FiniteSets, Sequences

CONSTANTS
  Requests,      \* chat requests of the user
  Streamed,      \* those with stream = true
  Local,         \* those for the model llm-local, whose tier and pods cost nothing
  Key,           \* X-Idempotency-Key of a request, or None
  Prompt,        \* estimated prompt tokens of a request
  Projections,   \* projected costs a routing decision may carry
  Costs,         \* costs an inference may turn out to have
  Limit,         \* settings.rate_limit_rpm_default
  DailyTokens,   \* settings.tokens_per_day_default
  Budget,        \* users.monthly_budget_usd
  Thresholds,    \* settings.alert_percents_list
  Prepaid,       \* users.billing_mode = "prepaid"
  Deposit,       \* users.prepaid_balance_usd at the start
  Grain,         \* least unit of that column, in units of a request's cost
  CreditOps,     \* bound: runs of `llm users credit-add`
  CreditAmount,  \* what each of them adds
  MaxInFlight,   \* bound: requests and credits under way at a time
  Mortal,        \* bound: requests whose worker may die
  None           \* Python's None

Clients == Requests \cup CreditOps
ProjectionsOf(r) == IF r \in Local THEN {0} ELSE Projections
CostsOf(r) == IF r \in Local THEN {0} ELSE Costs

ASSUME AccountingAssumption ==
  /\ IsFiniteSet(Requests)
  /\ IsFiniteSet(CreditOps)
  /\ Requests \cap CreditOps = {}
  /\ Streamed \subseteq Requests
  /\ Local \subseteq Requests
  /\ Prompt \in [Requests -> Nat \ {0}]
  /\ Projections \subseteq Nat
  /\ Costs \subseteq Nat
  /\ Limit \in Nat
  /\ DailyTokens \in Nat
  /\ Budget \in Nat
  /\ Thresholds \in Seq(Nat)
  /\ Prepaid \in BOOLEAN
  /\ Grain \in Nat \ {0}
  /\ Deposit \in Nat
  /\ CreditAmount \in Nat \ {0}
  /\ MaxInFlight \in Nat

\* What the column holds at the start is a multiple of its least unit.
ASSUME DepositAssumption == Deposit % Grain = 0

VARIABLES
  pc,         \* where each request and credit is
  loaded,     \* prepaid_balance_usd of the User object its session has loaded
  seen,       \* `spent` in check_monthly_budget
  at,         \* position in the loop over the thresholds
  window,     \* members of the sorted set rpm:<user>
  stale,      \* those older than the window
  tokens,     \* Redis counter tpd:<user>:<day>
  alertKeys,  \* thresholds with a Redis key budget_alert:<user>:<month>:<threshold>
  alertRows,  \* thresholds with a row in budget_alerts
  ledger,     \* requests with a row in `requests`
  spent,      \* sum of cost_usd over the rows with status ok
  balance,    \* users.prepaid_balance_usd
  recent,     \* history: requests admitted by the rate limit, not older than the window
  served,     \* history: requests whose inference has begun
  charged,    \* history: what the rows' costs should have taken from the balance
  credited,   \* history: what has been credited
  rounding    \* history: the most that rounding can account for

redisVars   == <<window, stale, tokens, alertKeys>>
dbVars      == <<alertRows, ledger, spent, balance>>
localVars   == <<loaded, seen, at>>
historyVars == <<recent, served, charged, credited, rounding>>
vars == <<pc, localVars, redisVars, dbVars, historyVars>>

Ended == {"done", "refused", "alert_error", "duplicate", "cut", "crashed"}
Places == Ended \cup
  {"arriving", "rpm", "tokens", "count", "budget", "alerts", "persist", "mark",
   "acquire", "infer", "record_ok", "record_error", "credit"}

TypeOK ==
  /\ pc \in [Clients -> Places]
  /\ loaded \in [Clients -> Nat]
  /\ seen \in [Requests -> Nat]
  /\ at \in [Requests -> Nat \ {0}]
  /\ window \subseteq Requests
  /\ stale \subseteq window
  /\ tokens \in Nat
  /\ spent \in Nat
  /\ alertKeys \subseteq Nat
  /\ alertRows \subseteq Nat
  /\ ledger \subseteq Requests
  /\ balance \in Nat
  /\ recent \subseteq Requests
  /\ served \subseteq Requests
  /\ charged \in Nat
  /\ credited \in Nat
  /\ rounding \in Nat

Init ==
  /\ pc = [c \in Clients |-> "arriving"]
  /\ loaded = [c \in Clients |-> 0]
  /\ seen = [r \in Requests |-> 0]
  /\ at = [r \in Requests |-> 1]
  /\ window = {} /\ stale = {} /\ tokens = 0 /\ alertKeys = {}
  /\ alertRows = {} /\ ledger = {} /\ spent = 0 /\ balance = Deposit
  /\ recent = {} /\ served = {} /\ charged = 0 /\ credited = 0 /\ rounding = 0

Goto(c, place) == pc' = [pc EXCEPT ![c] = place]

UnderWay(c) == pc[c] \notin Ended \cup {"arriving"}
MayStart == Cardinality({c \in Clients : UnderWay(c)}) < MaxInFlight

-----------------------------------------------------------------------------
(***************************************************************************)
(* Admission                                                                *)
(***************************************************************************)

\* get_current_user: the session keeps this User object for the whole request;
\* expire_on_commit is off, so its balance is not loaded again.
Authenticate(r) ==
  /\ pc[r] = "arriving" /\ MayStart
  /\ loaded' = [loaded EXCEPT ![r] = balance]
  /\ Goto(r, "rpm")
  /\ UNCHANGED <<seen, at, redisVars, dbVars, historyVars>>

\* Faulty variant: the entries are counted before the request's own is added.
CheckRpm_CountFirst(r) ==
  /\ pc[r] = "rpm"
  /\ window' = (window \ stale) \cup {r}
  /\ stale' = {}
  /\ \/ /\ Cardinality(window \ stale) > Limit
        /\ Goto(r, "refused")
        /\ UNCHANGED recent
     \/ /\ Cardinality(window \ stale) <= Limit
        /\ Goto(r, "tokens")
        /\ recent' = recent \cup {r}
  /\ UNCHANGED <<localVars, tokens, alertKeys, dbVars, served, charged, credited, rounding>>

\* check_rpm: one pipeline trims the window, adds the request, counts.  A refused
\* request stays in the window.
CheckRpm(r) ==
  /\ pc[r] = "rpm"
  /\ window' = (window \ stale) \cup {r}
  /\ stale' = {}
  /\ \/ /\ Cardinality(window') > Limit
        /\ Goto(r, "refused")
        /\ UNCHANGED recent
     \/ /\ Cardinality(window') <= Limit
        /\ Goto(r, "tokens")
        /\ recent' = recent \cup {r}
  /\ UNCHANGED <<localVars, tokens, alertKeys, dbVars, served, charged, credited, rounding>>

\* A minute has passed since the stamp of an entry.
Age(r) ==
  /\ r \in window \ stale
  /\ stale' = stale \cup {r}
  /\ recent' = recent \ {r}
  /\ UNCHANGED <<pc, localVars, window, tokens, alertKeys, dbVars, served, charged, credited, rounding>>

\* Faulty variant: the prompt is left out of the comparison.
ReadTokens_CounterOnly(r) ==
  /\ pc[r] = "tokens"
  /\ Goto(r, IF tokens > DailyTokens THEN "refused" ELSE "count")
  /\ UNCHANGED <<localVars, redisVars, dbVars, historyVars>>

\* check_daily_tokens: GET and the comparison ...
ReadTokens(r) ==
  /\ pc[r] = "tokens"
  /\ Goto(r, IF tokens + Prompt[r] > DailyTokens THEN "refused" ELSE "count")
  /\ UNCHANGED <<localVars, redisVars, dbVars, historyVars>>

\* ... and INCRBY in a later round trip.
AddTokens(r) ==
  /\ pc[r] = "count"
  /\ tokens' = tokens + Prompt[r]
  /\ Goto(r, "budget")
  /\ UNCHANGED <<localVars, window, stale, alertKeys, dbVars, historyVars>>

\* select_tier finds no tier the user may have or afford.
RouteRefuses(r) ==
  /\ pc[r] = "budget" /\ r \notin Local
  /\ Goto(r, "refused")
  /\ UNCHANGED <<localVars, redisVars, dbVars, historyVars>>

\* Faulty variant: the projected cost is left out of the comparison.
CheckBudget_SpentOnly(r) ==
  /\ pc[r] = "budget"
  /\ \/ /\ spent > Budget
        /\ Goto(r, "refused")
        /\ UNCHANGED localVars
     \/ /\ spent <= Budget
        /\ seen' = [seen EXCEPT ![r] = spent]
        /\ at' = [at EXCEPT ![r] = 1]
        /\ Goto(r, "alerts")
        /\ UNCHANGED loaded
  /\ UNCHANGED <<redisVars, dbVars, historyVars>>

\* check_monthly_budget, with the projection of the decision select_tier has made.
CheckBudget(r) ==
  /\ pc[r] = "budget"
  /\ \E projected \in ProjectionsOf(r) :
       \/ /\ spent + projected > Budget
          /\ Goto(r, "refused")
          /\ UNCHANGED localVars
       \/ /\ spent + projected <= Budget
          /\ seen' = [seen EXCEPT ![r] = spent]
          /\ at' = [at EXCEPT ![r] = 1]
          /\ Goto(r, "alerts")
          /\ UNCHANGED loaded
  /\ UNCHANGED <<redisVars, dbVars, historyVars>>

Reached(amount, threshold) == Budget > 0 /\ 100 * amount >= threshold * Budget

\* _maybe_fire_alerts: the loop goes on over thresholds not reached or already marked.
SkipThreshold(r) ==
  /\ pc[r] = "alerts" /\ at[r] <= Len(Thresholds)
  /\ ~Reached(seen[r], Thresholds[at[r]]) \/ Thresholds[at[r]] \in alertKeys
  /\ at' = [at EXCEPT ![r] = @ + 1]
  /\ UNCHANGED <<pc, loaded, seen, redisVars, dbVars, historyVars>>

\* Faulty variant: the Redis key is taken before the row is written.
FindUnmarked_MarkFirst(r) ==
  /\ pc[r] = "alerts" /\ at[r] <= Len(Thresholds)
  /\ Reached(seen[r], Thresholds[at[r]]) /\ Thresholds[at[r]] \notin alertKeys
  /\ alertKeys' = alertKeys \cup {Thresholds[at[r]]}
  /\ Goto(r, "persist")
  /\ UNCHANGED <<localVars, window, stale, tokens, dbVars, historyVars>>

FindUnmarked(r) ==
  /\ pc[r] = "alerts" /\ at[r] <= Len(Thresholds)
  /\ Reached(seen[r], Thresholds[at[r]]) /\ Thresholds[at[r]] \notin alertKeys
  /\ Goto(r, "persist")
  /\ UNCHANGED <<localVars, redisVars, dbVars, historyVars>>

\* The row is committed; a second one violates uq_budget_alerts_unique, which
\* nothing catches.
PersistAlert(r) ==
  /\ pc[r] = "persist"
  /\ \/ /\ Thresholds[at[r]] \in alertRows
        /\ Goto(r, "alert_error")
        /\ UNCHANGED alertRows
     \/ /\ Thresholds[at[r]] \notin alertRows
        /\ alertRows' = alertRows \cup {Thresholds[at[r]]}
        /\ Goto(r, "mark")
  /\ UNCHANGED <<localVars, redisVars, ledger, spent, balance, historyVars>>

\* Faulty variant: the key is not set.
MarkAlert_NoKey(r) ==
  /\ pc[r] = "mark"
  /\ at' = [at EXCEPT ![r] = @ + 1]
  /\ Goto(r, "alerts")
  /\ UNCHANGED <<loaded, seen, redisVars, dbVars, historyVars>>

MarkAlert(r) ==
  /\ pc[r] = "mark"
  /\ alertKeys' = alertKeys \cup {Thresholds[at[r]]}
  /\ at' = [at EXCEPT ![r] = @ + 1]
  /\ Goto(r, "alerts")
  /\ UNCHANGED <<loaded, seen, window, stale, tokens, dbVars, historyVars>>

Admit(r) ==
  /\ pc[r] = "alerts" /\ at[r] > Len(Thresholds)
  /\ Goto(r, "acquire")
  /\ UNCHANGED <<localVars, redisVars, dbVars, historyVars>>

-----------------------------------------------------------------------------
(***************************************************************************)
(* Service and record                                                       *)
(***************************************************************************)

\* acquire raises (503, or 400 for a volume), or an image cannot be fetched; otherwise
\* the pod is marked active and the inference begins.
Acquire(r) ==
  /\ pc[r] = "acquire"
  /\ \/ /\ Goto(r, "refused")
        /\ UNCHANGED served
     \/ /\ Goto(r, "infer")
        /\ served' = served \cup {r}
  /\ UNCHANGED <<localVars, redisVars, dbVars, recent, charged, credited, rounding>>

\* Faulty variant: an error leaves without the finally clause.
Infer_ErrorEscapes(r) ==
  /\ pc[r] = "infer"
  /\ Goto(r, "record_ok") \/ Goto(r, "refused")
  /\ UNCHANGED <<localVars, redisVars, dbVars, historyVars>>

\* The inference with its retries, or the stream, ends with or without an error;
\* the finally clause records either.
Infer(r) ==
  /\ pc[r] = "infer"
  /\ Goto(r, "record_ok") \/ Goto(r, "record_error")
  /\ UNCHANGED <<localVars, redisVars, dbVars, historyVars>>

\* The client goes away and Starlette cancels the stream's scope.  Inside the generator
\* the first await of the finally clause is cancelled as well; a generator that was
\* suspended at a yield is closed later, and its finally clause records a success.
StreamCut(r) ==
  /\ pc[r] = "infer" /\ r \in Streamed
  /\ Goto(r, "cut") \/ Goto(r, "record_ok")
  /\ UNCHANGED <<localVars, redisVars, dbVars, historyVars>>

KeyUsed(r) == Key[r] # None /\ \E s \in ledger : Key[s] = Key[r]

Lesser(a, b) == IF a <= b THEN a ELSE b

\* Numeric(12, 4) holds multiples of Grain, rounding half up.
Stored(x) ==
  IF 2 * (x % Grain) >= Grain THEN x - (x % Grain) + Grain ELSE x - (x % Grain)

\* What the commit writes to users.prepaid_balance_usd: computed from the object
\* loaded at authentication, never below 0, and not written when it is the same.
\* A stream runs after FastAPI has closed the session, which no longer tracks the
\* object: the assignment goes nowhere.
Charge(r, due) ==
  balance' = IF due = 0 \/ r \in Streamed THEN balance ELSE Stored(loaded[r] - due)

\* Faulty variant: no max(0, ...).
Record_NoFloor(r) ==
  /\ pc[r] = "record_ok" /\ ~KeyUsed(r)
  /\ \E cost \in CostsOf(r) :
       /\ ledger' = ledger \cup {r}
       /\ spent' = spent + cost
       /\ balance' = Stored(loaded[r] - cost)
       /\ charged' = charged + cost
       /\ rounding' = rounding + (Grain \div 2)
  /\ Goto(r, "done")
  /\ UNCHANGED <<localVars, redisVars, alertRows, recent, served, credited>>

\* Faulty variant: the balance is left to a later settlement.
Record_NotCharged(r) ==
  /\ pc[r] = "record_ok" /\ ~KeyUsed(r)
  /\ \E cost \in CostsOf(r) :
       /\ ledger' = ledger \cup {r}
       /\ spent' = spent + cost
       /\ charged' = charged + Lesser(cost, loaded[r])
       /\ rounding' = rounding + (Grain \div 2)
  /\ Goto(r, "done")
  /\ UNCHANGED <<localVars, redisVars, alertRows, balance, recent, served, credited>>

\* record_request of an inference that went well: row and balance in one commit.
Record(r) ==
  /\ pc[r] = "record_ok" /\ ~KeyUsed(r)
  /\ \E cost \in CostsOf(r) :
       LET due == IF Prepaid THEN Lesser(cost, loaded[r]) ELSE 0 IN
       /\ ledger' = ledger \cup {r}
       /\ spent' = spent + cost
       /\ Charge(r, due)
       /\ charged' = charged + due
       /\ rounding' = rounding + (Grain \div 2)
  /\ Goto(r, "done")
  /\ UNCHANGED <<localVars, redisVars, alertRows, recent, served, credited>>

\* record_request of a failed one: a row that costs nothing.
RecordError(r) ==
  /\ pc[r] = "record_error" /\ ~KeyUsed(r)
  /\ ledger' = ledger \cup {r}
  /\ Goto(r, "done")
  /\ UNCHANGED <<localVars, redisVars, alertRows, spent, balance, historyVars>>

\* Faulty variant: the balance is committed before the row.
RecordDuplicate_Charged(r) ==
  /\ pc[r] \in {"record_ok", "record_error"} /\ KeyUsed(r)
  /\ \E cost \in CostsOf(r) : Charge(r, Lesser(cost, loaded[r]))
  /\ Goto(r, "duplicate")
  /\ UNCHANGED <<localVars, redisVars, alertRows, ledger, spent, historyVars>>

\* The key violates uq_requests_user_idempotency and the transaction is undone.
RecordDuplicate(r) ==
  /\ pc[r] \in {"record_ok", "record_error"} /\ KeyUsed(r)
  /\ Goto(r, "duplicate")
  /\ UNCHANGED <<localVars, redisVars, dbVars, historyVars>>

\* The process dies.
Crash(r) ==
  /\ r \in Mortal /\ UnderWay(r)
  /\ Goto(r, "crashed")
  /\ UNCHANGED <<localVars, redisVars, dbVars, historyVars>>

-----------------------------------------------------------------------------
(***************************************************************************)
(* users_credit_add: the user is loaded, the sum is written as a value.     *)
(***************************************************************************)
ReadBalance(o) ==
  /\ pc[o] = "arriving" /\ MayStart
  /\ loaded' = [loaded EXCEPT ![o] = balance]
  /\ Goto(o, "credit")
  /\ UNCHANGED <<seen, at, redisVars, dbVars, historyVars>>

\* Faulty variant: the amount replaces the balance.
WriteCredit_Replaces(o) ==
  /\ pc[o] = "credit"
  /\ balance' = Stored(CreditAmount)
  /\ credited' = credited + CreditAmount
  /\ rounding' = rounding + (Grain \div 2)
  /\ Goto(o, "done")
  /\ UNCHANGED <<localVars, redisVars, alertRows, ledger, spent, recent, served, charged>>

WriteCredit(o) ==
  /\ pc[o] = "credit"
  /\ balance' = Stored(loaded[o] + CreditAmount)
  /\ credited' = credited + CreditAmount
  /\ rounding' = rounding + (Grain \div 2)
  /\ Goto(o, "done")
  /\ UNCHANGED <<localVars, redisVars, alertRows, ledger, spent, recent, served, charged>>

-----------------------------------------------------------------------------
RequestStep(r) ==
  \/ Authenticate(r) \/ CheckRpm(r) \/ Age(r)
  \/ ReadTokens(r) \/ AddTokens(r)
  \/ RouteRefuses(r) \/ CheckBudget(r)
  \/ SkipThreshold(r) \/ FindUnmarked(r) \/ PersistAlert(r) \/ MarkAlert(r) \/ Admit(r)
  \/ Acquire(r) \/ Infer(r) \/ StreamCut(r)
  \/ Record(r) \/ RecordError(r) \/ RecordDuplicate(r)
  \/ Crash(r)

Next ==
  \/ \E r \in Requests : RequestStep(r)
  \/ \E o \in CreditOps : ReadBalance(o) \/ WriteCredit(o)

Spec == Init /\ [][Next]_vars

-----------------------------------------------------------------------------
(***************************************************************************)
(* Properties that hold whatever the concurrency                            *)
(***************************************************************************)

\* "Sliding-window token bucket: max requests_per_minute per user" (quota.py:45):
\* however trims, refusals and admissions interleave, no more than Limit requests
\* admitted within the last minute.
RateHeld == Cardinality(recent) <= Limit

\* No threshold is passed in silence (quota.py:119-159): when a request is served,
\* every threshold that the sum it was checked against had reached has its row,
\* whichever request wrote it and whoever died between the row and the key.
NoAlertMissed ==
  \A r \in served : \A i \in DOMAIN Thresholds :
    Reached(seen[r], Thresholds[i]) => Thresholds[i] \in alertRows

\* The updates that overwrite each other err on one side only (cost_tracker.py:99-101):
\* a balance never falls below what the deposit and the recorded costs leave.
NeverOvercharged == balance + charged + rounding >= Deposit

\* The balance moves with a row that accounts for it, or by a credit
\* (cost_tracker.py:97-103, one commit): a duplicate or a failure moves nothing.
ChargedWithItsRow ==
  [][balance' # balance =>
       \/ \E r \in Requests : r \notin ledger /\ ledger' = ledger \cup {r}
       \/ credited' # credited]_vars

-----------------------------------------------------------------------------
(***************************************************************************)
(* Properties that hold when the user's requests come one after the other,  *)
(* and that concurrent ones, streams or operators break                     *)
(***************************************************************************)

\* "reject if it would exceed quota" (quota.py:68)
DailyTokensHeld == tokens <= DailyTokens

\* "Reject if user would exceed monthly budget" (quota.py:95), as far as a check against
\* a projection can: what is spent beyond the budget is no more than a single recorded
\* inference has cost beyond a projection it may have been admitted on (router.py:95-102
\* reckons with 5 s and the prompt, whatever the answer takes).
BudgetHeld ==
  \/ spent <= Budget
  \/ \E r \in ledger : \E cost \in CostsOf(r), projected \in ProjectionsOf(r) :
       spent + projected <= Budget + cost

\* "For prepaid users, balance is decremented immediately" (cost_tracker.py:11):
\* nothing recorded is still in the balance.
PrepaidDecremented == balance + charged <= Deposit + credited + rounding

\* "Add prepaid credit to a user's balance" (llm_ctl.py:485): nothing added is missing.
CreditKept == balance + charged + rounding >= Deposit + credited

\* The unique row "dedupes notifications" (models.py:341) and the check "Raises HTTP 429
\* on any breach" (quota.py:8): an alert is no reason to fail a request within its budget.
AlertNeverFailsRequest == \A r \in Requests : pc[r] # "alert_error"

\* "Request row written regardless of success/failure so billing is complete"
\* (cost_tracker.py:12): a request whose inference has begun and that has ended has its
\* row, or its key has one.
BillingIsComplete ==
  \A r \in served : pc[r] \in Ended => r \in ledger \/ KeyUsed(r)

-----------------------------------------------------------------------------
(***************************************************************************)
(* Why they hold                                                            *)
(***************************************************************************)

\* What was admitted and is recent is still in the window, which was not too full then.
RateInv == recent \subseteq window \ stale /\ RateHeld

\* An alert is written for a threshold of the list.
InLoop == \A r \in Requests : pc[r] \in {"persist", "mark"} => at[r] <= Len(Thresholds)

\* A key follows its row; a request has dealt with the thresholds behind its position,
\* and once served it does not look at them again.
AlertInv ==
  /\ alertKeys \subseteq alertRows
  /\ \A r \in Requests :
       /\ pc[r] = "mark" => Thresholds[at[r]] \in alertRows
       /\ r \in served => pc[r] \in {"infer", "record_ok", "record_error"} \cup Ended
       /\ \A i \in DOMAIN Thresholds :
            /\ Reached(seen[r], Thresholds[i])
            /\ \/ pc[r] = "acquire" \/ r \in served
               \/ pc[r] \in {"alerts", "persist", "mark"} /\ i < at[r]
            => Thresholds[i] \in alertRows

\* A balance that somebody has loaded is as safe to write as the one in the table.
BalanceInv ==
  /\ NeverOvercharged
  /\ \A c \in Clients : pc[c] # "arriving" => loaded[c] + charged + rounding >= Deposit

\* A request writes its row in its last step.
RowsFinal == \A r \in ledger : pc[r] = "done"

\* How the code holds RateHeld, NoAlertMissed and NeverOvercharged in every interleaving.
AccountingInv == RateInv /\ InLoop /\ AlertInv /\ BalanceInv /\ RowsFinal

\* Clients that wait for each answer, no streams, no crash.
SerialUse == MaxInFlight = 1 /\ Streamed = {} /\ Mortal = {}

\* In serial use what a request has read stays true until it writes.
OneAtATime == \A c, d \in Clients : UnderWay(c) /\ UnderWay(d) => c = d

TokensSerial ==
  /\ DailyTokensHeld
  /\ \A r \in Requests : pc[r] = "count" => tokens + Prompt[r] <= DailyTokens

BudgetSerial ==
  /\ BudgetHeld
  /\ \A r \in Requests :
       pc[r] \in {"alerts", "persist", "mark", "acquire", "infer", "record_ok", "record_error"}
       => \E projected \in ProjectionsOf(r) : spent + projected <= Budget

BalanceSerial ==
  /\ PrepaidDecremented
  /\ CreditKept
  /\ \A c \in Clients : UnderWay(c) => loaded[c] = balance

AlertsSerial ==
  /\ AlertNeverFailsRequest
  /\ \A t \in alertRows \ alertKeys :
       \E r \in Requests : pc[r] = "mark" /\ t = Thresholds[at[r]]
  /\ \A r \in Requests : pc[r] = "persist" => Thresholds[at[r]] \notin alertRows

SerialInv ==
  OneAtATime /\ TokensSerial /\ BudgetSerial /\ BalanceSerial /\ AlertsSerial /\ BillingIsComplete
=============================================================================
