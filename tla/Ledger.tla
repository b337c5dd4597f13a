-------------------------------- MODULE Ledger --------------------------------
(***************************************************************************)
(* What the accounting of one user promises to a client that waits for each *)
(* answer: the books of a month.  A request is one entry or none; an entry  *)
(* is made in one step with its charge, with an unused idempotency key,     *)
(* while the budget has room for what it was projected to cost, and not     *)
(* before the user has been alerted to what was spent till then.  No        *)
(* sessions, caches or round trips.                                         *)
(***************************************************************************)
EXTENDS Naturals, Sequences

CONSTANTS
  Requests, Local, Key, Projections, Costs, Budget, Thresholds,
  CreditOps, CreditAmount, Deposit, Grain, Prepaid, None

VARIABLES
  entries,   \* requests with an entry
  spent,     \* what they have cost
  balance,   \* the prepaid balance
  alerts,    \* thresholds the user has been alerted to
  credits    \* credits that were added

vars == <<entries, spent, balance, alerts, credits>>

Init ==
  /\ entries = {} /\ alerts = {} /\ credits = {}
  /\ spent = 0 /\ balance = Deposit

Reached(amount, threshold) == Budget > 0 /\ 100 * amount >= threshold * Budget

\* A balance is kept in units of Grain.
Near(x, exact) == 2 * x <= 2 * exact + Grain /\ 2 * exact <= 2 * x + Grain

\* The balance pays as much of the cost as it can.
Due(cost) == IF ~Prepaid THEN 0 ELSE IF cost <= balance THEN cost ELSE balance

Room(r) == \E projected \in IF r \in Local THEN {0} ELSE Projections : spent + projected <= Budget

Enter(r, cost) ==
  /\ r \notin entries
  /\ Key[r] = None \/ \A s \in entries : Key[s] # Key[r]
  /\ \A i \in DOMAIN Thresholds : Reached(spent, Thresholds[i]) => Thresholds[i] \in alerts
  /\ Room(r)
  /\ entries' = entries \cup {r}
  /\ spent' = spent + cost
  /\ IF Due(cost) = 0 THEN balance' = balance ELSE Near(balance', balance - Due(cost))
  /\ UNCHANGED <<alerts, credits>>

\* An alert is raised once, and only for a threshold that was reached.
Alert(i) ==
  /\ Thresholds[i] \notin alerts /\ Reached(spent, Thresholds[i])
  /\ alerts' = alerts \cup {Thresholds[i]}
  /\ UNCHANGED <<entries, spent, balance, credits>>

Credit(o) ==
  /\ o \notin credits
  /\ credits' = credits \cup {o}
  /\ Near(balance', balance + CreditAmount)
  /\ UNCHANGED <<entries, spent, alerts>>

Next ==
  \/ \E r \in Requests, cost \in Costs \cup {0} : Enter(r, cost)
  \/ \E i \in DOMAIN Thresholds : Alert(i)
  \/ \E o \in CreditOps : Credit(o)

Spec == Init /\ [][Next]_vars
===============================================================================
