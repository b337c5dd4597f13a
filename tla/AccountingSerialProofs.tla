------------------------ MODULE AccountingSerialProofs ------------------------
(***************************************************************************)
(* Proofs about Accounting when its clients wait for each answer, do not    *)
(* stream and meet no crash: what a request has read then stays true until  *)
(* it writes.                                                               *)
(***************************************************************************)
EXTENDS AccountingProofs, AccountingRefinement

(***************************************************************************)
(* One request or credit at a time                                          *)
(***************************************************************************)
LEMMA NobodyUnderWay ==
  ASSUME SerialUse, MayStart, NEW c \in Clients
  PROVE  ~UnderWay(c)
<1> DEFINE busy == {d \in Clients : UnderWay(d)}
<1>1. IsFiniteSet(Clients)
  BY AccountingAssumption, FS_Union DEF Clients
<1>2. IsFiniteSet(busy)
  BY <1>1, FS_Subset
<1>3. Cardinality(busy) \in Nat /\ Cardinality(busy) < 1
  BY <1>2, FS_CardinalityType DEF SerialUse, MayStart
<1>4. busy = {}
  BY <1>2, <1>3, FS_EmptySet
<1> QED
  BY <1>4

\* Whoever moves is alone before and after.
LEMMA Alone ==
  ASSUME TypeOK, SerialUse, OneAtATime,
         NEW c \in Clients, UnderWay(c) \/ MayStart,
         NEW place \in Places, Goto(c, place)
  PROVE  /\ pc'[c] = place
         /\ \A d \in Clients : d # c => pc'[d] = pc[d] /\ ~UnderWay(d) /\ ~UnderWay(d)'
<1>1. pc'[c] = place /\ \A d \in Clients : d # c => pc'[d] = pc[d]
  BY DEF TypeOK, Goto
<1>2. \A d \in Clients : d # c => ~UnderWay(d)
  BY NobodyUnderWay DEF OneAtATime
<1> QED
  BY <1>1, <1>2 DEF UnderWay

\* A step moves one client, which was under way or may start, or none.
LEMMA OneMoves ==
  ASSUME TypeOK, [Next]_vars
  PROVE  \/ UNCHANGED pc
         \/ \E c \in Clients, place \in Places :
              Goto(c, place) /\ (UnderWay(c) \/ (pc[c] = "arriving" /\ MayStart))
<1>0. Requests \subseteq Clients /\ CreditOps \subseteq Clients
  BY DEF Clients
<1>1. ASSUME NEW r \in Requests, RequestStep(r)
      PROVE  \/ UNCHANGED pc
             \/ \E place \in Places :
                  Goto(r, place) /\ (UnderWay(r) \/ (pc[r] = "arriving" /\ MayStart))
  <2>1. CASE Authenticate(r) \/ CheckRpm(r) \/ Age(r)
    BY <2>1 DEF Authenticate, CheckRpm, Age, UnderWay, Places, Ended
  <2>2. CASE ReadTokens(r) \/ AddTokens(r) \/ RouteRefuses(r) \/ CheckBudget(r)
    BY <2>2 DEF ReadTokens, AddTokens, RouteRefuses, CheckBudget, UnderWay, Places, Ended
  <2>3. CASE SkipThreshold(r) \/ FindUnmarked(r) \/ PersistAlert(r) \/ MarkAlert(r) \/ Admit(r)
    BY <2>3 DEF SkipThreshold, FindUnmarked, PersistAlert, MarkAlert, Admit, UnderWay, Places, Ended
  <2>4. CASE Acquire(r) \/ Infer(r) \/ StreamCut(r)
    BY <2>4 DEF Acquire, Infer, StreamCut, UnderWay, Places, Ended
  <2>5. CASE Record(r) \/ RecordError(r) \/ RecordDuplicate(r) \/ Crash(r)
    BY <2>5 DEF Record, RecordError, RecordDuplicate, Crash, UnderWay, Places, Ended
  <2> QED
    BY <1>1, <2>1, <2>2, <2>3, <2>4, <2>5 DEF RequestStep
<1>2. ASSUME NEW o \in CreditOps, ReadBalance(o) \/ WriteCredit(o)
      PROVE  \E place \in Places :
               Goto(o, place) /\ (UnderWay(o) \/ (pc[o] = "arriving" /\ MayStart))
  BY <1>2 DEF ReadBalance, WriteCredit, UnderWay, Places, Ended
<1>3. UNCHANGED vars => UNCHANGED pc
  BY DEF vars
<1> QED
  BY <1>0, <1>1, <1>2, <1>3 DEF Next

LEMMA OneAtATimeStep ==
  SerialUse /\ TypeOK /\ OneAtATime /\ [Next]_vars => OneAtATime'
<1> SUFFICES ASSUME SerialUse, TypeOK, OneAtATime, [Next]_vars
             PROVE  OneAtATime'
  OBVIOUS
<1>1. CASE UNCHANGED pc
  BY <1>1 DEF OneAtATime, UnderWay
<1>2. ASSUME NEW c \in Clients, NEW place \in Places, Goto(c, place), UnderWay(c) \/ MayStart
      PROVE  OneAtATime'
  BY <1>2, Alone DEF OneAtATime
<1> QED
  BY <1>1, <1>2, OneMoves
-----------------------------------------------------------------------------
(***************************************************************************)
(* The daily quota                                                          *)
(***************************************************************************)
LEMMA TokensStep ==
  SerialUse /\ TypeOK /\ OneAtATime /\ TokensSerial /\ [Next]_vars => TokensSerial'
<1> SUFFICES ASSUME SerialUse, TypeOK, OneAtATime, TokensSerial, [Next]_vars
             PROVE  TokensSerial'
  OBVIOUS
<1>0. Requests \subseteq Clients
  BY DEF Clients
<1>1. ASSUME NEW r \in Requests, ReadTokens(r) \/ AddTokens(r)
      PROVE  TokensSerial'
  <2>1. pc[r] \in {"tokens", "count"} /\ UnderWay(r)
    BY <1>1 DEF ReadTokens, AddTokens, UnderWay, Ended
  <2>2. PICK place \in {"refused", "count", "budget"} : Goto(r, place)
    BY <1>1 DEF ReadTokens, AddTokens
  <2>3. /\ pc'[r] = place
        /\ \A s \in Requests : s # r => pc'[s] # "count"
    BY <2>1, <2>2, <1>0, Alone DEF Places, Ended, UnderWay
  <2>4. CASE ReadTokens(r)
    <3>1. tokens' = tokens
      BY <2>4 DEF ReadTokens, redisVars
    <3>2. pc'[r] = "count" => tokens + Prompt[r] <= DailyTokens
      BY <2>4, <1>0, AccountingAssumption DEF ReadTokens, Goto, TypeOK
    <3> QED
      BY <2>3, <3>1, <3>2 DEF TokensSerial, DailyTokensHeld
  <2>5. CASE AddTokens(r)
    BY <2>3, <2>5, <1>0 DEF AddTokens, TokensSerial, DailyTokensHeld, Goto, TypeOK
  <2> QED
    BY <1>1, <2>4, <2>5
<1>2. ASSUME NEW r \in Requests, RequestStep(r), ~ReadTokens(r), ~AddTokens(r)
      PROVE  UNCHANGED tokens /\ (UNCHANGED pc \/ \E place \in Places \ {"count"} : Goto(r, place))
  <2>1. CASE Authenticate(r) \/ CheckRpm(r) \/ Age(r)
    BY <2>1 DEF Authenticate, CheckRpm, Age, redisVars, Places, Ended
  <2>2. CASE RouteRefuses(r) \/ CheckBudget(r) \/ Acquire(r) \/ Infer(r) \/ StreamCut(r)
    BY <2>2 DEF RouteRefuses, CheckBudget, Acquire, Infer, StreamCut, redisVars, Places, Ended
  <2>3. CASE SkipThreshold(r) \/ FindUnmarked(r) \/ PersistAlert(r) \/ MarkAlert(r) \/ Admit(r)
    BY <2>3 DEF SkipThreshold, FindUnmarked, PersistAlert, MarkAlert, Admit, redisVars, Places, Ended
  <2>4. CASE Record(r) \/ RecordError(r) \/ RecordDuplicate(r) \/ Crash(r)
    BY <2>4 DEF Record, RecordError, RecordDuplicate, Crash, redisVars, Places, Ended
  <2> QED
    BY <1>2, <2>1, <2>2, <2>3, <2>4 DEF RequestStep
<1>3. ASSUME NEW o \in CreditOps, ReadBalance(o) \/ WriteCredit(o)
      PROVE  UNCHANGED tokens /\ \E place \in Places \ {"count"} : Goto(o, place)
  BY <1>3 DEF ReadBalance, WriteCredit, redisVars, Places, Ended
<1>4. ASSUME NEW c \in Clients, UNCHANGED tokens,
             UNCHANGED pc \/ \E place \in Places \ {"count"} : Goto(c, place)
      PROVE  TokensSerial'
  BY <1>4, <1>0 DEF TokensSerial, DailyTokensHeld, Goto, TypeOK
<1>5. CASE UNCHANGED vars
  BY <1>5 DEF TokensSerial, DailyTokensHeld, vars, redisVars
<1> QED
  BY <1>1, <1>2, <1>3, <1>4, <1>5 DEF Next, Clients
-----------------------------------------------------------------------------
(***************************************************************************)
(* The budget                                                               *)
(***************************************************************************)
Checked == {"alerts", "persist", "mark", "acquire", "infer", "record_ok", "record_error"}

LEMMA BudgetStep ==
  SerialUse /\ TypeOK /\ OneAtATime /\ BudgetSerial /\ [Next]_vars => BudgetSerial'
<1> SUFFICES ASSUME SerialUse, TypeOK, OneAtATime, BudgetSerial, [Next]_vars
             PROVE  BudgetSerial'
  OBVIOUS
<1>0. Requests \subseteq Clients
  BY DEF Clients
<1>1. ASSUME NEW r \in Requests, CheckBudget(r)
      PROVE  BudgetSerial'
  <2>1. PICK projected \in ProjectionsOf(r) :
          \/ spent + projected > Budget /\ Goto(r, "refused")
          \/ spent + projected <= Budget /\ Goto(r, "alerts")
    BY <1>1 DEF CheckBudget
  <2>2. \A s \in Requests : s # r => pc'[s] \notin Checked
    BY <1>1, <2>1, <1>0, Alone DEF CheckBudget, UnderWay, Places, Ended, Checked
  <2>3. spent' = spent
    BY <1>1 DEF CheckBudget, dbVars
  <2>4. pc'[r] \in Checked => spent + projected <= Budget
    BY <2>1, <1>0 DEF Goto, TypeOK, Checked
  <2>5. ledger' = ledger
    BY <1>1 DEF CheckBudget, dbVars
  <2> QED
    BY <2>2, <2>3, <2>4, <2>5 DEF BudgetSerial, BudgetHeld, Checked
<1>2. ASSUME NEW r \in Requests, Record(r)
      PROVE  BudgetSerial'
  <2>1. PICK cost \in CostsOf(r) : spent' = spent + cost /\ ledger' = ledger \cup {r}
    BY <1>2 DEF Record
  <2>2. PICK projected \in ProjectionsOf(r) : spent + projected <= Budget
    BY <1>2 DEF Record, BudgetSerial
  <2>3. spent' + projected <= Budget + cost
    BY <2>1, <2>2, AmountTypes, AccountingAssumption DEF TypeOK
  <2>4. BudgetHeld'
    BY <2>1, <2>3 DEF BudgetHeld
  <2>5. \A s \in Requests : pc'[s] \notin Checked
    BY <1>2, <1>0, Alone DEF Record, UnderWay, Places, Ended, Checked
  <2> QED
    BY <2>4, <2>5 DEF BudgetSerial, Checked
<1>3. ASSUME NEW r \in Requests, RequestStep(r), ~CheckBudget(r), ~Record(r)
      PROVE  /\ UNCHANGED spent /\ ledger \subseteq ledger'
             /\ \/ UNCHANGED pc
                \/ \E place \in Places :
                     Goto(r, place) /\ (place \in Checked => pc[r] \in Checked)
  <2>1. CASE Authenticate(r) \/ CheckRpm(r) \/ Age(r) \/ ReadTokens(r) \/ AddTokens(r)
    BY <2>1 DEF Authenticate, CheckRpm, Age, ReadTokens, AddTokens, dbVars, Places, Ended, Checked
  <2>2. CASE RouteRefuses(r) \/ Acquire(r) \/ Infer(r) \/ StreamCut(r)
    BY <2>2 DEF RouteRefuses, Acquire, Infer, StreamCut, dbVars, Places, Ended, Checked
  <2>3. CASE SkipThreshold(r) \/ FindUnmarked(r) \/ PersistAlert(r) \/ MarkAlert(r) \/ Admit(r)
    BY <2>3 DEF SkipThreshold, FindUnmarked, PersistAlert, MarkAlert, Admit, dbVars, Places, Ended,
                Checked
  <2>4. CASE RecordError(r) \/ RecordDuplicate(r) \/ Crash(r)
    BY <2>4 DEF RecordError, RecordDuplicate, Crash, dbVars, Places, Ended, Checked
  <2> QED
    BY <1>3, <2>1, <2>2, <2>3, <2>4 DEF RequestStep
<1>4. ASSUME NEW o \in CreditOps, ReadBalance(o) \/ WriteCredit(o)
      PROVE  UNCHANGED <<spent, ledger>> /\ \E place \in Places \ Checked : Goto(o, place)
  BY <1>4 DEF ReadBalance, WriteCredit, dbVars, Places, Ended, Checked
<1>5. ASSUME NEW c \in Clients, UNCHANGED spent, ledger \subseteq ledger',
             \/ UNCHANGED pc
             \/ \E place \in Places : Goto(c, place) /\ (place \in Checked => pc[c] \in Checked)
      PROVE  BudgetSerial'
  BY <1>5, <1>0 DEF BudgetSerial, BudgetHeld, Checked, Goto, TypeOK
<1>6. CASE UNCHANGED vars
  BY <1>6 DEF BudgetSerial, BudgetHeld, vars, dbVars
<1> QED
  BY <1>1, <1>2, <1>3, <1>4, <1>5, <1>6 DEF Next, Clients
-----------------------------------------------------------------------------
(***************************************************************************)
(* The balance: what a request has loaded is what the column holds.         *)
(***************************************************************************)
LEMMA BalanceSerialStep ==
  SerialUse /\ TypeOK /\ OneAtATime /\ BalanceSerial /\ [Next]_vars => BalanceSerial'
<1> SUFFICES ASSUME SerialUse, TypeOK, OneAtATime, BalanceSerial, [Next]_vars
             PROVE  BalanceSerial'
  OBVIOUS
<1>0. Requests \subseteq Clients /\ CreditOps \subseteq Clients /\ Deposit \in Nat
      /\ CreditAmount \in Nat /\ Grain \div 2 \in Nat
  BY AccountingAssumption, AmountTypes DEF Clients
<1> DEFINE half == Grain \div 2
<1>h. half \in Nat
  BY <1>0
<1>1. ASSUME NEW c \in Clients, UnderWay(c), NEW place \in Ended, Goto(c, place),
             NEW new \in Nat, balance' = new,
             NEW due \in Nat, charged' = charged + due,
             NEW gift \in Nat, credited' = credited + gift,
             rounding' = rounding + half,
             new + half + due >= balance + gift,
             new + due <= balance + gift + half
      PROVE  BalanceSerial'
  <2>1. \A d \in Clients : ~UnderWay(d)'
    BY <1>1, Alone DEF Places, UnderWay
  <2>2. /\ balance \in Nat /\ charged \in Nat /\ credited \in Nat /\ rounding \in Nat
        /\ balance + charged <= Deposit + credited + rounding
        /\ balance + charged + rounding >= Deposit + credited
    BY DEF TypeOK, BalanceSerial, PrepaidDecremented, CreditKept
  <2> HIDE DEF half
  <2>3. /\ new + (charged + due) <= Deposit + (credited + gift) + (rounding + half)
        /\ new + (charged + due) + (rounding + half) >= Deposit + (credited + gift)
    BY <1>1, <1>0, <1>h, <2>2
  <2> QED
    BY <1>1, <2>1, <2>3 DEF BalanceSerial, PrepaidDecremented, CreditKept
<1>2. ASSUME NEW r \in Requests, Record(r)
      PROVE  BalanceSerial'
  <2>1. PICK cost \in CostsOf(r), due \in Nat :
          /\ due <= loaded[r]
          /\ Charge(r, due)
          /\ charged' = charged + due
          /\ rounding' = rounding + half
    BY <1>2, <1>0, AmountTypes DEF Record, Lesser, TypeOK
  <2>2. UnderWay(r) /\ Goto(r, "done") /\ credited' = credited
    BY <1>2 DEF Record, UnderWay, Ended
  <2>3. loaded[r] = balance /\ balance \in Nat
    BY <2>2, <1>0 DEF BalanceSerial, TypeOK
  <2>4. PICK new \in Nat : balance' = new /\ new + half + due >= balance /\ new + due <= balance + half
    <3>1. CASE due = 0
      BY <2>1, <2>3, <3>1, <1>h DEF Charge
    <3>2. CASE due # 0
      <4>1. balance - due \in Nat /\ balance' = Stored(balance - due)
        BY <2>1, <2>3, <3>2 DEF Charge, SerialUse
      <4>2. /\ Stored(balance - due) \in Nat
            /\ Stored(balance - due) + half >= balance - due
            /\ Stored(balance - due) <= (balance - due) + half
        BY <4>1, StoredNear
      <4> DEFINE new == Stored(balance - due)
      <4> HIDE DEF half, new
      <4>3. new \in Nat /\ new + half >= balance - due /\ new <= (balance - due) + half
        BY <4>2 DEF half, new
      <4>4. new + half + due >= balance /\ new + due <= balance + half
        BY <4>3, <4>1, <2>3, <1>h
      <4> QED
        BY <4>1, <4>3, <4>4 DEF new
    <3> QED
      BY <3>1, <3>2
  <2>5. new + half + due >= balance + 0 /\ new + due <= balance + 0 + half /\ credited' = credited + 0
    BY <2>2, <2>3, <2>4, <1>h DEF TypeOK
  <2> QED
    BY <1>0, <1>1, <2>1, <2>2, <2>4, <2>5 DEF Ended
<1>3. ASSUME NEW o \in CreditOps, WriteCredit(o)
      PROVE  BalanceSerial'
  <2>1. UnderWay(o) /\ Goto(o, "done") /\ charged' = charged + 0
    BY <1>3 DEF WriteCredit, UnderWay, Ended, TypeOK
  <2>2. /\ balance' = Stored(balance + CreditAmount)
        /\ credited' = credited + CreditAmount /\ rounding' = rounding + half
    BY <1>3, <2>1, <1>0 DEF WriteCredit, BalanceSerial
  <2>3. balance + CreditAmount \in Nat /\ balance \in Nat
    BY <1>0 DEF TypeOK
  <2>4. /\ Stored(balance + CreditAmount) \in Nat
        /\ Stored(balance + CreditAmount) + half >= balance + CreditAmount
        /\ Stored(balance + CreditAmount) <= balance + CreditAmount + half
    BY <2>3, StoredNear
  <2> DEFINE new == Stored(balance + CreditAmount)
  <2> HIDE DEF half, new
  <2>5. /\ new \in Nat /\ balance' = new
        /\ new + half + 0 >= balance + CreditAmount /\ new + 0 <= balance + CreditAmount + half
    BY <2>2, <2>4, <1>h, <2>3, <1>0 DEF half, new
  <2> QED
    BY <1>0, <1>1, <2>1, <2>2, <2>5 DEF Ended
<1>4. ASSUME NEW c \in Clients, MayStart, pc[c] = "arriving",
             NEW place \in Places, Goto(c, place),
             loaded' = [loaded EXCEPT ![c] = balance],
             UNCHANGED <<balance, charged, credited, rounding>>
      PROVE  BalanceSerial'
  <2>1. \A d \in Clients : d # c => ~UnderWay(d)'
    BY <1>4, Alone
  <2>2. loaded'[c] = balance'
    BY <1>4 DEF TypeOK
  <2> QED
    BY <1>4, <2>1, <2>2 DEF BalanceSerial, PrepaidDecremented, CreditKept
<1>5. ASSUME NEW c \in Clients, UNCHANGED <<loaded, balance, charged, credited, rounding>>,
             UNCHANGED pc \/ (UnderWay(c) /\ \E place \in Places : Goto(c, place))
      PROVE  BalanceSerial'
  <2>1. \A d \in Clients : UnderWay(d)' => UnderWay(d)
    BY <1>5 DEF UnderWay, Goto, TypeOK
  <2> QED
    BY <1>5, <2>1 DEF BalanceSerial, PrepaidDecremented, CreditKept
<1>6. ASSUME NEW r \in Requests, RequestStep(r), ~Record(r), ~Authenticate(r)
      PROVE  /\ UNCHANGED <<loaded, balance, charged, credited, rounding>>
             /\ UNCHANGED pc \/ (UnderWay(r) /\ \E place \in Places : Goto(r, place))
  <2>1. UNCHANGED <<loaded, balance, charged, credited, rounding>>
    BY <1>6 DEF RequestStep, CheckRpm, Age, ReadTokens, AddTokens, RouteRefuses, CheckBudget,
                SkipThreshold, FindUnmarked, PersistAlert, MarkAlert, Admit, Acquire, Infer,
                StreamCut, RecordError, RecordDuplicate, Crash, localVars, dbVars, historyVars
  <2>2. UNCHANGED pc \/ (UnderWay(r) /\ \E place \in Places : Goto(r, place))
    BY <1>6 DEF RequestStep, CheckRpm, Age, ReadTokens, AddTokens, RouteRefuses, CheckBudget,
                SkipThreshold, FindUnmarked, PersistAlert, MarkAlert, Admit, Acquire, Infer,
                StreamCut, RecordError, RecordDuplicate, Crash, UnderWay, Places, Ended
  <2> QED
    BY <2>1, <2>2
<1>7. ASSUME NEW c \in Clients, Authenticate(c) \/ ReadBalance(c)
      PROVE  BalanceSerial'
  <2>1. /\ MayStart /\ pc[c] = "arriving"
        /\ loaded' = [loaded EXCEPT ![c] = balance]
        /\ UNCHANGED <<balance, charged, credited, rounding>>
        /\ \E place \in Places : Goto(c, place)
    BY <1>7 DEF Authenticate, ReadBalance, dbVars, historyVars, Places
  <2> QED
    BY <1>4, <2>1
<1>8. CASE UNCHANGED vars
  BY <1>8 DEF vars, BalanceSerial, PrepaidDecremented, CreditKept, UnderWay, localVars, dbVars,
              historyVars
<1> QED
  <2>1. ASSUME NEW r \in Requests, RequestStep(r)
        PROVE  BalanceSerial'
    BY <2>1, <1>0, <1>2, <1>5, <1>6, <1>7
  <2>2. ASSUME NEW o \in CreditOps, ReadBalance(o) \/ WriteCredit(o)
        PROVE  BalanceSerial'
    BY <2>2, <1>0, <1>3, <1>7
  <2> QED
    BY <1>8, <2>1, <2>2 DEF Next
-----------------------------------------------------------------------------
(***************************************************************************)
(* The alerts: a row without its key belongs to the request that is about   *)
(* to set the key, and that request is the only one.                        *)
(***************************************************************************)
LEMMA AlertsSerialStep ==
  SerialUse /\ TypeOK /\ OneAtATime /\ AlertsSerial /\ [Next]_vars => AlertsSerial'
<1> SUFFICES ASSUME SerialUse, TypeOK, OneAtATime, AlertsSerial, [Next]_vars
             PROVE  AlertsSerial'
  OBVIOUS
<1>0. Requests \subseteq Clients /\ CreditOps \subseteq Clients /\ Requests \cap CreditOps = {}
  BY AccountingAssumption DEF Clients
<1>1. ASSUME NEW r \in Requests, FindUnmarked(r)
      PROVE  AlertsSerial'
  <2>1. /\ pc[r] = "alerts" /\ UnderWay(r) /\ Goto(r, "persist")
        /\ Thresholds[at[r]] \notin alertKeys
        /\ UNCHANGED <<at, alertRows, alertKeys>>
    BY <1>1 DEF FindUnmarked, UnderWay, Ended, localVars, redisVars, dbVars
  <2>2. /\ pc'[r] = "persist"
        /\ \A s \in Requests : s # r => pc'[s] = pc[s] /\ ~UnderWay(s)
    BY <2>1, <1>0, Alone DEF Places
  <2>3. \A s \in Requests : pc[s] # "mark"
    BY <2>1, <2>2 DEF UnderWay, Ended
  <2>4. alertRows \subseteq alertKeys
    BY <2>3 DEF AlertsSerial
  <2>5. AlertNeverFailsRequest'
    BY <2>2 DEF AlertsSerial, AlertNeverFailsRequest
  <2> QED
    BY <2>1, <2>2, <2>4, <2>5 DEF AlertsSerial, UnderWay, Ended
<1>2. ASSUME NEW r \in Requests, PersistAlert(r)
      PROVE  AlertsSerial'
  <2>1. /\ pc[r] = "persist" /\ UnderWay(r) /\ Goto(r, "mark")
        /\ alertRows' = alertRows \cup {Thresholds[at[r]]}
        /\ UNCHANGED <<at, alertKeys>>
    BY <1>2 DEF PersistAlert, AlertsSerial, UnderWay, Ended, localVars, redisVars
  <2>2. /\ pc'[r] = "mark"
        /\ \A s \in Requests : s # r => pc'[s] = pc[s] /\ ~UnderWay(s)
    BY <2>1, <1>0, Alone DEF Places
  <2>3. \A s \in Requests : pc[s] # "mark"
    BY <2>1, <2>2 DEF UnderWay, Ended
  <2>4. alertRows \subseteq alertKeys
    BY <2>3 DEF AlertsSerial
  <2>5. AlertNeverFailsRequest'
    BY <2>2 DEF AlertsSerial, AlertNeverFailsRequest
  <2> QED
    BY <2>1, <2>2, <2>4, <2>5 DEF AlertsSerial, UnderWay, Ended
<1>3. ASSUME NEW r \in Requests, MarkAlert(r)
      PROVE  AlertsSerial'
  <2>1. /\ pc[r] = "mark" /\ UnderWay(r) /\ Goto(r, "alerts")
        /\ alertKeys' = alertKeys \cup {Thresholds[at[r]]}
        /\ UNCHANGED alertRows
    BY <1>3 DEF MarkAlert, UnderWay, Ended, dbVars
  <2>2. /\ pc'[r] = "alerts"
        /\ \A s \in Requests : s # r => pc'[s] = pc[s] /\ ~UnderWay(s)
    BY <2>1, <1>0, Alone DEF Places
  <2>3. \A t \in alertRows \ alertKeys : t = Thresholds[at[r]]
    BY <2>2 DEF AlertsSerial, UnderWay, Ended
  <2>4. AlertNeverFailsRequest'
    BY <2>2 DEF AlertsSerial, AlertNeverFailsRequest
  <2> QED
    BY <2>1, <2>2, <2>3, <2>4 DEF AlertsSerial, UnderWay, Ended
<1>4. ASSUME NEW c \in Clients, UNCHANGED <<alertRows, alertKeys>>,
             \A s \in Requests : pc[s] \in {"mark", "persist"} => at'[s] = at[s],
             \/ UNCHANGED pc
             \/ /\ pc[c] \notin {"mark", "persist"}
                /\ \E place \in Places \ {"mark", "persist", "alert_error"} : Goto(c, place)
      PROVE  AlertsSerial'
  <2>1. \A s \in Requests :
          /\ pc[s] = "mark" <=> pc'[s] = "mark"
          /\ pc'[s] = "persist" => pc[s] = "persist"
          /\ pc'[s] = "alert_error" => pc[s] = "alert_error"
    BY <1>4, <1>0 DEF Goto, TypeOK
  <2>2. AlertNeverFailsRequest'
    BY <2>1 DEF AlertsSerial, AlertNeverFailsRequest
  <2> QED
    BY <1>4, <2>1, <2>2 DEF AlertsSerial
<1>5. ASSUME NEW r \in Requests, RequestStep(r),
             ~FindUnmarked(r), ~PersistAlert(r), ~MarkAlert(r)
      PROVE  /\ UNCHANGED <<alertRows, alertKeys>>
             /\ \A s \in Requests : pc[s] \in {"mark", "persist"} => at'[s] = at[s]
             /\ \/ UNCHANGED pc
                \/ /\ pc[r] \notin {"mark", "persist"}
                   /\ \E place \in Places \ {"mark", "persist", "alert_error"} : Goto(r, place)
  <2>0. r \notin Mortal
    BY DEF SerialUse
  <2>1. UNCHANGED <<alertRows, alertKeys>>
    BY <1>5 DEF RequestStep, Authenticate, CheckRpm, Age, ReadTokens, AddTokens, RouteRefuses,
        CheckBudget, SkipThreshold, Admit, Acquire, Infer, StreamCut, Record, RecordError,
        RecordDuplicate, Crash, redisVars, dbVars
  <2>2. \A s \in Requests : pc[s] \in {"mark", "persist"} => at'[s] = at[s]
    <3>1. CASE CheckBudget(r) \/ SkipThreshold(r)
      BY <3>1 DEF CheckBudget, SkipThreshold, TypeOK, localVars
    <3>2. CASE ~CheckBudget(r) /\ ~SkipThreshold(r)
      BY <1>5, <3>2 DEF RequestStep, Authenticate, CheckRpm, Age, ReadTokens, AddTokens,
          RouteRefuses, Admit, Acquire, Infer, StreamCut, Record, RecordError, RecordDuplicate,
          Crash, localVars
    <3> QED
      BY <3>1, <3>2
  <2>3. \/ UNCHANGED pc
        \/ /\ pc[r] \notin {"mark", "persist"}
           /\ \E place \in Places \ {"mark", "persist", "alert_error"} : Goto(r, place)
    <3>1. CASE Authenticate(r) \/ CheckRpm(r) \/ Age(r) \/ ReadTokens(r) \/ AddTokens(r)
      BY <3>1 DEF Authenticate, CheckRpm, Age, ReadTokens, AddTokens, Places, Ended
    <3>2. CASE RouteRefuses(r) \/ CheckBudget(r) \/ SkipThreshold(r) \/ Admit(r)
      BY <3>2 DEF RouteRefuses, CheckBudget, SkipThreshold, Admit, Places, Ended
    <3>3. CASE Acquire(r) \/ Infer(r) \/ StreamCut(r)
      BY <3>3 DEF Acquire, Infer, StreamCut, Places, Ended
    <3>4. CASE Record(r) \/ RecordError(r) \/ RecordDuplicate(r)
      BY <3>4 DEF Record, RecordError, RecordDuplicate, Places, Ended
    <3> QED
      BY <1>5, <2>0, <3>1, <3>2, <3>3, <3>4 DEF RequestStep, Crash
  <2> QED
    BY <2>1, <2>2, <2>3
<1>6. ASSUME NEW o \in CreditOps, ReadBalance(o) \/ WriteCredit(o)
      PROVE  /\ UNCHANGED <<alertRows, alertKeys, at>>
             /\ pc[o] \notin {"mark", "persist"}
             /\ \E place \in Places \ {"mark", "persist", "alert_error"} : Goto(o, place)
  BY <1>6 DEF ReadBalance, WriteCredit, localVars, redisVars, dbVars, Places, Ended
<1>7. CASE UNCHANGED vars
  BY <1>7 DEF AlertsSerial, AlertNeverFailsRequest, vars, localVars, redisVars, dbVars
<1> QED
  <2>1. ASSUME NEW r \in Requests, RequestStep(r)
        PROVE  AlertsSerial'
    BY <2>1, <1>0, <1>1, <1>2, <1>3, <1>4, <1>5
  <2>2. ASSUME NEW o \in CreditOps, ReadBalance(o) \/ WriteCredit(o)
        PROVE  AlertsSerial'
    BY <2>2, <1>0, <1>4, <1>6
  <2> QED
    BY <1>7, <2>1, <2>2 DEF Next
-----------------------------------------------------------------------------
(***************************************************************************)
(* The rows: once its inference has begun, a request ends in its record.    *)
(***************************************************************************)
LEMMA BillingStep ==
  SerialUse /\ TypeOK /\ AlertInv /\ AlertsSerial /\ BillingIsComplete /\ [Next]_vars
  => BillingIsComplete'
<1> SUFFICES ASSUME SerialUse, TypeOK, AlertInv, AlertsSerial, BillingIsComplete, [Next]_vars
             PROVE  BillingIsComplete'
  OBVIOUS
<1>0. Requests \subseteq Clients /\ CreditOps \subseteq Clients /\ Requests \cap CreditOps = {}
  BY AccountingAssumption DEF Clients
<1>1. ASSUME ledger \subseteq ledger', NEW r \in Requests, served' \subseteq served \cup {r},
             UNCHANGED pc \/ \E place \in Places : Goto(r, place),
             r \in served' /\ pc'[r] \in Ended => r \in ledger' \/ KeyUsed(r)
      PROVE  BillingIsComplete'
  <2>1. \A s \in Requests : s # r => pc'[s] = pc[s]
    BY <1>1, <1>0 DEF Goto, TypeOK
  <2>2. \A s \in Requests : KeyUsed(s) => KeyUsed(s)'
    BY <1>1 DEF KeyUsed
  <2>3. ASSUME NEW s \in served', pc'[s] \in Ended
        PROVE  s \in ledger' \/ KeyUsed(s)'
    <3>1. s \in Requests
      BY <1>1, <2>3 DEF TypeOK
    <3>2. CASE s = r
      BY <1>1, <2>2, <2>3, <3>1, <3>2
    <3>3. CASE s # r
      BY <1>1, <2>1, <2>2, <2>3, <3>1, <3>3 DEF BillingIsComplete
    <3> QED
      BY <3>2, <3>3
  <2> QED
    BY <2>3 DEF BillingIsComplete
<1>2. ASSUME NEW r \in Requests, pc[r] \notin {"infer", "record_ok", "record_error"} \cup Ended
      PROVE  r \notin served
  BY <1>2 DEF AlertInv
<1>3. ASSUME NEW r \in Requests,
             Authenticate(r) \/ CheckRpm(r) \/ ReadTokens(r) \/ AddTokens(r)
               \/ RouteRefuses(r) \/ CheckBudget(r) \/ SkipThreshold(r) \/ FindUnmarked(r)
               \/ PersistAlert(r) \/ MarkAlert(r) \/ Admit(r)
      PROVE  BillingIsComplete'
  <2>1. UNCHANGED <<ledger, served>>
    BY <1>3 DEF Authenticate, CheckRpm, ReadTokens, AddTokens, RouteRefuses, CheckBudget,
        SkipThreshold, FindUnmarked, PersistAlert, MarkAlert, Admit, dbVars, historyVars
  <2>2. UNCHANGED pc \/ \E place \in Places : Goto(r, place)
    BY <1>3 DEF Authenticate, CheckRpm, ReadTokens, AddTokens, RouteRefuses, CheckBudget,
        SkipThreshold, FindUnmarked, PersistAlert, MarkAlert, Admit, Places, Ended
  <2>3. r \notin served
    BY <1>2, <1>3 DEF Authenticate, CheckRpm, ReadTokens, AddTokens, RouteRefuses, CheckBudget,
        SkipThreshold, FindUnmarked, PersistAlert, MarkAlert, Admit, Ended
  <2> QED
    BY <1>1, <2>1, <2>2, <2>3
<1>4. ASSUME NEW r \in Requests, Age(r)
      PROVE  BillingIsComplete'
  BY <1>4 DEF Age, dbVars, BillingIsComplete, KeyUsed
<1>5. ASSUME NEW r \in Requests, Acquire(r)
      PROVE  BillingIsComplete'
  <2>1. UNCHANGED ledger /\ r \notin served
    BY <1>2, <1>5 DEF Acquire, Ended, dbVars
  <2>2. \/ Goto(r, "refused") /\ served' = served
        \/ Goto(r, "infer") /\ served' = served \cup {r}
    BY <1>5 DEF Acquire
  <2>3. r \in served' => pc'[r] = "infer"
    BY <2>1, <2>2, <1>0 DEF Goto, TypeOK
  <2> QED
    BY <1>1, <2>1, <2>2, <2>3 DEF Places, Ended
<1>6. ASSUME NEW r \in Requests, Infer(r)
      PROVE  BillingIsComplete'
  <2>1. UNCHANGED <<ledger, served>> /\ \E place \in {"record_ok", "record_error"} : Goto(r, place)
    BY <1>6 DEF Infer, dbVars, historyVars
  <2>2. pc'[r] \notin Ended
    BY <2>1, <1>0 DEF Goto, TypeOK, Ended
  <2> QED
    BY <1>1, <2>1, <2>2 DEF Places
<1>7. ASSUME NEW r \in Requests, Record(r) \/ RecordError(r)
      PROVE  BillingIsComplete'
  <2>1. ledger' = ledger \cup {r} /\ UNCHANGED served /\ Goto(r, "done")
    BY <1>7 DEF Record, RecordError, historyVars
  <2> QED
    BY <1>1, <2>1 DEF Places, Ended
<1>8. ASSUME NEW r \in Requests, RecordDuplicate(r)
      PROVE  BillingIsComplete'
  <2>1. UNCHANGED <<ledger, served>> /\ KeyUsed(r) /\ Goto(r, "duplicate")
    BY <1>8 DEF RecordDuplicate, dbVars, historyVars
  <2> QED
    BY <1>1, <2>1 DEF Places, Ended
<1>9. ASSUME NEW o \in CreditOps, ReadBalance(o) \/ WriteCredit(o)
      PROVE  BillingIsComplete'
  <2>1. UNCHANGED <<ledger, served>> /\ \E place \in Places : Goto(o, place)
    BY <1>9 DEF ReadBalance, WriteCredit, dbVars, historyVars, Places, Ended
  <2>2. \A s \in Requests : pc'[s] = pc[s]
    BY <2>1, <1>0 DEF Goto, TypeOK
  <2>3. served \subseteq Requests
    BY DEF TypeOK
  <2> QED
    BY <2>1, <2>2, <2>3 DEF BillingIsComplete, KeyUsed
<1>10. CASE UNCHANGED vars
  BY <1>10 DEF vars, dbVars, historyVars, BillingIsComplete, KeyUsed
<1> QED
  BY <1>3, <1>4, <1>5, <1>6, <1>7, <1>8, <1>9, <1>10 DEF Next, RequestStep, SerialUse, StreamCut, Crash
-----------------------------------------------------------------------------
(***************************************************************************)
(* In serial use                                                            *)
(***************************************************************************)

\* For clients that wait for each answer, without streams and crashes, quota, balance,
\* alerts and rows are what the docstrings say, and the budget is exceeded by no more than
\* one inference beyond its projection.
THEOREM SerialHolds == SerialUse => (Spec => []SerialInv)
<1> SUFFICES ASSUME SerialUse
             PROVE  Spec => []SerialInv
  OBVIOUS
<1>1. Init => SerialInv
  <2>1. Init => OneAtATime
    BY DEF Init, OneAtATime, UnderWay
  <2>2. Init => TokensSerial
    BY AccountingAssumption DEF Init, TokensSerial, DailyTokensHeld, Clients
  <2>3. Init => BudgetSerial
    BY AccountingAssumption DEF Init, BudgetSerial, BudgetHeld, Clients
  <2>4. Init => BalanceSerial
    BY AccountingAssumption DEF Init, BalanceSerial, PrepaidDecremented, CreditKept, UnderWay
  <2>5. Init => AlertsSerial
    BY DEF Init, AlertsSerial, AlertNeverFailsRequest, Clients
  <2>6. Init => BillingIsComplete
    BY DEF Init, BillingIsComplete
  <2> QED
    BY <2>1, <2>2, <2>3, <2>4, <2>5, <2>6 DEF SerialInv
<1>2. TypeOK /\ AccountingInv /\ SerialInv /\ [Next]_vars => SerialInv'
  BY OneAtATimeStep, TokensStep, BudgetStep, BalanceSerialStep, AlertsSerialStep, BillingStep
  DEF SerialInv, AccountingInv
<1> QED
  BY AccountingTypes, AccountingInvHolds, <1>1, <1>2, PTL DEF Spec

\* "Increment daily token counter; reject if it would exceed quota" (quota.py:68): for
\* clients that wait for each answer the daily counter stays within the quota.
THEOREM DailyTokensHolds == SerialUse => (Spec => []DailyTokensHeld)
<1>1. SerialInv => DailyTokensHeld
  BY DEF SerialInv, TokensSerial
<1> QED
  BY SerialHolds, <1>1, PTL

\* "Reject if user would exceed monthly budget" (quota.py:95): whatever the router projects
\* (router.py:95-102) and whatever inferences cost, such a client overruns the budget by no
\* more than the excess of one recorded inference over a projection that had room for it.
THEOREM BudgetHolds == SerialUse => (Spec => []BudgetHeld)
<1>1. SerialInv => BudgetHeld
  BY DEF SerialInv, BudgetSerial
<1> QED
  BY SerialHolds, <1>1, PTL

\* "For prepaid users, balance is decremented immediately" (cost_tracker.py:11): nothing
\* recorded is still in the balance, up to the rounding of the column.
THEOREM PrepaidDecrementedHolds == SerialUse => (Spec => []PrepaidDecremented)
<1>1. SerialInv => PrepaidDecremented
  BY DEF SerialInv, BalanceSerial
<1> QED
  BY SerialHolds, <1>1, PTL

\* "Add prepaid credit to a user's balance" (llm_ctl.py:485): no credit given between two
\* requests is lost.
THEOREM CreditKeptHolds == SerialUse => (Spec => []CreditKept)
<1>1. SerialInv => CreditKept
  BY DEF SerialInv, BalanceSerial
<1> QED
  BY SerialHolds, <1>1, PTL

\* The unique row "dedupes notifications" (models.py:341): no request of such a client
\* fails because its alert had been stored before.
THEOREM AlertNeverFailsHolds == SerialUse => (Spec => []AlertNeverFailsRequest)
<1>1. SerialInv => AlertNeverFailsRequest
  BY DEF SerialInv, AlertsSerial
<1> QED
  BY SerialHolds, <1>1, PTL

\* "Request row written regardless of success/failure so billing is complete"
\* (cost_tracker.py:12): every inference that was started and has ended has its row.
THEOREM BillingCompleteHolds == SerialUse => (Spec => []BillingIsComplete)
<1>1. SerialInv => BillingIsComplete
  BY DEF SerialInv
<1> QED
  BY SerialHolds, <1>1, PTL
-----------------------------------------------------------------------------
(***************************************************************************)
(* The books: a request is one entry of the ledger, or none.                *)
(***************************************************************************)
Seen == {"alerts", "persist", "mark", "acquire", "infer", "record_ok", "record_error"}
Service == {"infer", "record_ok", "record_error"}

\* What LedgerInv says of one request.
RequestSeen(r) ==
  /\ pc[r] \in Seen => seen[r] = spent
  /\ pc[r] = "persist" => Reached(seen[r], Thresholds[at[r]])
  /\ pc[r] \in Service => r \in served

LEMMA LedgerInvByRequest == LedgerInv <=> \A r \in Requests : RequestSeen(r)
BY DEF LedgerInv, SpentSeen, AlertDue, RecordServed, RequestSeen, Seen, Service

\* A request that moves finds spending as it has seen it, or sees it now.
LEMMA MoverSeen ==
  ASSUME TypeOK, SerialUse, NEW r \in Requests, RequestSeen(r), RequestStep(r)
  PROVE  RequestSeen(r)'
<1>0. r \in Clients /\ r \notin Mortal /\ r \notin Streamed
      /\ pc \in [Clients -> Places] /\ seen \in [Requests -> Nat] /\ at \in [Requests -> Nat \ {0}]
  BY DEF TypeOK, SerialUse, Clients
<1>1. CASE Authenticate(r) \/ CheckRpm(r) \/ ReadTokens(r) \/ AddTokens(r) \/ RouteRefuses(r)
  <2>1. pc'[r] \notin Seen
    BY <1>0, <1>1 DEF Authenticate, CheckRpm, ReadTokens, AddTokens, RouteRefuses, Goto, Seen
  <2> QED
    BY <2>1 DEF RequestSeen, Seen, Service
<1>2. CASE CheckBudget(r)
  <2>1. spent' = spent /\ pc'[r] \in {"refused", "alerts"}
        /\ (pc'[r] = "alerts" => seen'[r] = spent)
    BY <1>0, <1>2 DEF CheckBudget, Goto, dbVars
  <2> QED
    BY <2>1 DEF RequestSeen, Seen, Service
<1>3. CASE Age(r) \/ SkipThreshold(r) \/ FindUnmarked(r)
  <2>1. UNCHANGED <<seen, spent, served>>
        /\ (pc'[r] = pc[r] \/ (pc[r] = "alerts" /\ pc'[r] = "persist"))
        /\ (pc'[r] = "persist" => at'[r] = at[r])
        /\ (pc[r] = "alerts" /\ pc'[r] = "persist" => Reached(seen[r], Thresholds[at[r]]))
    BY <1>0, <1>3 DEF Age, SkipThreshold, FindUnmarked, Goto, localVars, dbVars, historyVars
  <2> QED
    BY <2>1 DEF RequestSeen, Seen, Service, Reached
<1>4. CASE PersistAlert(r) \/ MarkAlert(r) \/ Admit(r) \/ Acquire(r) \/ Infer(r)
  <2>1. UNCHANGED <<seen, spent>> /\ served \subseteq served' /\ pc[r] \in Seen
        /\ pc'[r] # "persist"
        /\ (pc'[r] \in Service => pc[r] \in Service \/ r \in served')
    BY <1>0, <1>4 DEF PersistAlert, MarkAlert, Admit, Acquire, Infer, Goto, localVars, dbVars,
                      historyVars, Seen, Service
  <2> QED
    BY <2>1 DEF RequestSeen
<1>5. CASE Record(r) \/ RecordError(r) \/ RecordDuplicate(r)
  <2>1. pc'[r] \in {"done", "duplicate"}
    BY <1>0, <1>5 DEF Record, RecordError, RecordDuplicate, Goto
  <2> QED
    BY <2>1 DEF RequestSeen, Seen, Service
<1> QED
  BY <1>0, <1>1, <1>2, <1>3, <1>4, <1>5 DEF RequestStep, StreamCut, Crash

LEMMA LedgerStep ==
  ASSUME TypeOK, SerialUse, OneAtATime, LedgerInv, [Next]_vars
  PROVE  LedgerInv'
<1>0. Requests \subseteq Clients /\ CreditOps \subseteq Clients /\ Requests \cap CreditOps = {}
  BY AccountingAssumption DEF Clients
<1>1. ASSUME NEW r \in Requests, RequestStep(r), NEW s \in Requests
      PROVE  RequestSeen(s)'
  <2>1. CASE s = r
    BY <1>1, <2>1, LedgerInvByRequest, MoverSeen
  <2>2. CASE s # r /\ (Age(r) \/ SkipThreshold(r))
    <3>1. UNCHANGED <<pc, seen, spent, served>> /\ at'[s] = at[s]
      BY <2>2 DEF Age, SkipThreshold, localVars, dbVars, historyVars, TypeOK
    <3> QED
      BY <3>1, LedgerInvByRequest DEF RequestSeen, Reached
  <2>3. CASE s # r /\ ~Age(r) /\ ~SkipThreshold(r)
    <3>1. PICK place \in Places : Goto(r, place) /\ (UnderWay(r) \/ MayStart)
      BY <1>1, <2>3 DEF RequestStep, Authenticate, CheckRpm, ReadTokens, AddTokens,
         RouteRefuses, CheckBudget, FindUnmarked, PersistAlert, MarkAlert, Admit, Acquire,
         Infer, StreamCut, Record, RecordError, RecordDuplicate, Crash, UnderWay, Places, Ended
    <3>2. ~UnderWay(s)'
      BY <3>1, <2>3, <1>0, Alone
    <3> QED
      BY <3>2 DEF RequestSeen, UnderWay, Ended, Seen, Service
  <2> QED
    BY <2>1, <2>2, <2>3
<1>2. ASSUME NEW o \in CreditOps, ReadBalance(o) \/ WriteCredit(o), NEW s \in Requests
      PROVE  RequestSeen(s)'
  <2>1. PICK place \in Places : Goto(o, place) /\ (UnderWay(o) \/ MayStart)
    BY <1>2 DEF ReadBalance, WriteCredit, UnderWay, Places, Ended
  <2>2. ~UnderWay(s)'
    BY <2>1, <1>0, Alone
  <2> QED
    BY <2>2 DEF RequestSeen, UnderWay, Ended, Seen, Service
<1>3. ASSUME UNCHANGED vars, NEW s \in Requests
      PROVE  RequestSeen(s)'
  BY <1>3, LedgerInvByRequest DEF RequestSeen, Reached, vars, localVars, dbVars, historyVars
<1>4. \A s \in Requests : RequestSeen(s)'
  BY <1>1, <1>2, <1>3 DEF Next
<1> QED
  BY <1>4 DEF LedgerInv, SpentSeen, AlertDue, RecordServed, RequestSeen, Seen, Service

BookStep == Books!Next \/ UNCHANGED Books!vars

\* A step that writes no table and ends no credit is none of the books.
LEMMA BooksRest ==
  ASSUME UNCHANGED dbVars, \A o \in CreditOps : (pc'[o] = "done") <=> (pc[o] = "done")
  PROVE  BookStep
<1>1. Credited' = Credited
  BY DEF Credited
<1> QED
  BY <1>1 DEF BookStep, Books!vars, dbVars

\* The column of the balance holds what was computed, up to half a unit.
LEMMA StoredIsNear ==
  ASSUME NEW x \in Nat
  PROVE  Books!Near(Stored(x), x)
<1> DEFINE half == Grain \div 2
<1>1. half \in Nat /\ 2 * half <= Grain /\ Grain \in Nat
  BY AccountingAssumption
<1>2. Stored(x) \in Nat /\ Stored(x) + half >= x /\ Stored(x) <= x + half
  BY StoredNear
<1> DEFINE y == Stored(x)
<1> HIDE DEF half, y
<1>3. 2 * y <= 2 * x + Grain /\ 2 * x <= 2 * y + Grain
  BY <1>1, <1>2 DEF y
<1> QED
  BY <1>3 DEF Books!Near, y

\* A request that is served and has not been cut may be entered: the books are as it
\* has seen them.
LEMMA EntryAllowed ==
  ASSUME TypeOK, AccountingInv, SerialInv, LedgerInv, NEW r \in Requests,
         pc[r] \in {"record_ok", "record_error"}, ~KeyUsed(r)
  PROVE  /\ r \notin ledger
         /\ Key[r] = None \/ \A s \in ledger : Key[s] # Key[r]
         /\ \A i \in DOMAIN Thresholds : Books!Reached(spent, Thresholds[i]) => Thresholds[i] \in alertRows
<1>1. r \notin ledger
  BY DEF AccountingInv, RowsFinal
<1>2. Key[r] = None \/ \A s \in ledger : Key[s] # Key[r]
  BY DEF KeyUsed
<1>3. r \in served /\ seen[r] = spent
  BY DEF LedgerInv, SpentSeen, RecordServed
<1>4. \A i \in DOMAIN Thresholds : Reached(spent, Thresholds[i]) => Thresholds[i] \in alertRows
  BY <1>3 DEF AccountingInv, AlertInv
<1> QED
  BY <1>1, <1>2, <1>4 DEF Reached, Books!Reached

LEMMA RecordEnters ==
  ASSUME TypeOK, SerialUse, AccountingInv, SerialInv, LedgerInv, NEW r \in Requests, Record(r)
  PROVE  BookStep
<1>0. /\ r \in Clients /\ UnderWay(r) /\ Requests \cap CreditOps = {}
      /\ balance \in Nat /\ spent \in Nat /\ Budget \in Nat
  BY AccountingAssumption DEF Record, UnderWay, Ended, Clients, TypeOK
<1>1. loaded[r] = balance
  BY <1>0 DEF SerialInv, BalanceSerial
<1>2. PICK cost \in CostsOf(r) :
        /\ ledger' = ledger \cup {r} /\ spent' = spent + cost
        /\ Charge(r, IF Prepaid THEN Lesser(cost, loaded[r]) ELSE 0)
  BY DEF Record
<1>3. cost \in Nat /\ Books!Room(r)
  BY <1>2, AmountTypes DEF Record, SerialInv, BudgetSerial, Books!Room, ProjectionsOf
<1>4. cost \in Costs \cup {0}
  BY <1>2 DEF CostsOf
<1> DEFINE due == Books!Due(cost)
<1>5. /\ due \in Nat /\ due <= balance
      /\ due = (IF Prepaid THEN Lesser(cost, loaded[r]) ELSE 0)
  BY <1>0, <1>1, <1>3 DEF Books!Due, Lesser
<1>6. IF due = 0 THEN balance' = balance ELSE balance' = Stored(balance - due)
  BY <1>1, <1>2, <1>5 DEF Charge, SerialUse
<1>7. IF due = 0 THEN balance' = balance ELSE Books!Near(balance', balance - due)
  <2>1. balance - due \in Nat
    BY <1>0, <1>5
  <2> QED
    BY <1>6, <2>1, StoredIsNear
<1>8. UNCHANGED alertRows /\ Credited' = Credited
  BY <1>0 DEF Record, Goto, Credited, TypeOK, Clients
<1>9. Books!Enter(r, cost)
  BY <1>2, <1>3, <1>7, <1>8, EntryAllowed DEF Books!Enter, Record
<1> QED
  BY <1>4, <1>9 DEF BookStep, Books!Next

LEMMA RecordErrorEnters ==
  ASSUME TypeOK, AccountingInv, SerialInv, LedgerInv, NEW r \in Requests, RecordError(r)
  PROVE  BookStep
<1>0. /\ r \in Clients /\ Requests \cap CreditOps = {}
      /\ balance \in Nat /\ spent \in Nat /\ Budget \in Nat
  BY AccountingAssumption DEF Clients, TypeOK
<1>1. Books!Room(r) /\ spent' = spent + 0
  BY <1>0 DEF RecordError, SerialInv, BudgetSerial, Books!Room, ProjectionsOf
<1>2. Books!Due(0) = 0
  BY <1>0 DEF Books!Due
<1>3. UNCHANGED <<alertRows, balance>> /\ ledger' = ledger \cup {r} /\ Credited' = Credited
  BY <1>0 DEF RecordError, Goto, Credited, TypeOK, Clients
<1>4. Books!Enter(r, 0)
  BY <1>1, <1>2, <1>3, EntryAllowed DEF Books!Enter, RecordError
<1> QED
  BY <1>1, <1>4 DEF BookStep, Books!Next

LEMMA PersistAlerts ==
  ASSUME TypeOK, AccountingInv, LedgerInv, NEW r \in Requests, PersistAlert(r)
  PROVE  BookStep
<1>0. /\ r \in Clients /\ Requests \cap CreditOps = {} /\ at[r] \in Nat \ {0}
      /\ Len(Thresholds) \in Nat
  BY AccountingAssumption DEF Clients, TypeOK
<1>1. Credited' = Credited
  BY <1>0 DEF PersistAlert, Goto, Credited, TypeOK, Clients
<1>2. CASE UNCHANGED alertRows
  BY <1>1, <1>2 DEF PersistAlert, BookStep, Books!vars
<1>3. CASE Thresholds[at[r]] \notin alertRows /\ alertRows' = alertRows \cup {Thresholds[at[r]]}
  <2>1. at[r] \in DOMAIN Thresholds
    BY <1>0, AccountingAssumption DEF PersistAlert, AccountingInv, InLoop
  <2>2. Reached(spent, Thresholds[at[r]])
    BY DEF PersistAlert, LedgerInv, SpentSeen, AlertDue
  <2>3. Books!Alert(at[r])
    BY <1>1, <1>3, <2>2 DEF PersistAlert, Books!Alert, Reached, Books!Reached
  <2> QED
    BY <2>1, <2>3 DEF BookStep, Books!Next
<1> QED
  BY <1>2, <1>3 DEF PersistAlert

LEMMA WriteCredits ==
  ASSUME TypeOK, SerialInv, NEW o \in CreditOps, WriteCredit(o)
  PROVE  BookStep
<1>0. /\ o \in Clients /\ UnderWay(o) /\ balance \in Nat /\ CreditAmount \in Nat
  BY AccountingAssumption DEF WriteCredit, UnderWay, Ended, Clients, TypeOK
<1>1. loaded[o] = balance /\ balance + CreditAmount \in Nat
  BY <1>0 DEF SerialInv, BalanceSerial
<1>2. Books!Near(balance', balance + CreditAmount)
  BY <1>1, StoredIsNear DEF WriteCredit
<1>3. o \notin Credited /\ Credited' = Credited \cup {o}
  BY <1>0 DEF WriteCredit, Goto, Credited, TypeOK, Clients
<1>4. Books!Credit(o)
  BY <1>2, <1>3 DEF WriteCredit, Books!Credit
<1> QED
  BY <1>4 DEF BookStep, Books!Next

LEMMA NextBooks ==
  ASSUME TypeOK, SerialUse, AccountingInv, SerialInv, LedgerInv, [Next]_vars
  PROVE  BookStep
<1>0. Requests \cap CreditOps = {} /\ pc \in [Clients -> Places] /\ CreditOps \subseteq Clients
  BY AccountingAssumption DEF TypeOK, Clients
<1>1. ASSUME NEW r \in Requests, RequestStep(r)
      PROVE  BookStep
  <2>1. CASE PersistAlert(r) \/ Record(r) \/ RecordError(r)
    BY <2>1, PersistAlerts, RecordEnters, RecordErrorEnters
  <2>2. CASE ~PersistAlert(r) /\ ~Record(r) /\ ~RecordError(r)
    <3>1. UNCHANGED dbVars
      BY <1>1, <2>2 DEF RequestStep, Authenticate, CheckRpm, Age, ReadTokens, AddTokens,
         RouteRefuses, CheckBudget, SkipThreshold, FindUnmarked, MarkAlert, Admit, Acquire,
         Infer, StreamCut, RecordDuplicate, Crash
    <3>2. UNCHANGED pc \/ \E place \in Places : Goto(r, place)
      BY <1>1, <2>2 DEF RequestStep, Authenticate, CheckRpm, Age, ReadTokens, AddTokens,
         RouteRefuses, CheckBudget, SkipThreshold, FindUnmarked, MarkAlert, Admit, Acquire,
         Infer, StreamCut, RecordDuplicate, Crash, Places, Ended
    <3>3. \A o \in CreditOps : pc'[o] = pc[o]
      BY <1>0, <3>2 DEF Goto
    <3> QED
      BY <3>1, <3>3, BooksRest
  <2> QED
    BY <2>1, <2>2
<1>2. ASSUME NEW o \in CreditOps, ReadBalance(o)
      PROVE  BookStep
  BY <1>0, <1>2, BooksRest DEF ReadBalance, Goto
<1>3. CASE UNCHANGED vars
  BY <1>3, BooksRest DEF vars
<1> QED
  BY <1>1, <1>2, <1>3, WriteCredits DEF Next

\* For clients that wait for each answer, without streams and crashes, every behaviour is
\* one of Ledger: a request is one entry with its charge, made while the budget has room for
\* its projection and after the alerts that were due, and no credit or charge is lost
\* (quota.py, cost_tracker.py).
THEOREM LedgerHolds == SerialUse => (Spec => ImplementsLedger)
<1> SUFFICES ASSUME SerialUse
             PROVE  Spec => ImplementsLedger
  OBVIOUS
<1>1. Init => LedgerInv
  BY DEF Init, LedgerInv, SpentSeen, AlertDue, RecordServed, Clients
<1>2. TypeOK /\ SerialInv /\ LedgerInv /\ [Next]_vars => LedgerInv'
  BY LedgerStep DEF SerialInv
<1>3. Init => Books!Init
  BY DEF Init, Books!Init, Credited, Clients
<1>4. TypeOK /\ AccountingInv /\ SerialInv /\ LedgerInv /\ [Next]_vars => [Books!Next]_(Books!vars)
  BY NextBooks DEF BookStep
<1>5. Spec => []SerialInv
  BY SerialHolds
<1> QED
  BY AccountingTypes, AccountingInvHolds, <1>1, <1>2, <1>3, <1>4, <1>5, PTL
  DEF Spec, ImplementsLedger, Books!Spec
=============================================================================
