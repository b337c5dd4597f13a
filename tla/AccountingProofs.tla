--------------------------- MODULE AccountingProofs ---------------------------
(***************************************************************************)
(* Proofs about Accounting, for every set of requests and credits, every    *)
(* limit, quota, budget and list of thresholds.                             *)
(***************************************************************************)
EXTENDS Accounting, FiniteSetTheorems, TLAPS

(***************************************************************************)
(* The column rounds by no more than half of its unit.                      *)
(***************************************************************************)
LEMMA StoredNear ==
  ASSUME NEW x \in Nat
  PROVE  /\ Stored(x) \in Nat
         /\ Stored(x) + (Grain \div 2) >= x
         /\ Stored(x) <= x + (Grain \div 2)
<1>1. Grain \in Nat /\ Grain > 0
  BY AccountingAssumption
<1>2. x % Grain \in 0 .. (Grain - 1)
  BY <1>1
<1>3. x % Grain <= x
  BY <1>1, SMTT(20)
<1> DEFINE m == x % Grain
<1>4. m \in Nat /\ m < Grain /\ m <= x
  BY <1>1, <1>2, <1>3
<1>5. Stored(x) = IF 2 * m >= Grain THEN x - m + Grain ELSE x - m
  BY DEF Stored
<1> HIDE DEF m
<1> QED
  BY <1>1, <1>4, <1>5

-----------------------------------------------------------------------------
(***************************************************************************)
(* Types.  A threshold that is written is one of the list, hence InLoop.    *)
(***************************************************************************)
LEMMA AmountTypes ==
  /\ \A r \in Requests : ProjectionsOf(r) \subseteq Nat /\ CostsOf(r) \subseteq Nat
  /\ Grain \div 2 \in Nat
  /\ \A i \in 1 .. Len(Thresholds) : Thresholds[i] \in Nat
  /\ Len(Thresholds) \in Nat
  BY AccountingAssumption DEF ProjectionsOf, CostsOf

LEMMA TypeInit ==
  Init => TypeOK /\ InLoop
  BY AccountingAssumption DEF Init, TypeOK, InLoop, Places, Clients

LEMMA TypeStep ==
  TypeOK /\ InLoop /\ [Next]_vars => TypeOK' /\ InLoop'
<1> SUFFICES ASSUME TypeOK, InLoop, [Next]_vars
             PROVE  TypeOK' /\ InLoop'
  OBVIOUS
<1>0. Clients = Requests \cup CreditOps /\ Requests \cap CreditOps = {}
  BY AccountingAssumption DEF Clients
<1>1. ASSUME NEW r \in Requests, Authenticate(r)
      PROVE  TypeOK' /\ InLoop'
  BY <1>1, <1>0 DEF Authenticate, TypeOK, InLoop, Goto, Places, redisVars, dbVars, historyVars
<1>2. ASSUME NEW r \in Requests, CheckRpm(r)
      PROVE  TypeOK' /\ InLoop'
  BY <1>2, <1>0 DEF CheckRpm, TypeOK, InLoop, Goto, Places, Ended, localVars, dbVars
<1>3. ASSUME NEW r \in Requests, Age(r)
      PROVE  TypeOK' /\ InLoop'
  BY <1>3, <1>0 DEF Age, TypeOK, InLoop, localVars, dbVars
<1>4. ASSUME NEW r \in Requests,
             ReadTokens(r) \/ RouteRefuses(r) \/ Admit(r) \/ Infer(r) \/ StreamCut(r)
               \/ RecordDuplicate(r) \/ Crash(r)
      PROVE  TypeOK' /\ InLoop'
  <2>1. /\ UNCHANGED <<localVars, redisVars, dbVars, historyVars>>
        /\ \E place \in Places \ {"persist", "mark"} : Goto(r, place)
    BY <1>4 DEF ReadTokens, RouteRefuses, Admit, Infer, StreamCut, RecordDuplicate, Crash,
                Places, Ended
  <2> QED
    BY <2>1, <1>0 DEF TypeOK, InLoop, Goto, localVars, redisVars, dbVars, historyVars
<1>5. ASSUME NEW r \in Requests, AddTokens(r)
      PROVE  TypeOK' /\ InLoop'
  <2>1. Prompt[r] \in Nat
    BY AccountingAssumption
  <2> QED
    BY <1>5, <1>0, <2>1 DEF AddTokens, TypeOK, InLoop, Goto, Places, localVars, dbVars, historyVars
<1>6. ASSUME NEW r \in Requests, CheckBudget(r)
      PROVE  TypeOK' /\ InLoop'
  <2>1. CASE Goto(r, "refused") /\ UNCHANGED localVars
    BY <1>6, <2>1, <1>0 DEF CheckBudget, TypeOK, InLoop, Goto, Places, Ended, localVars,
                            redisVars, dbVars, historyVars
  <2>2. CASE /\ seen' = [seen EXCEPT ![r] = spent] /\ at' = [at EXCEPT ![r] = 1]
             /\ Goto(r, "alerts") /\ UNCHANGED loaded
    BY <1>6, <2>2, <1>0 DEF CheckBudget, TypeOK, InLoop, Goto, Places, redisVars, dbVars, historyVars
  <2> QED
    BY <1>6, <2>1, <2>2 DEF CheckBudget
<1>7. ASSUME NEW r \in Requests, SkipThreshold(r)
      PROVE  TypeOK' /\ InLoop'
  BY <1>7, <1>0 DEF SkipThreshold, TypeOK, InLoop, redisVars, dbVars, historyVars
<1>8. ASSUME NEW r \in Requests, FindUnmarked(r)
      PROVE  TypeOK' /\ InLoop'
  BY <1>8, <1>0 DEF FindUnmarked, TypeOK, InLoop, Goto, Places, localVars, redisVars, dbVars, historyVars
<1>9. ASSUME NEW r \in Requests, PersistAlert(r) \/ MarkAlert(r)
      PROVE  TypeOK' /\ InLoop'
  <2>1. Thresholds[at[r]] \in Nat
    <3>1. at[r] \in 1 .. Len(Thresholds)
      BY <1>9, AmountTypes DEF PersistAlert, MarkAlert, TypeOK, InLoop
    <3> QED
      BY <3>1, AmountTypes
  <2>2. CASE PersistAlert(r)
    BY <2>1, <2>2, <1>0 DEF PersistAlert, TypeOK, InLoop, Goto, Places, Ended, localVars,
                            redisVars, historyVars
  <2>3. CASE MarkAlert(r)
    <3>1. at' \in [Requests -> Nat \ {0}]
      BY <2>3 DEF MarkAlert, TypeOK
    <3>2. pc' \in [Clients -> Places]
      BY <2>3, <1>0 DEF MarkAlert, TypeOK, Goto, Places
    <3>3. alertKeys' \subseteq Nat
      BY <2>1, <2>3 DEF MarkAlert, TypeOK
    <3>4. InLoop'
      BY <2>3, <1>0 DEF MarkAlert, TypeOK, InLoop, Goto
    <3>5. UNCHANGED <<loaded, seen, window, stale, tokens, dbVars, historyVars>>
      BY <2>3 DEF MarkAlert
    <3> QED
      BY <3>1, <3>2, <3>3, <3>4, <3>5 DEF TypeOK, dbVars, historyVars
  <2> QED
    BY <1>9, <2>2, <2>3
<1>10. ASSUME NEW r \in Requests, Acquire(r)
       PROVE  TypeOK' /\ InLoop'
  BY <1>10, <1>0 DEF Acquire, TypeOK, InLoop, Goto, Places, Ended, localVars, redisVars, dbVars
<1>11. ASSUME NEW r \in Requests, Record(r)
       PROVE  TypeOK' /\ InLoop'
  <2>1. PICK cost \in CostsOf(r), due \in Nat :
          /\ due <= loaded[r]
          /\ ledger' = ledger \cup {r}
          /\ spent' = spent + cost
          /\ Charge(r, due)
          /\ charged' = charged + due
          /\ rounding' = rounding + (Grain \div 2)
    BY <1>11, <1>0, AmountTypes DEF Record, Lesser, TypeOK
  <2>2. balance' \in Nat
    <3>1. loaded[r] - due \in Nat
      BY <2>1, <1>0 DEF TypeOK
    <3> QED
      BY <2>1, <3>1, StoredNear DEF Charge, TypeOK
  <2>3. cost \in Nat
    BY AmountTypes
  <2>4. spent' \in Nat /\ charged' \in Nat /\ rounding' \in Nat /\ ledger' \subseteq Requests
    BY <2>1, <2>3, AmountTypes DEF TypeOK
  <2>5. pc' \in [Clients -> Places] /\ InLoop'
    BY <1>11, <1>0 DEF Record, TypeOK, InLoop, Goto, Places, Ended, localVars
  <2> QED
    BY <1>11, <2>2, <2>4, <2>5 DEF Record, TypeOK, localVars, redisVars
<1>12. ASSUME NEW r \in Requests, RecordError(r)
       PROVE  TypeOK' /\ InLoop'
  BY <1>12, <1>0 DEF RecordError, TypeOK, InLoop, Goto, Places, Ended, localVars, redisVars, historyVars
<1>13. ASSUME NEW o \in CreditOps, ReadBalance(o)
       PROVE  TypeOK' /\ InLoop'
  BY <1>13, <1>0 DEF ReadBalance, TypeOK, InLoop, Goto, Places, redisVars, dbVars, historyVars
<1>14. ASSUME NEW o \in CreditOps, WriteCredit(o)
       PROVE  TypeOK' /\ InLoop'
  <2>1. loaded[o] + CreditAmount \in Nat /\ CreditAmount \in Nat
    BY <1>0, AccountingAssumption DEF TypeOK
  <2>2. balance' \in Nat /\ credited' \in Nat /\ rounding' \in Nat
    <3>1. Stored(loaded[o] + CreditAmount) \in Nat
      BY <2>1, StoredNear
    <3> QED
      BY <1>14, <2>1, <3>1, AmountTypes DEF WriteCredit, TypeOK
  <2>3. pc' \in [Clients -> Places]
    BY <1>14, <1>0 DEF WriteCredit, TypeOK, Goto, Places, Ended
  <2>4. InLoop'
    BY <1>14, <1>0 DEF WriteCredit, TypeOK, InLoop, Goto, localVars
  <2> QED
    BY <1>14, <2>2, <2>3, <2>4 DEF WriteCredit, TypeOK, localVars, redisVars
<1>15. CASE UNCHANGED vars
  BY <1>15 DEF TypeOK, InLoop, vars, localVars, redisVars, dbVars, historyVars
<1> QED
  BY <1>1, <1>2, <1>3, <1>4, <1>5, <1>6, <1>7, <1>8, <1>9, <1>10, <1>11, <1>12, <1>13, <1>14, <1>15
  DEF Next, RequestStep

\* Every variable keeps its type (counters and balance never fall below 0), for every
\* number of requests, every limit and every rounding of the balance column.
THEOREM AccountingTypes == Spec => []TypeOK
<1>1. TypeOK /\ InLoop /\ [Next]_vars => (TypeOK /\ InLoop)'
  BY TypeStep
<1> QED
  BY TypeInit, <1>1, PTL DEF Spec

-----------------------------------------------------------------------------
(***************************************************************************)
(* The rate window                                                          *)
(***************************************************************************)
LEMMA RateStep ==
  TypeOK /\ RateInv /\ [Next]_vars => RateInv'
<1> SUFFICES ASSUME TypeOK, RateInv, [Next]_vars
             PROVE  RateInv'
  OBVIOUS
<1>1. ASSUME NEW r \in Requests, CheckRpm(r)
      PROVE  RateInv'
  <2>1. window' \subseteq Requests /\ IsFiniteSet(window')
    BY <1>1, AccountingAssumption, FS_Subset DEF CheckRpm, TypeOK
  <2>2. CASE Cardinality(window') > Limit /\ UNCHANGED recent
    BY <1>1, <2>2 DEF CheckRpm, RateInv, RateHeld
  <2>3. CASE Cardinality(window') <= Limit /\ recent' = recent \cup {r}
    <3>1. recent' \subseteq window' /\ stale' = {}
      BY <1>1, <2>3 DEF CheckRpm, RateInv
    <3>2. Cardinality(recent') <= Cardinality(window')
      BY <2>1, <3>1, FS_Subset
    <3>3. Cardinality(recent') \in Nat /\ Cardinality(window') \in Nat
      BY <2>1, <3>1, FS_Subset, FS_CardinalityType
    <3> QED
      BY <2>3, <3>1, <3>2, <3>3, AccountingAssumption DEF RateInv, RateHeld
  <2> QED
    BY <1>1, <2>2, <2>3 DEF CheckRpm
<1>2. ASSUME NEW r \in Requests, Age(r)
      PROVE  RateInv'
  <2>1. recent' \subseteq recent /\ recent' \subseteq window' \ stale'
    BY <1>2 DEF Age, RateInv
  <2>2. IsFiniteSet(recent)
    BY AccountingAssumption, FS_Subset DEF TypeOK
  <2>3. Cardinality(recent') <= Cardinality(recent)
    BY <2>1, <2>2, FS_Subset
  <2>4. Cardinality(recent') \in Nat /\ Cardinality(recent) \in Nat
    BY <2>1, <2>2, FS_Subset, FS_CardinalityType
  <2> QED
    BY <2>1, <2>3, <2>4, AccountingAssumption DEF RateInv, RateHeld
<1>3. CASE UNCHANGED <<window, stale, recent>>
  BY <1>3 DEF RateInv, RateHeld
<1>4. ASSUME NEW r \in Requests, RequestStep(r), ~CheckRpm(r), ~Age(r)
      PROVE  UNCHANGED <<window, stale, recent>>
  BY <1>4 DEF RequestStep, Authenticate, ReadTokens, AddTokens, RouteRefuses, CheckBudget,
              SkipThreshold, FindUnmarked, PersistAlert, MarkAlert, Admit, Acquire, Infer,
              StreamCut, Record, RecordError, RecordDuplicate, Crash, redisVars, historyVars
<1>5. ASSUME NEW o \in CreditOps, ReadBalance(o) \/ WriteCredit(o)
      PROVE  UNCHANGED <<window, stale, recent>>
  BY <1>5 DEF ReadBalance, WriteCredit, redisVars, historyVars
<1>6. UNCHANGED vars => UNCHANGED <<window, stale, recent>>
  BY DEF vars, redisVars, historyVars
<1> QED
  BY <1>1, <1>2, <1>3, <1>4, <1>5, <1>6 DEF Next

-----------------------------------------------------------------------------
(***************************************************************************)
(* The balance                                                              *)
(***************************************************************************)
LEMMA BalanceStep ==
  TypeOK /\ BalanceInv /\ [Next]_vars => BalanceInv'
<1> SUFFICES ASSUME TypeOK, BalanceInv, [Next]_vars
             PROVE  BalanceInv'
  OBVIOUS
<1> USE AccountingAssumption, AmountTypes
<1>0. Requests \subseteq Clients /\ CreditOps \subseteq Clients
  BY DEF Clients
<1>1. ASSUME NEW c \in Clients, loaded' = [loaded EXCEPT ![c] = balance],
             UNCHANGED <<balance, charged, rounding>>,
             \E place \in Places : Goto(c, place)
      PROVE  BalanceInv'
  BY <1>1 DEF BalanceInv, NeverOvercharged, Goto, TypeOK
<1>2. ASSUME NEW c \in Clients, UNCHANGED <<loaded, balance, charged, rounding>>,
             UNCHANGED pc \/ (pc[c] # "arriving" /\ \E place \in Places : Goto(c, place))
      PROVE  BalanceInv'
  BY <1>2 DEF BalanceInv, NeverOvercharged, Goto, TypeOK
<1>3. ASSUME NEW r \in Requests, Record(r)
      PROVE  BalanceInv'
  <2>1. PICK cost \in CostsOf(r), due \in Nat :
          /\ due <= loaded[r]
          /\ Charge(r, due)
          /\ charged' = charged + due
          /\ rounding' = rounding + (Grain \div 2)
    BY <1>3, <1>0 DEF Record, Lesser, TypeOK
  <2>2. loaded[r] + charged + rounding >= Deposit
    BY <1>3, <1>0 DEF Record, BalanceInv
  <2>3. NeverOvercharged'
    <3>1. CASE balance' = balance
      BY <2>1, <3>1 DEF BalanceInv, NeverOvercharged, TypeOK
    <3>2. CASE balance' = Stored(loaded[r] - due)
      <4>1. loaded[r] \in Nat /\ loaded[r] - due \in Nat
        BY <2>1, <1>0 DEF TypeOK
      <4>2. /\ Stored(loaded[r] - due) \in Nat
            /\ Stored(loaded[r] - due) + (Grain \div 2) >= loaded[r] - due
        BY <4>1, StoredNear
      <4>3. charged \in Nat /\ rounding \in Nat /\ due \in Nat /\ Deposit \in Nat
        BY DEF TypeOK
      <4> DEFINE amount == Stored(loaded[r] - due)
                 half == Grain \div 2
      <4>4. half \in Nat /\ amount \in Nat /\ amount + half >= loaded[r] - due
        BY <4>2
      <4> HIDE DEF amount, half
      <4>5. amount + (charged + due) + (rounding + half) >= Deposit
        BY <2>2, <4>1, <4>3, <4>4
      <4> QED
        BY <2>1, <3>2, <4>5 DEF NeverOvercharged, amount, half
    <3> QED
      BY <2>1, <3>1, <3>2 DEF Charge
  <2>4. ASSUME NEW c \in Clients, pc'[c] # "arriving"
        PROVE  loaded'[c] + charged' + rounding' >= Deposit
    <3>1. pc[c] # "arriving" /\ loaded' = loaded
      BY <1>3, <2>4, <1>0 DEF Record, Goto, TypeOK, localVars
    <3> QED
      BY <2>1, <3>1 DEF BalanceInv, TypeOK
  <2> QED
    BY <2>3, <2>4 DEF BalanceInv
<1>4. ASSUME NEW o \in CreditOps, WriteCredit(o)
      PROVE  BalanceInv'
  <2>1. loaded[o] + charged + rounding >= Deposit
    BY <1>4, <1>0 DEF WriteCredit, BalanceInv
  <2>2. loaded[o] \in Nat
    BY <1>0 DEF TypeOK
  <2>3. /\ Stored(loaded[o] + CreditAmount) \in Nat
        /\ Stored(loaded[o] + CreditAmount) + (Grain \div 2) >= loaded[o] + CreditAmount
    <3>1. loaded[o] + CreditAmount \in Nat
      BY <2>2
    <3> QED
      BY <3>1, StoredNear
  <2>4. NeverOvercharged'
    <3>1. charged \in Nat /\ rounding \in Nat /\ CreditAmount \in Nat /\ Deposit \in Nat
      BY DEF TypeOK
    <3> DEFINE amount == Stored(loaded[o] + CreditAmount)
               half == Grain \div 2
    <3>2. half \in Nat /\ amount \in Nat /\ amount + half >= loaded[o] + CreditAmount
      BY <2>3
    <3> HIDE DEF amount, half
    <3>3. amount + charged + (rounding + half) >= Deposit
      BY <2>1, <2>2, <3>1, <3>2
    <3> QED
      BY <1>4, <3>3 DEF WriteCredit, NeverOvercharged, amount, half
  <2>5. ASSUME NEW c \in Clients, pc'[c] # "arriving"
        PROVE  loaded'[c] + charged' + rounding' >= Deposit
    <3>1. pc[c] # "arriving" /\ loaded' = loaded
      BY <1>4, <2>5, <1>0 DEF WriteCredit, Goto, TypeOK, localVars
    <3> QED
      BY <1>4, <3>1 DEF WriteCredit, BalanceInv, TypeOK
  <2> QED
    BY <2>4, <2>5 DEF BalanceInv
<1>5. ASSUME NEW r \in Requests, RequestStep(r), ~Record(r), ~Authenticate(r)
      PROVE  /\ UNCHANGED <<loaded, balance, charged, rounding>>
             /\ UNCHANGED pc \/ (pc[r] # "arriving" /\ \E place \in Places : Goto(r, place))
  <2>1. UNCHANGED <<loaded, balance, charged, rounding>>
    BY <1>5 DEF RequestStep, CheckRpm, Age, ReadTokens, AddTokens, RouteRefuses, CheckBudget,
                SkipThreshold, FindUnmarked, PersistAlert, MarkAlert, Admit, Acquire, Infer,
                StreamCut, RecordError, RecordDuplicate, Crash, localVars, dbVars, historyVars
  <2>2. UNCHANGED pc \/ (pc[r] # "arriving" /\ \E place \in Places : Goto(r, place))
    BY <1>5 DEF RequestStep, CheckRpm, Age, ReadTokens, AddTokens, RouteRefuses, CheckBudget,
                SkipThreshold, FindUnmarked, PersistAlert, MarkAlert, Admit, Acquire, Infer,
                StreamCut, RecordError, RecordDuplicate, Crash, UnderWay, Places, Ended
  <2> QED
    BY <2>1, <2>2
<1>6. ASSUME NEW c \in Clients, Authenticate(c) \/ ReadBalance(c)
      PROVE  BalanceInv'
  <2>1. /\ loaded' = [loaded EXCEPT ![c] = balance]
        /\ UNCHANGED <<balance, charged, rounding>>
        /\ \E place \in Places : Goto(c, place)
    BY <1>6 DEF Authenticate, ReadBalance, dbVars, historyVars, Places
  <2> QED
    BY <1>1, <2>1
<1>7. CASE UNCHANGED vars
  BY <1>7 DEF vars, BalanceInv, NeverOvercharged, localVars, dbVars, historyVars
<1> QED
  <2>1. ASSUME NEW r \in Requests, RequestStep(r)
        PROVE  BalanceInv'
    BY <2>1, <1>0, <1>2, <1>3, <1>5, <1>6
  <2>2. ASSUME NEW o \in CreditOps, ReadBalance(o) \/ WriteCredit(o)
        PROVE  BalanceInv'
    BY <2>2, <1>0, <1>4, <1>6
  <2> QED
    BY <1>7, <2>1, <2>2 DEF Next

-----------------------------------------------------------------------------
(***************************************************************************)
(* The alerts                                                               *)
(***************************************************************************)
AlertVars == <<at, seen, alertKeys, alertRows, served>>

\* A request that does not enter the loop over the thresholds, or pass it, owes nothing.
LEMMA AlertMove ==
  ASSUME TypeOK, AlertInv, UNCHANGED AlertVars,
         NEW c \in Clients, NEW place \in Places, Goto(c, place),
         place \notin {"mark", "acquire", "alerts"},
         place = "persist" => pc[c] = "alerts",
         c \in served => place \in {"infer", "record_ok", "record_error"} \cup Ended
  PROVE  AlertInv'
<1>1. \A r \in Requests : pc'[r] = IF r = c THEN place ELSE pc[r]
  BY DEF Goto, TypeOK, Clients
<1> QED
  BY <1>1 DEF AlertInv, AlertVars

LEMMA AlertStep ==
  TypeOK /\ InLoop /\ AlertInv /\ [Next]_vars => AlertInv'
<1> SUFFICES ASSUME TypeOK, InLoop, AlertInv, [Next]_vars
             PROVE  AlertInv'
  OBVIOUS
<1>0. Requests \subseteq Clients /\ CreditOps \subseteq Clients /\ Requests \cap CreditOps = {}
  BY AccountingAssumption DEF Clients
<1>1. ASSUME NEW r \in Requests,
             Authenticate(r) \/ CheckRpm(r) \/ ReadTokens(r) \/ AddTokens(r) \/ RouteRefuses(r)
               \/ FindUnmarked(r)
      PROVE  AlertInv'
  <2>1. UNCHANGED AlertVars
    BY <1>1 DEF Authenticate, CheckRpm, ReadTokens, AddTokens, RouteRefuses, FindUnmarked,
                AlertVars, localVars, redisVars, dbVars, historyVars
  <2>2. PICK place \in {"rpm", "refused", "done", "tokens", "count", "budget", "persist"} :
          Goto(r, place) /\ (place = "persist" => pc[r] = "alerts")
    BY <1>1 DEF Authenticate, CheckRpm, ReadTokens, AddTokens, RouteRefuses, FindUnmarked
  <2>3. r \notin served
    BY <1>1 DEF AlertInv, Authenticate, CheckRpm, ReadTokens, AddTokens, RouteRefuses,
                FindUnmarked, Ended
  <2> QED
    BY <2>1, <2>2, <2>3, <1>0, AlertMove DEF Places, Ended
<1>2. ASSUME NEW r \in Requests,
             Infer(r) \/ StreamCut(r) \/ Record(r) \/ RecordError(r) \/ RecordDuplicate(r)
               \/ Crash(r)
      PROVE  AlertInv'
  <2>1. UNCHANGED AlertVars
    BY <1>2 DEF Infer, StreamCut, Record, RecordError, RecordDuplicate, Crash,
                AlertVars, localVars, redisVars, dbVars, historyVars
  <2>2. PICK place \in {"record_ok", "record_error"} \cup Ended : Goto(r, place)
    BY <1>2 DEF Infer, StreamCut, Record, RecordError, RecordDuplicate, Crash, Ended
  <2> QED
    BY <2>1, <2>2, <1>0, AlertMove DEF Places, Ended
<1>3. ASSUME NEW o \in CreditOps, ReadBalance(o) \/ WriteCredit(o)
      PROVE  AlertInv'
  <2>1. UNCHANGED AlertVars
    BY <1>3 DEF ReadBalance, WriteCredit, AlertVars, localVars, redisVars, dbVars, historyVars
  <2>2. PICK place \in {"credit", "done"} : Goto(o, place)
    BY <1>3 DEF ReadBalance, WriteCredit
  <2>3. o \notin served
    BY <1>0 DEF TypeOK
  <2> QED
    BY <2>1, <2>2, <2>3, <1>0, AlertMove DEF Places, Ended
<1>4. ASSUME NEW r \in Requests, CheckBudget(r)
      PROVE  AlertInv'
  <2>1. CASE Goto(r, "refused") /\ UNCHANGED localVars
    <3>1. UNCHANGED AlertVars /\ r \notin served
      BY <1>4, <2>1 DEF CheckBudget, AlertInv, AlertVars, Ended, localVars, redisVars, dbVars, historyVars
    <3> QED
      BY <2>1, <3>1, <1>0, AlertMove DEF Places, Ended
  <2>2. CASE /\ seen' = [seen EXCEPT ![r] = spent] /\ at' = [at EXCEPT ![r] = 1]
             /\ Goto(r, "alerts") /\ UNCHANGED loaded
    <3>1. UNCHANGED <<alertKeys, alertRows, served>> /\ r \notin served
      BY <1>4 DEF CheckBudget, AlertInv, Ended, redisVars, dbVars, historyVars
    <3>2. /\ \A s \in Requests : s # r => pc'[s] = pc[s] /\ at'[s] = at[s] /\ seen'[s] = seen[s]
          /\ pc'[r] = "alerts" /\ at'[r] = 1
      BY <2>2, <1>0 DEF Goto, TypeOK
    <3>3. DOMAIN Thresholds = 1 .. Len(Thresholds)
      BY AccountingAssumption
    <3>4. \A i \in DOMAIN Thresholds : ~(i < 1)
      BY <3>3, AmountTypes
    <3> QED
      BY <3>1, <3>2, <3>4 DEF AlertInv
  <2> QED
    BY <1>4, <2>1, <2>2 DEF CheckBudget
<1>5. ASSUME NEW r \in Requests, at' = [at EXCEPT ![r] = @ + 1],
             pc[r] \in {"alerts", "mark"}, Goto(r, "alerts"),
             UNCHANGED <<seen, alertRows, served>>,
             alertKeys' \subseteq alertRows,
             Reached(seen[r], Thresholds[at[r]]) => Thresholds[at[r]] \in alertRows
      PROVE  AlertInv'
  <2>1. r \notin served
    BY <1>5 DEF AlertInv, Ended
  <2>2. /\ \A s \in Requests : s # r => pc'[s] = pc[s] /\ at'[s] = at[s] /\ seen'[s] = seen[s]
        /\ pc'[r] = "alerts" /\ at'[r] = at[r] + 1 /\ seen'[r] = seen[r]
    BY <1>5, <1>0 DEF Goto, TypeOK
  <2>3. \A i \in DOMAIN Thresholds : i < at[r] + 1 => i < at[r] \/ i = at[r]
    BY AccountingAssumption DEF TypeOK
  <2>4. ASSUME NEW i \in DOMAIN Thresholds, Reached(seen[r], Thresholds[i]), i < at[r] + 1
        PROVE  Thresholds[i] \in alertRows
    BY <1>5, <2>3, <2>4 DEF AlertInv
  <2> QED
    BY <1>5, <2>1, <2>2, <2>4 DEF AlertInv
<1>6. ASSUME NEW r \in Requests, SkipThreshold(r)
      PROVE  AlertInv'
  <2>1. UNCHANGED pc => Goto(r, "alerts")
    BY <1>6 DEF SkipThreshold, Goto, TypeOK
  <2>2. Reached(seen[r], Thresholds[at[r]]) => Thresholds[at[r]] \in alertRows
    BY <1>6 DEF SkipThreshold, AlertInv
  <2> QED
    BY <1>6, <1>5, <2>1, <2>2
    DEF SkipThreshold, AlertInv, redisVars, dbVars, historyVars
<1>7. ASSUME NEW r \in Requests, MarkAlert(r)
      PROVE  AlertInv'
  <2>1. Thresholds[at[r]] \in alertRows
    BY <1>7 DEF MarkAlert, AlertInv
  <2> QED
    BY <1>7, <1>5, <2>1 DEF MarkAlert, AlertInv, dbVars, historyVars
<1>8. ASSUME NEW r \in Requests, PersistAlert(r)
      PROVE  AlertInv'
  <2>1. r \notin served
    BY <1>8 DEF PersistAlert, AlertInv, Ended
  <2>2. CASE Thresholds[at[r]] \in alertRows /\ Goto(r, "alert_error") /\ UNCHANGED alertRows
    <3>1. UNCHANGED AlertVars
      BY <1>8, <2>2 DEF PersistAlert, AlertVars, localVars, redisVars, historyVars
    <3> QED
      BY <2>1, <2>2, <3>1, <1>0, AlertMove DEF Places, Ended
  <2>3. CASE alertRows' = alertRows \cup {Thresholds[at[r]]} /\ Goto(r, "mark")
    <3>1. UNCHANGED <<at, seen, alertKeys, served>>
      BY <1>8 DEF PersistAlert, localVars, redisVars, historyVars
    <3>2. /\ \A s \in Requests : s # r => pc'[s] = pc[s]
          /\ pc'[r] = "mark" /\ pc[r] = "persist"
      BY <1>8, <2>3, <1>0 DEF PersistAlert, Goto, TypeOK
    <3> QED
      BY <2>1, <2>3, <3>1, <3>2 DEF AlertInv
  <2> QED
    BY <1>8, <2>2, <2>3 DEF PersistAlert
<1>9. ASSUME NEW r \in Requests, Admit(r)
      PROVE  AlertInv'
  <2>1. UNCHANGED AlertVars /\ r \notin served
    BY <1>9 DEF Admit, AlertInv, AlertVars, Ended, localVars, redisVars, dbVars, historyVars
  <2>2. /\ \A s \in Requests : s # r => pc'[s] = pc[s]
        /\ pc'[r] = "acquire" /\ pc[r] = "alerts"
    BY <1>9, <1>0 DEF Admit, Goto, TypeOK
  <2>3. \A i \in DOMAIN Thresholds : i < at[r]
    BY <1>9, AccountingAssumption DEF Admit, TypeOK
  <2> QED
    BY <2>1, <2>2, <2>3 DEF AlertInv, AlertVars
<1>10. ASSUME NEW r \in Requests, Acquire(r)
       PROVE  AlertInv'
  <2>1. UNCHANGED <<at, seen, alertKeys, alertRows>> /\ r \notin served /\ pc[r] = "acquire"
    BY <1>10 DEF Acquire, AlertInv, Ended, localVars, redisVars, dbVars
  <2>2. \A s \in Requests : s # r => pc'[s] = pc[s]
    BY <1>10, <1>0 DEF Acquire, Goto, TypeOK
  <2>3. \/ pc'[r] = "refused" /\ served' = served
        \/ pc'[r] = "infer" /\ served' = served \cup {r}
    BY <1>10, <1>0 DEF Acquire, Goto, TypeOK
  <2> QED
    BY <2>1, <2>2, <2>3 DEF AlertInv, Ended
<1>11. CASE UNCHANGED <<pc, AlertVars>>
  BY <1>11 DEF AlertInv, AlertVars
<1>12. ASSUME NEW r \in Requests, Age(r)
       PROVE  UNCHANGED <<pc, AlertVars>>
  BY <1>12 DEF Age, AlertVars, localVars, dbVars
<1>13. UNCHANGED vars => UNCHANGED <<pc, AlertVars>>
  BY DEF vars, AlertVars, localVars, redisVars, dbVars, historyVars
<1> QED
  BY <1>1, <1>2, <1>3, <1>4, <1>6, <1>7, <1>8, <1>9, <1>10, <1>11, <1>12, <1>13
  DEF Next, RequestStep
-----------------------------------------------------------------------------
(***************************************************************************)
(* The ledger                                                               *)
(***************************************************************************)
LEMMA RowsStep ==
  TypeOK /\ RowsFinal /\ [Next]_vars => RowsFinal'
<1> SUFFICES ASSUME TypeOK, RowsFinal, [Next]_vars
             PROVE  RowsFinal'
  OBVIOUS
<1>0. Requests \subseteq Clients /\ CreditOps \subseteq Clients /\ Requests \cap CreditOps = {}
  BY AccountingAssumption DEF Clients
<1>1. ASSUME NEW r \in Requests, Record(r) \/ RecordError(r)
      PROVE  RowsFinal'
  <2>1. ledger' = ledger \cup {r} /\ Goto(r, "done")
    BY <1>1 DEF Record, RecordError
  <2> QED
    BY <2>1, <1>0 DEF RowsFinal, Goto, TypeOK
<1>2. ASSUME NEW c \in Clients, UNCHANGED ledger,
             UNCHANGED pc \/ (pc[c] # "done" /\ \E place \in Places : Goto(c, place))
      PROVE  RowsFinal'
  BY <1>2, <1>0 DEF RowsFinal, Goto, TypeOK
<1>3. ASSUME NEW r \in Requests, RequestStep(r), ~Record(r), ~RecordError(r)
      PROVE  /\ UNCHANGED ledger
             /\ UNCHANGED pc \/ (pc[r] # "done" /\ \E place \in Places : Goto(r, place))
  <2>1. CASE Authenticate(r) \/ CheckRpm(r) \/ Age(r)
    BY <2>1 DEF Authenticate, CheckRpm, Age, dbVars, Places, Ended
  <2>2. CASE ReadTokens(r) \/ AddTokens(r) \/ RouteRefuses(r) \/ CheckBudget(r)
    BY <2>2 DEF ReadTokens, AddTokens, RouteRefuses, CheckBudget, dbVars, Places, Ended
  <2>3. CASE SkipThreshold(r) \/ FindUnmarked(r) \/ PersistAlert(r) \/ MarkAlert(r) \/ Admit(r)
    BY <2>3 DEF SkipThreshold, FindUnmarked, PersistAlert, MarkAlert, Admit, dbVars, Places, Ended
  <2>4. CASE Acquire(r) \/ Infer(r) \/ StreamCut(r) \/ RecordDuplicate(r)
    BY <2>4 DEF Acquire, Infer, StreamCut, RecordDuplicate, dbVars, Places, Ended
  <2>5. CASE Crash(r)
    BY <2>5 DEF Crash, UnderWay, dbVars, Places, Ended
  <2> QED
    BY <1>3, <2>1, <2>2, <2>3, <2>4, <2>5 DEF RequestStep
<1>4. ASSUME NEW o \in CreditOps, ReadBalance(o) \/ WriteCredit(o)
      PROVE  UNCHANGED ledger /\ pc[o] # "done" /\ \E place \in Places : Goto(o, place)
  BY <1>4 DEF ReadBalance, WriteCredit, dbVars, Places, Ended
<1>5. UNCHANGED vars => UNCHANGED <<ledger, pc>>
  BY DEF vars, dbVars
<1>6. CASE UNCHANGED <<ledger, pc>>
  BY <1>6 DEF RowsFinal
<1> QED
  BY <1>0, <1>1, <1>2, <1>3, <1>4, <1>5, <1>6 DEF Next

-----------------------------------------------------------------------------
(***************************************************************************)
(* In every interleaving                                                    *)
(***************************************************************************)

\* The invariant that the three promises below rest on.
THEOREM AccountingInvHolds == Spec => []AccountingInv
<1>1. Init => AccountingInv
  <2>1. Init => RateInv
    BY FS_EmptySet, AccountingAssumption DEF Init, RateInv, RateHeld
  <2>2. Init => AlertInv /\ InLoop
    <3>1. Init => \A r \in Requests : pc[r] = "arriving" /\ r \notin served
      BY DEF Init, Clients
    <3>2. Init => alertKeys \subseteq alertRows
      BY DEF Init
    <3> QED
      BY <3>1, <3>2 DEF AlertInv, InLoop
  <2>3. Init => BalanceInv
    BY AccountingAssumption DEF Init, BalanceInv, NeverOvercharged, Clients
  <2>4. Init => RowsFinal
    BY DEF Init, RowsFinal
  <2> QED
    BY <2>1, <2>2, <2>3, <2>4 DEF AccountingInv
<1>2. (TypeOK /\ AccountingInv) /\ [Next]_vars => (TypeOK /\ AccountingInv)'
  BY TypeStep, RateStep, AlertStep, BalanceStep, RowsStep DEF AccountingInv
<1> QED
  BY TypeInit, <1>1, <1>2, PTL DEF Spec

\* However requests, refusals and the passing of time interleave, no more than Limit
\* requests were admitted within the last minute.
THEOREM RateHolds == Spec => []RateHeld
<1>1. AccountingInv => RateHeld
  BY DEF AccountingInv, RateInv
<1> QED
  BY AccountingInvHolds, <1>1, PTL

\* A request is served only when every threshold its check had reached has its row,
\* whatever has died between a row and its key.
THEOREM NoAlertMissedHolds == Spec => []NoAlertMissed
<1>1. TypeOK /\ AccountingInv => NoAlertMissed
  BY DEF TypeOK, AccountingInv, AlertInv, NoAlertMissed
<1> QED
  BY AccountingTypes, AccountingInvHolds, <1>1, PTL

\* Lost updates, streams and credits never leave a user with less than the deposit
\* minus what was recorded, but for half a unit of the column per write.
THEOREM NeverOverchargedHolds == Spec => []NeverOvercharged
<1>1. AccountingInv => NeverOvercharged
  BY DEF AccountingInv, BalanceInv
<1> QED
  BY AccountingInvHolds, <1>1, PTL

\* The balance moves only together with a new row of the ledger, or by a credit.
THEOREM ChargedWithItsRowHolds == Spec => ChargedWithItsRow
<1>1. ASSUME TypeOK, RowsFinal, [Next]_vars, balance' # balance
      PROVE  \/ \E r \in Requests : r \notin ledger /\ ledger' = ledger \cup {r}
             \/ credited' # credited
  <2>1. ASSUME NEW r \in Requests, Record(r)
        PROVE  r \notin ledger /\ ledger' = ledger \cup {r}
    BY <1>1, <2>1 DEF Record, RowsFinal
  <2>2. ASSUME NEW o \in CreditOps, WriteCredit(o)
        PROVE  credited' # credited
    BY <1>1, <2>2, AccountingAssumption DEF WriteCredit, TypeOK
  <2>3. ASSUME NEW r \in Requests, RequestStep(r), ~Record(r)
        PROVE  FALSE
    BY <1>1, <2>3 DEF RequestStep, Authenticate, CheckRpm, Age, ReadTokens, AddTokens,
        RouteRefuses, CheckBudget, SkipThreshold, FindUnmarked, PersistAlert, MarkAlert, Admit,
        Acquire, Infer, StreamCut, RecordError, RecordDuplicate, Crash, dbVars
  <2>4. ASSUME NEW o \in CreditOps, ReadBalance(o)
        PROVE  FALSE
    BY <1>1, <2>4 DEF ReadBalance, dbVars
  <2>5. ~UNCHANGED vars
    BY <1>1 DEF vars, dbVars
  <2> QED
    BY <1>1, <2>1, <2>2, <2>3, <2>4, <2>5 DEF Next
<1>2. TypeOK /\ AccountingInv /\ [Next]_vars
      => [balance' # balance =>
            \/ \E r \in Requests : r \notin ledger /\ ledger' = ledger \cup {r}
            \/ credited' # credited]_vars
  BY <1>1 DEF AccountingInv
<1> QED
  BY AccountingTypes, AccountingInvHolds, <1>2, PTL DEF Spec, ChargedWithItsRow
=============================================================================
