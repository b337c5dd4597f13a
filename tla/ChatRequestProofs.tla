-------------------------- MODULE ChatRequestProofs --------------------------
(***************************************************************************)
(* Proofs about ChatRequest, for any requests, bodies, users and limits,    *)
(* any tiers, prices and offers, and any providers.                         *)
(***************************************************************************)
EXTENDS ChatRequest, FiniteSetTheorems, WellFoundedInduction, TLAPS

-----------------------------------------------------------------------------
(***************************************************************************)
(* The order of the tiers                                                   *)
(***************************************************************************)

LEMMA LeastNatural ==
  ASSUME NEW S \in SUBSET Nat, S # {}
  PROVE  \E n \in S : \A m \in S : n <= m
<1>1. IsWellFoundedOn(OpToRel(<, Nat), Nat)
      BY NatLessThanWellFounded
<1>2. PICK n \in S : \A m \in S : <<m, n>> \notin OpToRel(<, Nat)
      BY <1>1, WFMin
<1>3. \A m \in S : ~(m < n)
      BY <1>2 DEF OpToRel
<1> QED BY <1>3

LEMMA IndexType == Index \in [Ordered -> DOMAIN TierOrder] /\ DOMAIN TierOrder \subseteq Nat
<1>1. ASSUME NEW t \in Ordered PROVE Index[t] \in DOMAIN TierOrder
      BY DEF Index, Ordered
<1>2. Index \in [Ordered -> DOMAIN TierOrder]
      BY <1>1 DEF Index
<1>3. DOMAIN TierOrder = 1 .. Len(TierOrder) /\ Len(TierOrder) \in Nat
      BY RouterAssumption
<1> QED BY <1>2, <1>3

LEMMA LowestOfIn ==
  ASSUME NEW S \in SUBSET Ordered, S # {}
  PROVE  LowestOf(S) \in S
<1> DEFINE N == {Index[t] : t \in S}
<1>1. N \in SUBSET Nat /\ N # {}
      BY IndexType
<1>2. PICK n \in N : \A m \in N : n <= m
      BY <1>1, LeastNatural
<1> QED BY <1>2 DEF LowestOf

LEMMA HighestOfIn ==
  ASSUME NEW S \in SUBSET Ordered, S # {}
  PROVE  HighestOf(S) \in S
<1> DEFINE N == {Len(TierOrder) - Index[t] : t \in S}
<1>1. Len(TierOrder) \in Nat /\ \A t \in S : Index[t] \in 1 .. Len(TierOrder)
      BY IndexType, RouterAssumption
<1>2. N \in SUBSET Nat /\ N # {}
      BY <1>1
<1>3. PICK n \in N : \A m \in N : n <= m
      BY <1>2, LeastNatural
<1>4. PICK t \in S : n = Len(TierOrder) - Index[t]
      BY <1>3
<1>5. ASSUME NEW s \in S PROVE Index[s] <= Index[t]
  <2>1. Len(TierOrder) - Index[t] <= Len(TierOrder) - Index[s]
        BY <1>3, <1>4
  <2> QED BY <1>1, <2>1
<1> QED BY <1>5 DEF HighestOf

LEMMA TierFacts == Lowest \in Ordered /\ Ordered \subseteq Configured /\ Ordered \subseteq Tiers /\ Vision \notin Ordered
BY RouterAssumption DEF Lowest, Ordered, Tiers

LEMMA MinTierIn ==
  ASSUME NEW limit, NEW n
  PROVE  MinTier(limit, n) \in Ordered
BY LowestOfIn, HighestOfIn, TierFacts DEF MinTier

LEMMA CandidateIn ==
  ASSUME NEW q, q.keywords \subseteq Ordered
  PROVE  Candidate(q) \in Ordered
<1>1. KeywordTier(q) \in Ordered
      BY HighestOfIn, TierFacts DEF KeywordTier
<1> DEFINE S == {MinTier(MaxPromptTokens, q.tokens), MinTier(MaxFiles, q.files), KeywordTier(q)}
<1>2. S \in SUBSET Ordered /\ S # {}
      BY <1>1, MinTierIn
<1>3. HighestOf(S) \in S
      BY <1>2, HighestOfIn
<1> QED BY <1>2, <1>3 DEF Candidate

-----------------------------------------------------------------------------
(***************************************************************************)
(* Prices.  The best offer is defined by recursion over the providers:      *)
(* that the recursion defines a function is shown by taking the least       *)
(* length at which it would not.                                            *)
(***************************************************************************)

(* What a price may be before any offer was found *)
MaybePrice == Nat \cup {None}

LEMMA AsksType ==
  ASSUME NEW t, NEW offers \in Seq(Offer), NEW gpu
  PROVE  Asks(t, offers, gpu) \in MaybePrice
<1> DEFINE fits == {i \in DOMAIN offers : /\ offers[i].available /\ offers[i].gpu = gpu
                                          /\ offers[i].vram >= VramRequired[t]}
<1>1. DOMAIN offers \subseteq Nat /\ \A i \in DOMAIN offers : offers[i] \in Offer
      OBVIOUS
<1>2. CASE fits = {}
      BY <1>2 DEF Asks, MaybePrice
<1>3. CASE fits # {}
  <2>1. fits \in SUBSET Nat
        BY <1>1
  <2> DEFINE i == CHOOSE i \in fits : \A j \in fits : i <= j
  <2>2. i \in fits
        BY <1>3, <2>1, LeastNatural
  <2>3. offers[i].price \in Nat
        BY <1>1, <2>2 DEF Offer
  <2> QED BY <1>3, <2>3 DEF Asks, MaybePrice
<1> QED BY <1>2, <1>3

LEMMA BetterType ==
  ASSUME NEW t \in Tiers, NEW offers \in Seq(Offer), NEW best \in MaybePrice
  PROVE  Better(t, offers, best) \in MaybePrice
<1> DEFINE price(i) == Asks(t, offers, GpuPreference[t][i])
           less == {i \in DOMAIN GpuPreference[t] :
                      price(i) # None /\ (best = None \/ price(i) < best)}
<1>1. CASE less = {}
      BY <1>1 DEF Better
<1>2. CASE less # {}
  <2>1. DOMAIN GpuPreference[t] \subseteq Nat
        BY RouterAssumption
  <2>2. less \in SUBSET Nat
        BY <2>1
  <2> DEFINE i == CHOOSE i \in less : \A j \in less : i <= j
  <2>3. i \in less
        BY <1>2, <2>2, LeastNatural
  <2>4. Better(t, offers, best) = price(i)
        BY <1>2 DEF Better
  <2> QED BY <2>4, AsksType
<1> QED BY <1>1, <1>2

(* The recursion over the first m providers *)
BestStep(t, offers, providers, f, n) ==
  IF n = 0 THEN None ELSE Better(t, offers[providers[n]], f[n - 1])
Best(t, offers, providers, m) ==
  {f \in [0 .. m -> MaybePrice] : \A n \in 0 .. m : f[n] = BestStep(t, offers, providers, f, n)}

LEMMA BestExtends ==
  ASSUME NEW t \in Tiers, NEW m \in Nat, NEW f \in Best(t, Offers, OfferOrder, m),
         m + 1 \in 1 .. Len(OfferOrder)
  PROVE  Best(t, Offers, OfferOrder, m + 1) # {}
<1> DEFINE B == Better(t, Offers[OfferOrder[m + 1]], f[m])
           g == [n \in 0 .. m + 1 |-> IF n = m + 1 THEN B ELSE f[n]]
<1>1. f \in [0 .. m -> MaybePrice] /\ \A n \in 0 .. m : f[n] = BestStep(t, Offers, OfferOrder, f, n)
      BY DEF Best
<1>2. OfferOrder[m + 1] \in DOMAIN Offers
      BY ChatAssumption
<1>3. Offers[OfferOrder[m + 1]] \in Seq(Offer)
      BY <1>2, ChatAssumption
<1>4. B \in MaybePrice
      BY <1>1, <1>3, BetterType
<1> HIDE DEF B
<1>5. g \in [0 .. m + 1 -> MaybePrice]
      BY <1>1, <1>4
<1>6. ASSUME NEW n \in 0 .. m + 1 PROVE g[n] = BestStep(t, Offers, OfferOrder, g, n)
  <2>1. CASE n = m + 1
    <3>1. g[n] = B /\ g[n - 1] = f[m] /\ n # 0
          BY <2>1
    <3> QED BY <2>1, <3>1 DEF BestStep, B
  <2>2. CASE n = 0
        BY <1>1, <2>2 DEF BestStep
  <2>3. CASE n \in 1 .. m
    <3>1. g[n] = f[n] /\ g[n - 1] = f[n - 1] /\ n # 0
          BY <2>3
    <3>2. f[n] = BestStep(t, Offers, OfferOrder, f, n)
          BY <1>1, <2>3
    <3> QED BY <3>1, <3>2 DEF BestStep
  <2> QED BY <2>1, <2>2, <2>3
<1> QED BY <1>5, <1>6 DEF Best

LEMMA BestExists ==
  ASSUME NEW t \in Tiers
  PROVE  Best(t, Offers, OfferOrder, Len(OfferOrder)) # {}
<1> DEFINE Bad == {m \in 0 .. Len(OfferOrder) : Best(t, Offers, OfferOrder, m) = {}}
<1>0. Len(OfferOrder) \in Nat
      BY ChatAssumption
<1>1. Bad = {}
  <2> SUFFICES ASSUME Bad # {} PROVE FALSE
      OBVIOUS
  <2>0. Bad \in SUBSET Nat
        BY <1>0
  <2>1. PICK m \in Bad : \A n \in Bad : m <= n
    <3> HIDE DEF Bad
    <3> QED BY <2>0, LeastNatural
  <2>2. CASE m = 0
    <3> DEFINE f == [n \in 0 .. 0 |-> None]
    <3>1. f \in [0 .. 0 -> MaybePrice] /\ \A n \in 0 .. 0 : f[n] = BestStep(t, Offers, OfferOrder, f, n)
          BY DEF BestStep, MaybePrice
    <3>2. f \in Best(t, Offers, OfferOrder, 0)
          BY <3>1 DEF Best
    <3> QED BY <2>2, <3>2
  <2>3. CASE m # 0
    <3>1. m - 1 \in Nat /\ (m - 1) + 1 = m /\ m \in 1 .. Len(OfferOrder) /\ m - 1 \notin Bad
          BY <1>0, <2>1, <2>3
    <3>2. PICK f : f \in Best(t, Offers, OfferOrder, m - 1)
          BY <1>0, <3>1
    <3>3. Best(t, Offers, OfferOrder, (m - 1) + 1) # {}
          BY <3>1, <3>2, BestExtends
    <3> QED BY <3>1, <3>3
  <2> QED BY <2>2, <2>3
<1> QED BY <1>0, <1>1

LEMMA BestOfferType ==
  ASSUME NEW t \in Tiers
  PROVE  BestOffer(t, Offers, OfferOrder) \in MaybePrice
<1> DEFINE len == Len(OfferOrder)
           Rec(f) == f = [n \in 0 .. len |->
                            IF n = 0 THEN None ELSE Better(t, Offers[OfferOrder[n]], f[n - 1])]
           best == CHOOSE f : Rec(f)
<1>0. len \in Nat
      BY ChatAssumption
<1>1. PICK f : f \in Best(t, Offers, OfferOrder, len)
      BY BestExists
<1>2. Rec(f)
  <2>1. f \in [0 .. len -> MaybePrice]
        BY <1>1 DEF Best
  <2>2. f = [n \in 0 .. len |-> f[n]]
        BY <2>1
  <2>3. \A n \in 0 .. len :
          f[n] = IF n = 0 THEN None ELSE Better(t, Offers[OfferOrder[n]], f[n - 1])
        BY <1>1 DEF Best, BestStep
  <2> QED BY <2>2, <2>3
<1>3. Rec(best)
      BY <1>2
<1>4. BestOffer(t, Offers, OfferOrder) = best[len]
      BY DEF BestOffer
<1> HIDE DEF best
<1> DEFINE Bad == {n \in 0 .. len : best[n] \notin MaybePrice}
<1>5. \A n \in 0 .. len :
        best[n] = IF n = 0 THEN None ELSE Better(t, Offers[OfferOrder[n]], best[n - 1])
      BY <1>3
<1>6. Bad = {}
  <2> SUFFICES ASSUME Bad # {} PROVE FALSE
      OBVIOUS
  <2>0. Bad \in SUBSET Nat
        BY <1>0
  <2>1. PICK n \in Bad : \A m \in Bad : n <= m
    <3> HIDE DEF Bad
    <3> QED BY <2>0, LeastNatural
  <2>2. CASE n = 0
        BY <1>5, <2>1, <2>2 DEF MaybePrice
  <2>3. CASE n # 0
    <3>1. n \in 1 .. len /\ n - 1 \in 0 .. len /\ n - 1 \notin Bad
          BY <1>0, <2>1, <2>3
    <3>2. Offers[OfferOrder[n]] \in Seq(Offer)
          BY <3>1, ChatAssumption
    <3>3. best[n] = Better(t, Offers[OfferOrder[n]], best[n - 1])
          BY <1>5, <3>1
    <3> QED BY <2>1, <3>1, <3>2, <3>3, BetterType
  <2> QED BY <2>2, <2>3
<1> QED BY <1>0, <1>4, <1>6

LEMMA PriceType == \A t \in Configured : Price[t] \in Nat
<1>1. ASSUME NEW t \in Configured PROVE ListPrice[t] \in Nat /\ t \in Tiers
      BY RouterAssumption, ChatAssumption
<1>2. ASSUME NEW t \in Configured PROVE Synchronised[t] \in Nat
      BY <1>1, BestOfferType DEF Synchronised, Refreshed, MaybePrice
<1> QED BY <1>1, <1>2 DEF Price

-----------------------------------------------------------------------------
(***************************************************************************)
(* What the router decides                                                  *)
(***************************************************************************)

(* What select_tier promises of a request that it accepts *)
Decision ==
  [status : {0, 200, 402, 403, 503}, tier : Tiers \cup {None},
   provider : Name \cup {"local"},
   cost : Nat]
NamesTier(q) == Override(q) # None \/ q.hint \in HintTiers
NotAbove(t, q) == Index[t] <= Index[Candidate(q)] \/ Candidate(q) = Lowest
Selected(d, q, u) ==
  /\ d.tier \in Configured
  /\ q.image => d.tier = Vision
  /\ q.model # "local" => Permits(u, d.tier)
  /\ q.model # "local" /\ d.tier # Vision /\ ~NamesTier(q) => NotAbove(d.tier, q)

LEMMA ProjectedCostType ==
  ASSUME NEW t \in Configured, NEW tokens \in Nat
  PROVE  ProjectedCost(Price, t, tokens) \in Nat
<1>1. Price[t] \in Nat /\ IdleTimeout[t] \in Nat
      BY PriceType, RouterAssumption
<1>2. \A a, b \in Nat : a * b \in Nat
      OBVIOUS
<1> QED BY <1>1, <1>2 DEF ProjectedCost

LEMMA RouteType ==
  ASSUME NEW t \in Configured, NEW v \in Name \cup {"local"}, NEW cost \in Nat
  PROVE  /\ Route(t, v, cost) \in Decision
         /\ Route(t, v, cost).status = 200 /\ Route(t, v, cost).tier = t
<1>1. t \in Tiers
      BY RouterAssumption
<1> QED BY <1>1 DEF Route, Decision

LEMMA RefuseType ==
  ASSUME NEW status \in {0, 402, 403, 503}
  PROVE  Refuse(status) \in Decision /\ Refuse(status).status # 200
BY DEF Refuse, Decision, Name

LEMMA NamedTier ==
  ASSUME NEW q \in Body, Override(q) # None
  PROVE  Override(q) \in Ordered
BY DEF Override

LEMMA RouteNamedSound ==
  ASSUME NEW t \in Ordered, NEW v \in Name \cup {"local"}, NEW q \in Body, NEW u
  PROVE  LET d == RouteNamed(t, v, q, u, Price) IN
         /\ d \in Decision
         /\ d.status = 200 => d.tier = t /\ Permits(u, t)
<1>1. t \in Configured
      BY TierFacts
<1>2. ProjectedCost(Price, t, q.tokens) \in Nat
      BY <1>1, ProjectedCostType DEF Body
<1> QED BY <1>1, <1>2, RouteType, RefuseType DEF RouteNamed

LEMMA RouteVisionSound ==
  ASSUME NEW q \in Body, NEW u
  PROVE  LET d == RouteVision(q, u, Price) IN
         /\ d \in Decision
         /\ d.status = 200 => d.tier = Vision /\ Vision \in Configured /\ Permits(u, Vision)
<1>1. CASE Vision \in Configured /\ Permits(u, Vision)
  <2>1. ProjectedCost(Price, Vision, q.tokens) \in Nat /\ None \in Name
        BY <1>1, ProjectedCostType DEF Body, Name
  <2> QED BY <1>1, <2>1, RouteType DEF RouteVision
<1>2. CASE ~(Vision \in Configured /\ Permits(u, Vision))
      BY <1>2, RefuseType DEF RouteVision
<1> QED BY <1>1, <1>2

LEMMA DowngradesBelow ==
  ASSUME NEW c \in Ordered, NEW t \in {c} \cup Downgrades(c)
  PROVE  t \in Ordered /\ (Index[t] <= Index[c] \/ c = Lowest)
<1>1. t \in Ordered
      BY DEF Downgrades
<1>2. Index[t] \in Nat /\ Index[c] \in Nat
      BY <1>1, IndexType
<1> QED BY <1>1, <1>2 DEF Downgrades

LEMMA RouteBySignalsSound ==
  ASSUME NEW q \in Body, NEW u, NEW remaining
  PROVE  LET d == RouteBySignals(q, u, Price, remaining) IN
         /\ d \in Decision
         /\ d.status = 200 => d.tier \in Ordered /\ Permits(u, d.tier) /\ NotAbove(d.tier, q)
<1> DEFINE c == Candidate(q)
           candidates == {t \in {c} \cup Downgrades(c) : Permits(u, t)}
           affordable == {t \in candidates : ProjectedCost(Price, t, q.tokens) <= remaining}
           tier == IF c \in affordable THEN c ELSE HighestOf(affordable)
           d == RouteBySignals(q, u, Price, remaining)
<1>1. c \in Ordered
      BY CandidateIn DEF Body
<1>2. CASE candidates = {}
      BY <1>2, RefuseType DEF RouteBySignals
<1>3. CASE candidates # {} /\ affordable = {}
      BY <1>3, RefuseType DEF RouteBySignals
<1>4. CASE candidates # {} /\ affordable # {}
  <2>1. d = Route(tier, None, ProjectedCost(Price, tier, q.tokens))
        BY <1>4 DEF RouteBySignals
  <2>2. affordable \in SUBSET Ordered
        BY <1>1 DEF Downgrades
  <2>3. tier \in affordable
        BY <1>4, <2>2, HighestOfIn
  <2>4. tier \in {c} \cup Downgrades(c) /\ Permits(u, tier)
        BY <2>3
  <2> HIDE DEF tier
  <2>5. tier \in Ordered /\ NotAbove(tier, q)
        BY <1>1, <2>4, DowngradesBelow DEF NotAbove
  <2>6. tier \in Configured /\ ProjectedCost(Price, tier, q.tokens) \in Nat
        BY <2>5, TierFacts, ProjectedCostType DEF Body
  <2>7. None \in Name
        BY DEF Name
  <2>8. d \in Decision /\ d.tier = tier
        BY <2>1, <2>6, <2>7, RouteType
  <2> QED BY <2>4, <2>5, <2>8
<1> QED BY <1>2, <1>3, <1>4

LEMMA SelectTierSound ==
  ASSUME NEW q \in Body, ~q.downstream, NEW u, NEW spending
  PROVE  LET d == SelectTier(q, u, Price, spending) IN
         /\ d \in Decision
         /\ d.status = 200 => Selected(d, q, u)
<1> DEFINE d == SelectTier(q, u, Price, spending)
<1>0. q.image \in BOOLEAN /\ q.pin \in Name /\ None \in Name
      BY DEF Body, Name
<1>1. CASE q.image
  <2>1. d = RouteVision(q, u, Price)
        BY <1>1 DEF SelectTier, RequiresNonVision
  <2> QED BY <2>1, RouteVisionSound DEF Selected
<1>2. CASE ~q.image /\ q.model = "local"
  <2>1. d = Route(Lowest, "local", 0)
        BY <1>2 DEF SelectTier
  <2>2. Lowest \in Configured
        BY TierFacts
  <2> HIDE DEF d
  <2>4. d \in Decision /\ d.tier = Lowest
        BY <2>1, <2>2, RouteType
  <2>5. Selected(d, q, u)
        BY <1>2, <2>2, <2>4 DEF Selected
  <2> QED BY <2>4, <2>5 DEF d
<1>3. CASE ~q.image /\ q.model # "local" /\ Override(q) # None
  <2>1. d = RouteNamed(Override(q), q.pin, q, u, Price)
        BY <1>3 DEF SelectTier
  <2>2. Override(q) \in Ordered
        BY <1>3, NamedTier
  <2>3. d \in Decision /\ (d.status = 200 => d.tier = Override(q) /\ Permits(u, Override(q)))
        BY <1>0, <2>1, <2>2, RouteNamedSound
  <2> QED BY <1>3, <2>2, <2>3, TierFacts DEF Selected, NamesTier
<1>4. CASE ~q.image /\ q.model # "local" /\ Override(q) = None /\ q.hint \in HintTiers
  <2>1. d = RouteNamed(q.hint, None, q, u, Price)
        BY <1>4 DEF SelectTier
  <2>2. q.hint \in Ordered
        BY <1>4, RouterAssumption
  <2>3. d \in Decision /\ (d.status = 200 => d.tier = q.hint /\ Permits(u, q.hint))
        BY <1>0, <2>1, <2>2, RouteNamedSound
  <2> QED BY <1>4, <2>2, <2>3, TierFacts DEF Selected, NamesTier
<1>5. CASE ~q.image /\ q.model # "local" /\ Override(q) = None /\ q.hint \notin HintTiers
  <2>1. d = RouteBySignals(q, u, Price, u.monthly_budget_usd - spending)
        BY <1>5 DEF SelectTier
  <2> HIDE DEF d
  <2>2. d \in Decision /\ (d.status = 200 => d.tier \in Ordered /\ Permits(u, d.tier) /\ NotAbove(d.tier, q))
        BY <2>1, RouteBySignalsSound
  <2>3. ASSUME d.status = 200 PROVE Selected(d, q, u)
    <3>1. d.tier \in Configured /\ Permits(u, d.tier) /\ NotAbove(d.tier, q)
          BY <2>2, <2>3, TierFacts
    <3> QED BY <1>5, <3>1 DEF Selected
  <2> QED BY <2>2, <2>3 DEF d
<1> QED BY <1>0, <1>1, <1>2, <1>3, <1>4, <1>5

-----------------------------------------------------------------------------
(***************************************************************************)
(* The inductive invariant                                                  *)
(***************************************************************************)
Unrouted == {"arriving", "route"}
Podless == Unrouted \cup {"budget", "pipeline", "acquire"}
Waiting == Podless \cup {"resolve", "begin", "open"}
Streaming == {"streaming", "streaming_primary"}
Closing == {"release", "record", "done"}

StageNames ==
  {"preprocess", "infer", "postprocess"} \cup
  UNION {{Workflow[m].stages[i] : i \in DOMAIN Workflow[m].stages} : m \in WorkflowModels}

ChatTypes ==
  /\ pc \in [Requests -> Places]
  /\ body \in [Requests -> Body] /\ sent \in [Requests -> Body]
  /\ decision \in [Requests -> Decision] /\ budgeted \in [Requests -> Nat]
  /\ pod \in [Requests -> PodNames \cup {None}]
  /\ attempt \in [Requests -> 0 .. 4] /\ alt \in [Requests -> BOOLEAN]
  /\ stages \in [Requests -> SUBSET StageNames] /\ missed \in [Requests -> SUBSET StageNames]
  /\ failure \in [Requests -> {"none", "error", "silent"}]
  /\ answer \in [Requests -> {0, 200, 400, 402, 403, 429, 502, 503}]
  /\ row \in [Requests -> {"ok", "error", None}]
  /\ spent \in [Users -> Nat] /\ active \in [PodNames -> Nat]

(* What is served is what was asked for, but for images taken out on the way. *)
BodyOK(r) ==
  /\ body[r].model = sent[r].model /\ body[r].stream = sent[r].stream
  /\ body[r].header = sent[r].header /\ body[r].hint = sent[r].hint
  /\ pc[r] \in Unrouted => body[r] = Parse(sent[r])

(* Which requests come to a place, after how many attempts, and with a pod or *)
(* without.                                                                   *)
PlaceOK(r) ==
  /\ pc[r] = "workflow" => IsWorkflow(r) /\ attempt[r] <= Len(StagesOf(r))
  /\ pc[r] \in {"infer", "postprocess"} => ~IsWorkflow(r) /\ ~body[r].stream
  /\ pc[r] = "begin" => IsWorkflow(r) \/ ~body[r].stream
  /\ pc[r] \in Streaming \cup {"open"} => ~IsWorkflow(r) /\ body[r].stream
  /\ pc[r] \in Waiting => attempt[r] = 0
  /\ pc[r] = "infer" => attempt[r] < MaxRetries
  /\ pc[r] \in Podless => pod[r] = None
  /\ pc[r] \notin Podless \cup {"refused"} => pod[r] \in PodNames

(* What has been answered and recorded, and what has failed. *)
OutcomeOK(r) ==
  /\ pc[r] \in Waiting \cup {"workflow", "infer", "postprocess"} => answer[r] = 0
  /\ pc[r] \in Streaming => answer[r] = 200
  /\ pc[r] \in {"release", "record", "cut"} => answer[r] \in {0, 200}
  /\ pc[r] = "done" => answer[r] \in {200, 502} /\ row[r] = RowStatus(r)
  /\ pc[r] # "done" => row[r] = None
  /\ answer[r] = 502 => pc[r] = "done" /\ failure[r] # "none"
  /\ failure[r] # "none" => pc[r] \in Closing \cup {"cut"}

(* How much of the answer there is. *)
StageDone(r, i) == StagesOf(r)[i] \in stages[r] \cup (missed[r] \ Required)
WorkflowDone(r) ==
  \/ body[r].model = "visual_html" /\ ~body[r].image
  \/ \A i \in DOMAIN StagesOf(r) : StageDone(r, i)
WholeOK(r) ==
  /\ pc[r] = "workflow" => \A i \in 1 .. attempt[r] : StageDone(r, i)
  /\ pc[r] \in Closing /\ failure[r] = "none" /\ IsWorkflow(r) => WorkflowDone(r)
  /\ \/ pc[r] = "postprocess"
     \/ pc[r] \in Closing /\ failure[r] = "none" /\ ~IsWorkflow(r) /\ ~body[r].stream
     => "infer" \in stages[r]

(* What the limits of the user say of a decision and of a pod *)
Chosen(r) ==
  /\ decision[r].tier \in Configured
  /\ sent[r].model \notin WorkflowModels => Selected(decision[r], sent[r], User(r))
Afforded(r) == budgeted[r] + decision[r].cost <= User(r).monthly_budget_usd
LimitOK(r) ==
  /\ pc[r] \in {"budget", "pipeline", "acquire"} \/ pod[r] # None => Chosen(r)
  /\ pc[r] \in {"pipeline", "acquire"} \/ pod[r] # None => Afforded(r)
  /\ pod[r] # None => pod[r][2] \notin Disabled(r)

RequestOK(r) == BodyOK(r) /\ PlaceOK(r) /\ OutcomeOK(r) /\ WholeOK(r) /\ LimitOK(r)
ChatInv == ChatTypes /\ \A r \in Requests : RequestOK(r)

-----------------------------------------------------------------------------
(***************************************************************************)
(* The operators of the handler                                             *)
(***************************************************************************)

LEMMA WorkflowStages ==
  ASSUME NEW m \in WorkflowModels
  PROVE  /\ Len(Workflow[m].stages) \in 0 .. 4
         /\ DOMAIN Workflow[m].stages = 1 .. Len(Workflow[m].stages)
         /\ \A i \in DOMAIN Workflow[m].stages :
              Workflow[m].stages[i] = "extract_image" => m = "visual_html"
<1>1. m \in {"smart", "code_review", "refactor", "arch_design", "visual_html"}
      BY DEF WorkflowModels, Workflow
<1>2. CASE m = "smart"
      BY <1>2 DEF Workflow, OptimizeAndExecute
<1>3. CASE m = "code_review"
      BY <1>3 DEF Workflow, CodeReview
<1>4. CASE m = "refactor"
      BY <1>4 DEF Workflow, Refactoring
<1>5. CASE m = "arch_design"
      BY <1>5 DEF Workflow, ArchitectureDesign
<1>6. CASE m = "visual_html"
      BY <1>6 DEF Workflow, VisualHtml
<1> QED BY <1>1, <1>2, <1>3, <1>4, <1>5, <1>6

LEMMA StageOfName ==
  ASSUME NEW r \in Requests, IsWorkflow(r), NEW i \in 1 .. Len(StagesOf(r))
  PROVE  StagesOf(r)[i] \in StageNames
<1>1. i \in DOMAIN StagesOf(r)
      BY WorkflowStages DEF StagesOf, IsWorkflow
<1> QED BY <1>1 DEF StageNames, StagesOf, IsWorkflow

LEMMA ParseType ==
  ASSUME NEW b \in Body
  PROVE  /\ Parse(b) \in Body /\ ~Parse(b).downstream
         /\ \A f \in {"model", "header", "hint", "tokens", "files", "keywords", "image", "stream"} :
              Parse(b)[f] = b[f]
BY DEF Parse, Body

(* Only what it reads of a body matters to the router. *)
LEMMA SelectedOfSent ==
  ASSUME NEW b \in Body, NEW d, NEW u, Selected(d, Parse(b), u)
  PROVE  Selected(d, b, u)
<1> DEFINE q == Parse(b)
<1>1. /\ q.model = b.model /\ q.header = b.header /\ q.hint = b.hint /\ q.image = b.image
      /\ q.tokens = b.tokens /\ q.files = b.files /\ q.keywords = b.keywords
      BY ParseType
<1> HIDE DEF q
<1>2. Candidate(q) = Candidate(b)
      BY <1>1 DEF Candidate, KeywordTier
<1>3. NamesTier(q) <=> NamesTier(b)
      BY <1>1 DEF NamesTier, Override
<1>4. Selected(d, q, u)
      BY DEF q
<1> QED BY <1>1, <1>2, <1>3, <1>4 DEF Selected, NotAbove

LEMMA DecideSound ==
  ASSUME ChatTypes, NEW r \in Requests, pc[r] = "route", BodyOK(r)
  PROVE  /\ Decide(r) \in Decision
         /\ Decide(r).status = 200 =>
              /\ Decide(r).tier \in Configured
              /\ sent[r].model \notin WorkflowModels => Selected(Decide(r), sent[r], User(r))
<1>1. body[r] \in Body /\ sent[r] \in Body /\ body[r] = Parse(sent[r]) /\ None \in Name
      BY DEF ChatTypes, BodyOK, Unrouted, Name
<1>2. body[r].model = sent[r].model /\ ~body[r].downstream /\ body[r].tokens \in Nat
      BY <1>1, ParseType DEF Body
<1>3. CASE IsWorkflow(r)
  <2> DEFINE t == Workflow[body[r].model].tier
  <2>1. t \in Configured
        BY <1>3, ChatAssumption DEF IsWorkflow
  <2>2. Decide(r) = Route(t, None, ProjectedCost(Price, t, body[r].tokens))
        BY <1>3 DEF Decide
  <2> HIDE DEF t
  <2>3. Decide(r) \in Decision /\ Decide(r).tier = t
        BY <1>1, <1>2, <2>1, <2>2, ProjectedCostType, RouteType
  <2> QED BY <1>2, <1>3, <2>1, <2>3 DEF IsWorkflow
<1>4. CASE ~IsWorkflow(r)
  <2>1. Decide(r) = SelectTier(body[r], User(r), Price, spent[UserOf[r]])
        BY <1>4 DEF Decide
  <2>2. Decide(r) \in Decision /\ (Decide(r).status = 200 => Selected(Decide(r), body[r], User(r)))
        BY <1>1, <1>2, <2>1, SelectTierSound
  <2>3. ASSUME Decide(r).status = 200 PROVE Selected(Decide(r), sent[r], User(r))
        BY <1>1, <2>2, <2>3, SelectedOfSent
  <2> QED BY <2>2, <2>3 DEF Selected
<1> QED BY <1>3, <1>4

-----------------------------------------------------------------------------
(***************************************************************************)
(* A step of one request leaves all others as they are.                     *)
(***************************************************************************)
SameText(s) ==
  body'[s] = body[s] /\ sent'[s] = sent[s] /\ stages'[s] = stages[s] /\ missed'[s] = missed[s]
SameRoute(s) == sent'[s] = sent[s] /\ decision'[s] = decision[s]
SamePod(s) == SameRoute(s) /\ budgeted'[s] = budgeted[s] /\ pod'[s] = pod[s]
SameOutcome(s) == failure'[s] = failure[s] /\ answer'[s] = answer[s] /\ row'[s] = row[s]
Same(s) ==
  pc'[s] = pc[s] /\ attempt'[s] = attempt[s] /\ SameText(s) /\ SamePod(s) /\ SameOutcome(s)

LEMMA OthersSame ==
  ASSUME ChatTypes, NEW r \in Requests, RequestStep(r) \/ CutStream(r),
         NEW s \in Requests \ {r}
  PROVE  Same(s)
<1> USE DEF requestVars, outcomeVars, Goto, Answer, RefuseWith, Fails, Same, SameText, SameRoute,
            SamePod, SameOutcome, ChatTypes
<1>1. CASE CheckQuotas(r) \/ RouteRequest(r)
      BY <1>1 DEF CheckQuotas, RouteRequest
<1>2. CASE CheckBudget(r) \/ Preprocess(r)
      BY <1>2 DEF CheckBudget, Preprocess
<1>3. CASE Acquire(r) \/ AcquireFails(r)
      BY <1>3 DEF Acquire, AcquireFails
<1>4. CASE ResolveImages(r) \/ Begin(r)
      BY <1>4 DEF ResolveImages, Begin
<1>5. CASE RunStage(r)
      BY <1>5 DEF RunStage
<1>6. CASE FinishWorkflow(r) \/ InferOk(r) \/ RateLimited(r)
      BY <1>6 DEF FinishWorkflow, InferOk, RateLimited
<1>7. CASE ModelMissing(r) \/ InferFails(r)
      BY <1>7 DEF ModelMissing, InferFails
<1>8. CASE Postprocess(r) \/ OpenStream(r)
      BY <1>8 DEF Postprocess, OpenStream
<1>9. CASE StreamModelMissing(r) \/ EndStream(r) \/ CutStream(r)
      BY <1>9 DEF StreamModelMissing, EndStream, CutStream
<1>10. CASE Release(r) \/ Record(r)
      BY <1>10 DEF Release, Record
<1> QED BY <1>1, <1>2, <1>3, <1>4, <1>5, <1>6, <1>7, <1>8, <1>9, <1>10 DEF RequestStep

(* Each part of the invariant reads only a part of the state. *)
LEMMA BodyKept ==
  ASSUME NEW r \in Requests, BodyOK(r), SameText(r), pc'[r] \in Unrouted => pc[r] \in Unrouted
  PROVE  BodyOK(r)'
BY DEF BodyOK, SameText

LEMMA LimitKept ==
  ASSUME NEW r \in Requests, LimitOK(r), SamePod(r),
         pc'[r] \in {"budget", "pipeline", "acquire"} => pc'[r] = pc[r]
  PROVE  LimitOK(r)'
<1>1. Chosen(r)' <=> Chosen(r)
      BY DEF Chosen, SamePod, SameRoute, User
<1>2. Afforded(r)' <=> Afforded(r)
      BY DEF Afforded, SamePod, SameRoute, User
<1>3. Disabled(r)' = Disabled(r)
      BY DEF Disabled, SamePod, SameRoute, User
<1> QED BY <1>1, <1>2, <1>3 DEF LimitOK, SamePod

LEMMA TextKept ==
  ASSUME NEW r \in Requests, SameText(r)
  PROVE  /\ IsWorkflow(r)' <=> IsWorkflow(r)
         /\ StagesOf(r)' = StagesOf(r)
         /\ \A i : StageDone(r, i)' <=> StageDone(r, i)
         /\ WorkflowDone(r)' <=> WorkflowDone(r)
<1>1. (IsWorkflow(r)' <=> IsWorkflow(r)) /\ StagesOf(r)' = StagesOf(r)
      BY DEF IsWorkflow, StagesOf, SameText
<1>2. ASSUME NEW i PROVE StageDone(r, i)' <=> StageDone(r, i)
      BY <1>1 DEF StageDone, SameText
<1> QED BY <1>1, <1>2 DEF WorkflowDone, SameText

LEMMA SameKeeps ==
  ASSUME NEW s \in Requests, RequestOK(s), Same(s)
  PROVE  RequestOK(s)'
<1> USE DEF Same
<1>1. /\ IsWorkflow(s)' <=> IsWorkflow(s)
      /\ StagesOf(s)' = StagesOf(s)
      /\ \A i : StageDone(s, i)' <=> StageDone(s, i)
      /\ WorkflowDone(s)' <=> WorkflowDone(s)
      BY TextKept
<1>2. BodyOK(s)'
      BY BodyKept DEF RequestOK
<1>3. PlaceOK(s)'
      BY <1>1 DEF RequestOK, PlaceOK, SameText, SamePod
<1>4. OutcomeOK(s)'
      BY DEF RequestOK, OutcomeOK, SameOutcome, RowStatus
<1>5. WholeOK(s)'
      BY <1>1 DEF RequestOK, WholeOK, SameText, SameOutcome
<1>6. LimitOK(s)'
      BY LimitKept DEF RequestOK
<1> QED BY <1>2, <1>3, <1>4, <1>5, <1>6 DEF RequestOK

-----------------------------------------------------------------------------
(***************************************************************************)
(* Admission and routing                                                    *)
(***************************************************************************)

LEMMA CheckQuotasOK ==
  ASSUME ChatInv, NEW r \in Requests, CheckQuotas(r)
  PROVE  ChatTypes' /\ RequestOK(r)'
<1>1. ChatTypes /\ RequestOK(r)
      BY DEF ChatInv
<1>2. /\ pc[r] = "arriving" /\ SameText(r) /\ SamePod(r) /\ attempt'[r] = attempt[r]
      /\ failure'[r] = failure[r] /\ row'[r] = row[r]
      /\ \/ pc'[r] = "refused" /\ answer'[r] = 429
         \/ pc'[r] = "route" /\ answer'[r] = answer[r]
      BY <1>1 DEF CheckQuotas, At, RefuseWith, Goto, Answer, requestVars, SameText, SamePod,
         SameRoute, ChatTypes
<1>3. ChatTypes'
      BY <1>1 DEF CheckQuotas, RefuseWith, Goto, Answer, requestVars, ChatTypes, Places
<1>4. BodyOK(r)' /\ LimitOK(r)'
      BY <1>1, <1>2, BodyKept, LimitKept DEF RequestOK, Unrouted
<1>5. PlaceOK(r)'
      BY <1>1, <1>2 DEF RequestOK, PlaceOK, SamePod, Waiting, Podless, Unrouted, Streaming
<1>6. OutcomeOK(r)' /\ WholeOK(r)'
      BY <1>1, <1>2 DEF RequestOK, OutcomeOK, WholeOK, Waiting, Podless, Unrouted, Streaming, Closing
<1> QED BY <1>3, <1>4, <1>5, <1>6 DEF RequestOK

LEMMA RouteRequestOK ==
  ASSUME ChatInv, NEW r \in Requests, RouteRequest(r)
  PROVE  ChatTypes' /\ RequestOK(r)'
<1> DEFINE d == Decide(r)
<1>1. ChatTypes /\ RequestOK(r)
      BY DEF ChatInv
<1>2. /\ pc[r] = "route" /\ SameText(r) /\ attempt'[r] = attempt[r] /\ pod'[r] = pod[r]
      /\ failure'[r] = failure[r] /\ row'[r] = row[r]
      /\ \/ pc'[r] = "refused" /\ d.status # 200 /\ answer'[r] = d.status
         \/ /\ pc'[r] = "budget" /\ d.status = 200 /\ answer'[r] = answer[r]
            /\ decision'[r] = d
      BY <1>1 DEF RouteRequest, At, RefuseWith, Goto, Answer, SameText, ChatTypes
<1>3. pod[r] = None /\ row[r] = None
      BY <1>1, <1>2 DEF RequestOK, PlaceOK, OutcomeOK, Podless, Unrouted
<1>4. /\ d \in Decision
      /\ d.status = 200 =>
           /\ d.tier \in Configured
           /\ sent[r].model \notin WorkflowModels => Selected(d, sent[r], User(r))
      BY <1>1, <1>2, DecideSound DEF RequestOK
<1>5. d.status \in {0, 200, 402, 403, 503} /\ spent[UserOf[r]] \in Nat
      BY <1>1, <1>4, ChatAssumption DEF Decision, ChatTypes
<1> HIDE DEF d
<1>6. ChatTypes'
  <2>1. /\ decision' \in [Requests -> Decision] /\ budgeted' \in [Requests -> Nat]
        /\ answer' \in [Requests -> {0, 200, 400, 402, 403, 429, 502, 503}]
        /\ pc' \in [Requests -> Places]
        BY <1>1, <1>4, <1>5 DEF RouteRequest, RefuseWith, Goto, Answer, ChatTypes, Places, d
  <2> QED BY <1>1, <2>1 DEF RouteRequest, ChatTypes
<1>7. BodyOK(r)'
      BY <1>1, <1>2, BodyKept DEF RequestOK, Unrouted
<1>8. PlaceOK(r)'
      BY <1>1, <1>2, <1>3 DEF RequestOK, PlaceOK, Waiting, Podless, Unrouted, Streaming
<1>9. OutcomeOK(r)' /\ WholeOK(r)'
  <2>1. answer'[r] # 502
        BY <1>1, <1>2, <1>5 DEF RequestOK, OutcomeOK
  <2> QED BY <1>1, <1>2, <2>1 DEF RequestOK, OutcomeOK, WholeOK, Waiting, Podless, Unrouted,
             Streaming, Closing
<1>10. LimitOK(r)'
  <2>1. CASE pc'[r] = "budget" /\ decision'[r] = d /\ d.status = 200
    <3>1. Chosen(r)'
          BY <1>2, <1>4, <2>1 DEF Chosen, SameText, User
    <3> QED BY <1>2, <1>3, <2>1, <3>1 DEF LimitOK
  <2>2. CASE pc'[r] = "refused"
        BY <1>2, <1>3, <2>2 DEF LimitOK
  <2> QED BY <1>2, <2>1, <2>2
<1> QED BY <1>6, <1>7, <1>8, <1>9, <1>10 DEF RequestOK

LEMMA CheckBudgetOK ==
  ASSUME ChatInv, NEW r \in Requests, CheckBudget(r)
  PROVE  ChatTypes' /\ RequestOK(r)'
<1>1. ChatTypes /\ RequestOK(r)
      BY DEF ChatInv
<1>2. /\ pc[r] = "budget" /\ SameText(r) /\ SameRoute(r) /\ attempt'[r] = attempt[r]
      /\ pod'[r] = pod[r] /\ failure'[r] = failure[r] /\ row'[r] = row[r]
      /\ budgeted'[r] = spent[UserOf[r]]
      /\ \/ pc'[r] = "refused" /\ answer'[r] = 429
         \/ /\ pc'[r] = "pipeline" /\ answer'[r] = answer[r]
            /\ spent[UserOf[r]] + decision[r].cost <= User(r).monthly_budget_usd
      BY <1>1 DEF CheckBudget, At, RefuseWith, Goto, Answer, SameText, SameRoute, ChatTypes
<1>3. pod[r] = None
      BY <1>1, <1>2 DEF RequestOK, PlaceOK, Podless
<1>4. ChatTypes'
  <2>1. spent[UserOf[r]] \in Nat
        BY <1>1, ChatAssumption DEF ChatTypes
  <2> QED BY <1>1, <2>1 DEF CheckBudget, RefuseWith, Goto, Answer, ChatTypes, Places
<1>5. BodyOK(r)'
      BY <1>1, <1>2, BodyKept DEF RequestOK, Unrouted
<1>6. PlaceOK(r)'
      BY <1>1, <1>2, <1>3 DEF RequestOK, PlaceOK, Waiting, Podless, Unrouted, Streaming
<1>7. OutcomeOK(r)' /\ WholeOK(r)'
      BY <1>1, <1>2 DEF RequestOK, OutcomeOK, WholeOK, Waiting, Podless, Unrouted, Streaming, Closing
<1>8. LimitOK(r)'
  <2>1. Chosen(r)
        BY <1>1, <1>2 DEF RequestOK, LimitOK
  <2>2. Chosen(r)'
        BY <1>2, <2>1 DEF Chosen, SameRoute, User
  <2>3. pc'[r] = "pipeline" => Afforded(r)'
        BY <1>2 DEF Afforded, SameRoute, User
  <2> QED BY <1>2, <1>3, <2>2, <2>3 DEF LimitOK
<1> QED BY <1>4, <1>5, <1>6, <1>7, <1>8 DEF RequestOK

LEMMA PreprocessOK ==
  ASSUME ChatInv, NEW r \in Requests, Preprocess(r)
  PROVE  ChatTypes' /\ RequestOK(r)'
<1> DEFINE b == Preprocessed(body[r])
<1>1. ChatTypes /\ RequestOK(r)
      BY DEF ChatInv
<1>2. body[r] \in Body
      BY <1>1 DEF ChatTypes
<1>3. /\ b \in Body /\ b.model = body[r].model /\ b.stream = body[r].stream
      /\ b.header = body[r].header /\ b.hint = body[r].hint
      BY <1>2 DEF Preprocessed, Body
<1> HIDE DEF b
<1>4. /\ pc[r] = "pipeline" /\ pc'[r] = "acquire" /\ SamePod(r) /\ SameOutcome(r)
      /\ attempt'[r] = attempt[r] /\ body'[r] \in {body[r], b}
      BY <1>1 DEF Preprocess, At, Goto, outcomeVars, SamePod, SameRoute, SameOutcome, ChatTypes, b
<1>5. ChatTypes'
  <2>1. "preprocess" \in StageNames
        BY DEF StageNames
  <2> QED BY <1>1, <1>3, <2>1 DEF Preprocess, Goto, outcomeVars, ChatTypes, Places, b
<1>6. /\ body'[r].model = body[r].model /\ body'[r].stream = body[r].stream
      /\ body'[r].header = body[r].header /\ body'[r].hint = body[r].hint
      BY <1>3, <1>4
<1>7. BodyOK(r)'
      BY <1>1, <1>4, <1>6 DEF RequestOK, BodyOK, SamePod, SameRoute, Unrouted
<1>8. PlaceOK(r)'
      BY <1>1, <1>4, <1>6 DEF RequestOK, PlaceOK, SamePod, Waiting, Podless, Unrouted, Streaming
<1>9. OutcomeOK(r)' /\ WholeOK(r)'
      BY <1>1, <1>4 DEF RequestOK, OutcomeOK, WholeOK, SameOutcome, Waiting, Podless, Unrouted,
         Streaming, Closing
<1>10. LimitOK(r)'
  <2>1. Chosen(r) /\ Afforded(r) /\ pod[r] = None
        BY <1>1, <1>4 DEF RequestOK, LimitOK, PlaceOK, Podless
  <2>2. Chosen(r)' /\ Afforded(r)'
        BY <1>4, <2>1 DEF Chosen, Afforded, SamePod, SameRoute, User
  <2> QED BY <1>4, <2>1, <2>2 DEF LimitOK, SamePod
<1> QED BY <1>5, <1>7, <1>8, <1>9, <1>10 DEF RequestOK

-----------------------------------------------------------------------------
(***************************************************************************)
(* A pod                                                                    *)
(***************************************************************************)

LEMMA AcquireOK ==
  ASSUME ChatInv, NEW r \in Requests, Acquire(r)
  PROVE  ChatTypes' /\ RequestOK(r)'
<1>1. ChatTypes /\ RequestOK(r)
      BY DEF ChatInv
<1>2. /\ pc[r] = "acquire" /\ pc'[r] = "resolve" /\ SameRoute(r) /\ SameOutcome(r)
      /\ attempt'[r] = attempt[r] /\ budgeted'[r] = budgeted[r]
      BY <1>1 DEF Acquire, At, Goto, outcomeVars, SameRoute, SameOutcome, ChatTypes
<1>3. PICK v \in Providers \ Disabled(r) :
        /\ pod' = [pod EXCEPT ![r] = <<decision[r].tier, v>>]
        /\ body' = [body EXCEPT ![r].image = @ /\ (IsWorkflow(r) \/ v \in SeesImages)]
      BY DEF Acquire
<1>4. Chosen(r) /\ Afforded(r)
      BY <1>1, <1>2 DEF RequestOK, LimitOK
<1>5. decision[r].tier \in Tiers
      BY <1>4, RouterAssumption DEF Chosen
<1>6. pod'[r] = <<decision[r].tier, v>> /\ pod'[r] \in PodNames
      BY <1>1, <1>3, <1>5 DEF ChatTypes, PodNames
<1> DEFINE image == body[r].image /\ (IsWorkflow(r) \/ v \in SeesImages)
           b == [body[r] EXCEPT !.image = image]
<1>7. /\ b \in Body /\ b.model = body[r].model /\ b.stream = body[r].stream
      /\ b.header = body[r].header /\ b.hint = body[r].hint
  <2>1. body[r] \in Body /\ image \in BOOLEAN
        BY <1>1 DEF ChatTypes
  <2> HIDE DEF image
  <2> QED BY <2>1 DEF Body
<1>8. body' = [body EXCEPT ![r] = b] /\ body'[r] = b
      BY <1>1, <1>3 DEF ChatTypes
<1> HIDE DEF b
<1>9. ChatTypes'
      BY <1>1, <1>3, <1>6, <1>7, <1>8 DEF Acquire, Goto, outcomeVars, ChatTypes, Places
<1>10. BodyOK(r)'
      BY <1>1, <1>2, <1>7, <1>8 DEF RequestOK, BodyOK, SameRoute, Unrouted
<1>11. PlaceOK(r)'
      BY <1>1, <1>2, <1>6 DEF RequestOK, PlaceOK, Waiting, Podless, Unrouted, Streaming
<1>12. OutcomeOK(r)' /\ WholeOK(r)'
      BY <1>1, <1>2 DEF RequestOK, OutcomeOK, WholeOK, SameOutcome, Waiting, Podless, Unrouted,
         Streaming, Closing
<1>13. LimitOK(r)'
  <2>1. Chosen(r)' /\ Afforded(r)'
        BY <1>2, <1>4 DEF Chosen, Afforded, SameRoute, User
  <2>2. Disabled(r)' = Disabled(r)
        BY <1>2 DEF Disabled, SameRoute, User
  <2> QED BY <1>6, <2>1, <2>2 DEF LimitOK
<1> QED BY <1>9, <1>10, <1>11, <1>12, <1>13 DEF RequestOK

LEMMA AcquireFailsOK ==
  ASSUME ChatInv, NEW r \in Requests, AcquireFails(r)
  PROVE  ChatTypes' /\ RequestOK(r)'
<1>1. ChatTypes /\ RequestOK(r)
      BY DEF ChatInv
<1>2. /\ pc[r] = "acquire" /\ pc'[r] = "refused" /\ SameText(r) /\ SamePod(r)
      /\ attempt'[r] = attempt[r] /\ failure'[r] = failure[r] /\ row'[r] = row[r]
      /\ answer'[r] \in {400, 503}
      BY <1>1 DEF AcquireFails, At, RefuseWith, Goto, Answer, requestVars, SameText, SamePod,
         SameRoute, ChatTypes
<1>3. ChatTypes'
      BY <1>1 DEF AcquireFails, RefuseWith, Goto, Answer, requestVars, ChatTypes, Places
<1>4. BodyOK(r)' /\ LimitOK(r)'
      BY <1>1, <1>2, BodyKept, LimitKept DEF RequestOK, Unrouted
<1>5. PlaceOK(r)'
      BY <1>2 DEF PlaceOK, Waiting, Podless, Unrouted, Streaming
<1>6. OutcomeOK(r)' /\ WholeOK(r)'
      BY <1>1, <1>2 DEF RequestOK, OutcomeOK, WholeOK, Waiting, Podless, Unrouted, Streaming, Closing
<1> QED BY <1>3, <1>4, <1>5, <1>6 DEF RequestOK

LEMMA ResolveImagesOK ==
  ASSUME ChatInv, NEW r \in Requests, ResolveImages(r)
  PROVE  ChatTypes' /\ RequestOK(r)'
<1>1. ChatTypes /\ RequestOK(r)
      BY DEF ChatInv
<1>2. /\ pc[r] = "resolve" /\ SameText(r) /\ SamePod(r) /\ attempt'[r] = attempt[r]
      /\ failure'[r] = failure[r] /\ row'[r] = row[r]
      /\ \/ pc'[r] = "refused" /\ answer'[r] = 400
         \/ /\ pc'[r] = "open" /\ body[r].stream /\ ~IsWorkflow(r)
            /\ answer'[r] = answer[r]
         \/ /\ pc'[r] = "begin" /\ (~body[r].stream \/ IsWorkflow(r))
            /\ answer'[r] = answer[r]
      BY <1>1 DEF ResolveImages, At, RefuseWith, Goto, Answer, SameText, SamePod, SameRoute, ChatTypes
<1>3. ChatTypes'
  <2> DEFINE other == /\ ~IsWorkflow(r) /\ pod[r][2] \in Ollama /\ ~body[r].tools
                      /\ decision[r].tier \in ModelNoTools
  <2>1. pc' \in [Requests -> Places]
        BY <1>1 DEF ResolveImages, RefuseWith, Goto, ChatTypes, Places
  <2>2. alt' = [alt EXCEPT ![r] = other] \/ alt' = alt
        BY DEF ResolveImages
  <2>3. other \in BOOLEAN
        OBVIOUS
  <2> HIDE DEF other
  <2>4. alt' \in [Requests -> BOOLEAN]
        BY <1>1, <2>2, <2>3 DEF ChatTypes
  <2> QED BY <1>1, <2>1, <2>4 DEF ResolveImages, RefuseWith, Answer, ChatTypes
<1>4. BodyOK(r)' /\ LimitOK(r)'
      BY <1>1, <1>2, BodyKept, LimitKept DEF RequestOK, Unrouted
<1>5. PlaceOK(r)'
      BY <1>1, <1>2, TextKept DEF RequestOK, PlaceOK, SameText, SamePod, Waiting, Podless, Unrouted,
         Streaming
<1>6. OutcomeOK(r)' /\ WholeOK(r)'
      BY <1>1, <1>2 DEF RequestOK, OutcomeOK, WholeOK, Waiting, Podless, Unrouted, Streaming, Closing
<1> QED BY <1>3, <1>4, <1>5, <1>6 DEF RequestOK

(* The pod of a request that is past "acquire" *)
LEMMA PodOf ==
  ASSUME ChatInv, NEW r \in Requests, pc[r] \notin Podless \cup {"refused"}
  PROVE  pod[r] \in PodNames /\ active[pod[r]] \in Nat
BY DEF ChatInv, RequestOK, PlaceOK, ChatTypes

LEMMA MarkType ==
  ASSUME ChatInv, NEW r \in Requests, pc[r] \notin Podless \cup {"refused"}, Mark(r) \/ Unmark(r)
  PROVE  active' \in [PodNames -> Nat]
BY PodOf DEF ChatInv, ChatTypes, Mark, Unmark

LEMMA BeginOK ==
  ASSUME ChatInv, NEW r \in Requests, Begin(r)
  PROVE  ChatTypes' /\ RequestOK(r)'
<1>1. ChatTypes /\ RequestOK(r)
      BY DEF ChatInv
<1>2. /\ pc[r] = "begin" /\ SameText(r) /\ SamePod(r) /\ SameOutcome(r) /\ attempt'[r] = attempt[r]
      /\ pc'[r] = IF IsWorkflow(r) THEN "workflow" ELSE "infer"
      BY <1>1 DEF Begin, At, Goto, requestVars, outcomeVars, SameText, SamePod, SameRoute,
         SameOutcome, ChatTypes
<1>3. ChatTypes'
  <2>1. active' \in [PodNames -> Nat]
        BY <1>2, MarkType DEF Begin, Podless, Unrouted
  <2>2. pc' \in [Requests -> Places]
        BY <1>1 DEF Begin, Goto, ChatTypes, Places, InUse
  <2> QED BY <1>1, <2>1, <2>2 DEF Begin, requestVars, outcomeVars, ChatTypes
<1>4. BodyOK(r)' /\ LimitOK(r)'
      BY <1>1, <1>2, BodyKept, LimitKept DEF RequestOK, Unrouted
<1>5. PlaceOK(r)' /\ WholeOK(r)'
  <2>1. attempt[r] = 0
        BY <1>1, <1>2 DEF RequestOK, PlaceOK, Waiting
  <2>2. IsWorkflow(r) => Len(StagesOf(r)) \in 0 .. 4
        BY WorkflowStages DEF IsWorkflow, StagesOf
  <2>3. PlaceOK(r)'
        BY <1>1, <1>2, <2>1, <2>2, TextKept DEF RequestOK, PlaceOK, SameText, SamePod, Waiting, Podless,
           Unrouted, Streaming, MaxRetries
  <2>4. WholeOK(r)'
        BY <1>2, <2>1 DEF WholeOK, Closing
  <2> QED BY <2>3, <2>4
<1>6. OutcomeOK(r)'
      BY <1>1, <1>2 DEF RequestOK, OutcomeOK, SameOutcome, Waiting, Podless, Unrouted, Streaming, Closing
<1> QED BY <1>3, <1>4, <1>5, <1>6 DEF RequestOK

-----------------------------------------------------------------------------
(***************************************************************************)
(* Workflows                                                                *)
(***************************************************************************)

LEMMA OutcomeFacts ==
  ASSUME NEW stage, NEW image
  PROVE  /\ "missed" \in Outcomes(stage, image) => stage \notin Required
         /\ "no_image" \in Outcomes(stage, image) => stage = "extract_image" /\ ~image
BY DEF Outcomes

LEMMA ExceptionFacts == Exceptions \subseteq {"error", "silent"}
BY DEF Exceptions

(* A stage that is done, or missed where that is no loss *)
LEMMA StageAdvances ==
  ASSUME ChatInv, NEW r \in Requests, pc[r] = "workflow", attempt[r] < Len(StagesOf(r)),
         SamePod(r), SameOutcome(r), pc'[r] = pc[r], body'[r] = body[r],
         attempt'[r] = attempt[r] + 1,
         \/ stages'[r] = stages[r] \cup {StageOf(r)} /\ missed'[r] = missed[r]
         \/ /\ missed'[r] = missed[r] \cup {StageOf(r)} /\ stages'[r] = stages[r]
            /\ StageOf(r) \notin Required
  PROVE  RequestOK(r)'
<1>0. attempt \in [Requests -> 0 .. 4]
      BY DEF ChatInv, ChatTypes
<1>1. RequestOK(r) /\ attempt[r] \in Nat
      BY <1>0 DEF ChatInv
<1>2. IsWorkflow(r) /\ attempt[r] <= Len(StagesOf(r)) /\ Len(StagesOf(r)) \in Nat
      BY <1>1, WorkflowStages DEF RequestOK, PlaceOK, IsWorkflow, StagesOf
<1>3. (IsWorkflow(r)' <=> IsWorkflow(r)) /\ StagesOf(r)' = StagesOf(r)
      BY DEF IsWorkflow, StagesOf
<1>4. BodyOK(r)' /\ LimitOK(r)'
      BY <1>1, LimitKept DEF RequestOK, BodyOK, SamePod, SameRoute, Unrouted
<1>5. PlaceOK(r)'
      BY <1>1, <1>2, <1>3 DEF RequestOK, PlaceOK, SamePod, Waiting, Podless, Unrouted, Streaming
<1>6. OutcomeOK(r)'
      BY <1>1 DEF RequestOK, OutcomeOK, SameOutcome, Waiting, Podless, Unrouted, Streaming, Closing
<1>7. ASSUME NEW i \in 1 .. attempt[r] + 1 PROVE StageDone(r, i)'
  <2>1. CASE i = attempt[r] + 1
    <3>1. StagesOf(r)[i] \in stages'[r] \cup (missed'[r] \ Required)
          BY <1>1, <2>1 DEF StageOf
    <3> QED BY <1>3, <3>1 DEF StageDone
  <2>2. CASE i \in 1 .. attempt[r]
    <3>1. StagesOf(r)[i] \in stages[r] \cup (missed[r] \ Required)
          BY <1>1, <2>2 DEF RequestOK, WholeOK, StageDone
    <3> QED BY <1>3, <3>1 DEF StageDone
  <2> QED BY <1>1, <2>1, <2>2
<1>8. WholeOK(r)'
      BY <1>1, <1>7 DEF WholeOK, Closing
<1> QED BY <1>4, <1>5, <1>6, <1>8 DEF RequestOK

(* A handler that ends early or raises *)
LEMMA HandlerEnds ==
  ASSUME ChatInv, NEW r \in Requests, pc[r] = "workflow", pc'[r] = "release",
         SamePod(r), SameText(r), attempt'[r] = attempt[r], answer'[r] = answer[r], row'[r] = row[r],
         \/ failure'[r] \in {"error", "silent"}
         \/ failure'[r] = failure[r] /\ WorkflowDone(r)
  PROVE  RequestOK(r)'
<1>1. ChatTypes /\ RequestOK(r)
      BY DEF ChatInv
<1>2. IsWorkflow(r)
      BY <1>1 DEF RequestOK, PlaceOK
<1>3. BodyOK(r)' /\ LimitOK(r)'
      BY <1>1, BodyKept, LimitKept DEF RequestOK, Unrouted
<1>4. PlaceOK(r)'
      BY <1>1 DEF RequestOK, PlaceOK, SamePod, Waiting, Podless, Unrouted, Streaming
<1>5. OutcomeOK(r)'
      BY <1>1 DEF RequestOK, OutcomeOK, Waiting, Podless, Unrouted, Streaming, Closing
<1>6. WholeOK(r)'
      BY <1>2, TextKept DEF WholeOK, Closing
<1> QED BY <1>3, <1>4, <1>5, <1>6 DEF RequestOK

LEMMA RunStageOK ==
  ASSUME ChatInv, NEW r \in Requests, RunStage(r)
  PROVE  ChatTypes' /\ RequestOK(r)'
<1>0. attempt \in [Requests -> 0 .. 4]
      BY DEF ChatInv, ChatTypes
<1>1. ChatTypes /\ RequestOK(r) /\ attempt[r] \in Nat
      BY <1>0 DEF ChatInv
<1>2. /\ pc[r] = "workflow" /\ attempt[r] < Len(StagesOf(r)) /\ SamePod(r)
      /\ body'[r] = body[r] /\ answer'[r] = answer[r] /\ row'[r] = row[r]
      BY <1>1 DEF RunStage, At, outcomeVars, SamePod, SameRoute, ChatTypes
<1>3. IsWorkflow(r) /\ Len(StagesOf(r)) \in 0 .. 4
      BY <1>1, <1>2, WorkflowStages DEF RequestOK, PlaceOK, IsWorkflow, StagesOf
<1>4. StageOf(r) \in StageNames
      BY <1>1, <1>2, <1>3, StageOfName DEF StageOf
<1>5. /\ StageOf(r) = StagesOf(r)[attempt[r] + 1]
      /\ StageOf(r) = "extract_image" => body[r].model = "visual_html"
      BY <1>1, <1>2, <1>3, WorkflowStages DEF StageOf, StagesOf, IsWorkflow
<1>6. PICK outcome \in Outcomes(StageOf(r), body[r].image) :
       \/ /\ outcome \in {"done", "missed"}
          /\ attempt' = [attempt EXCEPT ![r] = @ + 1]
          /\ stages' = [stages EXCEPT ![r] = IF outcome = "done" THEN @ \cup {StageOf(r)} ELSE @]
          /\ missed' = [missed EXCEPT ![r] = IF outcome = "missed" THEN @ \cup {StageOf(r)} ELSE @]
          /\ UNCHANGED <<pc, failure>>
       \/ /\ outcome = "no_image"
          /\ Goto(r, "release")
          /\ UNCHANGED <<attempt, stages, missed, failure>>
       \/ /\ outcome = "fatal"
          /\ \E how \in Exceptions : Fails(r, how)
          /\ UNCHANGED <<attempt, stages, missed>>
      BY DEF RunStage
<1>7. UNCHANGED <<body, sent, decision, budgeted, pod, alt, answer, row, spent, active>>
      BY DEF RunStage, outcomeVars
<1>8. CASE outcome \in {"done", "missed"}
  <2>1. /\ attempt' = [attempt EXCEPT ![r] = @ + 1] /\ UNCHANGED <<pc, failure>>
        /\ \/ /\ outcome = "done" /\ stages' = [stages EXCEPT ![r] = @ \cup {StageOf(r)}]
              /\ missed' = missed
           \/ /\ outcome = "missed" /\ missed' = [missed EXCEPT ![r] = @ \cup {StageOf(r)}]
              /\ stages' = stages
    <3>1. /\ [stages EXCEPT ![r] = stages[r]] = stages
          /\ [missed EXCEPT ![r] = missed[r]] = missed
          BY <1>1 DEF ChatTypes
    <3> QED BY <1>6, <1>8, <3>1
  <2>2. ChatTypes'
    <3>0. ASSUME NEW len \in 0 .. 4, attempt[r] < len PROVE attempt[r] + 1 \in 0 .. 4
          BY <1>1, <3>0
    <3>1. attempt' \in [Requests -> 0 .. 4]
          BY <1>0, <1>2, <1>3, <2>1, <3>0
    <3>2. stages' \in [Requests -> SUBSET StageNames] /\ missed' \in [Requests -> SUBSET StageNames]
          BY <1>1, <1>4, <2>1 DEF ChatTypes
    <3> QED BY <1>1, <1>7, <2>1, <3>1, <3>2 DEF ChatTypes
  <2>3. /\ pc'[r] = pc[r] /\ SameOutcome(r) /\ attempt'[r] = attempt[r] + 1
        /\ \/ stages'[r] = stages[r] \cup {StageOf(r)} /\ missed'[r] = missed[r]
           \/ /\ missed'[r] = missed[r] \cup {StageOf(r)} /\ stages'[r] = stages[r]
              /\ StageOf(r) \notin Required
        BY <1>1, <1>6, <1>7, <2>1, OutcomeFacts DEF ChatTypes, SameOutcome
  <2> QED BY <1>2, <2>2, <2>3, StageAdvances
<1>9. CASE outcome = "no_image"
  <2>1. Goto(r, "release") /\ UNCHANGED <<attempt, stages, missed, failure>>
        BY <1>6, <1>9
  <2>2. ChatTypes' /\ pc'[r] = "release"
        BY <1>1, <1>7, <2>1 DEF ChatTypes, Goto, Places, InUse
  <2>3. WorkflowDone(r)
        BY <1>5, <1>9, OutcomeFacts DEF WorkflowDone
  <2>4. SameText(r) /\ attempt'[r] = attempt[r] /\ failure'[r] = failure[r]
        BY <1>7, <2>1 DEF SameText
  <2> QED BY <1>2, <2>2, <2>3, <2>4, HandlerEnds
<1>10. CASE outcome = "fatal"
  <2>1. PICK how \in {"error", "silent"} : Fails(r, how) /\ UNCHANGED <<attempt, stages, missed>>
        BY <1>6, <1>10, ExceptionFacts
  <2>2. ChatTypes' /\ pc'[r] = "release" /\ failure'[r] = how
        BY <1>1, <1>7, <2>1 DEF ChatTypes, Fails, Goto, Places, InUse
  <2>3. SameText(r) /\ attempt'[r] = attempt[r]
        BY <1>7, <2>1 DEF SameText
  <2> QED BY <1>2, <2>2, <2>3, HandlerEnds
<1> QED BY <1>6, <1>8, <1>9, <1>10

LEMMA FinishWorkflowOK ==
  ASSUME ChatInv, NEW r \in Requests, FinishWorkflow(r)
  PROVE  ChatTypes' /\ RequestOK(r)'
<1>1. ChatTypes /\ RequestOK(r)
      BY DEF ChatInv
<1>2. /\ pc[r] = "workflow" /\ attempt[r] = Len(StagesOf(r)) /\ pc'[r] = "release"
      /\ SameText(r) /\ SamePod(r) /\ SameOutcome(r) /\ attempt'[r] = attempt[r]
      BY <1>1 DEF FinishWorkflow, At, Goto, requestVars, outcomeVars, SameText, SamePod, SameRoute,
         SameOutcome, ChatTypes
<1>3. ChatTypes'
      BY <1>1 DEF FinishWorkflow, Goto, requestVars, outcomeVars, ChatTypes, Places, InUse
<1>4. DOMAIN StagesOf(r) = 1 .. attempt[r]
      BY <1>1, <1>2, WorkflowStages DEF RequestOK, PlaceOK, IsWorkflow, StagesOf
<1>5. WorkflowDone(r)
      BY <1>1, <1>2, <1>4 DEF RequestOK, WholeOK, WorkflowDone
<1> QED BY <1>2, <1>3, <1>5, HandlerEnds DEF SameOutcome

-----------------------------------------------------------------------------
(***************************************************************************)
(* Inference without streaming                                              *)
(***************************************************************************)

(* A request on a pod goes on to the finally clause. *)
LEMMA Closes ==
  ASSUME ChatInv, NEW r \in Requests, pc[r] \in {"infer", "postprocess"} \cup Streaming,
         pc'[r] = "release", SamePod(r), attempt'[r] = attempt[r], body'[r] = body[r],
         answer'[r] = answer[r], row'[r] = row[r],
         \/ failure'[r] \in {"error", "silent"}
         \/ failure'[r] = failure[r] /\ ("infer" \in stages'[r] \/ body[r].stream)
  PROVE  RequestOK(r)'
<1>1. RequestOK(r)
      BY DEF ChatInv
<1>2. IsWorkflow(r)' = IsWorkflow(r) /\ ~IsWorkflow(r)
      BY <1>1 DEF RequestOK, PlaceOK, IsWorkflow
<1>3. BodyOK(r)' /\ LimitOK(r)'
      BY <1>1, LimitKept DEF RequestOK, BodyOK, SamePod, SameRoute, Unrouted
<1>4. PlaceOK(r)'
      BY <1>1 DEF RequestOK, PlaceOK, SamePod, Waiting, Podless, Unrouted, Streaming
<1>5. OutcomeOK(r)'
      BY <1>1 DEF RequestOK, OutcomeOK, Waiting, Podless, Unrouted, Streaming, Closing
<1>6. WholeOK(r)'
      BY <1>2 DEF WholeOK, Closing
<1> QED BY <1>3, <1>4, <1>5, <1>6 DEF RequestOK

(* A request on a pod stays where it is, or gets another model. *)
LEMMA GoesOn ==
  ASSUME ChatInv, NEW r \in Requests, SameText(r), SamePod(r), SameOutcome(r),
         \/ /\ pc[r] = "infer" /\ pc'[r] = "infer"
            /\ attempt'[r] = attempt[r] + 1 /\ attempt[r] < MaxRetries - 1
         \/ /\ pc[r] = "streaming" /\ pc'[r] = "streaming_primary" /\ attempt'[r] = attempt[r]
  PROVE  RequestOK(r)'
<1>1. RequestOK(r) /\ attempt[r] \in 0 .. 4
      BY DEF ChatInv, ChatTypes
<1>2. BodyOK(r)' /\ LimitOK(r)'
      BY <1>1, BodyKept, LimitKept DEF RequestOK, Unrouted
<1>3. PlaceOK(r)'
      BY <1>1, TextKept DEF RequestOK, PlaceOK, SameText, SamePod, Waiting, Podless, Unrouted,
         Streaming, MaxRetries
<1>4. OutcomeOK(r)' /\ WholeOK(r)'
      BY <1>1 DEF RequestOK, OutcomeOK, WholeOK, SameOutcome, Waiting, Podless, Unrouted, Streaming,
         Closing
<1> QED BY <1>2, <1>3, <1>4 DEF RequestOK

LEMMA InferOkOK ==
  ASSUME ChatInv, NEW r \in Requests, InferOk(r)
  PROVE  ChatTypes' /\ RequestOK(r)'
<1>1. ChatTypes /\ RequestOK(r)
      BY DEF ChatInv
<1>2. /\ pc[r] = "infer" /\ SamePod(r) /\ SameOutcome(r) /\ attempt'[r] = attempt[r]
      /\ body'[r] = body[r] /\ "infer" \in stages'[r]
      /\ pc'[r] = "release" \/ pc'[r] = "postprocess"
      BY <1>1 DEF InferOk, At, Goto, outcomeVars, SamePod, SameRoute, SameOutcome, ChatTypes
<1>3. ChatTypes'
  <2>1. "infer" \in StageNames
        BY DEF StageNames
  <2>2. pc' \in [Requests -> Places]
        BY <1>1 DEF InferOk, Goto, ChatTypes, Places, InUse
  <2> QED BY <1>1, <2>1, <2>2 DEF InferOk, outcomeVars, ChatTypes
<1>4. CASE pc'[r] = "release"
      BY <1>2, <1>3, <1>4, Closes DEF SameOutcome
<1>5. CASE pc'[r] = "postprocess"
  <2>1. (IsWorkflow(r)' <=> IsWorkflow(r)) /\ ~IsWorkflow(r) /\ ~body[r].stream
        BY <1>1, <1>2 DEF RequestOK, PlaceOK, IsWorkflow
  <2>2. BodyOK(r)' /\ LimitOK(r)'
        BY <1>1, <1>2, <1>5, LimitKept DEF RequestOK, BodyOK, SamePod, SameRoute, Unrouted
  <2>3. PlaceOK(r)'
        BY <1>1, <1>2, <1>5, <2>1 DEF RequestOK, PlaceOK, SamePod, Waiting, Podless, Unrouted, Streaming
  <2>4. OutcomeOK(r)' /\ WholeOK(r)'
        BY <1>1, <1>2, <1>5 DEF RequestOK, OutcomeOK, WholeOK, SameOutcome, Waiting, Podless, Unrouted,
           Streaming, Closing
  <2> QED BY <1>3, <2>2, <2>3, <2>4 DEF RequestOK
<1> QED BY <1>2, <1>4, <1>5

LEMMA RateLimitedOK ==
  ASSUME ChatInv, NEW r \in Requests, RateLimited(r)
  PROVE  ChatTypes' /\ RequestOK(r)'
<1>1. ChatTypes /\ RequestOK(r)
      BY DEF ChatInv
<1>2. attempt[r] \in 0 .. 4 /\ attempt[r] < 2
      BY <1>1 DEF RateLimited, MaxRetries, ChatTypes
<1>3. ChatTypes'
      BY <1>1, <1>2 DEF RateLimited, outcomeVars, ChatTypes
<1> QED BY <1>1, <1>3, GoesOn DEF RateLimited, At, outcomeVars, SameText, SamePod, SameRoute,
           SameOutcome, ChatTypes

LEMMA ModelMissingOK ==
  ASSUME ChatInv, NEW r \in Requests, ModelMissing(r)
  PROVE  ChatTypes' /\ RequestOK(r)'
<1>1. ChatTypes
      BY DEF ChatInv
<1>2. /\ pc[r] = "infer" /\ SamePod(r) /\ SameText(r) /\ answer'[r] = answer[r] /\ row'[r] = row[r]
      BY <1>1 DEF ModelMissing, At, outcomeVars, SamePod, SameRoute, SameText, ChatTypes
<1>3. CASE attempt[r] < MaxRetries - 1
  <2>1. attempt[r] \in 0 .. 4 /\ attempt[r] < 2
        BY <1>1, <1>3 DEF MaxRetries, ChatTypes
  <2>2. attempt' = [attempt EXCEPT ![r] = @ + 1] /\ UNCHANGED <<pc, failure>>
        BY <1>3 DEF ModelMissing
  <2>3. ChatTypes'
        BY <1>1, <2>1, <2>2 DEF ModelMissing, outcomeVars, ChatTypes
  <2>4. SameOutcome(r) /\ pc'[r] = "infer" /\ attempt'[r] = attempt[r] + 1
        BY <1>1, <1>2, <2>2 DEF SameOutcome, ChatTypes
  <2> QED BY <1>2, <1>3, <2>3, <2>4, GoesOn
<1>4. CASE ~(attempt[r] < MaxRetries - 1)
  <2>1. Fails(r, "error") /\ UNCHANGED attempt
        BY <1>4 DEF ModelMissing
  <2>2. ChatTypes'
        BY <1>1, <2>1 DEF ModelMissing, Fails, Goto, outcomeVars, ChatTypes, Places, InUse
  <2>3. pc'[r] = "release" /\ failure'[r] = "error"
        BY <1>1, <2>1 DEF Fails, Goto, ChatTypes
  <2> QED BY <1>2, <2>1, <2>2, <2>3, Closes DEF SameText
<1> QED BY <1>3, <1>4

LEMMA InferFailsOK ==
  ASSUME ChatInv, NEW r \in Requests, InferFails(r)
  PROVE  ChatTypes' /\ RequestOK(r)'
<1>1. ChatTypes
      BY DEF ChatInv
<1>2. PICK how \in {"error", "silent"} : Fails(r, how)
      BY ExceptionFacts DEF InferFails
<1>3. /\ pc[r] = "infer" /\ SamePod(r) /\ attempt'[r] = attempt[r] /\ body'[r] = body[r]
      /\ answer'[r] = answer[r] /\ row'[r] = row[r]
      BY <1>1 DEF InferFails, At, outcomeVars, SamePod, SameRoute, ChatTypes
<1>4. ChatTypes' /\ pc'[r] = "release" /\ failure'[r] = how
      BY <1>1, <1>2 DEF InferFails, Fails, Goto, outcomeVars, ChatTypes, Places, InUse
<1> QED BY <1>3, <1>4, Closes

LEMMA PostprocessOK ==
  ASSUME ChatInv, NEW r \in Requests, Postprocess(r)
  PROVE  ChatTypes' /\ RequestOK(r)'
<1>1. ChatTypes /\ RequestOK(r)
      BY DEF ChatInv
<1>2. /\ pc[r] = "postprocess" /\ pc'[r] = "release" /\ SamePod(r) /\ SameOutcome(r)
      /\ attempt'[r] = attempt[r] /\ body'[r] = body[r] /\ stages[r] \subseteq stages'[r]
      BY <1>1 DEF Postprocess, At, Goto, outcomeVars, SamePod, SameRoute, SameOutcome, ChatTypes
<1>3. ChatTypes'
  <2>1. "postprocess" \in StageNames
        BY DEF StageNames
  <2>2. pc' \in [Requests -> Places]
        BY <1>1 DEF Postprocess, Goto, ChatTypes, Places, InUse
  <2> QED BY <1>1, <2>1, <2>2 DEF Postprocess, outcomeVars, ChatTypes
<1>4. "infer" \in stages[r]
      BY <1>1, <1>2 DEF RequestOK, WholeOK
<1> QED BY <1>2, <1>3, <1>4, Closes DEF SameOutcome

-----------------------------------------------------------------------------
(***************************************************************************)
(* Streams, and the finally clause                                          *)
(***************************************************************************)

LEMMA OpenStreamOK ==
  ASSUME ChatInv, NEW r \in Requests, OpenStream(r)
  PROVE  ChatTypes' /\ RequestOK(r)'
<1>1. ChatTypes /\ RequestOK(r)
      BY DEF ChatInv
<1>2. /\ pc[r] = "open" /\ pc'[r] = "streaming" /\ SameText(r) /\ SamePod(r)
      /\ attempt'[r] = attempt[r] /\ failure'[r] = failure[r] /\ row'[r] = row[r] /\ answer'[r] = 200
      BY <1>1 DEF OpenStream, At, Goto, Answer, requestVars, SameText, SamePod, SameRoute, ChatTypes
<1>3. ChatTypes'
  <2>1. active' \in [PodNames -> Nat]
        BY <1>2, MarkType DEF OpenStream, Podless, Unrouted
  <2> QED BY <1>1, <2>1 DEF OpenStream, Goto, Answer, requestVars, ChatTypes, Places, InUse
<1>4. BodyOK(r)' /\ LimitOK(r)'
      BY <1>1, <1>2, BodyKept, LimitKept DEF RequestOK, Unrouted
<1>5. PlaceOK(r)'
      BY <1>1, <1>2, TextKept DEF RequestOK, PlaceOK, SameText, SamePod, Waiting, Podless, Unrouted,
         Streaming
<1>6. OutcomeOK(r)' /\ WholeOK(r)'
      BY <1>1, <1>2 DEF RequestOK, OutcomeOK, WholeOK, Waiting, Podless, Unrouted, Streaming, Closing
<1> QED BY <1>3, <1>4, <1>5, <1>6 DEF RequestOK

LEMMA StreamModelMissingOK ==
  ASSUME ChatInv, NEW r \in Requests, StreamModelMissing(r)
  PROVE  ChatTypes' /\ RequestOK(r)'
<1>1. ChatTypes
      BY DEF ChatInv
<1>2. ChatTypes'
      BY <1>1 DEF StreamModelMissing, Goto, outcomeVars, ChatTypes, Places, InUse
<1> QED BY <1>1, <1>2, GoesOn DEF StreamModelMissing, At, Goto, outcomeVars, SameText, SamePod,
           SameRoute, SameOutcome, ChatTypes

LEMMA EndStreamOK ==
  ASSUME ChatInv, NEW r \in Requests, EndStream(r)
  PROVE  ChatTypes' /\ RequestOK(r)'
<1>1. ChatTypes /\ RequestOK(r)
      BY DEF ChatInv
<1>2. /\ pc[r] \in Streaming /\ pc'[r] = "release" /\ SamePod(r) /\ attempt'[r] = attempt[r]
      /\ body'[r] = body[r] /\ answer'[r] = answer[r] /\ row'[r] = row[r]
      /\ failure'[r] = failure[r] \/ failure'[r] \in {"error", "silent"}
      BY <1>1, ExceptionFacts DEF EndStream, Fails, Goto, outcomeVars, SamePod, SameRoute, Streaming,
         ChatTypes
<1>3. ChatTypes'
      BY <1>1, ExceptionFacts DEF EndStream, Fails, Goto, outcomeVars, ChatTypes, Places, InUse
<1>4. body[r].stream
      BY <1>1, <1>2 DEF RequestOK, PlaceOK
<1> QED BY <1>2, <1>3, <1>4, Closes

LEMMA CutStreamOK ==
  ASSUME ChatInv, NEW r \in Requests, CutStream(r)
  PROVE  ChatTypes' /\ RequestOK(r)'
<1>1. ChatTypes /\ RequestOK(r)
      BY DEF ChatInv
<1>2. /\ pc[r] \in {"open", "record", "streaming", "streaming_primary", "release"} /\ pc'[r] = "cut"
      /\ SameText(r) /\ SamePod(r) /\ SameOutcome(r) /\ attempt'[r] = attempt[r]
      BY <1>1 DEF CutStream, Goto, requestVars, outcomeVars, SameText, SamePod, SameRoute,
         SameOutcome, ChatTypes
<1>3. ChatTypes'
  <2>1. active' \in [PodNames -> Nat]
        BY <1>1, <1>2, MarkType DEF CutStream, Podless, Unrouted, ChatTypes
  <2> QED BY <1>1, <2>1 DEF CutStream, Goto, requestVars, outcomeVars, ChatTypes, Places
<1>4. BodyOK(r)' /\ LimitOK(r)'
      BY <1>1, <1>2, BodyKept, LimitKept DEF RequestOK, Unrouted
<1>5. PlaceOK(r)'
      BY <1>1, <1>2 DEF RequestOK, PlaceOK, SamePod, Waiting, Podless, Unrouted, Streaming
<1>6. OutcomeOK(r)' /\ WholeOK(r)'
      BY <1>1, <1>2 DEF RequestOK, OutcomeOK, WholeOK, SameOutcome, Waiting, Podless, Unrouted,
         Streaming, Closing
<1> QED BY <1>3, <1>4, <1>5, <1>6 DEF RequestOK

LEMMA ReleaseOK ==
  ASSUME ChatInv, NEW r \in Requests, Release(r)
  PROVE  ChatTypes' /\ RequestOK(r)'
<1>1. ChatTypes /\ RequestOK(r)
      BY DEF ChatInv
<1>2. /\ pc[r] = "release" /\ pc'[r] = "record"
      /\ SameText(r) /\ SamePod(r) /\ SameOutcome(r) /\ attempt'[r] = attempt[r]
      BY <1>1 DEF Release, At, Goto, requestVars, outcomeVars, SameText, SamePod, SameRoute,
         SameOutcome, ChatTypes
<1>3. ChatTypes'
  <2>1. active' \in [PodNames -> Nat]
        BY <1>2, MarkType DEF Release, Podless, Unrouted
  <2> QED BY <1>1, <2>1 DEF Release, Goto, requestVars, outcomeVars, ChatTypes, Places
<1>4. BodyOK(r)' /\ LimitOK(r)'
      BY <1>1, <1>2, BodyKept, LimitKept DEF RequestOK, Unrouted
<1>5. PlaceOK(r)' /\ OutcomeOK(r)'
      BY <1>1, <1>2 DEF RequestOK, PlaceOK, OutcomeOK, SamePod, SameOutcome, Waiting, Podless,
         Unrouted, Streaming, Closing
<1>6. WholeOK(r)'
      BY <1>1, <1>2, TextKept DEF RequestOK, WholeOK, SameText, SameOutcome, Closing
<1> QED BY <1>3, <1>4, <1>5, <1>6 DEF RequestOK

LEMMA RecordOK ==
  ASSUME ChatInv, NEW r \in Requests, Record(r)
  PROVE  ChatTypes' /\ RequestOK(r)'
<1>1. ChatTypes /\ RequestOK(r)
      BY DEF ChatInv
<1>2. answer[r] \in {0, 200} /\ RowStatus(r) \in {"ok", "error"} /\ failure[r] \in {"none", "error", "silent"}
      BY <1>1 DEF Record, At, RequestOK, OutcomeOK, RowStatus, ChatTypes
<1>3. /\ pc[r] = "record" /\ pc'[r] = "done" /\ SameText(r) /\ SamePod(r)
      /\ attempt'[r] = attempt[r] /\ failure'[r] = failure[r] /\ row'[r] = RowStatus(r)
      /\ answer'[r] \in {200, 502} /\ (answer'[r] = 502 => failure[r] # "none")
      BY <1>1, <1>2 DEF Record, At, Goto, requestVars, SameText, SamePod, SameRoute, ChatTypes
<1>4. ChatTypes'
  <2>0. PICK cost \in IF RowStatus(r) = "ok" THEN Costs ELSE {0} :
          spent' = [spent EXCEPT ![UserOf[r]] = @ + cost]
        BY DEF Record
  <2>1. cost \in Nat
        BY <2>0, ChatAssumption
  <2>2. spent' \in [Users -> Nat]
        BY <1>1, <2>0, <2>1, ChatAssumption DEF ChatTypes
  <2>3. answer' \in [Requests -> {0, 200, 400, 402, 403, 429, 502, 503}]
        BY <1>1, <1>2 DEF Record, ChatTypes
  <2>4. row' \in [Requests -> {"ok", "error", None}] /\ pc' \in [Requests -> Places]
        BY <1>1, <1>2 DEF Record, Goto, ChatTypes, Places
  <2> QED BY <1>1, <2>2, <2>3, <2>4 DEF Record, requestVars, ChatTypes
<1>5. BodyOK(r)' /\ LimitOK(r)'
      BY <1>1, <1>3, BodyKept, LimitKept DEF RequestOK, Unrouted
<1>6. PlaceOK(r)'
      BY <1>1, <1>3 DEF RequestOK, PlaceOK, SamePod, Waiting, Podless, Unrouted, Streaming
<1>7. OutcomeOK(r)'
      BY <1>3 DEF OutcomeOK, RowStatus, Waiting, Podless, Unrouted, Streaming, Closing
<1>8. WholeOK(r)'
      BY <1>1, <1>3, TextKept DEF RequestOK, WholeOK, SameText, Closing
<1> QED BY <1>4, <1>5, <1>6, <1>7, <1>8 DEF RequestOK

-----------------------------------------------------------------------------
(***************************************************************************)
(* The invariant holds                                                      *)
(***************************************************************************)

LEMMA InitOK == Init => ChatInv
<1> SUFFICES ASSUME Init PROVE ChatInv
    OBVIOUS
<1>1. /\ sent \in [Requests -> Body]
      /\ \A r \in Requests : body[r] = Parse(sent[r]) /\ Parse(sent[r]) \in Body
      BY ParseType, ChatAssumption DEF Init
<1>2. Refuse(0) \in Decision
      BY RefuseType
<1>3. ChatTypes
  <2>1. body \in [Requests -> Body]
        BY <1>1 DEF Init
  <2> QED BY <1>1, <1>2, <2>1 DEF Init, ChatTypes, Places
<1>4. ASSUME NEW r \in Requests PROVE RequestOK(r)
  <2>1. /\ pc[r] = "arriving" /\ pod[r] = None /\ attempt[r] = 0 /\ failure[r] = "none"
        /\ answer[r] = 0 /\ row[r] = None
        BY DEF Init
  <2>2. BodyOK(r)
        BY <1>1, ParseType DEF BodyOK
  <2>3. PlaceOK(r) /\ LimitOK(r)
        BY <2>1 DEF PlaceOK, LimitOK, Waiting, Podless, Unrouted, Streaming
  <2>4. OutcomeOK(r) /\ WholeOK(r)
        BY <2>1 DEF OutcomeOK, WholeOK, Waiting, Podless, Unrouted, Streaming, Closing
  <2> QED BY <2>2, <2>3, <2>4 DEF RequestOK
<1> QED BY <1>3, <1>4 DEF ChatInv

LEMMA StepOK ==
  ASSUME ChatInv, NEW r \in Requests, RequestStep(r) \/ CutStream(r)
  PROVE  ChatInv'
<1>1. ChatTypes' /\ RequestOK(r)'
  <2>1. CASE CheckQuotas(r) \/ RouteRequest(r) \/ CheckBudget(r) \/ Preprocess(r)
        BY <2>1, CheckQuotasOK, RouteRequestOK, CheckBudgetOK, PreprocessOK
  <2>2. CASE Acquire(r) \/ AcquireFails(r) \/ ResolveImages(r) \/ Begin(r)
        BY <2>2, AcquireOK, AcquireFailsOK, ResolveImagesOK, BeginOK
  <2>3. CASE RunStage(r) \/ FinishWorkflow(r)
        BY <2>3, RunStageOK, FinishWorkflowOK
  <2>4. CASE InferOk(r) \/ RateLimited(r) \/ ModelMissing(r) \/ InferFails(r) \/ Postprocess(r)
        BY <2>4, InferOkOK, RateLimitedOK, ModelMissingOK, InferFailsOK, PostprocessOK
  <2>5. CASE OpenStream(r) \/ StreamModelMissing(r) \/ EndStream(r) \/ CutStream(r)
        BY <2>5, OpenStreamOK, StreamModelMissingOK, EndStreamOK, CutStreamOK
  <2>6. CASE Release(r) \/ Record(r)
        BY <2>6, ReleaseOK, RecordOK
  <2> QED BY <2>1, <2>2, <2>3, <2>4, <2>5, <2>6 DEF RequestStep
<1>2. ASSUME NEW s \in Requests \ {r} PROVE RequestOK(s)'
  <2>1. Same(s)
        BY OthersSame DEF ChatInv
  <2> QED BY <2>1, SameKeeps DEF ChatInv
<1> QED BY <1>1, <1>2 DEF ChatInv

LEMMA IdleOK ==
  ASSUME ChatInv, UNCHANGED <<pc, requestVars, outcomeVars, active>>
  PROVE  ChatInv'
<1>1. ChatTypes'
      BY DEF ChatInv, ChatTypes, requestVars, outcomeVars
<1>2. ASSUME NEW r \in Requests PROVE RequestOK(r)'
  <2>1. Same(r)
        BY DEF Same, SameText, SameRoute, SamePod, SameOutcome, requestVars, outcomeVars
  <2> QED BY <2>1, SameKeeps DEF ChatInv
<1> QED BY <1>1, <1>2 DEF ChatInv

LEMMA NextOK == ChatInv /\ [Next]_vars => ChatInv'
<1> SUFFICES ASSUME ChatInv, [Next]_vars PROVE ChatInv'
    OBVIOUS
<1>1. ASSUME NEW r \in Requests, RequestStep(r) \/ CutStream(r) PROVE ChatInv'
      BY <1>1, StepOK
<1>2. CASE SyncPrices \/ UNCHANGED vars
  <2>1. UNCHANGED <<pc, requestVars, outcomeVars, active>>
        BY <1>2 DEF SyncPrices, vars
  <2> QED BY <2>1, IdleOK
<1> QED BY <1>1, <1>2 DEF Next

(***************************************************************************)
(* The inductive invariant: where a request is tells what has become of its *)
(* body, its decision, its attempts, its pod, its answer and its row.       *)
(***************************************************************************)
THEOREM ChatInvHolds == Spec => []ChatInv
BY InitOK, NextOK, PTL DEF Spec

-----------------------------------------------------------------------------
(***************************************************************************)
(* What follows                                                             *)
(***************************************************************************)

(***************************************************************************)
(* Requests, answers, rows, sums and counters of main.py are well typed,    *)
(* for any requests and limits.                                             *)
(***************************************************************************)
THEOREM TypesHold == Spec => []TypeOK
<1>1. ChatInv => TypeOK
  <2> SUFFICES ASSUME ChatInv PROVE TypeOK
      OBVIOUS
  <2>1. ASSUME NEW r \in Requests
        PROVE  decision[r].tier \in Tiers \cup {None} /\ decision[r].cost \in Nat
        BY DEF ChatInv, ChatTypes, Decision
  <2> QED BY <2>1 DEF ChatInv, ChatTypes, TypeOK
<1> QED BY <1>1, ChatInvHolds, PTL

(***************************************************************************)
(* Whatever fails, is retried, or ends early in the attempts and stages of  *)
(* main.py and multi_model.py, what is answered with 200 is an answer: no   *)
(* 404 passes for one, and of a workflow every stage on the pod was done,   *)
(* but for the description of an image, which a default may replace.        *)
(***************************************************************************)
THEOREM AnswersAreWhole == Spec => []AnswerIsWhole
<1>1. ChatInv => AnswerIsWhole
  <2> SUFFICES ASSUME ChatInv, NEW r \in Requests,
                      At(r, "done"), answer[r] = 200, failure[r] = "none"
               PROVE  IF IsWorkflow(r)
                      THEN \/ body[r].model = "visual_html" /\ ~body[r].image
                           \/ \A i \in DOMAIN StagesOf(r) :
                                StagesOf(r)[i] \in stages[r] \cup (missed[r] \ Required)
                      ELSE body[r].stream \/ "infer" \in stages[r]
      BY DEF AnswerIsWhole
  <2> QED BY DEF ChatInv, RequestOK, WholeOK, WorkflowDone, StageDone, Closing, At
<1> QED BY <1>1, ChatInvHolds, PTL

(***************************************************************************)
(* The row that record_request writes says what happened, and is there for  *)
(* every request that got as far as the pod and was not cut.                *)
(***************************************************************************)
THEOREM RowsTellOutcomes == Spec => []RowTellsOutcome
<1>1. ChatInv => RowTellsOutcome
  <2> SUFFICES ASSUME ChatInv, NEW r \in Requests
               PROVE  /\ At(r, "done") <=> row[r] # None
                      /\ row[r] = "error" => failure[r] = "error" /\ answer[r] \in {200, 502}
                      /\ row[r] = "ok" => failure[r] # "error"
                      /\ answer[r] = 502 => failure[r] # "none"
      BY DEF RowTellsOutcome
  <2>1. OutcomeOK(r) /\ None # "ok" /\ None # "error"
        BY ChatAssumption DEF ChatInv, RequestOK
  <2>2. RowStatus(r) # None /\ (RowStatus(r) = "error" <=> failure[r] = "error")
        BY <2>1 DEF RowStatus
  <2> QED BY <2>1, <2>2 DEF OutcomeOK, At, RowStatus
<1> QED BY <1>1, ChatInvHolds, PTL

(***************************************************************************)
(* Whoever gets a pod gets it within the limits: the tiers and the budget   *)
(* of the user, the order of the tiers, the disabled providers.  For any    *)
(* tiers, prices and limits, and whenever the prices change.                *)
(***************************************************************************)
THEOREM LimitsHold == Spec => []ServedWithinLimits
<1>1. ChatInv => ServedWithinLimits
  <2> SUFFICES ASSUME ChatInv, NEW r \in Requests, pod[r] # None
      PROVE  LET u == User(r)
                 t == decision[r].tier
                 routed == ~IsWorkflow(r) /\ sent[r].model # "local"
             IN /\ ~IsWorkflow(r) /\ sent[r].image => t = Vision
                /\ routed => Permits(u, t)
                /\ routed /\ t # Vision /\ ~NamedByClient(r) =>
                     \/ Index[t] <= Index[Candidate(sent[r])]
                     \/ Candidate(sent[r]) = Lowest
                /\ budgeted[r] + decision[r].cost <= u.monthly_budget_usd
                /\ pod[r][2] \notin u.disabled_providers \cup TierOverride[UserOf[r]][t]
      BY DEF ServedWithinLimits
  <2>1. BodyOK(r) /\ Chosen(r) /\ Afforded(r) /\ pod[r][2] \notin Disabled(r)
        BY DEF ChatInv, RequestOK, LimitOK
  <2>2. /\ IsWorkflow(r) <=> sent[r].model \in WorkflowModels
        /\ NamedByClient(r) <=> NamesTier(sent[r])
        BY <2>1 DEF BodyOK, IsWorkflow, NamedByClient, NamesTier, Override
  <2>3. ASSUME ~IsWorkflow(r)
        PROVE  /\ sent[r].image => decision[r].tier = Vision
               /\ sent[r].model # "local" => Permits(User(r), decision[r].tier)
               /\ sent[r].model # "local" /\ decision[r].tier # Vision /\ ~NamedByClient(r) =>
                    NotAbove(decision[r].tier, sent[r])
        BY <2>1, <2>2, <2>3 DEF Chosen, Selected
  <2> QED BY <2>1, <2>3 DEF Afforded, Disabled, NotAbove
<1> QED BY <1>1, ChatInvHolds, PTL

-----------------------------------------------------------------------------
(***************************************************************************)
(* The counters of the pods                                                 *)
(***************************************************************************)
UsesPod(r, p) == pc[r] \in InUse /\ pod[r] = p
Holders(p) == {r \in Requests : UsesPod(r, p)}

LEMMA HoldersFinite ==
  ASSUME NEW p
  PROVE  IsFiniteSet(Holders(p)) /\ Cardinality(Holders(p)) \in Nat
<1>1. IsFiniteSet(Holders(p))
      BY ChatAssumption, FS_Subset DEF Holders
<1> QED BY <1>1, FS_CardinalityType

(* A step that marks no pod *)
LEMMA SlotsKept ==
  ASSUME SlotsReturned, active' = active,
         \A r \in Requests : /\ pc'[r] \in InUse <=> pc[r] \in InUse
                             /\ pc[r] \in InUse => pod'[r] = pod[r]
  PROVE  SlotsReturned'
<1>1. ASSUME NEW p \in PodNames PROVE Holders(p)' = Holders(p)
      BY DEF Holders, UsesPod
<1> QED BY <1>1 DEF SlotsReturned, Holders, UsesPod

LEMMA SlotTaken ==
  ASSUME ChatTypes, SlotsReturned, NEW r \in Requests, pod[r] \in PodNames, Mark(r), pod' = pod,
         pc[r] \notin InUse, pc'[r] \in InUse, \A s \in Requests \ {r} : pc'[s] = pc[s]
  PROVE  SlotsReturned'
<1> DEFINE h == pod[r]
<1>1. /\ active'[h] = active[h] + 1
      /\ \A p \in PodNames \ {h} : active'[p] = active[p]
      BY DEF Mark, ChatTypes
<1>2. Holders(h)' = Holders(h) \cup {r} /\ r \notin Holders(h)
      BY DEF Holders, UsesPod
<1>3. Cardinality(Holders(h)') = Cardinality(Holders(h)) + 1
      BY <1>2, HoldersFinite, FS_AddElement
<1>4. \A p \in PodNames \ {h} : Holders(p)' = Holders(p)
      BY DEF Holders, UsesPod
<1>5. \A p \in PodNames : active[p] = Cardinality(Holders(p))
      BY DEF SlotsReturned, Holders, UsesPod
<1>6. ASSUME NEW p \in PodNames PROVE active'[p] = Cardinality(Holders(p)')
  <2>1. CASE p = h
        BY <1>1, <1>3, <1>5, <2>1
  <2>2. CASE p # h
        BY <1>1, <1>4, <1>5, <2>2
  <2> QED BY <2>1, <2>2
<1> QED BY <1>6 DEF SlotsReturned, Holders, UsesPod

LEMMA SlotReturned ==
  ASSUME ChatTypes, SlotsReturned, NEW r \in Requests, pod[r] \in PodNames, Unmark(r), pod' = pod,
         pc[r] \in InUse, pc'[r] \notin InUse, \A s \in Requests \ {r} : pc'[s] = pc[s]
  PROVE  SlotsReturned'
<1> DEFINE h == pod[r]
<1>1. Holders(h)' = Holders(h) \ {r} /\ r \in Holders(h)
      BY DEF Holders, UsesPod
<1>2. Cardinality(Holders(h)') = Cardinality(Holders(h)) - 1
      BY <1>1, HoldersFinite, FS_RemoveElement
<1>3. Cardinality(Holders(h)) > 0
      BY <1>1, HoldersFinite, FS_EmptySet
<1>4. \A p \in PodNames : active[p] = Cardinality(Holders(p))
      BY DEF SlotsReturned, Holders, UsesPod
<1>5. /\ active'[h] = active[h] - 1
      /\ \A p \in PodNames \ {h} : active'[p] = active[p]
      BY <1>3, <1>4, HoldersFinite DEF Unmark, ChatTypes
<1>6. \A p \in PodNames \ {h} : Holders(p)' = Holders(p)
      BY DEF Holders, UsesPod
<1>7. ASSUME NEW p \in PodNames PROVE active'[p] = Cardinality(Holders(p)')
  <2>1. CASE p = h
        BY <1>2, <1>4, <1>5, <2>1
  <2>2. CASE p # h
        BY <1>4, <1>5, <1>6, <2>2
  <2> QED BY <2>1, <2>2
<1> QED BY <1>7 DEF SlotsReturned, Holders, UsesPod

LEMMA SlotsStep ==
  ASSUME ChatInv, SlotsReturned, NEW r \in Requests, RequestStep(r) \/ CutStream(r)
  PROVE  SlotsReturned'
<1> USE DEF requestVars, outcomeVars
<1>1. ChatTypes /\ PlaceOK(r) /\ pc \in [Requests -> Places]
      BY DEF ChatInv, RequestOK, ChatTypes
<1>2. \A s \in Requests \ {r} : pc'[s] = pc[s] /\ pod'[s] = pod[s]
      BY <1>1, OthersSame DEF Same, SamePod
<1>3. ASSUME UNCHANGED active, pc[r] \in InUse <=> pc'[r] \in InUse,
             pc[r] \in InUse => pod'[r] = pod[r]
      PROVE  SlotsReturned'
      BY <1>2, <1>3, SlotsKept
<1>4. CASE CheckQuotas(r) \/ RouteRequest(r) \/ CheckBudget(r) \/ Preprocess(r)
      BY <1>1, <1>3, <1>4 DEF CheckQuotas, RouteRequest, CheckBudget, Preprocess, At, RefuseWith, Goto,
         InUse
<1>5. CASE Acquire(r) \/ AcquireFails(r) \/ ResolveImages(r)
      BY <1>1, <1>3, <1>5 DEF Acquire, AcquireFails, ResolveImages, At, RefuseWith, Goto, InUse
<1>6. CASE RunStage(r) \/ FinishWorkflow(r)
      BY <1>1, <1>3, <1>6 DEF RunStage, FinishWorkflow, At, Fails, Goto, InUse
<1>7. CASE InferOk(r) \/ RateLimited(r) \/ ModelMissing(r) \/ InferFails(r) \/ Postprocess(r)
      BY <1>1, <1>3, <1>7 DEF InferOk, RateLimited, ModelMissing, InferFails, Postprocess, At, Fails,
         Goto, InUse
<1>8. CASE StreamModelMissing(r) \/ EndStream(r) \/ Record(r)
      BY <1>1, <1>3, <1>8 DEF StreamModelMissing, EndStream, Record, At, Fails, Goto, InUse
<1>9. CASE Begin(r) \/ OpenStream(r)
  <2>1. /\ Mark(r) /\ pod' = pod /\ pc[r] \in {"begin", "open"}
        /\ pc'[r] \in {"workflow", "infer", "streaming"}
        BY <1>1, <1>9 DEF Begin, OpenStream, At, Goto
  <2>2. pod[r] \in PodNames
        BY <1>1, <2>1 DEF PlaceOK, Podless, Unrouted
  <2> QED BY <1>1, <1>2, <2>1, <2>2, SlotTaken DEF InUse
<1>10. CASE Release(r) \/ (CutStream(r) /\ pc[r] \notin {"open", "record"})
  <2>1. /\ Unmark(r) /\ pod' = pod /\ pc[r] \in {"streaming", "streaming_primary", "release"}
        /\ pc'[r] \in {"record", "cut"}
        BY <1>1, <1>10 DEF Release, CutStream, At, Goto
  <2>2. pod[r] \in PodNames
        BY <1>1, <2>1 DEF PlaceOK, Podless, Unrouted
  <2> QED BY <1>1, <1>2, <2>1, <2>2, SlotReturned DEF InUse
<1>11. CASE CutStream(r) /\ pc[r] \in {"open", "record"}
  <2>1. UNCHANGED active
        BY <1>11 DEF CutStream
  <2>2. pc'[r] = "cut" /\ pod' = pod
        BY <1>1, <1>11 DEF CutStream, Goto
  <2> QED BY <1>3, <1>11, <2>1, <2>2 DEF InUse
<1> QED BY <1>4, <1>5, <1>6, <1>7, <1>8, <1>9, <1>10, <1>11 DEF RequestStep

LEMMA SlotsInit == Init => SlotsReturned
<1> SUFFICES ASSUME Init, NEW p \in PodNames PROVE active[p] = Cardinality(Holders(p))
    BY DEF SlotsReturned, Holders, UsesPod
<1>1. Holders(p) = {}
      BY DEF Init, Holders, UsesPod, InUse
<1> QED BY <1>1, FS_EmptySet DEF Init

(***************************************************************************)
(* mark_active and release keep the counters of the pods equal to the       *)
(* requests on them, for any number of requests and pods, whatever fails,   *)
(* is retried or is left by its client.                                     *)
(***************************************************************************)
THEOREM SlotsAreReturned == Spec => []SlotsReturned
<1>1. ChatInv /\ SlotsReturned /\ [Next]_vars => SlotsReturned'
  <2> SUFFICES ASSUME ChatInv, SlotsReturned, [Next]_vars PROVE SlotsReturned'
      OBVIOUS
  <2>1. ASSUME NEW r \in Requests, RequestStep(r) \/ CutStream(r) PROVE SlotsReturned'
        BY <2>1, SlotsStep
  <2>2. CASE SyncPrices \/ UNCHANGED vars
    <3>1. UNCHANGED <<pc, pod, active>>
          BY <2>2 DEF SyncPrices, vars, requestVars
    <3> QED BY <3>1, SlotsKept
  <2> QED BY <2>1, <2>2 DEF Next
<1> QED BY <1>1, SlotsInit, ChatInvHolds, PTL DEF Spec
=============================================================================
