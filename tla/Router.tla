-------------------------------- MODULE Router --------------------------------
(***************************************************************************)
(* Tier selection: select_tier of bridge/router.py and its helpers.  The    *)
(* function has no await and no state of its own; what it depends on - the  *)
(* request, the user, the prices and the month's spending - are arguments.  *)
(*                                                                          *)
(* A request q is a record:                                                 *)
(*   model, header, hint   tiers named by the model field ("auto", "local"  *)
(*                         or a tier), by X-Tier or ?tier=, in the prompt   *)
(*   pin                   the provider of a model "tier:provider"          *)
(*   tokens, files         estimated prompt tokens, files_referenced        *)
(*   keywords              tiers with a keyword in the last user message    *)
(*   image                 whether a message has an image_url part          *)
(*   downstream            whether it has the field downstream_model        *)
(* and a user u a record with the fields allowed_tiers, preferred_tiers (a  *)
(* set, {} for None or an empty list) and monthly_budget_usd.               *)
(***************************************************************************)
EXTENDS Integers, Sequences

CONSTANTS
  TierOrder,       \* TIER_ORDER, from the least tier to the greatest
  Vision,          \* the tier outside the order, whether or not tiers.yaml has it
  Configured,      \* _TIERS
  HintTiers,       \* the tiers that _TIER_HINT_RE knows
  MaxPromptTokens, \* routing_signals.max_prompt_tokens of each tier
  MaxFiles,        \* routing_signals.max_files of each tier
  IdleTimeout,     \* idle_timeout_sec of each tier
  PodProvidersActive, \* _pod_providers_active()
  GpuPreference,   \* TIER_GPU_PREFERENCE of each tier
  VramRequired,    \* TIER_VRAM_REQUIRED of each tier, 8 by default
  None

Ordered == {TierOrder[i] : i \in DOMAIN TierOrder}
Tiers == Ordered \cup {Vision}

ASSUME RouterAssumption ==
  /\ TierOrder \in Seq(STRING) /\ Len(TierOrder) > 0
  /\ \A i, j \in DOMAIN TierOrder : TierOrder[i] = TierOrder[j] => i = j
  /\ Vision \notin Ordered
  /\ Ordered \subseteq Configured /\ Configured \subseteq Tiers
  /\ HintTiers \subseteq Ordered
  /\ MaxPromptTokens \in [Ordered -> Nat]
  /\ MaxFiles \in [Ordered -> Nat]
  /\ IdleTimeout \in [Tiers -> Nat]
  /\ PodProvidersActive \in BOOLEAN
  /\ GpuPreference \in [Tiers -> Seq(STRING)]

Index == [t \in Ordered |-> CHOOSE i \in DOMAIN TierOrder : TierOrder[i] = t]
Lowest == TierOrder[1]
LowestOf(S) == CHOOSE t \in S : \A s \in S : Index[t] <= Index[s]
HighestOf(S) == CHOOSE t \in S : \A s \in S : Index[s] <= Index[t]

-----------------------------------------------------------------------------
(***************************************************************************)
(* Prices                                                                   *)
(***************************************************************************)

\* What one provider asks for a GPU: the price of its first available offer of it that has
\* enough memory.  Offers are records, listed per provider.
Asks(t, offers, gpu) ==
  LET fits == {i \in DOMAIN offers : /\ offers[i].available /\ offers[i].gpu = gpu
                                     /\ offers[i].vram >= VramRequired[t]}
  IN IF fits = {} THEN None ELSE offers[CHOOSE i \in fits : \A j \in fits : i <= j].price

\* The best price after one more provider: of the tier's GPUs, in the order of preference,
\* the first that this provider has for less.
Better(t, offers, best) ==
  LET price(i) == Asks(t, offers, GpuPreference[t][i])
      less == {i \in DOMAIN GpuPreference[t] :
                 price(i) # None /\ (best = None \/ price(i) < best)}
  IN IF less = {} THEN best ELSE price(CHOOSE i \in less : \A j \in less : i <= j)

BestOffer(t, offers, providers) ==
  LET best[n \in 0 .. Len(providers)] ==
        IF n = 0 THEN None ELSE Better(t, offers[providers[n]], best[n - 1])
  IN best[Len(providers)]

\* refresh_tier_prices: a tier without a match keeps its price of tiers.yaml.
Refreshed(price, offers, providers) ==
  [t \in Configured |->
     LET best == BestOffer(t, offers, providers) IN IF best = None THEN price[t] ELSE best]

\* _projected_cost: 5 s of latency and 1.5 s for each 1000 tokens, and the idle timeout,
\* at the hourly price; counted here in half seconds.
ProjectedCost(price, t, tokens) ==
  IF PodProvidersActive THEN (10 + 3 * tokens + 2 * IdleTimeout[t]) * price[t] ELSE 0

-----------------------------------------------------------------------------
(***************************************************************************)
(* Signals                                                                  *)
(***************************************************************************)

\* _allowed_tiers: {} means that the user is not restricted.
Allowed(u) ==
  IF u.allowed_tiers # {} /\ u.preferred_tiers # {}
  THEN LET merged == u.preferred_tiers \cap u.allowed_tiers
       IN IF merged # {} THEN merged ELSE u.allowed_tiers
  ELSE u.preferred_tiers \cup u.allowed_tiers

Permits(u, t) == Allowed(u) = {} \/ t \in Allowed(u)

\* _min_tier_for_tokens and _min_tier_for_files
MinTier(limit, n) ==
  LET enough == {t \in Ordered : n <= limit[t]}
  IN IF enough = {} THEN HighestOf(Ordered) ELSE LowestOf(enough)

\* _keyword_tier, with the default of its caller
KeywordTier(q) == HighestOf(q.keywords \cup {Lowest})

Candidate(q) ==
  HighestOf({MinTier(MaxPromptTokens, q.tokens), MinTier(MaxFiles, q.files), KeywordTier(q)})

\* The tiers of TIER_ORDER[index - 1::-1], which are tried from the highest down.  For the
\* lowest tier the slice starts at -1: it is the whole list.
Downgrades(c) ==
  IF c = Lowest THEN Ordered ELSE {t \in Ordered : Index[t] < Index[c]}

-----------------------------------------------------------------------------
(***************************************************************************)
(* select_tier                                                              *)
(***************************************************************************)

Route(t, provider, cost) == [status |-> 200, tier |-> t, provider |-> provider, cost |-> cost]
Refuse(status) == [status |-> status, tier |-> None, provider |-> None, cost |-> 0]

\* requires_non_vision_model
RequiresNonVision(q) == q.downstream

RouteVision(q, u, price) ==
  IF Vision \in Configured /\ Permits(u, Vision)
  THEN Route(Vision, None, ProjectedCost(price, Vision, q.tokens))
  ELSE Refuse(503)

\* A tier the client names, by override or hint: the budget is not looked at.
RouteNamed(t, provider, q, u, price) ==
  IF Permits(u, t) THEN Route(t, provider, ProjectedCost(price, t, q.tokens)) ELSE Refuse(403)

\* The budget gate: the candidate, or else the highest downgrade that is allowed and that
\* what is left of the budget pays for.
RouteBySignals(q, u, price, remaining) ==
  LET c == Candidate(q)
      candidates == {t \in {c} \cup Downgrades(c) : Permits(u, t)}
      affordable == {t \in candidates : ProjectedCost(price, t, q.tokens) <= remaining}
  IN IF candidates = {} THEN Refuse(403)
     ELSE IF affordable = {} THEN Refuse(402)
     ELSE LET t == IF c \in affordable THEN c ELSE HighestOf(affordable)
          IN Route(t, None, ProjectedCost(price, t, q.tokens))

\* X-Tier or ?tier=, or a model that is a tier; a name that is not in TIER_ORDER is ignored.
Override(q) ==
  IF q.header # None THEN (IF q.header \in Ordered THEN q.header ELSE None)
  ELSE IF q.model \in Ordered THEN q.model ELSE None

SelectTier(q, u, price, spent) ==
  IF q.image /\ ~RequiresNonVision(q) THEN RouteVision(q, u, price)
  ELSE IF q.model = "local" THEN Route(Lowest, "local", 0)
  ELSE IF Override(q) # None THEN RouteNamed(Override(q), q.pin, q, u, price)
  ELSE IF q.hint \in HintTiers THEN RouteNamed(q.hint, None, q, u, price)
  ELSE RouteBySignals(q, u, price, u.monthly_budget_usd - spent)
===============================================================================
