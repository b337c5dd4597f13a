SPECIFICATION Spec
CONSTANTS
  r1 = r1
  r2 = r2
  free = free
  strict = strict
  None = None
  TierOrder <- AllTiers
  Vision = "vision"
  Configured <- AllConfigured
  HintTiers = {"simple", "architecture", "maximum", "ultra"}
  MaxPromptTokens <- TokenLimits
  MaxFiles <- FileLimits
  IdleTimeout <- IdleTimeouts
  PodProvidersActive = TRUE
  GpuPreference <- Preferences
  VramRequired <- Vram
  Requests = {r1, r2}
  Bodies <- AllBodies
  Users = {free, strict}
  UserOf <- OneEach
  Profile <- Profiles
  TierOverride <- Overrides
  Providers = {"runpod", "groq"}
  Ollama = {"runpod"}
  SeesImages = {"runpod"}
  ModelNoTools = {"architecture"}
  LocalPreprocess = TRUE
  ListPrice <- Prices
  Offers <- MarketOffers
  OfferOrder <- MarketOrder
  Costs = {0, 50000}
  Timeouts = TRUE
INVARIANTS TypeOK SlotsReturned AnswerIsWhole RowTellsOutcome ServedWithinLimits
CHECK_DEADLOCK FALSE
