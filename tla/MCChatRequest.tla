---------------------------- MODULE MCChatRequest ----------------------------
(***************************************************************************)
(* Instances of ChatRequest.  Tiers, limits and prices are those of         *)
(* config/tiers.yaml; tokens are counted in thousands and prices in cents.  *)
(***************************************************************************)
EXTENDS ChatRequest, TLC

CONSTANTS r1, r2, free, strict

AllTiers == <<"simple", "mid", "architecture", "maximum", "ultra">>
AllConfigured == {"simple", "mid", "architecture", "maximum", "ultra", "vision"}
TokenLimits == [simple |-> 8, mid |-> 16, architecture |-> 24, maximum |-> 60, ultra |-> 130]
FileLimits == [simple |-> 3, mid |-> 10, architecture |-> 20, maximum |-> 75, ultra |-> 999]
IdleTimeouts == [simple |-> 300, mid |-> 300, architecture |-> 600, maximum |-> 600,
                 ultra |-> 600, vision |-> 300]
Prices == [simple |-> 69, mid |-> 69, architecture |-> 69, maximum |-> 114, ultra |-> 189,
           vision |-> 69]
Preferences == [simple |-> <<"4090", "a40">>, mid |-> <<>>, architecture |-> <<"4090", "a40">>,
                maximum |-> <<"l40s", "a40">>, ultra |-> <<"h100">>, vision |-> <<"4090">>]
Vram == [simple |-> 8, mid |-> 8, architecture |-> 20, maximum |-> 38, ultra |-> 50, vision |-> 10]

AnOffer(gpu, vram, cost) == [gpu |-> gpu, vram |-> vram, price |-> cost, available |-> TRUE]
MarketOffers == [runpod |-> <<AnOffer("4090", 24, 34), AnOffer("a40", 48, 40)>>,
                 vast   |-> <<AnOffer("4090", 24, 50), AnOffer("a40", 48, 30), AnOffer("h100", 80, 250)>>]
MarketOrder == <<"runpod", "vast">>

Plain == [model |-> "auto", header |-> None, hint |-> None, pin |-> None, tokens |-> 1,
          files |-> 0, keywords |-> {}, image |-> FALSE, image_last |-> FALSE,
          downstream |-> FALSE, stream |-> FALSE, pipeline |-> {"infer"}, tools |-> FALSE]

\* Requests routed by their content
Routed ==
  {Plain,
   [Plain EXCEPT !.tokens = 20],
   [Plain EXCEPT !.keywords = {"maximum"}, !.stream = TRUE],
   [Plain EXCEPT !.files = 5, !.pipeline = {"preprocess", "infer", "postprocess"}]}

\* Requests that name their tier, or have an image
Named ==
  {[Plain EXCEPT !.header = "architecture", !.stream = TRUE],
   [Plain EXCEPT !.model = "ultra"],
   [Plain EXCEPT !.model = "mid", !.pin = "groq", !.tools = TRUE],
   [Plain EXCEPT !.hint = "architecture", !.header = "bogus"],
   [Plain EXCEPT !.model = "local"],
   [Plain EXCEPT !.image = TRUE, !.image_last = TRUE, !.pipeline = {"preprocess", "infer"}],
   [Plain EXCEPT !.image = TRUE, !.downstream = TRUE, !.header = "simple"]}

Flows == {[Plain EXCEPT !.model = m, !.image = i] : m \in WorkflowModels, i \in BOOLEAN}

AllBodies == Routed \cup Named \cup {b \in Flows : b.image => b.model = "visual_html"}

OneEach == (r1 :> free @@ r2 :> strict)

Profiles ==
  (free   :> [allowed_tiers |-> {}, preferred_tiers |-> {}, monthly_budget_usd |-> 120000,
              disabled_providers |-> {}, pipeline_default |-> {"infer"}]) @@
  (strict :> [allowed_tiers |-> {"simple", "mid", "ultra"}, preferred_tiers |-> {"mid", "ultra", "maximum"},
              monthly_budget_usd |-> 60000, disabled_providers |-> {"runpod"},
              pipeline_default |-> {"infer"}])

Overrides ==
  [u \in Users |-> [t \in Tiers |-> IF u = strict /\ t = "mid" THEN {"groq"} ELSE {}]]
===============================================================================
