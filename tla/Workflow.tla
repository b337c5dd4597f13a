------------------------------- MODULE Workflow -------------------------------
(***************************************************************************)
(* The workflow models and the preprocessing pipeline of                    *)
(* bridge/multi_model.py: which stages a request goes through, and what may *)
(* become of each.  The stages of one request run one after the other in    *)
(* the coroutine that serves it (module ChatRequest).                       *)
(***************************************************************************)
EXTENDS Naturals, Sequences

(***************************************************************************)
(* The handlers of WorkflowOrchestrator, by the names they append to        *)
(* meta["stages"].                                                          *)
(***************************************************************************)

\* _optimize_and_execute: what optimize_prompt returns is looked up under another key than
\* it is told to use (lines 107 and 267), so the second stage gets the user's own words.
OptimizeAndExecute == <<"optimize", "execute">>

\* _code_review
CodeReview == <<"categorize", "review", "summarize">>

\* _refactoring
Refactoring == <<"analyze", "plan", "validate", "implement">>

\* _architecture_design
ArchitectureDesign == <<"parse_requirements", "design", "checklist", "implementation_details">>

\* _visual_html
VisualHtml == <<"extract_image", "describe", "generate_html">>

\* WORKFLOW_MODELS.  llm-smart names no tier, and nothing looks at its suggested_tier: the
\* caller's default applies.
Workflow ==
  [smart       |-> [tier |-> "simple",       stages |-> OptimizeAndExecute],
   code_review |-> [tier |-> "architecture", stages |-> CodeReview],
   refactor    |-> [tier |-> "architecture", stages |-> Refactoring],
   arch_design |-> [tier |-> "maximum",      stages |-> ArchitectureDesign],
   visual_html |-> [tier |-> "vision",       stages |-> VisualHtml]]

WorkflowModels == DOMAIN Workflow

\* Stages that _gpu_call sends to the pod.
OnPod == {"execute", "review", "plan", "implement", "design", "implementation_details", "describe"}

\* All of them but one have no try around them.  When describe fails, "An image provided by
\* the user." is the description.
Required == OnPod \ {"describe"}

\* Stages that ask the local model for a JSON object, which the next stage reads outside
\* the try: JSON that is not an object, or not of the right shape, is fatal there.
Parsed == {"categorize", "analyze", "parse_requirements"}

(***************************************************************************)
(* What may become of a stage: "done"; "missed", when its try catches the   *)
(* failure, meta["errors"] gets a line and a default takes its place;       *)
(* "fatal", when the exception leaves the handler; "no_image", when the     *)
(* handler answers at once that there is nothing to show.                   *)
(***************************************************************************)

\* _gpu_call, _local_call and _extract_image_data, with the try around each
Outcomes(stage, image) ==
  IF stage \in Required THEN {"done", "fatal"}
  ELSE IF stage \in Parsed THEN {"done", "missed", "fatal"}
  ELSE IF stage = "extract_image" THEN (IF image THEN {"done", "fatal"} ELSE {"no_image"})
  ELSE {"done", "missed"}

(***************************************************************************)
(* run_pipeline, for all other models.  A structured prompt takes the place *)
(* of the last user message, with the images that were in it.  A failure or *)
(* an output without the key leaves the request as it is.                   *)
(***************************************************************************)
Preprocessed(q) == [q EXCEPT !.image = q.image /\ ~q.image_last]

\* The stages that chat_completions hands to it.
EffectivePipeline(q, default, preprocess_enabled) ==
  LET chosen == IF q.pipeline # {} THEN q.pipeline ELSE default
  IN IF preprocess_enabled THEN chosen ELSE chosen \ {"preprocess"}
===============================================================================
