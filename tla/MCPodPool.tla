------------------------------ MODULE MCPodPool ------------------------------
(***************************************************************************)
(* Small instances of PodPool.                                             *)
(***************************************************************************)
EXTENDS PodPoolRefinement, TLC

CONSTANTS w1, w2, r1, r2

\* Placement of the requests
OneWorker == [r \in Requests |-> w1]
Spread    == [r \in Requests |-> IF r = r2 THEN w2 ELSE w1]

\* Providers
RunPodKind == [v \in {"runpod"} |-> "pod"]
MixedKind == ("local" :> "local") @@ ("together_dedicated" :> "dedicated") @@ ("groq" :> "api")

RankIn(order) == [r \in Requests |-> order]
RunPodRank == RankIn("runpod" :> 1)
MixedRank == RankIn(("local" :> 1) @@ ("together_dedicated" :> 2) @@ ("groq" :> 3))

\* What requests ask for
NoOverride == [r \in Requests |-> None]
AskForGroq == [r \in Requests |-> IF r = r2 THEN "groq" ELSE None]
NoneDisabled == [r \in Requests |-> {}]
==============================================================================
