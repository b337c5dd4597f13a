-------------------------- MODULE PodPoolRefinement --------------------------
(***************************************************************************)
(* The pod pool implements PodLifecycle.  A pod that is being launched      *)
(* counts as such whatever an operator writes into its row meanwhile, and a *)
(* row that its launcher has abandoned counts as retired.                   *)
(***************************************************************************)
EXTENDS PodPool

PhaseOf(p) ==
  IF Launching(p) THEN "launching"
  ELSE CASE row[p].status = "none"  -> "absent"
         [] row[p].status = "ready" -> "serving"
         [] OTHER                   -> "retired"

Phase == [p \in Pods |-> PhaseOf(p)]

Lifecycle == INSTANCE PodLifecycle WITH
  phase     <- Phase,
  given     <- handle,
  Stateless <- {p \in Pods : Kind[p[2]] = "api"}

(***************************************************************************)
(* For all its interleavings, the pool keeps the life of every pod: no      *)
(* launch is published twice, nothing that was retired serves again, a      *)
(* request gets one pod, and gets it while it serves (bridge/              *)
(* instance_manager.py:34-35, the state machine per pod).                   *)
(***************************************************************************)
ImplementsLifecycle == Lifecycle!Spec

(***************************************************************************)
(* What the step by step correspondence needs beyond PodInv: a request has  *)
(* a handle exactly when it was given one, a pod nobody has tried has no    *)
(* row and one in launch has, and the tasks that write a row by its id have *)
(* seen it.                                                                 *)
(***************************************************************************)
HandleExact ==
  \A r \in Requests : handle[r] # None <=> pc[r] \in HandleLocs \cup {"dropped"}

RowExact ==
  \A p \in Pods :
    /\ Kind[p[2]] # "api" /\ Fresh(p) => row[p].status = "none"
    /\ Launching(p) => row[p].status # "none"

TasksSawRow ==
  /\ \A p \in Pods : failing[p] = "found" => row[p].status # "none"
  /\ \A w \in Workers :
       /\ \A p \in probing[w] : row[p].status # "none"
       /\ verdict[w] # None => row[verdict[w][1]].status # "none"

LifecycleInv == HandleExact /\ RowExact /\ TasksSawRow
==============================================================================
