----------------------------- MODULE PodLifecycle -----------------------------
(***************************************************************************)
(* What the pod pool promises: the life of each pod and who is given it,    *)
(* without workers, locks, tasks or a table.  A pod is launched once,       *)
(* serves once and is retired once; a request is given at most one pod, and *)
(* only one that serves.  Stateless pods stand for API providers, which     *)
(* come and go and can be given at any time.                                *)
(***************************************************************************)
CONSTANTS Pods, Stateless, Requests, Workers, None

VARIABLES
  phase,   \* of each pod
  given,   \* the pod each request was given, or None
  reaped   \* workers that have reaped the pod

vars == <<phase, given, reaped>>

Phases == {"absent", "launching", "serving", "retired"}

TypeOK ==
  /\ phase \in [Pods -> Phases]
  /\ given \in [Requests -> Pods \cup {None}]
  /\ reaped \in [Pods -> SUBSET Workers]

Init ==
  /\ phase = [p \in Pods |-> "absent"]
  /\ given = [r \in Requests |-> None]
  /\ reaped = [p \in Pods |-> {}]

Become(p, from, to) ==
  /\ phase[p] \in from
  /\ phase' = [phase EXCEPT ![p] = to]

GiveTo(r, p) ==
  /\ given[r] = None
  /\ given' = [given EXCEPT ![r] = p]

Begin(p)   == p \notin Stateless /\ Become(p, {"absent"}, "launching") /\ UNCHANGED <<given, reaped>>
GiveUp(p)  == Become(p, {"launching"}, "retired") /\ UNCHANGED <<given, reaped>>
Retire(p)  == Become(p, {"serving"}, "retired") /\ UNCHANGED <<given, reaped>>

\* The launcher is the first to be given its pod.
Publish(r, p) == Become(p, {"launching"}, "serving") /\ GiveTo(r, p) /\ UNCHANGED reaped

Hand(r, p) == phase[p] = "serving" /\ GiveTo(r, p) /\ UNCHANGED <<phase, reaped>>

\* A worker reaps a pod that serves: at most once, but for a stateless pod.
Reap(w, p) ==
  /\ Become(p, {"serving"}, "retired")
  /\ reaped' = [reaped EXCEPT ![p] = @ \cup {w}]
  /\ UNCHANGED given

\* A stateless pod is given in any phase, and may be (re)opened for it.
Open(r, p) ==
  /\ p \in Stateless
  /\ phase' \in {phase, [phase EXCEPT ![p] = "serving"]}
  /\ GiveTo(r, p)
  /\ UNCHANGED reaped

Next ==
  \E p \in Pods :
    \/ Begin(p) \/ GiveUp(p) \/ Retire(p)
    \/ \E r \in Requests : Publish(r, p) \/ Hand(r, p) \/ Open(r, p)
    \/ \E w \in Workers : Reap(w, p)

Spec == Init /\ [][Next]_vars
==============================================================================
