------------------------------- MODULE MCFleet -------------------------------
(* Instances of Fleet for TLC. *)
EXTENDS Fleet

CONSTANTS w1, w2, rp, own, vast, tog, loc

MCWorkerOf == [p \in {rp, own, vast, tog, loc} |-> IF p \in {rp, vast, loc} THEN w1 ELSE w2]
MCAdapter == [p \in {rp, own, vast, tog, loc} |->
  CASE p \in {rp, own} -> "runpod" [] p = vast -> "vast" [] p = tog -> "together" [] p = loc -> "local"]
MCOwnKey == [p \in {rp, own, vast, tog, loc} |-> p = own]

=============================================================================
