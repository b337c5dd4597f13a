------------------------------ MODULE MCBilling ------------------------------
(* Instances of Billing for TLC. *)
EXTENDS Billing, TLC

CONSTANTS u1, u2, r1, r2, r3, b1, b2

MCUserOf == [r \in {r1, r2, r3} |-> IF r = r3 THEN u2 ELSE u1]
MCCostOf == [r \in {r1, r2, r3} |-> IF r = r2 THEN 2 ELSE 1]
RunSymmetry == Permutations({b1, b2})

=============================================================================
