---------------------------- MODULE MCAccounting ----------------------------
(***************************************************************************)
(* Small instances of Accounting.                                          *)
(***************************************************************************)
EXTENDS AccountingRefinement, TLC

CONSTANTS r1, r2, r3, r4, o1, k1

\* Idempotency keys: none, or r1 repeated as r2 by a client that retries
NoKeys  == [r \in Requests |-> None]
RetryKeys == [r \in Requests |-> IF r \in {r1, r2} THEN k1 ELSE None]

OneToken == [r \in Requests |-> 1]

\* settings.alert_percents_list: low enough for a user within the budget to reach both
TwoThresholds == <<25, 50>>
=============================================================================
