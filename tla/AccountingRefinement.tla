------------------------- MODULE AccountingRefinement -------------------------
(***************************************************************************)
(* In serial use Accounting implements Ledger: the five to ten round trips  *)
(* of a request are one entry of the books or none.                         *)
(***************************************************************************)
EXTENDS Accounting

Credited == {o \in CreditOps : pc[o] = "done"}

Books == INSTANCE Ledger WITH
  entries <- ledger,
  alerts  <- alertRows,
  credits <- Credited

(***************************************************************************)
(* What a request has read of spending, balance and alerts before its       *)
(* inference is what the books say when its row is written (quota.py,       *)
(* cost_tracker.py), so that row, charge and alerts are those of one atomic *)
(* entry, and a credit adds to what is there (llm_ctl.py:485).              *)
(***************************************************************************)
ImplementsLedger == Books!Spec

(***************************************************************************)
(* What the step by step correspondence needs beyond SerialInv: the sum     *)
(* checked is still the sum, an alert about to be written is due, and       *)
(* whoever is recorded was served.                                          *)
(***************************************************************************)
SpentSeen ==
  \A r \in Requests :
    pc[r] \in {"alerts", "persist", "mark", "acquire", "infer", "record_ok", "record_error"}
    => seen[r] = spent

AlertDue == \A r \in Requests : pc[r] = "persist" => Reached(seen[r], Thresholds[at[r]])

RecordServed ==
  \A r \in Requests : pc[r] \in {"infer", "record_ok", "record_error"} => r \in served

LedgerInv == SpentSeen /\ AlertDue /\ RecordServed
===============================================================================
