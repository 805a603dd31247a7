----------------------------- MODULE MCIntake -----------------------------
(* Instances of Intake for TLC.                                            *)
EXTENDS Intake, TLC

(* Rows are told apart by nothing but their contents.                       *)
Symmetries == Permutations(Shift) \cup Permutations(Recipient) \cup Permutations(Request)

(* "Step 8: Get or create/update recipient" (order_service.py:207): served  *)
(* one at a time, intakes share the row of their recipient.                 *)
OneRowPerRecipient == Cardinality(Rows) <= 1
=============================================================================
