----------------------------- MODULE MCIngestion -----------------------------
(* Values for model-checking Ingestion: two accounts, ids that may arrive   *)
(* in any order, a refund and an amount of zero.                            *)
EXTENDS Ingestion

Payments ==
  { [txn_id |-> 1, account_number |-> "A", amount |-> 1],
    [txn_id |-> 2, account_number |-> "A", amount |-> 1],
    [txn_id |-> 3, account_number |-> "A", amount |-> 10],
    [txn_id |-> 4, account_number |-> "A", amount |-> 1],
    [txn_id |-> 5, account_number |-> "B", amount |-> -1],
    [txn_id |-> 6, account_number |-> "B", amount |-> 0] }

=============================================================================
