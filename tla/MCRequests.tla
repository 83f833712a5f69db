----------------------------- MODULE MCRequests -----------------------------
(* Instances of Requests for TLC.                                            *)
EXTENDS Requests

(* All invoices are invoices of one subscription.                            *)
OneOrder == [p \in Purchases |-> "order"]
=============================================================================
