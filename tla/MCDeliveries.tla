------------------------------ MODULE MCDeliveries -----------------------------
(* One delivery of one document, through two relay replicas.               *)
EXTENDS Deliveries

OneDocument == [d \in Events |-> "quote"]
================================================================================
