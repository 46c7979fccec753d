-------------------------------- MODULE MCOutbox -------------------------------
(* Two events, two replicas, and the limits of the code scaled down.       *)
EXTENDS Outbox
================================================================================
