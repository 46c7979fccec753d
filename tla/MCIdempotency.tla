----------------------------- MODULE MCIdempotency -----------------------------
(* Four requests with one key: three retries of one call, and one other.   *)
EXTENDS Idempotency

CONSTANTS r1, r2, r3, r4

OneStranger == [r \in Requests |-> IF r = r4 THEN "other" ELSE "same"]
================================================================================
