------------------------------ MODULE Idempotency ------------------------------
(***************************************************************************)
(* IdempotencyInterceptor: the requests of one user to one route with one  *)
(* Idempotency-Key, and the Redis key they share.  A request claims the    *)
(* key (SET NX), runs its handler, and stores its success (SET XX) or      *)
(* releases the key (DEL); one that finds the key taken replays what is    *)
(* stored, or is refused.  Neither XX nor DEL looks at whose claim it is.  *)
(***************************************************************************)
EXTENDS Naturals, FiniteSets

CONSTANTS
  Requests,      \* the requests that carry the key
  Bodies,
  BodyOf,        \* the body (its hash) of each request
  NoRequest,
  MaxExpiries,   \* bound: the key expires, or is evicted, so many times
  MaxUnheard     \* bound: so many answers of a COMMIT are lost

ASSUME IdempotencyAssumption ==
  /\ IsFiniteSet(Requests)
  /\ BodyOf \in [Requests -> Bodies]
  /\ NoRequest \notin Requests
  /\ MaxExpiries \in Nat
  /\ MaxUnheard \in Nat

VARIABLES
  key,       \* the record under the Redis key, and whose request wrote it
  at,        \* per request, where it is
  executed,  \* the requests whose transaction has committed
  replayed,  \* per request, the request whose answer it replayed
  expired,   \* how often the key expired or was evicted
  unheard    \* how often a handler threw although it had committed

vars == <<key, at, executed, replayed, expired, unheard>>

NoKey == [state |-> "none", by |-> NoRequest]
Record(state, r) == [state |-> state, by |-> r]

Places ==
  {"new", "claiming", "running", "committed", "thrown", "answered", "replayed",
   "in_flight", "key_reused", "error", "dead"}

TypeOK ==
  /\ key \in {NoKey} \union [state : {"pending", "stored"}, by : Requests]
  /\ at \in [Requests -> Places]
  /\ executed \in SUBSET Requests
  /\ replayed \in [Requests -> Requests \union {NoRequest}]
  /\ expired \in Nat
  /\ unheard \in Nat

Init ==
  /\ key = NoKey
  /\ at = [r \in Requests |-> "new"]
  /\ executed = {}
  /\ replayed = [r \in Requests |-> NoRequest]
  /\ expired = 0
  /\ unheard = 0

Goes(r, from, to) == at[r] = from /\ at' = [at EXCEPT ![r] = to]

--------------------------------------------------------------------------------

(* SET key pending NX: the winner runs its handler.                        *)
Claim(r) ==
  /\ key = NoKey
  /\ key' = Record("pending", r)
  /\ Goes(r, "new", "running")
  /\ UNCHANGED <<executed, replayed, expired, unheard>>

(* NX fails: the request goes on to GET the key.                           *)
ClaimTaken(r) ==
  /\ key # NoKey
  /\ Goes(r, "new", "claiming")
  /\ UNCHANGED <<key, executed, replayed, expired, unheard>>

(* The SET throws; Redis may have taken it all the same.                   *)
ClaimThrows(r) ==
  /\ Goes(r, "new", "error")
  /\ UNCHANGED key \/ (key = NoKey /\ key' = Record("pending", r))
  /\ UNCHANGED <<executed, replayed, expired, unheard>>

(* Mutant: the record is not bound to the body of the request.             *)
SameBodyUnchecked(r) == TRUE

SameBody(r) == BodyOf[key.by] = BodyOf[r]

(* replay, with what GET finds by then: the success of a request with the  *)
(* same body, or one of two refusals.                                      *)
Replay(r) ==
  /\ key.state = "stored" /\ SameBody(r)
  /\ Goes(r, "claiming", "replayed")
  /\ replayed' = [replayed EXCEPT ![r] = key.by]
  /\ UNCHANGED <<key, executed, expired, unheard>>

RefuseReused(r) ==
  /\ key # NoKey /\ ~ SameBody(r)
  /\ Goes(r, "claiming", "key_reused")
  /\ UNCHANGED <<key, executed, replayed, expired, unheard>>

RefuseInFlight(r) ==
  /\ key = NoKey \/ (key.state = "pending" /\ SameBody(r))
  /\ Goes(r, "claiming", "in_flight")
  /\ UNCHANGED <<key, executed, replayed, expired, unheard>>

--------------------------------------------------------------------------------

(* The handler returns: its transaction has committed.                     *)
Commit(r) ==
  /\ Goes(r, "running", "committed")
  /\ executed' = executed \union {r}
  /\ UNCHANGED <<key, replayed, expired, unheard>>

(* The handler throws, and its transaction was rolled back.                *)
RollBack(r) ==
  /\ Goes(r, "running", "thrown")
  /\ UNCHANGED <<key, executed, replayed, expired, unheard>>

(* The handler throws because the connection broke at COMMIT, and the      *)
(* database had committed.                                                 *)
CommitUnheard(r) ==
  /\ unheard < MaxUnheard
  /\ unheard' = unheard + 1
  /\ Goes(r, "running", "thrown")
  /\ executed' = executed \union {r}
  /\ UNCHANGED <<key, replayed, expired>>

(* catchError: DEL, and the client sees the error.                         *)
Release(r) ==
  /\ Goes(r, "thrown", "error")
  /\ key' = NoKey
  /\ UNCHANGED <<executed, replayed, expired, unheard>>

(* SET key success XX, and the client sees the success.                    *)
Store(r) ==
  /\ Goes(r, "committed", "answered")
  /\ key' = IF key = NoKey THEN key ELSE Record("stored", r)
  /\ UNCHANGED <<executed, replayed, expired, unheard>>

(* Mutant: a store that fails releases the claim.                          *)
StoreFailsReleasing(r) ==
  /\ Goes(r, "committed", "error")
  /\ key' = NoKey
  /\ UNCHANGED <<executed, replayed, expired, unheard>>

(* Redis refuses the store: the claim is left in place.                    *)
StoreFails(r) ==
  /\ Goes(r, "committed", "error")
  /\ UNCHANGED <<key, executed, replayed, expired, unheard>>

(* Redis refuses the DEL: the claim is left in place.                      *)
ReleaseFails(r) ==
  /\ Goes(r, "thrown", "error")
  /\ UNCHANGED <<key, executed, replayed, expired, unheard>>

(* The process dies: the transaction of a running handler is rolled back.  *)
Die(r) ==
  /\ at[r] \in {"claiming", "running", "committed", "thrown"}
  /\ at' = [at EXCEPT ![r] = "dead"]
  /\ UNCHANGED <<key, executed, replayed, expired, unheard>>

(* 24 hours have passed, or Redis has evicted the key.                     *)
Expire ==
  /\ key # NoKey
  /\ expired < MaxExpiries
  /\ expired' = expired + 1
  /\ key' = NoKey
  /\ UNCHANGED <<at, executed, replayed, unheard>>

Next ==
  \/ Expire
  \/ \E r \in Requests :
       \/ Claim(r) \/ ClaimTaken(r) \/ ClaimThrows(r)
       \/ Replay(r) \/ RefuseReused(r) \/ RefuseInFlight(r)
       \/ Commit(r) \/ RollBack(r) \/ CommitUnheard(r)
       \/ Release(r) \/ ReleaseFails(r)
       \/ Store(r) \/ StoreFails(r)
       \/ Die(r)

Spec == Init /\ [][Next]_vars

--------------------------------------------------------------------------------

(* An old request may release or overwrite the claim of a newer one, but   *)
(* every execution after the first is paid for, by an expiry of the key or *)
(* by a commit the handler did not hear of.                                *)
ExecutionsArePaidFor == Cardinality(executed) <= 1 + expired + unheard

(* "Executed AT MOST ONCE per (user, method, path, key) for 24h"           *)
(* (idempotency.interceptor.ts): only an expiry allows another execution.  *)
AtMostOncePerWindow == Cardinality(executed) <= 1 + expired

(* A replay is the answer of an execution, to the same body: the key never *)
(* stands for another request, whoever stored what over whose claim.       *)
ReplaysAreTrue ==
  \A r \in Requests :
    replayed[r] # NoRequest =>
      replayed[r] \in executed /\ BodyOf[replayed[r]] = BodyOf[r]

(* What makes the first inductive.  A request that runs, or has thrown and *)
(* will release, holds a slot, as does every execution and the free key;   *)
(* a step passes a slot on, and only what pays for one adds one.           *)
Holding == {r \in Requests : at[r] \in {"running", "thrown"}}

FreeSlots == IF key = NoKey THEN 1 ELSE 0

SlotsAreConserved ==
  Cardinality(Holding) + Cardinality(executed) + FreeSlots <= 1 + expired + unheard

(* What is stored has been executed.                                       *)
StoredWasExecuted ==
  /\ \A r \in Requests : at[r] = "committed" => r \in executed
  /\ key.state = "stored" => key.by \in executed

IdempotencyInv ==
  /\ TypeOK
  /\ SlotsAreConserved
  /\ StoredWasExecuted
  /\ ExecutionsArePaidFor
  /\ ReplaysAreTrue
================================================================================
