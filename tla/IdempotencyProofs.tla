--------------------------- MODULE IdempotencyProofs ---------------------------
(***************************************************************************)
(* For any set of requests and any bodies: an Idempotency-Key admits one   *)
(* execution, and one more at most for every expiry of the key and every   *)
(* commit its handler did not hear of; and what is replayed is true.       *)
(***************************************************************************)
EXTENDS Idempotency, FiniteSetTheorems, TLAPS

Executing == {"running", "thrown"}

(* The sets the slots are counted by are finite.                           *)
LEMMA SlotsAreCounted ==
  ASSUME TypeOK
  PROVE  /\ IsFiniteSet(Holding) /\ Cardinality(Holding) \in Nat
         /\ IsFiniteSet(executed) /\ Cardinality(executed) \in Nat
         /\ FreeSlots \in {0, 1}
  <1>1. IsFiniteSet(Requests)
    BY IdempotencyAssumption
  <1>2. Holding \in SUBSET Requests /\ executed \in SUBSET Requests
    BY DEF TypeOK, Holding
  <1>3. IsFiniteSet(Holding) /\ IsFiniteSet(executed)
    BY <1>1, <1>2, FS_Subset
  <1>4. Cardinality(Holding) \in Nat /\ Cardinality(executed) \in Nat
    BY <1>3, FS_CardinalityType
  <1>5. QED
    BY <1>3, <1>4 DEF FreeSlots

(* What a move of one request does to the number of the slots it holds.    *)
LEMMA HoldingAfterMove ==
  ASSUME TypeOK, NEW r \in Requests, NEW from \in Places, NEW to \in Places,
         Goes(r, from, to)
  PROVE  /\ at' \in [Requests -> Places]
         /\ from \in Executing /\ to \in Executing =>
              Cardinality(Holding') = Cardinality(Holding)
         /\ from \in Executing /\ to \notin Executing =>
              Cardinality(Holding') = Cardinality(Holding) - 1
         /\ from \notin Executing /\ to \in Executing =>
              Cardinality(Holding') = Cardinality(Holding) + 1
         /\ from \notin Executing /\ to \notin Executing =>
              Cardinality(Holding') = Cardinality(Holding)
  <1>1. /\ at \in [Requests -> Places] /\ at[r] = from
        /\ at' = [at EXCEPT ![r] = to]
    BY DEF TypeOK, Goes
  <1>2. at' \in [Requests -> Places]
    BY <1>1
  <1>3. Holding' = IF to \in Executing THEN Holding \union {r} ELSE Holding \ {r}
    BY <1>1 DEF Holding, Executing
  <1>4. r \in Holding <=> from \in Executing
    BY <1>1 DEF Holding, Executing
  <1>5. /\ Cardinality(Holding \union {r}) =
             IF r \in Holding THEN Cardinality(Holding) ELSE Cardinality(Holding) + 1
        /\ Cardinality(Holding \ {r}) =
             IF r \in Holding THEN Cardinality(Holding) - 1 ELSE Cardinality(Holding)
    BY SlotsAreCounted, FS_AddElement, FS_RemoveElement
  <1>6. QED
    BY <1>2, <1>3, <1>4, <1>5

(* An execution takes at most one slot.                                    *)
LEMMA ExecutedAfterCommit ==
  ASSUME TypeOK, NEW r \in Requests, executed' = executed \union {r}
  PROVE  /\ executed' \in SUBSET Requests
         /\ Cardinality(executed') \in Nat
         /\ Cardinality(executed') <= Cardinality(executed) + 1
  <1>1. executed' \in SUBSET Requests
    BY DEF TypeOK
  <1>2. /\ IsFiniteSet(executed \union {r})
        /\ Cardinality(executed \union {r}) =
             IF r \in executed THEN Cardinality(executed) ELSE Cardinality(executed) + 1
    BY SlotsAreCounted, FS_AddElement
  <1>3. Cardinality(executed) \in Nat
    BY SlotsAreCounted
  <1>4. QED
    BY <1>1, <1>2, <1>3

LEMMA InitIdempotencyInv == Init => IdempotencyInv
  <1> SUFFICES ASSUME Init PROVE IdempotencyInv
    OBVIOUS
  <1>1. TypeOK
    BY DEF Init, TypeOK, Places
  <1>2. Holding = {} /\ executed = {} /\ FreeSlots = 1
    BY DEF Init, Holding, FreeSlots
  <1>3. Cardinality({}) = 0
    BY FS_EmptySet
  <1>4. SlotsAreConserved /\ ExecutionsArePaidFor
    BY <1>2, <1>3 DEF Init, SlotsAreConserved, ExecutionsArePaidFor
  <1>5. StoredWasExecuted /\ ReplaysAreTrue
    BY DEF Init, StoredWasExecuted, ReplaysAreTrue, NoKey
  <1>6. QED
    BY <1>1, <1>4, <1>5 DEF IdempotencyInv

(* Every step keeps the types.                                             *)
LEMMA NextTypeOK == IdempotencyInv /\ [Next]_vars => TypeOK'
  <1> SUFFICES ASSUME IdempotencyInv, [Next]_vars PROVE TypeOK'
    OBVIOUS
  <1> USE DEF TypeOK, Places, NoKey, Record
  <1>0. TypeOK
    BY DEF IdempotencyInv
  <1>1. CASE UNCHANGED vars
    BY <1>0, <1>1 DEF vars
  <1>2. CASE Expire
    BY <1>0, <1>2 DEF Expire
  <1>3. ASSUME NEW r \in Requests, Claim(r) \/ ClaimTaken(r) \/ ClaimThrows(r)
        PROVE  TypeOK'
    BY <1>0, <1>3 DEF Claim, ClaimTaken, ClaimThrows, Goes
  <1>4. ASSUME NEW r \in Requests, Replay(r) PROVE TypeOK'
    <2>1. key.by \in Requests
      BY <1>0, <1>4 DEF Replay
    <2>2. QED
      BY <1>0, <1>4, <2>1 DEF Replay, Goes
  <1>5. ASSUME NEW r \in Requests, RefuseReused(r) \/ RefuseInFlight(r) PROVE TypeOK'
    BY <1>0, <1>5 DEF RefuseReused, RefuseInFlight, Goes
  <1>6. ASSUME NEW r \in Requests, Commit(r) \/ RollBack(r) \/ CommitUnheard(r)
        PROVE  TypeOK'
    BY <1>0, <1>6 DEF Commit, RollBack, CommitUnheard, Goes
  <1>7. ASSUME NEW r \in Requests, Release(r) \/ ReleaseFails(r) PROVE TypeOK'
    BY <1>0, <1>7 DEF Release, ReleaseFails, Goes
  <1>8. ASSUME NEW r \in Requests, Store(r) \/ StoreFails(r) PROVE TypeOK'
    BY <1>0, <1>8 DEF Store, StoreFails, Goes
  <1>9. ASSUME NEW r \in Requests, Die(r) PROVE TypeOK'
    BY <1>0, <1>9 DEF Die
  <1>10. QED
    BY <1>1, <1>2, <1>3, <1>4, <1>5, <1>6, <1>7, <1>8, <1>9 DEF Next

(* A step passes a slot on; only an expiry or an unheard commit adds one.  *)
LEMMA NextSlots == IdempotencyInv /\ [Next]_vars => SlotsAreConserved'
  <1> SUFFICES ASSUME IdempotencyInv, [Next]_vars PROVE SlotsAreConserved'
    OBVIOUS
  <1> USE DEF SlotsAreConserved, Executing
  <1>0. TypeOK /\ SlotsAreConserved /\ expired \in Nat /\ unheard \in Nat
    BY DEF IdempotencyInv, TypeOK
  <1>a. /\ Cardinality(Holding) \in Nat /\ Cardinality(executed) \in Nat
        /\ FreeSlots \in {0, 1}
    BY <1>0, SlotsAreCounted
  <1>b. \A r \in Requests : Record("pending", r) # NoKey /\ Record("stored", r) # NoKey
    BY DEF Record, NoKey
  <1>c. FreeSlots' \in {0, 1}
    BY DEF FreeSlots
  <1>1. CASE UNCHANGED vars
    BY <1>0, <1>1 DEF vars, Holding, FreeSlots
  <1>2. CASE Expire
    <2>1. Holding' = Holding /\ executed' = executed
      BY <1>2 DEF Expire, Holding
    <2>2. QED
      BY <1>0, <1>2, <1>a, <1>c, <2>1 DEF Expire
  <1>3. ASSUME NEW r \in Requests, Claim(r) PROVE SlotsAreConserved'
    <2>1. Cardinality(Holding') = Cardinality(Holding) + 1
      BY <1>0, <1>3, HoldingAfterMove DEF Claim, Places
    <2>2. FreeSlots = 1 /\ FreeSlots' = 0
      BY <1>3, <1>b DEF Claim, FreeSlots
    <2>3. QED
      BY <1>0, <1>3, <1>a, <2>1, <2>2 DEF Claim
  <1>4. ASSUME NEW r \in Requests, ClaimTaken(r) \/ ClaimThrows(r)
        PROVE  SlotsAreConserved'
    <2>1. Cardinality(Holding') = Cardinality(Holding)
      BY <1>0, <1>4, HoldingAfterMove DEF ClaimTaken, ClaimThrows, Places
    <2>2. FreeSlots' <= FreeSlots
      BY <1>4, <1>b DEF ClaimTaken, ClaimThrows, FreeSlots
    <2>3. QED
      BY <1>0, <1>4, <1>a, <1>c, <2>1, <2>2 DEF ClaimTaken, ClaimThrows
  <1>5. ASSUME NEW r \in Requests, Replay(r) \/ RefuseReused(r) \/ RefuseInFlight(r)
        PROVE  SlotsAreConserved'
    <2>1. Cardinality(Holding') = Cardinality(Holding)
      BY <1>0, <1>5, HoldingAfterMove DEF Replay, RefuseReused, RefuseInFlight, Places
    <2>2. FreeSlots' = FreeSlots
      BY <1>5 DEF Replay, RefuseReused, RefuseInFlight, FreeSlots
    <2>3. QED
      BY <1>0, <1>5, <1>a, <2>1, <2>2 DEF Replay, RefuseReused, RefuseInFlight
  <1>6. ASSUME NEW r \in Requests, Commit(r) PROVE SlotsAreConserved'
    <2>1. Cardinality(Holding') = Cardinality(Holding) - 1
      BY <1>0, <1>6, HoldingAfterMove DEF Commit, Places
    <2>2. /\ Cardinality(executed') \in Nat
          /\ Cardinality(executed') <= Cardinality(executed) + 1
      BY <1>0, <1>6, ExecutedAfterCommit DEF Commit
    <2>3. FreeSlots' = FreeSlots
      BY <1>6 DEF Commit, FreeSlots
    <2>4. QED
      BY <1>0, <1>6, <1>a, <2>1, <2>2, <2>3 DEF Commit
  <1>7. ASSUME NEW r \in Requests, RollBack(r) PROVE SlotsAreConserved'
    <2>1. Cardinality(Holding') = Cardinality(Holding)
      BY <1>0, <1>7, HoldingAfterMove DEF RollBack, Places
    <2>2. FreeSlots' = FreeSlots
      BY <1>7 DEF RollBack, FreeSlots
    <2>3. QED
      BY <1>0, <1>7, <1>a, <2>1, <2>2 DEF RollBack
  <1>8. ASSUME NEW r \in Requests, CommitUnheard(r) PROVE SlotsAreConserved'
    <2>1. Cardinality(Holding') = Cardinality(Holding)
      BY <1>0, <1>8, HoldingAfterMove DEF CommitUnheard, Places
    <2>2. /\ Cardinality(executed') \in Nat
          /\ Cardinality(executed') <= Cardinality(executed) + 1
      BY <1>0, <1>8, ExecutedAfterCommit DEF CommitUnheard
    <2>3. FreeSlots' = FreeSlots
      BY <1>8 DEF CommitUnheard, FreeSlots
    <2>4. QED
      BY <1>0, <1>8, <1>a, <2>1, <2>2, <2>3 DEF CommitUnheard
  <1>9. ASSUME NEW r \in Requests, Release(r) \/ ReleaseFails(r)
        PROVE  SlotsAreConserved'
    <2>1. Cardinality(Holding') = Cardinality(Holding) - 1
      BY <1>0, <1>9, HoldingAfterMove DEF Release, ReleaseFails, Places
    <2>2. FreeSlots' <= FreeSlots + 1
      BY <1>a, <1>c
    <2>3. QED
      BY <1>0, <1>9, <1>a, <1>c, <2>1, <2>2 DEF Release, ReleaseFails
  <1>10. ASSUME NEW r \in Requests, Store(r) \/ StoreFails(r)
         PROVE  SlotsAreConserved'
    <2>1. Cardinality(Holding') = Cardinality(Holding)
      BY <1>0, <1>10, HoldingAfterMove DEF Store, StoreFails, Places
    <2>2. FreeSlots' = FreeSlots
      BY <1>10, <1>b DEF Store, StoreFails, FreeSlots
    <2>3. QED
      BY <1>0, <1>10, <1>a, <2>1, <2>2 DEF Store, StoreFails
  <1>11. ASSUME NEW r \in Requests, Die(r) PROVE SlotsAreConserved'
    <2>1. Goes(r, at[r], "dead") /\ at[r] \in Places
      BY <1>0, <1>11 DEF Die, Goes, TypeOK
    <2>2. Cardinality(Holding') <= Cardinality(Holding) /\ Cardinality(Holding') \in Int
      BY <1>0, <1>a, <2>1, HoldingAfterMove DEF Places
    <2>3. FreeSlots' = FreeSlots
      BY <1>11 DEF Die, FreeSlots
    <2>4. QED
      BY <1>0, <1>11, <1>a, <2>2, <2>3 DEF Die
  <1>12. QED
    BY <1>1, <1>2, <1>3, <1>4, <1>5, <1>6, <1>7, <1>8, <1>9, <1>10, <1>11 DEF Next

(* What is stored was executed, and so what is replayed was.               *)
LEMMA NextRecords ==
  IdempotencyInv /\ [Next]_vars => StoredWasExecuted' /\ ReplaysAreTrue'
  <1> SUFFICES ASSUME IdempotencyInv, [Next]_vars
               PROVE  StoredWasExecuted' /\ ReplaysAreTrue'
    OBVIOUS
  <1> USE DEF StoredWasExecuted, ReplaysAreTrue, NoKey, Record
  <1>0. TypeOK /\ StoredWasExecuted /\ ReplaysAreTrue
    BY DEF IdempotencyInv
  <1>1. CASE UNCHANGED vars
    BY <1>0, <1>1 DEF vars
  <1>2. CASE Expire
    BY <1>0, <1>2 DEF Expire
  <1>3. ASSUME NEW r \in Requests, Claim(r) \/ ClaimTaken(r) \/ ClaimThrows(r)
        PROVE  StoredWasExecuted' /\ ReplaysAreTrue'
    BY <1>0, <1>3 DEF Claim, ClaimTaken, ClaimThrows, Goes, TypeOK
  <1>4. ASSUME NEW r \in Requests, Replay(r)
        PROVE  StoredWasExecuted' /\ ReplaysAreTrue'
    <2>1. key.by \in executed /\ BodyOf[key.by] = BodyOf[r]
      BY <1>0, <1>4 DEF Replay, SameBody
    <2>2. ReplaysAreTrue'
      BY <1>0, <1>4, <2>1 DEF Replay, TypeOK
    <2>3. StoredWasExecuted'
      BY <1>0, <1>4 DEF Replay, Goes, TypeOK
    <2>4. QED
      BY <2>2, <2>3
  <1>5. ASSUME NEW r \in Requests, RefuseReused(r) \/ RefuseInFlight(r)
        PROVE  StoredWasExecuted' /\ ReplaysAreTrue'
    BY <1>0, <1>5 DEF RefuseReused, RefuseInFlight, Goes, TypeOK
  <1>6. ASSUME NEW r \in Requests, Commit(r) \/ RollBack(r) \/ CommitUnheard(r)
        PROVE  StoredWasExecuted' /\ ReplaysAreTrue'
    BY <1>0, <1>6 DEF Commit, RollBack, CommitUnheard, Goes, TypeOK
  <1>7. ASSUME NEW r \in Requests, Release(r) \/ ReleaseFails(r)
        PROVE  StoredWasExecuted' /\ ReplaysAreTrue'
    BY <1>0, <1>7 DEF Release, ReleaseFails, Goes, TypeOK
  <1>8. ASSUME NEW r \in Requests, Store(r) \/ StoreFails(r)
        PROVE  StoredWasExecuted' /\ ReplaysAreTrue'
    BY <1>0, <1>8 DEF Store, StoreFails, Goes, TypeOK
  <1>9. ASSUME NEW r \in Requests, Die(r)
        PROVE  StoredWasExecuted' /\ ReplaysAreTrue'
    BY <1>0, <1>9 DEF Die, TypeOK
  <1>10. QED
    BY <1>1, <1>2, <1>3, <1>4, <1>5, <1>6, <1>7, <1>8, <1>9 DEF Next

(* An execution for every slot that was paid for, and no more.             *)
LEMMA SlotsBoundExecutions ==
  TypeOK /\ SlotsAreConserved => ExecutionsArePaidFor
  <1> SUFFICES ASSUME TypeOK, SlotsAreConserved PROVE ExecutionsArePaidFor
    OBVIOUS
  <1>1. /\ Cardinality(Holding) \in Nat /\ Cardinality(executed) \in Nat
        /\ FreeSlots \in {0, 1}
    BY SlotsAreCounted
  <1>2. expired \in Nat /\ unheard \in Nat
    BY DEF TypeOK
  <1>3. QED
    BY <1>1, <1>2 DEF SlotsAreConserved, ExecutionsArePaidFor

--------------------------------------------------------------------------------

(* The inductive invariant, for every set of requests and every bound.     *)
THEOREM IdempotencyInvariant == Spec => []IdempotencyInv
  <1>1. IdempotencyInv /\ [Next]_vars => IdempotencyInv'
    <2>1. TypeOK' /\ SlotsAreConserved' => ExecutionsArePaidFor'
      BY SlotsBoundExecutions, PTL
    <2>2. QED
      BY <2>1, NextTypeOK, NextSlots, NextRecords DEF IdempotencyInv
  <1>2. QED
    BY InitIdempotencyInv, <1>1, PTL DEF Spec

(* An Idempotency-Key admits one execution, and one more at most for each  *)
(* expiry and each unheard commit.                                         *)
THEOREM IdempotencyPaidFor == Spec => []ExecutionsArePaidFor
  <1>1. IdempotencyInv => ExecutionsArePaidFor
    BY DEF IdempotencyInv
  <1>2. QED
    BY <1>1, IdempotencyInvariant, PTL

(* A replay is the answer of an execution, to the same body.               *)
THEOREM IdempotencyReplays == Spec => []ReplaysAreTrue
  <1>1. IdempotencyInv => ReplaysAreTrue
    BY DEF IdempotencyInv
  <1>2. QED
    BY <1>1, IdempotencyInvariant, PTL

(* "AT MOST ONCE per (user, method, path, key) for 24h" is true of every   *)
(* key whose handlers heard of all their commits: a broken connection at   *)
(* COMMIT is the only way to a second execution within one window.         *)
THEOREM IdempotencyAtMostOnce == Spec => [](unheard = 0 => AtMostOncePerWindow)
  <1>1. IdempotencyInv => (unheard = 0 => AtMostOncePerWindow)
    <2> SUFFICES ASSUME IdempotencyInv, unheard = 0 PROVE AtMostOncePerWindow
      OBVIOUS
    <2>1. Cardinality(executed) \in Nat /\ expired \in Nat
      BY SlotsAreCounted DEF IdempotencyInv, TypeOK
    <2>2. QED
      BY <2>1 DEF IdempotencyInv, ExecutionsArePaidFor, AtMostOncePerWindow
  <1>2. QED
    BY <1>1, IdempotencyInvariant, PTL

(* Until the key first expires, and while every commit is heard of, the    *)
(* claim is a lock: once a request has executed no other ever runs, and no *)
(* two run at the same time.                                               *)
OneRunsOrHasRun ==
  expired = 0 /\ unheard = 0 => \A r1, r2 \in Holding \union executed : r1 = r2

THEOREM IdempotencyClaimExcludes == Spec => []OneRunsOrHasRun
  <1>1. IdempotencyInv => OneRunsOrHasRun
    <2> SUFFICES ASSUME IdempotencyInv, expired = 0, unheard = 0,
                        NEW r1 \in Holding \union executed,
                        NEW r2 \in Holding \union executed, r1 # r2
                 PROVE  FALSE
      BY DEF OneRunsOrHasRun
    <2>1. /\ IsFiniteSet(Holding) /\ Cardinality(Holding) \in Nat
          /\ IsFiniteSet(executed) /\ Cardinality(executed) \in Nat
          /\ FreeSlots \in {0, 1}
      BY SlotsAreCounted DEF IdempotencyInv
    <2>2. Cardinality(Holding) + Cardinality(executed) <= 1
      BY <2>1 DEF IdempotencyInv, SlotsAreConserved
    <2>3. ASSUME NEW S, IsFiniteSet(S), NEW x \in S PROVE Cardinality(S) >= 1
      BY <2>3, FS_EmptySet, FS_CardinalityType
    <2>4. ASSUME NEW S, IsFiniteSet(S), NEW x \in S, NEW y \in S, x # y
          PROVE  Cardinality(S) >= 2
      <3>1. IsFiniteSet(S \ {x}) /\ Cardinality(S \ {x}) = Cardinality(S) - 1
        BY <2>4, FS_RemoveElement
      <3>2. Cardinality(S \ {x}) >= 1
        BY <2>3, <2>4, <3>1
      <3>3. QED
        BY <2>4, <3>1, <3>2, FS_CardinalityType
    <2>5. CASE r1 \in Holding /\ r2 \in executed
      BY <2>1, <2>2, <2>3, <2>5
    <2>6. CASE r1 \in executed /\ r2 \in Holding
      BY <2>1, <2>2, <2>3, <2>6
    <2>7. CASE r1 \in Holding /\ r2 \in Holding
      BY <2>1, <2>2, <2>4, <2>7
    <2>8. CASE r1 \in executed /\ r2 \in executed
      BY <2>1, <2>2, <2>4, <2>8
    <2>9. QED
      BY <2>5, <2>6, <2>7, <2>8
  <1>2. QED
    BY <1>1, IdempotencyInvariant, PTL
================================================================================
