---------------------------- MODULE NumberingProofs ----------------------------
(***************************************************************************)
(* For any set of series and sessions and any bound: the numbering is      *)
(* gap-free, and the allocator implements GapFreeSeries.                   *)
(***************************************************************************)
EXTENDS Numbering, TLAPS

LEMMA InitNumberingInv == Init => NumberingInv
  BY DEF Init, NumberingInv, TypeOK, GapFree, HolderHasNextNumber, Idle, TxStates

(* A sequence 1 .. n grows into 1 .. n+1 when n+1 is appended.              *)
LEMMA AppendNext ==
  ASSUME NEW n \in Nat, NEW q \in Seq(Nat), q = [i \in 1 .. n |-> i]
  PROVE  /\ Len(q) = n
         /\ Append(q, n + 1) = [i \in 1 .. n + 1 |-> i]
  OBVIOUS

(* Every step keeps the types.                                              *)
LEMMA NextTypeOK == NumberingInv /\ [Next]_vars => TypeOK'
  <1> SUFFICES ASSUME NumberingInv, [Next]_vars PROVE TypeOK'
    OBVIOUS
  <1> USE DEF NumberingInv, TypeOK
  <1>1. CASE UNCHANGED vars
    BY <1>1 DEF vars
  <1>2. ASSUME NEW t \in Txns, NEW s \in Series, Begin(t, s) PROVE TypeOK'
    BY <1>2 DEF Begin, Guards, TxStates
  <1>3. ASSUME NEW t \in Txns, Refuse(t) PROVE TypeOK'
    BY <1>3 DEF Refuse, Idle, TxStates
  <1>4. ASSUME NEW t \in Txns, Allocate(t) PROVE TypeOK'
    <2>1. tx[t] \in TxStates /\ tx[t].at = "guards"
      BY <1>4 DEF Allocate
    <2>2. tx[t].series \in Series
      BY <2>1 DEF TxStates, Idle
    <2>3. QED
      BY <1>4, <2>2 DEF Allocate, Holding, TxStates
  <1>5. ASSUME NEW t \in Txns, Commit(t) PROVE TypeOK'
    <2>1. tx[t] \in TxStates /\ tx[t].at = "holding"
      BY <1>5 DEF Commit
    <2>2. tx[t].series \in Series /\ tx[t].number \in Nat
      BY <2>1 DEF TxStates, Idle
    <2>3. QED
      BY <1>5, <2>2 DEF Commit, Idle, TxStates
  <1>6. ASSUME NEW t \in Txns, Rollback(t) PROVE TypeOK'
    <2>1. tx[t] \in TxStates /\ tx[t].at = "holding"
      BY <1>6 DEF Rollback
    <2>2. tx[t].series \in Series
      BY <2>1 DEF TxStates, Idle
    <2>3. QED
      BY <1>6, <2>2 DEF Rollback, Idle, TxStates
  <1>7. QED
    BY <1>1, <1>2, <1>3, <1>4, <1>5, <1>6 DEF Next

(* The holder of a counter row is the only session with a number of that   *)
(* series in hand: its commit extends the series by exactly one.           *)
LEMMA NextNumbers ==
  NumberingInv /\ [Next]_vars => GapFree' /\ HolderHasNextNumber'
  <1> SUFFICES ASSUME NumberingInv, [Next]_vars
               PROVE  GapFree' /\ HolderHasNextNumber'
    OBVIOUS
  <1> USE DEF NumberingInv, TypeOK
  <1>1. CASE UNCHANGED vars
    BY <1>1 DEF vars, GapFree, HolderHasNextNumber
  <1>2. ASSUME NEW t \in Txns, NEW s \in Series, Begin(t, s)
        PROVE  GapFree' /\ HolderHasNextNumber'
    BY <1>2 DEF Begin, Guards, GapFree, HolderHasNextNumber
  <1>3. ASSUME NEW t \in Txns, Refuse(t) PROVE GapFree' /\ HolderHasNextNumber'
    BY <1>3 DEF Refuse, Idle, GapFree, HolderHasNextNumber
  <1>4. ASSUME NEW t \in Txns, Allocate(t) PROVE GapFree' /\ HolderHasNextNumber'
    <2> DEFINE s == tx[t].series
    <2>1. s \in Series
      BY <1>4 DEF Allocate, TxStates, Idle
    <2>2. GapFree'
      BY <1>4 DEF Allocate, GapFree
    <2>3. ASSUME NEW u \in Txns, tx'[u].at = "holding"
          PROVE  /\ rowLock'[tx'[u].series] = u
                 /\ tx'[u].number = lastNumber'[tx'[u].series] + 1
      <3>1. CASE u = t
        BY <1>4, <2>1, <3>1 DEF Allocate, Holding
      <3>2. CASE u # t
        <4>1. tx'[u] = tx[u] /\ tx[u].at = "holding" /\ tx[u].series \in Series
          BY <1>4, <2>3, <3>2 DEF Allocate, TxStates, Idle
        <4>2. rowLock[tx[u].series] = u /\ tx[u].series # s
          BY <1>4, <4>1, NumberingAssumption DEF Allocate, HolderHasNextNumber
        <4>3. QED
          BY <1>4, <2>1, <4>1, <4>2 DEF Allocate, HolderHasNextNumber
      <3>3. QED
        BY <3>1, <3>2
    <2>4. QED
      BY <2>2, <2>3 DEF HolderHasNextNumber
  <1>5. ASSUME NEW t \in Txns, Commit(t) PROVE GapFree' /\ HolderHasNextNumber'
    <2> DEFINE s == tx[t].series
    <2>1. s \in Series /\ tx[t].number \in Nat
      BY <1>5 DEF Commit, TxStates, Idle
    <2>2. rowLock[s] = t /\ tx[t].number = lastNumber[s] + 1
      BY <1>5 DEF Commit, HolderHasNextNumber
    <2>3. ASSUME NEW r \in Series
          PROVE  issued'[r] = [i \in 1 .. lastNumber'[r] |-> i]
      <3>1. CASE r = s
        <4>1. issued[s] = [i \in 1 .. lastNumber[s] |-> i]
          BY <2>1 DEF GapFree
        <4>2. Append(issued[s], lastNumber[s] + 1) = [i \in 1 .. lastNumber[s] + 1 |-> i]
          BY <2>1, <4>1, AppendNext
        <4>3. QED
          BY <1>5, <2>1, <2>2, <3>1, <4>2 DEF Commit
      <3>2. CASE r # s
        BY <1>5, <3>2 DEF Commit, GapFree
      <3>3. QED
        BY <3>1, <3>2
    <2>4. ASSUME NEW u \in Txns, tx'[u].at = "holding"
          PROVE  /\ rowLock'[tx'[u].series] = u
                 /\ tx'[u].number = lastNumber'[tx'[u].series] + 1
      <3>1. u # t /\ tx'[u] = tx[u] /\ tx[u].series \in Series
        BY <1>5, <2>4 DEF Commit, TxStates, Idle
      <3>2. tx[u].series # s
        BY <2>2, <2>4, <3>1 DEF HolderHasNextNumber
      <3>3. QED
        BY <1>5, <2>1, <2>4, <3>1, <3>2 DEF Commit, HolderHasNextNumber
    <2>5. QED
      BY <2>3, <2>4 DEF GapFree, HolderHasNextNumber
  <1>6. ASSUME NEW t \in Txns, Rollback(t) PROVE GapFree' /\ HolderHasNextNumber'
    <2>1. GapFree'
      BY <1>6 DEF Rollback, GapFree
    <2>2. ASSUME NEW u \in Txns, tx'[u].at = "holding"
          PROVE  /\ rowLock'[tx'[u].series] = u
                 /\ tx'[u].number = lastNumber'[tx'[u].series] + 1
      <3>1. u # t /\ tx'[u] = tx[u] /\ tx[u].series \in Series
        BY <1>6, <2>2 DEF Rollback, TxStates, Idle
      <3>2. tx[u].series # tx[t].series
        BY <1>6, <2>2, <3>1 DEF Rollback, HolderHasNextNumber
      <3>3. QED
        BY <1>6, <2>2, <3>1, <3>2 DEF Rollback, HolderHasNextNumber
    <2>3. QED
      BY <2>1, <2>2 DEF HolderHasNextNumber
  <1>7. QED
    BY <1>1, <1>2, <1>3, <1>4, <1>5, <1>6 DEF Next

(* Type correctness, gap-freedom and the holder's number hold in every      *)
(* reachable state, for any number of sessions and series.                  *)
THEOREM NumberingInvariant == Spec => []NumberingInv
  <1>1. NumberingInv /\ [Next]_vars => NumberingInv'
    BY NextTypeOK, NextNumbers DEF NumberingInv
  <1>2. QED
    BY InitNumberingInv, <1>1, PTL DEF Spec

(* The documents of every series carry 1 .. last_number in commit order.    *)
THEOREM NumberingIsGapFree == Spec => []GapFree
  <1>1. NumberingInv => GapFree
    BY DEF NumberingInv
  <1>2. QED
    BY NumberingInvariant, <1>1, PTL

(* Only a commit is visible to the reader of the documents, and it issues   *)
(* exactly the next number: Numbering implements GapFreeSeries.             *)
THEOREM NumberingImplementsSeries == Spec => ImplementsGapFreeSeries
  <1>1. Init => Promise!Init
    BY DEF Init, Promise!Init
  <1>2. NumberingInv /\ [Next]_vars => [Promise!Next]_issued
    <2> SUFFICES ASSUME NumberingInv, [Next]_vars PROVE [Promise!Next]_issued
      OBVIOUS
    <2>1. ASSUME NEW t \in Txns, Commit(t) PROVE Promise!Next
      <3> DEFINE s == tx[t].series
      <3>1. s \in Series
        BY <2>1 DEF Commit, NumberingInv, TypeOK, TxStates, Idle
      <3>2. /\ lastNumber[s] \in Nat
            /\ issued[s] \in Seq(Nat)
            /\ issued[s] = [i \in 1 .. lastNumber[s] |-> i]
        BY <3>1 DEF NumberingInv, TypeOK, GapFree
      <3>3. Len(issued[s]) = lastNumber[s]
        BY <3>2, AppendNext
      <3>4. tx[t].number = Len(issued[s]) + 1
        BY <2>1, <3>3 DEF Commit, NumberingInv, HolderHasNextNumber
      <3>5. Promise!Issue(s)
        BY <2>1, <3>4 DEF Commit, Promise!Issue
      <3>6. QED
        BY <3>1, <3>5 DEF Promise!Next
    <2>2. CASE UNCHANGED vars
      BY <2>2 DEF vars
    <2>3. QED
      BY <2>1, <2>2 DEF Next, Begin, Refuse, Allocate, Rollback
  <1>3. QED
    BY <1>1, <1>2, NumberingInvariant, PTL DEF Spec, ImplementsGapFreeSeries, Promise!Spec
================================================================================
