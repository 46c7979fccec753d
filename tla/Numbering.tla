------------------------------- MODULE Numbering -------------------------------
(***************************************************************************)
(* NumberingService.allocate and the transaction of the document that asks *)
(* for a number (quote, order or invoice).  allocate is an upsert of the   *)
(* counter row of one (organization, series, year) on the ambient          *)
(* transaction: PostgreSQL locks that row until the transaction ends, a    *)
(* second allocate waits for it, and a rollback restores the row.          *)
(*                                                                         *)
(* A transaction runs its guards, allocates, inserts the document and      *)
(* commits; a guard may refuse it, and the insert may fail or the process  *)
(* may die after the number was taken, which rolls everything back.        *)
(***************************************************************************)
EXTENDS Integers, Sequences

CONSTANTS
  Series,      \* the (organization, series, year) triples
  Txns,        \* the database sessions that issue documents
  NoTxn,       \* no session: the counter row is not locked
  MaxNumber    \* bound: no series grows beyond this number

ASSUME NumberingAssumption ==
  /\ NoTxn \notin Txns
  /\ MaxNumber \in Nat

VARIABLES
  lastNumber,  \* per series, the committed last_number (0: no row yet)
  rowLock,     \* per series, the session that holds the counter row
  tx,          \* per session, the state of its issue transaction
  issued       \* per series, the numbers of the committed documents, oldest first

vars == <<lastNumber, rowLock, tx, issued>>

(* A session is idle, runs the guards of an issue into a series, or holds  *)
(* the number it was given and has not committed.                          *)
Idle == [at |-> "idle"]
Guards(s) == [at |-> "guards", series |-> s]
Holding(s, n) == [at |-> "holding", series |-> s, number |-> n]

TxStates ==
  {Idle} \union [at : {"guards"}, series : Series]
         \union [at : {"holding"}, series : Series, number : Nat]

TypeOK ==
  /\ lastNumber \in [Series -> Nat]
  /\ rowLock \in [Series -> Txns \union {NoTxn}]
  /\ tx \in [Txns -> TxStates]
  /\ issued \in [Series -> Seq(Nat)]

Init ==
  /\ lastNumber = [s \in Series |-> 0]
  /\ rowLock = [s \in Series |-> NoTxn]
  /\ tx = [t \in Txns |-> Idle]
  /\ issued = [s \in Series |-> << >>]

--------------------------------------------------------------------------------

(* A request opens the issue transaction of a document of series s.        *)
Begin(t, s) ==
  /\ tx[t] = Idle
  /\ tx' = [tx EXCEPT ![t] = Guards(s)]
  /\ UNCHANGED <<lastNumber, rowLock, issued>>

(* A guard refuses the issue.  Every guard precedes allocate, so no counter *)
(* row is locked yet.                                                       *)
Refuse(t) ==
  /\ tx[t].at = "guards"
  /\ tx' = [tx EXCEPT ![t] = Idle]
  /\ UNCHANGED <<lastNumber, rowLock, issued>>

(* Mutant: allocate does not wait for the counter row.                     *)
AllocateUnlocked(t) ==
  /\ tx[t].at = "guards"
  /\ LET s == tx[t].series IN
       /\ lastNumber[s] < MaxNumber
       /\ rowLock' = [rowLock EXCEPT ![s] = t]
       /\ tx' = [tx EXCEPT ![t] = Holding(s, lastNumber[s] + 1)]
  /\ UNCHANGED <<lastNumber, issued>>

(* Mutant: allocate runs on a connection of its own and commits at once,   *)
(* so that a rollback of the issue leaves the increment behind.            *)
AllocateOutsideTx(t) ==
  /\ tx[t].at = "guards"
  /\ LET s == tx[t].series IN
       /\ rowLock[s] = NoTxn
       /\ lastNumber[s] < MaxNumber
       /\ rowLock' = [rowLock EXCEPT ![s] = t]
       /\ lastNumber' = [lastNumber EXCEPT ![s] = @ + 1]
       /\ tx' = [tx EXCEPT ![t] = Holding(s, lastNumber[s] + 1)]
  /\ UNCHANGED issued

(* The upsert INSERT ... ON CONFLICT DO UPDATE SET last_number + 1: it     *)
(* waits for the row, keeps it locked, and returns the incremented value.  *)
(* The new value stays invisible to others until Commit.                   *)
Allocate(t) ==
  /\ tx[t].at = "guards"
  /\ LET s == tx[t].series IN
       /\ rowLock[s] = NoTxn
       /\ lastNumber[s] < MaxNumber
       /\ rowLock' = [rowLock EXCEPT ![s] = t]
       /\ tx' = [tx EXCEPT ![t] = Holding(s, lastNumber[s] + 1)]
  /\ UNCHANGED <<lastNumber, issued>>

(* The document is inserted under its number and the transaction commits:  *)
(* the counter, the document and the release of the row appear together.   *)
Commit(t) ==
  /\ tx[t].at = "holding"
  /\ LET s == tx[t].series IN
       /\ lastNumber' = [lastNumber EXCEPT ![s] = tx[t].number]
       /\ issued' = [issued EXCEPT ![s] = Append(@, tx[t].number)]
       /\ rowLock' = [rowLock EXCEPT ![s] = NoTxn]
  /\ tx' = [tx EXCEPT ![t] = Idle]

(* Mutant: the error path forgets to end the transaction, so the counter   *)
(* row stays locked.                                                       *)
RollbackLeaksLock(t) ==
  /\ tx[t].at = "holding"
  /\ tx' = [tx EXCEPT ![t] = Idle]
  /\ UNCHANGED <<lastNumber, rowLock, issued>>

(* The insert fails (a unique index, a lost supersede race) or the process *)
(* dies after the number was taken: PostgreSQL restores the counter row.   *)
Rollback(t) ==
  /\ tx[t].at = "holding"
  /\ rowLock' = [rowLock EXCEPT ![tx[t].series] = NoTxn]
  /\ tx' = [tx EXCEPT ![t] = Idle]
  /\ UNCHANGED <<lastNumber, issued>>

Next ==
  \E t \in Txns :
    \/ \E s \in Series : Begin(t, s)
    \/ Refuse(t)
    \/ Allocate(t)
    \/ Commit(t)
    \/ Rollback(t)

(* A session that holds the row ends its transaction, one way or the other, *)
(* and PostgreSQL grants a freed row to those that wait for it.             *)
Fairness ==
  \A t \in Txns :
    /\ WF_vars(Commit(t) \/ Rollback(t))
    /\ SF_vars(Allocate(t))

Spec == Init /\ [][Next]_vars

FairSpec == Spec /\ Fairness

--------------------------------------------------------------------------------

(* The documents of a series carry exactly 1 .. last_number, in the order  *)
(* in which they were committed, whatever guards refuse, inserts fail or   *)
(* processes die in between ("gap-free", numbering/CONTEXT.md).            *)
GapFree ==
  \A s \in Series : issued[s] = [i \in 1 .. lastNumber[s] |-> i]

(* A session that holds an uncommitted number is the one that holds the    *)
(* counter row, and its number is the one after the last committed.        *)
HolderHasNextNumber ==
  \A t \in Txns :
    tx[t].at = "holding" =>
      /\ rowLock[tx[t].series] = t
      /\ tx[t].number = lastNumber[tx[t].series] + 1

(* The strengthening that makes GapFree inductive.                         *)
NumberingInv == TypeOK /\ GapFree /\ HolderHasNextNumber

(* The allocator implements the numbering that the documents rely on.      *)
Promise == INSTANCE GapFreeSeries WITH Series <- Series, issued <- issued
ImplementsGapFreeSeries == Promise!Spec

(* An issue that reaches allocate is not starved by those before it: it    *)
(* gets a number, is refused, or the series is at the bound of the model.  *)
NoIssueWaitsForever ==
  \A t \in Txns, s \in Series :
    tx[t] = Guards(s) ~> (tx[t] # Guards(s) \/ lastNumber[s] = MaxNumber)
================================================================================
