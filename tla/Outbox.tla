--------------------------------- MODULE Outbox --------------------------------
(***************************************************************************)
(* The transactional outbox: OutboxService.emit writes an event row in the *)
(* transaction of the state change, the relay of each worker replica       *)
(* enqueues the pending rows to BullMQ and marks them, and EventsProcessor *)
(* runs the jobs.                                                          *)
(*                                                                         *)
(* A relay cycle is one PostgreSQL transaction: what it writes is staged in *)
(* batch[r] until CommitBatch, and is lost if the cycle throws or the      *)
(* process dies; the jobs it added to Redis stay.                          *)
(***************************************************************************)
EXTENDS Naturals, FiniteSets

CONSTANTS
  Events,       \* the event rows that may come to exist, ordered as their ids
  Replicas,     \* the worker replicas
  BatchSize,    \* BATCH_SIZE
  MaxAttempts,  \* MAX_PUBLISH_ATTEMPTS
  JobAttempts,  \* attempts of a job before it counts as failed
  MaxDeaths     \* bound: so many relay cycles are rolled back

ASSUME OutboxAssumption ==
  /\ Events \subseteq Nat
  /\ BatchSize \in Nat \ {0}
  /\ MaxAttempts \in Nat \ {0}
  /\ JobAttempts \in Nat \ {0}
  /\ MaxDeaths \in Nat

VARIABLES
  row,          \* "absent", the status of the row, or "deleted"
  attempts,     \* the attempts column of the row
  batch,        \* per replica, the rows its cycle has locked and their fate
  deaths,       \* the relay cycles rolled back so far
  job,          \* the BullMQ job whose jobId is the event's id
  tries,        \* its attemptsMade
  stalled,      \* the jobs that lost their worker once
  created,      \* how many jobs were created for the event (history)
  deadLetters   \* the events re-added to the dlq queue

rowVars == <<row, attempts>>
relayVars == <<batch, deaths>>
jobVars == <<job, tries, stalled, created, deadLetters>>
outboxVars == <<rowVars, relayVars, jobVars>>

Fates == {"free", "claimed", "added", "failed"}
JobStates == {"none", "waiting", "active", "completed", "failed"}

OutboxTypeOK ==
  /\ row \in [Events -> {"absent", "pending", "published", "dead", "deleted"}]
  /\ attempts \in [Events -> 0 .. MaxAttempts]
  /\ batch \in [Replicas -> [Events -> Fates]]
  /\ deaths \in Nat
  /\ job \in [Events -> JobStates]
  /\ tries \in [Events -> 0 .. JobAttempts]
  /\ stalled \in SUBSET Events
  /\ created \in [Events -> Nat]
  /\ deadLetters \in SUBSET Events

Nothing == [e \in Events |-> "free"]

OutboxInit ==
  /\ row = [e \in Events |-> "absent"]
  /\ attempts = [e \in Events |-> 0]
  /\ batch = [r \in Replicas |-> Nothing]
  /\ deaths = 0
  /\ job = [e \in Events |-> "none"]
  /\ tries = [e \in Events |-> 0]
  /\ stalled = {}
  /\ created = [e \in Events |-> 0]
  /\ deadLetters = {}

--------------------------------------------------------------------------------
(* The relay.                                                              *)

(* The transaction that emits the event commits.                           *)
Emit(e) ==
  /\ row[e] = "absent"
  /\ row' = [row EXCEPT ![e] = "pending"]
  /\ UNCHANGED <<attempts, relayVars, jobVars>>

(* Mutant: the claim does not skip the rows another replica has locked.    *)
ClaimableLockedToo == {e \in Events : row[e] = "pending"}

(* FOR UPDATE SKIP LOCKED: the pending rows no cycle holds.                *)
Claimable == {e \in Events : row[e] = "pending" /\ \A r \in Replicas : batch[r][e] = "free"}

(* ORDER BY id LIMIT BATCH_SIZE.                                           *)
Oldest(S) == {e \in S : Cardinality({f \in S : f < e}) < BatchSize}

Claim(r) ==
  /\ batch[r] = Nothing
  /\ Claimable # {}
  /\ batch' = [batch EXCEPT ![r] =
                 [e \in Events |-> IF e \in Oldest(Claimable) THEN "claimed" ELSE "free"]]
  /\ UNCHANGED <<deaths, rowVars, jobVars>>

(* The row the loop of relayBatch is at.                                   *)
IsNext(r, e) ==
  /\ batch[r][e] = "claimed"
  /\ \A f \in Events : batch[r][f] = "claimed" => e <= f

Staged(r, e, fate) == batch' = [batch EXCEPT ![r][e] = fate]

(* BullMQ ignores an add whose jobId it still knows, in whatever state.    *)
AddJob(e) ==
  IF job[e] = "none"
    THEN /\ job' = [job EXCEPT ![e] = "waiting"]
         /\ created' = [created EXCEPT ![e] = @ + 1]
         /\ UNCHANGED <<tries, stalled, deadLetters>>
    ELSE UNCHANGED jobVars

Enqueue(r, e) ==
  /\ IsNext(r, e)
  /\ Staged(r, e, "added")
  /\ AddJob(e)
  /\ UNCHANGED <<deaths, rowVars>>

(* The add throws; Redis may have taken the job all the same.              *)
EnqueueFails(r, e) ==
  /\ IsNext(r, e)
  /\ Staged(r, e, "failed")
  /\ AddJob(e) \/ UNCHANGED jobVars
  /\ UNCHANGED <<deaths, rowVars>>

(* Mutant: a row that cannot be enqueued is tried forever.                 *)
StatusAfterNeverDead(fate, e) == IF fate = "added" THEN "published" ELSE row[e]

(* Mutant: a row is marked published although its add threw.               *)
StatusAfterOptimistic(fate, e) == IF fate \in {"added", "failed"} THEN "published" ELSE row[e]

StatusAfter(fate, e) ==
  CASE fate = "added" -> "published"
    [] fate = "failed" /\ attempts[e] + 1 >= MaxAttempts -> "dead"
    [] OTHER -> row[e]

CommitBatch(r) ==
  /\ batch[r] # Nothing
  /\ \A e \in Events : batch[r][e] # "claimed"
  /\ row' = [e \in Events |-> StatusAfter(batch[r][e], e)]
  /\ attempts' = [e \in Events |->
                    IF batch[r][e] = "failed" THEN attempts[e] + 1 ELSE attempts[e]]
  /\ batch' = [batch EXCEPT ![r] = Nothing]
  /\ UNCHANGED <<deaths, jobVars>>

(* The cycle throws or its process dies: the locks and the marks go.       *)
RelayDies(r) ==
  /\ batch[r] # Nothing
  /\ deaths < MaxDeaths
  /\ deaths' = deaths + 1
  /\ batch' = [batch EXCEPT ![r] = Nothing]
  /\ UNCHANGED <<rowVars, jobVars>>

(* The retention job deletes a published row, 30 days later.               *)
Cleanup(e) ==
  /\ row[e] = "published"
  /\ row' = [row EXCEPT ![e] = "deleted"]
  /\ UNCHANGED <<attempts, relayVars, jobVars>>

--------------------------------------------------------------------------------
(* The jobs.                                                               *)

JobMoves(e, from, to) ==
  /\ job[e] = from
  /\ job' = [job EXCEPT ![e] = to]
  /\ UNCHANGED <<rowVars, relayVars, created>>

RunJob(e) ==
  /\ JobMoves(e, "waiting", "active")
  /\ UNCHANGED <<tries, stalled, deadLetters>>

Complete(e) ==
  /\ JobMoves(e, "active", "completed")
  /\ UNCHANGED <<tries, stalled, deadLetters>>

(* Mutant: a failing job is retried without limit.                         *)
JobRetriedForever(e) ==
  /\ JobMoves(e, "active", "waiting")
  /\ UNCHANGED <<tries, stalled, deadLetters>>

(* A handler throws: a retry after the backoff, or the job has failed.     *)
JobFails(e) ==
  /\ JobMoves(e, "active", IF tries[e] + 1 = JobAttempts THEN "failed" ELSE "waiting")
  /\ tries' = [tries EXCEPT ![e] = @ + 1]
  /\ UNCHANGED <<stalled, deadLetters>>

(* The worker dies with the job: BullMQ puts it back once, then fails it.  *)
Stall(e) ==
  /\ JobMoves(e, "active", IF e \in stalled THEN "failed" ELSE "waiting")
  /\ stalled' = stalled \union {e}
  /\ UNCHANGED <<tries, deadLetters>>

(* onFailed: exhausted retries, not a stall, put the event on the DLQ.     *)
DeadLetter(e) ==
  /\ job[e] = "failed"
  /\ tries[e] = JobAttempts
  /\ e \notin deadLetters
  /\ deadLetters' = deadLetters \union {e}
  /\ UNCHANGED <<rowVars, relayVars, job, tries, stalled, created>>

(* removeOnComplete and removeOnFail: the jobId is free again.             *)
Prune(e) ==
  /\ job[e] \in {"completed", "failed"}
  /\ JobMoves(e, job[e], "none")
  /\ tries' = [tries EXCEPT ![e] = 0]
  /\ stalled' = stalled \ {e}
  /\ UNCHANGED deadLetters

--------------------------------------------------------------------------------

RelayNext ==
  \/ \E e \in Events : Cleanup(e)
  \/ \E r \in Replicas :
       \/ Claim(r)
       \/ \E e \in Events : Enqueue(r, e) \/ EnqueueFails(r, e)
       \/ CommitBatch(r)
       \/ RelayDies(r)

OutboxNext ==
  \/ RelayNext
  \/ \E e \in Events :
       \/ Emit(e)
       \/ RunJob(e)
       \/ Complete(e)
       \/ JobFails(e)
       \/ Stall(e)
       \/ DeadLetter(e)
       \/ Prune(e)

OutboxSpec == OutboxInit /\ [][OutboxNext]_outboxVars

(* Every replica ticks, its cycles end, and the workers take jobs and end  *)
(* them.  Nothing forces a failure, a death, a prune or a clean-up.        *)
RelayFairness ==
  \A r \in Replicas :
    /\ WF_outboxVars(Claim(r))
    /\ WF_outboxVars(\E e \in Events : Enqueue(r, e) \/ EnqueueFails(r, e))
    /\ WF_outboxVars(CommitBatch(r))

JobFairness ==
  \A e \in Events :
    WF_outboxVars(RunJob(e)) /\ WF_outboxVars(Complete(e) \/ JobFails(e))

OutboxFairSpec == OutboxSpec /\ RelayFairness /\ JobFairness

--------------------------------------------------------------------------------

(* "Two relays can never claim the same row" (outbox-relay.service.ts).    *)
ClaimsAreDisjoint ==
  \A r, s \in Replicas, e \in Events :
    batch[r][e] # "free" /\ batch[s][e] # "free" => r = s

(* No event is lost on the way: a row is published only after Redis has    *)
(* taken its job, whichever cycles failed or died before.                  *)
PublishedWasEnqueued ==
  \A e \in Events : row[e] \in {"published", "deleted"} => created[e] > 0

(* Delivery is at-least-once, and a duplicate has a cause: an event gets   *)
(* one job, plus one at most for every reported failure of its enqueue and *)
(* every relay cycle that was rolled back.                                 *)
DuplicatesHaveACause ==
  \A e \in Events : created[e] <= 1 + attempts[e] + deaths

(* What makes them inductive: a job known to Redis was created, only       *)
(* pending rows are locked, a row marked added has had its job, and every  *)
(* job so far is explained by an earlier failure or rollback as long as    *)
(* the row's next add is still to come.                                    *)
JobsWereCreated == \A e \in Events : job[e] # "none" => created[e] > 0

LockedRowsArePending ==
  \A r \in Replicas, e \in Events :
    /\ batch[r][e] # "free" => row[e] = "pending"
    /\ batch[r][e] = "added" => created[e] > 0

EarlierJobsAreExplained ==
  \A e \in Events :
    /\ row[e] = "absent" => created[e] = 0
    /\ row[e] = "pending" /\ (\A r \in Replicas : batch[r][e] \in {"free", "claimed"}) =>
         created[e] <= attempts[e] + deaths

RetriesAreLeft ==
  \A e \in Events :
    /\ row[e] \in {"absent", "pending"} => attempts[e] < MaxAttempts
    /\ job[e] = "none" => tries[e] = 0
    /\ job[e] \in {"waiting", "active"} => tries[e] < JobAttempts

OutboxInv ==
  /\ OutboxTypeOK
  /\ RetriesAreLeft
  /\ JobsWereCreated
  /\ ClaimsAreDisjoint
  /\ LockedRowsArePending
  /\ PublishedWasEnqueued
  /\ EarlierJobsAreExplained
  /\ DuplicatesHaveACause

(* A job of the event has run to its end (and may have been pruned).       *)
JobEnded(e) == created[e] > 0 /\ job[e] \in {"completed", "failed", "none"}

(* A pending event is settled: a job of it ends, or the row is dead.  A    *)
(* row that cannot be enqueued does not hold up the rows behind it.        *)
EveryEventSettles ==
  \A e \in Events : row[e] = "pending" ~> (row[e] = "dead" \/ JobEnded(e))
================================================================================
