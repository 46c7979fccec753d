------------------------------ MODULE OutboxProofs -----------------------------
(***************************************************************************)
(* For any events, replicas and limits: no two relays hold one row, no     *)
(* event is lost on its way to the queue, and every duplicate job has a    *)
(* failed enqueue or a rolled-back cycle to account for it.                *)
(***************************************************************************)
EXTENDS Outbox, TLAPS

LEMMA InitOutboxInv == OutboxInit => OutboxInv
  <1> SUFFICES ASSUME OutboxInit PROVE OutboxInv
    OBVIOUS
  <1> USE DEF OutboxInit, Nothing
  <1>1. OutboxTypeOK
    BY OutboxAssumption DEF OutboxTypeOK, Fates, JobStates
  <1>2. RetriesAreLeft
    BY OutboxAssumption DEF RetriesAreLeft
  <1>3. JobsWereCreated /\ ClaimsAreDisjoint /\ LockedRowsArePending
    BY DEF JobsWereCreated, ClaimsAreDisjoint, LockedRowsArePending
  <1>4. PublishedWasEnqueued /\ EarlierJobsAreExplained /\ DuplicatesHaveACause
    BY DEF PublishedWasEnqueued, EarlierJobsAreExplained, DuplicatesHaveACause
  <1>5. QED
    BY <1>1, <1>2, <1>3, <1>4 DEF OutboxInv

(* What an add does to the jobs, whichever state they are in.              *)
LEMMA JobsAfterAdd ==
  ASSUME OutboxInv, NEW e \in Events, AddJob(e) \/ UNCHANGED jobVars
  PROVE  /\ job' \in [Events -> JobStates]
         /\ tries' = tries /\ stalled' = stalled /\ deadLetters' = deadLetters
         /\ \A f \in Events : job'[f] = job[f] \/ (job[f] = "none" /\ job'[f] = "waiting")
         /\ created' \in [Events -> Nat]
         /\ \A f \in Events \ {e} : created'[f] = created[f]
         /\ created[e] <= created'[e] /\ created'[e] <= created[e] + 1
         /\ AddJob(e) => created'[e] > 0
  BY DEF JobsWereCreated, OutboxInv, OutboxTypeOK, AddJob, jobVars, JobStates

(* A relay cycle writes only to the rows it has locked.                    *)
LEMMA RowsAfterCommit ==
  ASSUME OutboxInv, NEW r \in Replicas, CommitBatch(r)
  PROVE  /\ row' \in [Events -> {"absent", "pending", "published", "dead", "deleted"}]
         /\ attempts' \in [Events -> 0 .. MaxAttempts]
         /\ \A e \in Events : batch[r][e] = "free" =>
              row'[e] = row[e] /\ attempts'[e] = attempts[e]
         /\ \A e \in Events : batch[r][e] = "added" =>
              row'[e] = "published" /\ attempts'[e] = attempts[e]
         /\ \A e \in Events : batch[r][e] = "failed" =>
              /\ row'[e] = IF attempts[e] + 1 >= MaxAttempts THEN "dead" ELSE "pending"
              /\ attempts'[e] = attempts[e] + 1
         /\ \A e \in Events : batch[r][e] \in {"free", "added", "failed"}
  <1> USE OutboxAssumption DEF OutboxInv, OutboxTypeOK
  <1>1. \A e \in Events : batch[r][e] \in {"free", "added", "failed"}
    BY DEF CommitBatch, Fates
  <1>2. \A e \in Events : batch[r][e] # "free" => row[e] = "pending" /\ attempts[e] < MaxAttempts
    BY DEF LockedRowsArePending, RetriesAreLeft
  <1>3. \A e \in Events : row'[e] = StatusAfter(batch[r][e], e)
    BY DEF CommitBatch
  <1>4. \A e \in Events :
          attempts'[e] = IF batch[r][e] = "failed" THEN attempts[e] + 1 ELSE attempts[e]
    BY DEF CommitBatch
  <1>5. attempts' \in [Events -> 0 .. MaxAttempts]
    BY <1>1, <1>2 DEF CommitBatch
  <1>6. \A e \in Events :
          StatusAfter(batch[r][e], e) =
            IF batch[r][e] = "added" THEN "published"
            ELSE IF batch[r][e] = "failed" /\ attempts[e] + 1 >= MaxAttempts THEN "dead"
            ELSE row[e]
    BY <1>1 DEF StatusAfter
  <1>7. row' \in [Events -> {"absent", "pending", "published", "dead", "deleted"}]
    BY <1>6 DEF CommitBatch
  <1>8. QED
    BY <1>1, <1>2, <1>3, <1>4, <1>5, <1>6, <1>7

--------------------------------------------------------------------------------
(* Every action keeps the invariant.                                       *)

LEMMA EmitKeeps ==
  ASSUME OutboxInv, NEW e \in Events, Emit(e) PROVE OutboxInv'
  <1> USE DEF OutboxInv, OutboxTypeOK, Emit, relayVars, jobVars
  <1>1. OutboxTypeOK'
    OBVIOUS
  <1>2. RetriesAreLeft' /\ JobsWereCreated'
    BY DEF RetriesAreLeft, JobsWereCreated
  <1>3. ClaimsAreDisjoint' /\ LockedRowsArePending'
    BY DEF ClaimsAreDisjoint, LockedRowsArePending
  <1>4. PublishedWasEnqueued'
    BY DEF PublishedWasEnqueued
  <1>5. EarlierJobsAreExplained'
    BY DEF EarlierJobsAreExplained
  <1>6. DuplicatesHaveACause'
    BY DEF DuplicatesHaveACause
  <1>7. QED
    BY <1>1, <1>2, <1>3, <1>4, <1>5, <1>6

LEMMA ClaimKeeps ==
  ASSUME OutboxInv, NEW r \in Replicas, Claim(r) PROVE OutboxInv'
  <1> DEFINE mine == [e \in Events |-> IF e \in Oldest(Claimable) THEN "claimed" ELSE "free"]
  <1> USE DEF OutboxInv, OutboxTypeOK, rowVars, jobVars
  <1>1. /\ batch[r] = Nothing /\ batch' = [batch EXCEPT ![r] = mine]
        /\ UNCHANGED <<row, attempts, deaths, job, tries, stalled, created, deadLetters>>
    BY DEF Claim
  <1>2. \A e \in Events : mine[e] \in {"free", "claimed"}
    OBVIOUS
  <1>3. \A e \in Events : mine[e] # "free" =>
          row[e] = "pending" /\ \A s \in Replicas : batch[s][e] = "free"
    BY DEF Oldest, Claimable
  <1>4. mine \in [Events -> Fates]
    BY DEF Fates
  <1> HIDE DEF mine
  <1>5. OutboxTypeOK'
    BY <1>1, <1>4
  <1>6. RetriesAreLeft' /\ JobsWereCreated'
    BY <1>1 DEF RetriesAreLeft, JobsWereCreated
  <1>7. ClaimsAreDisjoint'
    BY <1>1, <1>3 DEF ClaimsAreDisjoint
  <1>8. LockedRowsArePending'
    BY <1>1, <1>2, <1>3 DEF LockedRowsArePending
  <1>9. PublishedWasEnqueued' /\ DuplicatesHaveACause'
    BY <1>1 DEF PublishedWasEnqueued, DuplicatesHaveACause
  <1>10. EarlierJobsAreExplained'
    <2>1. \A e \in Events : batch[r][e] = "free"
      BY <1>1 DEF Nothing
    <2>2. \A e \in Events, s \in Replicas :
            batch'[s][e] \in {"free", "claimed"} => batch[s][e] \in {"free", "claimed"}
      BY <1>1, <2>1
    <2>3. QED
      BY <1>1, <2>2 DEF EarlierJobsAreExplained
  <1>11. QED
    BY <1>5, <1>6, <1>7, <1>8, <1>9, <1>10

(* The add of the row the loop is at, whether it threw or not.             *)
LEMMA EnqueueKeeps ==
  ASSUME OutboxInv, NEW r \in Replicas, NEW e \in Events,
         Enqueue(r, e) \/ EnqueueFails(r, e)
  PROVE  OutboxInv'
  <1> USE DEF OutboxInv, OutboxTypeOK, rowVars
  <1>1. /\ batch[r][e] = "claimed"
        /\ AddJob(e) \/ UNCHANGED jobVars
        /\ UNCHANGED <<row, attempts, deaths>>
    BY DEF Enqueue, EnqueueFails, IsNext
  <1>2. PICK fate \in {"added", "failed"} :
          /\ batch' = [batch EXCEPT ![r][e] = fate]
          /\ fate = "added" => AddJob(e)
    BY DEF Enqueue, EnqueueFails, Staged
  <1>3. /\ job' \in [Events -> JobStates]
        /\ tries' = tries /\ stalled' = stalled /\ deadLetters' = deadLetters
        /\ \A f \in Events : job'[f] = job[f] \/ (job[f] = "none" /\ job'[f] = "waiting")
        /\ created' \in [Events -> Nat]
        /\ \A f \in Events \ {e} : created'[f] = created[f]
        /\ created[e] <= created'[e] /\ created'[e] <= created[e] + 1
        /\ AddJob(e) => created'[e] > 0
    BY <1>1, JobsAfterAdd
  <1>4. /\ row[e] = "pending"
        /\ \A s \in Replicas : batch[s][e] \in {"free", "claimed"}
    BY <1>1 DEF LockedRowsArePending, ClaimsAreDisjoint
  <1>5. created[e] <= attempts[e] + deaths
    BY <1>4 DEF EarlierJobsAreExplained
  <1>6. /\ batch' \in [Replicas -> [Events -> Fates]]
        /\ batch'[r][e] = fate
        /\ \A s \in Replicas, f \in Events :
             s # r \/ f # e => batch'[s][f] = batch[s][f]
    BY <1>2 DEF Fates
  <1>7. OutboxTypeOK'
    BY <1>1, <1>3, <1>6
  <1>8. RetriesAreLeft'
    BY <1>1, <1>3, OutboxAssumption DEF RetriesAreLeft
  <1>9. JobsWereCreated'
    <2>1. ASSUME NEW f \in Events, job'[f] # "none" PROVE created'[f] > 0
      <3>1. CASE job[f] # "none"
        BY <1>3, <3>1 DEF JobsWereCreated
      <3>2. CASE job[f] = "none" /\ f = e
        BY <1>1, <1>3, <2>1, <3>2 DEF jobVars
      <3>3. CASE job[f] = "none" /\ f # e
        BY <1>1, <2>1, <3>3 DEF AddJob, jobVars
      <3>4. QED
        BY <3>1, <3>2, <3>3
    <2>2. QED
      BY <2>1 DEF JobsWereCreated
  <1>10. ClaimsAreDisjoint'
    BY <1>1, <1>2, <1>6 DEF ClaimsAreDisjoint
  <1>11. LockedRowsArePending'
    <2>1. \A f \in Events : created[f] > 0 => created'[f] > 0
      BY <1>3
    <2>2. fate = "added" => created'[e] > 0
      BY <1>2, <1>3
    <2>3. QED
      BY <1>1, <1>2, <1>4, <1>6, <2>1, <2>2 DEF LockedRowsArePending
  <1>12. PublishedWasEnqueued'
    BY <1>1, <1>3, <1>4 DEF PublishedWasEnqueued
  <1>13. EarlierJobsAreExplained'
    <2>1. batch'[r][e] \notin {"free", "claimed"}
      BY <1>2, <1>6
    <2>2. \A f \in Events \ {e} : \A s \in Replicas : batch'[s][f] = batch[s][f]
      BY <1>6
    <2>3. QED
      BY <1>1, <1>3, <1>4, <2>1, <2>2 DEF EarlierJobsAreExplained
  <1>14. DuplicatesHaveACause'
    BY <1>1, <1>3, <1>5 DEF DuplicatesHaveACause
  <1>15. QED
    BY <1>7, <1>8, <1>9, <1>10, <1>11, <1>12, <1>13, <1>14

LEMMA CommitBatchKeeps ==
  ASSUME OutboxInv, NEW r \in Replicas, CommitBatch(r) PROVE OutboxInv'
  <1> USE DEF OutboxInv, OutboxTypeOK
  <1>1. /\ batch' = [batch EXCEPT ![r] = Nothing]
        /\ UNCHANGED <<deaths, job, tries, stalled, created, deadLetters>>
    BY DEF CommitBatch, jobVars
  <1>2. /\ row' \in [Events -> {"absent", "pending", "published", "dead", "deleted"}]
        /\ attempts' \in [Events -> 0 .. MaxAttempts]
        /\ \A e \in Events : batch[r][e] = "free" =>
             row'[e] = row[e] /\ attempts'[e] = attempts[e]
        /\ \A e \in Events : batch[r][e] = "added" =>
             row'[e] = "published" /\ attempts'[e] = attempts[e]
        /\ \A e \in Events : batch[r][e] = "failed" =>
             /\ row'[e] = IF attempts[e] + 1 >= MaxAttempts THEN "dead" ELSE "pending"
             /\ attempts'[e] = attempts[e] + 1
        /\ \A e \in Events : batch[r][e] \in {"free", "added", "failed"}
    BY RowsAfterCommit
  <1>3. /\ batch' \in [Replicas -> [Events -> Fates]]
        /\ \A e \in Events : batch'[r][e] = "free"
        /\ \A s \in Replicas \ {r}, e \in Events : batch'[s][e] = batch[s][e]
    BY <1>1 DEF Nothing, Fates
  <1>4. \A s \in Replicas \ {r}, e \in Events :
          batch[s][e] # "free" => batch[r][e] = "free" /\ row[e] = "pending"
    BY DEF ClaimsAreDisjoint, LockedRowsArePending
  <1>5. OutboxTypeOK'
    BY <1>1, <1>2, <1>3
  <1>6. RetriesAreLeft'
    <2>1. ASSUME NEW e \in Events, row'[e] \in {"absent", "pending"}
          PROVE  attempts'[e] < MaxAttempts
      <3>1. CASE batch[r][e] = "free"
        BY <1>2, <2>1, <3>1 DEF RetriesAreLeft
      <3>2. CASE batch[r][e] = "added"
        BY <1>2, <2>1, <3>2
      <3>3. CASE batch[r][e] = "failed"
        BY <1>2, <2>1, <3>3, OutboxAssumption
      <3>4. QED
        BY <1>2, <3>1, <3>2, <3>3
    <2>2. QED
      BY <1>1, <2>1 DEF RetriesAreLeft
  <1>7. JobsWereCreated'
    BY <1>1 DEF JobsWereCreated
  <1>8. ClaimsAreDisjoint'
    <2>1. \A s \in Replicas, e \in Events : batch'[s][e] # "free" => batch[s][e] # "free"
      BY <1>3
    <2>2. QED
      BY <2>1 DEF ClaimsAreDisjoint
  <1>9. LockedRowsArePending'
    BY <1>1, <1>2, <1>3, <1>4 DEF LockedRowsArePending
  <1>10. PublishedWasEnqueued'
    <2>1. ASSUME NEW e \in Events, row'[e] \in {"published", "deleted"}
          PROVE  created[e] > 0
      <3>1. CASE batch[r][e] = "free"
        BY <1>2, <2>1, <3>1 DEF PublishedWasEnqueued
      <3>2. CASE batch[r][e] = "added"
        BY <3>2 DEF LockedRowsArePending
      <3>3. CASE batch[r][e] = "failed"
        BY <1>2, <2>1, <3>3
      <3>4. QED
        BY <1>2, <3>1, <3>2, <3>3
    <2>2. QED
      BY <1>1, <2>1 DEF PublishedWasEnqueued
  <1>11. DuplicatesHaveACause'
    BY <1>1, <1>2 DEF DuplicatesHaveACause
  <1>12. EarlierJobsAreExplained'
    <2>1. ASSUME NEW e \in Events, row'[e] = "absent" PROVE created[e] = 0
      BY <1>2, <2>1 DEF EarlierJobsAreExplained
    <2>2. ASSUME NEW e \in Events, row'[e] = "pending",
                 \A s \in Replicas : batch'[s][e] \in {"free", "claimed"}
          PROVE  created[e] <= attempts'[e] + deaths
      <3>1. CASE batch[r][e] = "free"
        BY <1>2, <1>3, <2>2, <3>1 DEF EarlierJobsAreExplained
      <3>2. CASE batch[r][e] = "failed"
        BY <1>2, <3>2 DEF DuplicatesHaveACause
      <3>3. CASE batch[r][e] = "added"
        BY <1>2, <2>2, <3>3
      <3>4. QED
        BY <1>2, <3>1, <3>2, <3>3
    <2>3. QED
      BY <1>1, <2>1, <2>2 DEF EarlierJobsAreExplained
  <1>13. QED
    BY <1>5, <1>6, <1>7, <1>8, <1>9, <1>10, <1>11, <1>12

LEMMA RelayDiesKeeps ==
  ASSUME OutboxInv, NEW r \in Replicas, RelayDies(r) PROVE OutboxInv'
  <1> USE DEF OutboxInv, OutboxTypeOK
  <1>1. /\ batch' = [batch EXCEPT ![r] = Nothing] /\ deaths' = deaths + 1
        /\ UNCHANGED <<row, attempts, job, tries, stalled, created, deadLetters>>
    BY DEF RelayDies, rowVars, jobVars
  <1>2. /\ batch' \in [Replicas -> [Events -> Fates]]
        /\ \A e \in Events : batch'[r][e] = "free"
        /\ \A s \in Replicas \ {r}, e \in Events : batch'[s][e] = batch[s][e]
    BY <1>1 DEF Nothing, Fates
  <1>3. OutboxTypeOK'
    BY <1>1, <1>2
  <1>4. RetriesAreLeft' /\ JobsWereCreated' /\ PublishedWasEnqueued'
    BY <1>1 DEF RetriesAreLeft, JobsWereCreated, PublishedWasEnqueued
  <1>5. ClaimsAreDisjoint' /\ LockedRowsArePending'
    BY <1>1, <1>2 DEF ClaimsAreDisjoint, LockedRowsArePending
  <1>6. DuplicatesHaveACause' /\ EarlierJobsAreExplained'
    BY <1>1 DEF DuplicatesHaveACause, EarlierJobsAreExplained
  <1>7. QED
    BY <1>3, <1>4, <1>5, <1>6

LEMMA CleanupKeeps ==
  ASSUME OutboxInv, NEW e \in Events, Cleanup(e) PROVE OutboxInv'
  <1> USE DEF OutboxInv, OutboxTypeOK, Cleanup, relayVars, jobVars
  <1>1. OutboxTypeOK' /\ RetriesAreLeft' /\ JobsWereCreated'
    BY DEF RetriesAreLeft, JobsWereCreated
  <1>2. ClaimsAreDisjoint' /\ LockedRowsArePending'
    BY DEF ClaimsAreDisjoint, LockedRowsArePending
  <1>3. PublishedWasEnqueued' /\ EarlierJobsAreExplained' /\ DuplicatesHaveACause'
    BY DEF PublishedWasEnqueued, EarlierJobsAreExplained, DuplicatesHaveACause
  <1>4. QED
    BY <1>1, <1>2, <1>3

(* The jobs touch neither the rows nor the relays, and create no job.      *)
MovesJob(e) ==
  RunJob(e) \/ Complete(e) \/ JobFails(e) \/ Stall(e) \/ DeadLetter(e) \/ Prune(e)

LEMMA MovesJobKeeps ==
  ASSUME OutboxInv, NEW e \in Events, MovesJob(e) PROVE OutboxInv'
  <1> USE DEF OutboxInv, OutboxTypeOK, rowVars, relayVars
  <1>1. UNCHANGED <<row, attempts, batch, deaths, created>>
    BY DEF MovesJob, RunJob, Complete, JobFails, Stall, DeadLetter, Prune, JobMoves
  <1>2. /\ job' \in [Events -> JobStates]
        /\ stalled' \in SUBSET Events /\ deadLetters' \in SUBSET Events
        /\ \A f \in Events : job'[f] # "none" => job[f] # "none"
    BY DEF MovesJob, RunJob, Complete, JobFails, Stall, DeadLetter, Prune, JobMoves, JobStates
  <1>3. /\ tries' \in [Events -> 0 .. JobAttempts]
        /\ \A f \in Events :
             /\ job'[f] = "none" => tries'[f] = 0
             /\ job'[f] \in {"waiting", "active"} => tries'[f] < JobAttempts
    <2> USE OutboxAssumption DEF RetriesAreLeft
    <2>1. CASE RunJob(e) \/ Complete(e) \/ Stall(e) \/ DeadLetter(e)
      BY <2>1 DEF RunJob, Complete, Stall, DeadLetter, JobMoves
    <2>2. CASE JobFails(e)
      BY <2>2 DEF JobFails, JobMoves
    <2>3. CASE Prune(e)
      BY <2>3 DEF Prune, JobMoves
    <2>4. QED
      BY <2>1, <2>2, <2>3 DEF MovesJob
  <1>4. OutboxTypeOK'
    BY <1>1, <1>2, <1>3
  <1>5. RetriesAreLeft' /\ JobsWereCreated'
    BY <1>1, <1>2, <1>3 DEF RetriesAreLeft, JobsWereCreated
  <1>6. ClaimsAreDisjoint' /\ LockedRowsArePending'
    BY <1>1 DEF ClaimsAreDisjoint, LockedRowsArePending
  <1>7. PublishedWasEnqueued' /\ EarlierJobsAreExplained' /\ DuplicatesHaveACause'
    BY <1>1 DEF PublishedWasEnqueued, EarlierJobsAreExplained, DuplicatesHaveACause
  <1>8. QED
    BY <1>4, <1>5, <1>6, <1>7

LEMMA StutterKeeps ==
  ASSUME OutboxInv, UNCHANGED outboxVars PROVE OutboxInv'
  BY DEF OutboxInv, OutboxTypeOK, RetriesAreLeft, JobsWereCreated, ClaimsAreDisjoint,
         LockedRowsArePending, PublishedWasEnqueued, EarlierJobsAreExplained,
         DuplicatesHaveACause, outboxVars, rowVars, relayVars, jobVars

LEMMA NextOutboxInv == OutboxInv /\ [OutboxNext]_outboxVars => OutboxInv'
  <1> SUFFICES ASSUME OutboxInv, [OutboxNext]_outboxVars PROVE OutboxInv'
    OBVIOUS
  <1>1. CASE RelayNext
    BY <1>1, ClaimKeeps, EnqueueKeeps, CommitBatchKeeps, RelayDiesKeeps, CleanupKeeps
       DEF RelayNext
  <1>2. CASE \E e \in Events : Emit(e)
    BY <1>2, EmitKeeps
  <1>3. CASE \E e \in Events : MovesJob(e)
    BY <1>3, MovesJobKeeps
  <1>4. CASE UNCHANGED outboxVars
    BY <1>4, StutterKeeps
  <1>5. QED
    BY <1>1, <1>2, <1>3, <1>4 DEF OutboxNext, MovesJob

(* No step takes an event row back.                                        *)
LEMMA RowsStay ==
  ASSUME OutboxInv, [OutboxNext]_outboxVars, NEW e \in Events, row'[e] = "absent"
  PROVE  row[e] = "absent"
  <1> USE DEF OutboxInv, OutboxTypeOK, outboxVars, rowVars
  <1>1. ASSUME NEW r \in Replicas, CommitBatch(r) PROVE row[e] = "absent"
    BY <1>1, RowsAfterCommit
  <1>2. ASSUME NEW r \in Replicas, NEW f \in Events,
               Claim(r) \/ Enqueue(r, f) \/ EnqueueFails(r, f) \/ RelayDies(r)
        PROVE  row[e] = "absent"
    BY <1>2 DEF Claim, Enqueue, EnqueueFails, RelayDies
  <1>3. ASSUME NEW f \in Events, Emit(f) \/ Cleanup(f) PROVE row[e] = "absent"
    BY <1>3 DEF Emit, Cleanup
  <1>4. ASSUME NEW f \in Events, MovesJob(f) PROVE row[e] = "absent"
    BY <1>4 DEF MovesJob, RunJob, Complete, JobFails, Stall, DeadLetter, Prune, JobMoves
  <1>5. CASE UNCHANGED outboxVars
    BY <1>5
  <1>6. QED
    BY <1>1, <1>2, <1>3, <1>4, <1>5 DEF OutboxNext, RelayNext, MovesJob

--------------------------------------------------------------------------------

(* The inductive invariant of the outbox, for every number of events,      *)
(* replicas and deaths.                                                    *)
THEOREM OutboxInvariant == OutboxSpec => []OutboxInv
  BY InitOutboxInv, NextOutboxInv, PTL DEF OutboxSpec

(* Two relays can never claim the same row.                                *)
THEOREM OutboxClaims == OutboxSpec => []ClaimsAreDisjoint
  <1>1. OutboxInv => ClaimsAreDisjoint
    BY DEF OutboxInv
  <1>2. QED
    BY <1>1, OutboxInvariant, PTL

(* A row is published only after Redis has taken its job.                  *)
THEOREM OutboxLosesNothing == OutboxSpec => []PublishedWasEnqueued
  <1>1. OutboxInv => PublishedWasEnqueued
    BY DEF OutboxInv
  <1>2. QED
    BY <1>1, OutboxInvariant, PTL

(* A duplicate job is due to a failed enqueue or a rolled-back cycle.      *)
THEOREM OutboxDuplicates == OutboxSpec => []DuplicatesHaveACause
  <1>1. OutboxInv => DuplicatesHaveACause
    BY DEF OutboxInv
  <1>2. QED
    BY <1>1, OutboxInvariant, PTL
================================================================================
