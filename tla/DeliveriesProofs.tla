---------------------------- MODULE DeliveriesProofs ---------------------------
(***************************************************************************)
(* For any deliveries, documents, replicas and limits: the deliveries run  *)
(* on the outbox as it is specified, a delivery sends at most one mail,    *)
(* and what its row says of it is true and final.                          *)
(***************************************************************************)
EXTENDS Deliveries, OutboxProofs

(* What a delivery does to the outbox is a step of the outbox.             *)
LEMMA StepIsOutboxStep == [Next]_vars => [OutboxNext]_outboxVars
  <1> SUFFICES ASSUME [Next]_vars PROVE [OutboxNext]_outboxVars
    OBVIOUS
  <1>1. CASE RelayNext
    BY <1>1 DEF OutboxNext
  <1>2. ASSUME NEW d \in Events, RunJob(d) \/ DeadLetter(d) \/ Prune(d)
        PROVE  [OutboxNext]_outboxVars
    BY <1>2 DEF OutboxNext
  <1>3. ASSUME NEW d \in Events, Send(d) PROVE [OutboxNext]_outboxVars
    BY <1>3 DEF Send, OutboxNext
  <1>4. ASSUME NEW d \in Events, ClaimForSend(d) \/ ClaimLate(d)
        PROVE  [OutboxNext]_outboxVars
    BY <1>4 DEF ClaimForSend, ClaimLate
  <1>5. ASSUME NEW d \in Events, ClaimFindsNothing(d) \/ ClaimThrows(d)
        PROVE  [OutboxNext]_outboxVars
    BY <1>5 DEF ClaimFindsNothing, ClaimThrows, OutboxNext
  <1>6. ASSUME NEW d \in Events, SmtpAccepts(d) \/ SmtpRefuses(d)
        PROVE  [OutboxNext]_outboxVars
    BY <1>6 DEF SmtpAccepts, SmtpRefuses
  <1>7. ASSUME NEW d \in Events, MarkOutcome(d) \/ MarkThrows(d)
        PROVE  [OutboxNext]_outboxVars
    BY <1>7 DEF MarkOutcome, MarkThrows, Ends, OutboxNext
  <1>8. ASSUME NEW d \in Events, WorkerDies(d) \/ WorkerLosesJob(d)
        PROVE  [OutboxNext]_outboxVars
    BY <1>8 DEF WorkerDies, WorkerLosesJob, OutboxNext
  <1>9. CASE UNCHANGED vars
    BY <1>9 DEF vars
  <1>10. QED
    BY <1>1, <1>2, <1>3, <1>4, <1>5, <1>6, <1>7, <1>8, <1>9 DEF Next

(* The pipeline under the deliveries is the specified outbox.              *)
THEOREM DeliveriesImplementOutbox == Spec => OutboxSpec
  <1>1. Init => OutboxInit
    BY DEF Init
  <1>2. QED
    BY <1>1, StepIsOutboxStep, PTL DEF Spec, OutboxSpec

LEMMA InitDeliveriesInv == Init => DeliveriesInv
  BY DEF Init, OutboxInit, DeliveriesInv, DeliveriesTypeOK, RowsHaveEvents,
         SenderHoldsTheRow, AtMostOneMail, SentWasMailed

(* What one step does to the row and the sender of a delivery, and to the  *)
(* mails: nothing, or one of the steps of its life.                        *)
Untouched(d) ==
  status'[d] = status[d] /\ sender'[d] = sender[d] /\ mails'[d] = mails[d]

Queues(d) ==
  /\ row[d] = "absent" /\ row'[d] # "absent"
  /\ status'[d] = "queued" /\ sender'[d] = sender[d] /\ mails'[d] = mails[d]

TakesUp(d) ==
  /\ status[d] = "queued" /\ status'[d] = "sending"
  /\ sender'[d] \in {sender[d], "claimed"} /\ mails'[d] = mails[d]

HearsFromSmtp(d) ==
  /\ sender[d] = "claimed" /\ status'[d] = status[d]
  /\ \/ sender'[d] = "accepted" /\ mails'[d] = mails[d] + 1
     \/ sender'[d] = "refused" /\ mails'[d] \in {mails[d], mails[d] + 1}

RecordsOutcome(d) ==
  /\ sender[d] \in {"accepted", "refused"}
  /\ status'[d] \in {status[d], Outcome(d)}
  /\ sender'[d] = "none" /\ mails'[d] = mails[d]

LosesItsRun(d) ==
  status'[d] = status[d] /\ sender'[d] = "none" /\ mails'[d] = mails[d]

LifeStep(d) ==
  \/ Untouched(d)
  \/ Queues(d)
  \/ TakesUp(d)
  \/ HearsFromSmtp(d)
  \/ RecordsOutcome(d)
  \/ LosesItsRun(d)

LEMMA StepIsLifeStep ==
  ASSUME OutboxTypeOK, DeliveriesTypeOK, [Next]_vars
  PROVE  DeliveriesTypeOK' /\ \A d \in Events : LifeStep(d)
  <1> DEFINE Goal == DeliveriesTypeOK' /\ \A d \in Events : LifeStep(d)
  <1> USE DEF DeliveriesTypeOK
  <1>1. CASE UNCHANGED deliveryVars
    BY <1>1 DEF deliveryVars, LifeStep, Untouched
  <1>2. ASSUME NEW d \in Events, Send(d) PROVE Goal
    <2>1. DeliveriesTypeOK' /\ \A c \in Events \ {d} : Untouched(c)
      BY <1>2 DEF Send, Untouched
    <2>2. Queues(d)
      BY <1>2 DEF Send, Emit, Queues, OutboxTypeOK
    <2>3. QED
      BY <2>1, <2>2 DEF LifeStep
  <1>3. ASSUME NEW d \in Events, ClaimForSend(d) \/ ClaimLate(d) PROVE Goal
    BY <1>3 DEF ClaimForSend, ClaimLate, Takes, ClaimableRow, LifeStep, Untouched, TakesUp
  <1>4. ASSUME NEW d \in Events, ClaimFindsNothing(d) \/ ClaimThrows(d) PROVE Goal
    BY <1>4 DEF ClaimFindsNothing, ClaimThrows, LifeStep, Untouched, TakesUp
  <1>5. ASSUME NEW d \in Events, SmtpAccepts(d) \/ SmtpRefuses(d) PROVE Goal
    BY <1>5 DEF SmtpAccepts, SmtpRefuses, LifeStep, Untouched, HearsFromSmtp
  <1>6. ASSUME NEW d \in Events, MarkOutcome(d) \/ MarkThrows(d) PROVE Goal
    BY <1>6 DEF MarkOutcome, MarkThrows, Ends, Outcome, LifeStep, Untouched, RecordsOutcome
  <1>7. ASSUME NEW d \in Events, WorkerDies(d) \/ WorkerLosesJob(d) PROVE Goal
    BY <1>7 DEF WorkerDies, WorkerLosesJob, LifeStep, Untouched, LosesItsRun
  <1>8. QED
    BY <1>1, <1>2, <1>3, <1>4, <1>5, <1>6, <1>7 DEF Next, vars

(* Every step of its life keeps what is known of a delivery.               *)
LEMMA NextDeliveriesInv ==
  OutboxInv /\ DeliveriesInv /\ [Next]_vars => DeliveriesInv'
  <1> SUFFICES ASSUME OutboxInv, DeliveriesInv, [Next]_vars PROVE DeliveriesInv'
    OBVIOUS
  <1> USE DEF DeliveriesInv
  <1>1. DeliveriesTypeOK /\ DeliveriesTypeOK' /\ \A d \in Events : LifeStep(d)
    BY StepIsLifeStep DEF OutboxInv
  <1>2. \A d \in Events : row'[d] = "absent" => row[d] = "absent"
    BY StepIsOutboxStep, RowsStay
  <1>3. \A d \in Events : Queues(d) => status[d] = "absent"
    BY DEF Queues, RowsHaveEvents
  <1>4. RowsHaveEvents'
    <2>1. ASSUME NEW d \in Events, row'[d] = "absent" PROVE status'[d] = "absent"
      <3>1. status[d] = "absent" /\ sender[d] = "none"
        BY <1>1, <1>2, <2>1 DEF RowsHaveEvents, SenderHoldsTheRow, DeliveriesTypeOK
      <3>2. LifeStep(d)
        BY <1>1
      <3>3. QED
        BY <2>1, <3>1, <3>2
           DEF LifeStep, Untouched, Queues, TakesUp, HearsFromSmtp, RecordsOutcome, LosesItsRun
    <2>2. QED
      BY <2>1 DEF RowsHaveEvents
  <1>5. ASSUME NEW d \in Events
        PROVE  /\ sender'[d] # "none" => status'[d] = "sending"
               /\ status'[d] \in {"absent", "queued"} \/ sender'[d] = "claimed" => mails'[d] = 0
               /\ sender'[d] = "accepted" => mails'[d] = 1
               /\ mails'[d] <= 1
               /\ status'[d] = "sent" => mails'[d] = 1
    <2> DEFINE Known ==
          /\ sender'[d] # "none" => status'[d] = "sending"
          /\ status'[d] \in {"absent", "queued"} \/ sender'[d] = "claimed" => mails'[d] = 0
          /\ sender'[d] = "accepted" => mails'[d] = 1
          /\ mails'[d] <= 1
          /\ status'[d] = "sent" => mails'[d] = 1
    <2> USE DEF DeliveriesTypeOK, SenderHoldsTheRow, AtMostOneMail, SentWasMailed
    <2>1. CASE Untouched(d)
      BY <1>1, <2>1 DEF Untouched
    <2>2. CASE Queues(d)
      BY <1>1, <1>3, <2>2 DEF Queues
    <2>3. CASE TakesUp(d)
      BY <1>1, <2>3 DEF TakesUp
    <2>4. CASE HearsFromSmtp(d)
      BY <1>1, <2>4 DEF HearsFromSmtp
    <2>5. CASE RecordsOutcome(d)
      BY <1>1, <2>5 DEF RecordsOutcome, Outcome
    <2>6. CASE LosesItsRun(d)
      BY <1>1, <2>6 DEF LosesItsRun
    <2>7. QED
      BY <1>1, <2>1, <2>2, <2>3, <2>4, <2>5, <2>6 DEF LifeStep
  <1>6. SenderHoldsTheRow' /\ AtMostOneMail' /\ SentWasMailed'
    BY <1>5 DEF SenderHoldsTheRow, AtMostOneMail, SentWasMailed
  <1>7. QED
    BY <1>1, <1>4, <1>6

--------------------------------------------------------------------------------

(* The inductive invariant of the deliveries, on top of the outbox's.      *)
THEOREM DeliveriesInvariant == Spec => [](OutboxInv /\ DeliveriesInv)
  BY DeliveriesImplementOutbox, OutboxInvariant, InitDeliveriesInv, NextDeliveriesInv, PTL
     DEF Spec

(* Claim-before-send makes delivery at-most-once.                          *)
THEOREM DeliveriesMailOnce == Spec => []AtMostOneMail
  <1>1. DeliveriesInv => AtMostOneMail
    BY DEF DeliveriesInv
  <1>2. QED
    BY <1>1, DeliveriesInvariant, PTL

(* A delivery shown as sent was mailed.                                    *)
THEOREM DeliveriesTellTheTruth == Spec => []SentWasMailed
  <1>1. DeliveriesInv => SentWasMailed
    BY DEF DeliveriesInv
  <1>2. QED
    BY <1>1, DeliveriesInvariant, PTL

(* The delivery that blocks a document was never claimed.                  *)
THEOREM DeliveriesBlockUnclaimed == Spec => []QueuedWasNeverClaimed
  <1>1. DeliveriesInv => QueuedWasNeverClaimed
    BY DEF DeliveriesInv, SenderHoldsTheRow, QueuedWasNeverClaimed
  <1>2. QED
    BY <1>1, DeliveriesInvariant, PTL

(* An outcome, once recorded, stands.                                      *)
THEOREM DeliveriesOutcomeIsFinal == Spec => OutcomeIsFinal
  <1>1. ASSUME OutboxInv, DeliveriesInv, [Next]_vars, NEW d \in Events,
               status[d] \in {"sent", "failed"}
        PROVE  status'[d] = status[d]
    <2>1. LifeStep(d)
      BY <1>1, StepIsLifeStep DEF OutboxInv, DeliveriesInv
    <2>2. row[d] # "absent" /\ sender[d] = "none"
      BY <1>1 DEF DeliveriesInv, RowsHaveEvents, SenderHoldsTheRow
    <2>3. QED
      BY <1>1, <2>1, <2>2
         DEF LifeStep, Untouched, Queues, TakesUp, HearsFromSmtp, RecordsOutcome, LosesItsRun
  <1>2. OutboxInv /\ DeliveriesInv /\ [Next]_vars =>
          [\A d \in Events :
             status[d] \in {"sent", "failed"} => status'[d] = status[d]]_vars
    BY <1>1
  <1>3. QED
    BY <1>2, DeliveriesInvariant, PTL DEF Spec, OutcomeIsFinal
================================================================================
