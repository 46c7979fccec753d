------------------------------- MODULE Deliveries ------------------------------
(***************************************************************************)
(* The delivery of a document to the buyer: DeliveriesService.send queues a *)
(* row and emits its event; DeliveriesEventsHandler, run by the job of the *)
(* event, claims the row, hands the mail to SMTP and records the outcome.  *)
(*                                                                         *)
(* An event of Outbox is the event of one delivery.  The worker has no     *)
(* transaction: every UPDATE commits by itself, and a run may be cut off   *)
(* between any two of them.  A run whose worker misses the renewal of its  *)
(* job lock goes on while BullMQ starts the job again.                     *)
(***************************************************************************)
EXTENDS Outbox

CONSTANTS
  Documents,
  DocumentOf   \* the document each delivery sends

ASSUME DeliveriesAssumption == DocumentOf \in [Events -> Documents]

VARIABLES
  status,    \* "absent", or the status of the delivery row
  sender,    \* where the run that won the claim is
  detached,  \* the deliveries whose winning run has lost its job
  late,      \* the deliveries with a detached run that has yet to claim
  mails      \* how many mails SMTP took for the delivery (history)

deliveryVars == <<status, sender, detached, late, mails>>

vars == <<outboxVars, deliveryVars>>

DeliveriesTypeOK ==
  /\ status \in [Events -> {"absent", "queued", "sending", "sent", "failed"}]
  /\ sender \in [Events -> {"none", "claimed", "accepted", "refused"}]
  /\ detached \in SUBSET Events
  /\ late \in SUBSET Events
  /\ mails \in [Events -> Nat]

Init ==
  /\ OutboxInit
  /\ status = [d \in Events |-> "absent"]
  /\ sender = [d \in Events |-> "none"]
  /\ detached = {}
  /\ late = {}
  /\ mails = [d \in Events |-> 0]

--------------------------------------------------------------------------------

(* send, its guards passed: the row, unless document_delivery_inflight_uq  *)
(* refuses it (409 send_in_progress), and its event in one transaction.    *)
Send(d) ==
  /\ \A c \in Events : DocumentOf[c] = DocumentOf[d] => status[c] # "queued"
  /\ Emit(d)
  /\ status' = [status EXCEPT ![d] = "queued"]
  /\ UNCHANGED <<sender, detached, late, mails>>

(* The run that owns the job has not claimed the row.                      *)
Unclaimed(d) == job[d] = "active" /\ (sender[d] = "none" \/ d \in detached)

(* Mutant: a read and then a write, so that a row being sent is claimed.   *)
ClaimableNotFinal(d) == status[d] \in {"queued", "sending"}

(* Mutant: the claim looks at the id only.                                 *)
ClaimableById(d) == status[d] # "absent"

ClaimableRow(d) == status[d] = "queued"

Takes(d) ==
  /\ ClaimableRow(d)
  /\ status' = [status EXCEPT ![d] = "sending"]
  /\ sender' = [sender EXCEPT ![d] = "claimed"]

(* claimForSend: the conditional update finds the row queued.              *)
ClaimForSend(d) ==
  /\ Unclaimed(d)
  /\ Takes(d)
  /\ detached' = detached \ {d}
  /\ UNCHANGED <<late, mails, outboxVars>>

(* The same, by a run that has lost its job.                               *)
ClaimLate(d) ==
  /\ d \in late
  /\ Takes(d)
  /\ detached' = detached \union {d}
  /\ late' = late \ {d}
  /\ UNCHANGED <<mails, outboxVars>>

(* claimForSend finds nothing: the run ends without a mail.                *)
ClaimFindsNothing(d) ==
  /\ ~ ClaimableRow(d)
  /\ \/ Unclaimed(d) /\ Complete(d) /\ UNCHANGED late
     \/ d \in late /\ late' = late \ {d} /\ UNCHANGED outboxVars
  /\ UNCHANGED <<status, sender, detached, mails>>

(* claimForSend throws, before or after the database has committed it.     *)
ClaimThrows(d) ==
  /\ Unclaimed(d)
  /\ JobFails(d)
  /\ \/ UNCHANGED status
     \/ status[d] = "queued" /\ status' = [status EXCEPT ![d] = "sending"]
  /\ UNCHANGED <<sender, detached, late, mails>>

--------------------------------------------------------------------------------

(* SMTP takes the mail.                                                    *)
SmtpAccepts(d) ==
  /\ sender[d] = "claimed"
  /\ sender' = [sender EXCEPT ![d] = "accepted"]
  /\ mails' = [mails EXCEPT ![d] = @ + 1]
  /\ UNCHANGED <<status, detached, late, outboxVars>>

(* The send throws; the mail may have gone out all the same.               *)
SmtpRefuses(d) ==
  /\ sender[d] = "claimed"
  /\ sender' = [sender EXCEPT ![d] = "refused"]
  /\ UNCHANGED mails \/ mails' = [mails EXCEPT ![d] = @ + 1]
  /\ UNCHANGED <<status, detached, late, outboxVars>>

(* The winning run ends; its job, if it is still its own, moves with it.   *)
Ends(d, JobStep) ==
  /\ IF d \in detached THEN UNCHANGED outboxVars ELSE JobStep
  /\ sender' = [sender EXCEPT ![d] = "none"]
  /\ detached' = detached \ {d}
  /\ UNCHANGED <<late, mails>>

(* Mutant: sent is written before the outcome of the send is known.        *)
OutcomeOptimistic(d) == "sent"

(* Mutant: the answer of SMTP is stored as it is.                          *)
OutcomeRaw(d) == sender[d]

(* Mutant: a failed send puts the row back for another attempt.            *)
OutcomeRequeued(d) == IF sender[d] = "accepted" THEN "sent" ELSE "queued"

(* markSent after an accepted mail, markFailed in the catch.               *)
Outcome(d) == IF sender[d] = "accepted" THEN "sent" ELSE "failed"

(* Both are unconditional updates, and the catch does not rethrow.         *)
MarkOutcome(d) ==
  /\ sender[d] \in {"accepted", "refused"}
  /\ status' = [status EXCEPT ![d] = Outcome(d)]
  /\ Ends(d, Complete(d))

(* The update throws, before or after the database has committed it.       *)
MarkThrows(d) ==
  /\ sender[d] \in {"accepted", "refused"}
  /\ UNCHANGED status \/ status' = [status EXCEPT ![d] = Outcome(d)]
  /\ Ends(d, JobFails(d))

(* The worker dies with its run.                                           *)
WorkerDies(d) ==
  /\ Stall(d)
  /\ sender' = [sender EXCEPT ![d] = IF d \in detached THEN @ ELSE "none"]
  /\ UNCHANGED <<status, detached, late, mails>>

(* The worker loses the job and its run goes on.                           *)
WorkerLosesJob(d) ==
  /\ Stall(d)
  /\ IF Unclaimed(d)
       THEN late' = late \union {d} /\ UNCHANGED detached
       ELSE detached' = detached \union {d} /\ UNCHANGED late
  /\ UNCHANGED <<status, sender, mails>>

--------------------------------------------------------------------------------

Next ==
  \/ RelayNext /\ UNCHANGED deliveryVars
  \/ \E d \in Events :
       \/ (RunJob(d) \/ DeadLetter(d) \/ Prune(d)) /\ UNCHANGED deliveryVars
       \/ Send(d)
       \/ ClaimForSend(d)
       \/ ClaimLate(d)
       \/ ClaimFindsNothing(d)
       \/ ClaimThrows(d)
       \/ SmtpAccepts(d)
       \/ SmtpRefuses(d)
       \/ MarkOutcome(d)
       \/ MarkThrows(d)
       \/ WorkerDies(d)
       \/ WorkerLosesJob(d)

Spec == Init /\ [][Next]_vars

(* As in Outbox: the relays tick, jobs are taken, and a run that is not    *)
(* cut off takes its next step.                                            *)
Fairness ==
  /\ \A r \in Replicas :
       /\ WF_vars(Claim(r) /\ UNCHANGED deliveryVars)
       /\ WF_vars(\E e \in Events : (Enqueue(r, e) \/ EnqueueFails(r, e)) /\ UNCHANGED deliveryVars)
       /\ WF_vars(CommitBatch(r) /\ UNCHANGED deliveryVars)
  /\ \A d \in Events :
       /\ WF_vars(RunJob(d) /\ UNCHANGED deliveryVars)
       /\ WF_vars(ClaimForSend(d) \/ ClaimFindsNothing(d) \/ ClaimThrows(d))

FairSpec == Spec /\ Fairness

--------------------------------------------------------------------------------

(* "Claim-before-send makes delivery at-most-once" (deliveries.events.ts): *)
(* whatever is retried, pruned, stalled or run twice, one mail at most.    *)
AtMostOneMail == \A d \in Events : mails[d] <= 1

(* What the rep is told is true: a delivery shown as sent was mailed.      *)
SentWasMailed == \A d \in Events : status[d] = "sent" => mails[d] = 1

(* An outcome, once recorded, stands: no late run, retry or duplicate job  *)
(* overwrites it, although markSent and markFailed are unconditional.      *)
OutcomeIsFinal ==
  [][\A d \in Events : status[d] \in {"sent", "failed"} => status'[d] = status[d]]_vars

(* A document blocked by document_delivery_inflight_uq has no mail under   *)
(* way: the delivery that blocks it was never claimed, whoever crashed.    *)
QueuedWasNeverClaimed ==
  \A d \in Events : status[d] = "queued" => sender[d] = "none" /\ mails[d] = 0

(* What makes them inductive: a row exists once its event does; the run    *)
(* that won the claim finds the row in sending, with no mail before SMTP   *)
(* answers and one after it has accepted.                                  *)
RowsHaveEvents == \A d \in Events : row[d] = "absent" => status[d] = "absent"

SenderHoldsTheRow ==
  \A d \in Events :
    /\ sender[d] # "none" => status[d] = "sending"
    /\ status[d] \in {"absent", "queued"} \/ sender[d] = "claimed" => mails[d] = 0
    /\ sender[d] = "accepted" => mails[d] = 1

DeliveriesInv ==
  /\ DeliveriesTypeOK
  /\ RowsHaveEvents
  /\ SenderHoldsTheRow
  /\ AtMostOneMail
  /\ SentWasMailed

(* The job has failed for good; once pruned, nothing puts it back.         *)
JobGaveUp(d) == job[d] = "failed" \/ (job[d] = "none" /\ row[d] \in {"published", "deleted"})

(* A queued send is taken up, unless its outbox row goes dead or its job   *)
(* fails for good before the claim.  In those two cases the row stays      *)
(* queued, and blocks every later send of the document.                    *)
QueuedIsTakenUp ==
  \A d \in Events :
    status[d] = "queued" ~> (status[d] # "queued" \/ row[d] = "dead" \/ JobGaveUp(d))
================================================================================
