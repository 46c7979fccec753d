SPECIFICATION FairSpec
CONSTANTS
  Events = {1}
  Replicas = {w1, w2}
  BatchSize = 1
  MaxAttempts = 2
  JobAttempts = 2
  MaxDeaths = 1
  Documents = {"quote"}
  DocumentOf <- OneDocument
CHECK_DEADLOCK FALSE
INVARIANTS
  DeliveriesInv
  AtMostOneMail
  SentWasMailed
  QueuedWasNeverClaimed
PROPERTIES
  OutcomeIsFinal
  QueuedIsTakenUp
