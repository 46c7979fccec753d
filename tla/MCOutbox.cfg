SPECIFICATION OutboxFairSpec
CONSTANTS
  Events = {1, 2}
  Replicas = {w1, w2}
  BatchSize = 2
  MaxAttempts = 2
  JobAttempts = 1
  MaxDeaths = 1
CHECK_DEADLOCK FALSE
INVARIANTS
  OutboxInv
  ClaimsAreDisjoint
  PublishedWasEnqueued
  DuplicatesHaveACause
PROPERTIES
  EveryEventSettles
