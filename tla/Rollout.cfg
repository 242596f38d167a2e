SPECIFICATION FairSpec
CONSTANTS
  Replicas = {p1, p2}
  Addresses = {e1, e2}
  MaxCrashes = 2
  None = None
CHECK_DEADLOCK FALSE
INVARIANTS
  ServesOnItsSchema
  RolloutInvariant
PROPERTIES
  OnlyOldEmailsGrandfathered
  EveryReplicaServes
