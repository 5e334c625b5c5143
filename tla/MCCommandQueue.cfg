SPECIFICATION FairSpec
CONSTANTS
  Commands = {c1, c2}
  MaxAttempts = 2
  Lease = 2
  Ttl = 2
  RetryDelay = 3
  MaxWait = 1
  MaxTime = 4
  MaxBoot = 2
INVARIANTS TypeOK QueuedHasAttempt OnlyLatestClaimSucceeds ClaimIsLatestAttempt
PROPERTIES TerminalIsFinal EveryCommandEnds
