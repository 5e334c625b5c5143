SPECIFICATION FairSpec
CONSTANTS
  Releases = {1, 2}
  None = None
  LateFaults = FALSE
  Deps = {d1, d2}
  NoDep = NoDep
  MaxIds = 4
  Target <- MCTarget
  First = 1
  MaxFaults = 2
INVARIANTS    VerifiedArtifactIsThere PendingIsDeliverable
 
CHECK_DEADLOCK FALSE
