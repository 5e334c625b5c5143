SPECIFICATION FairSpec
CONSTANTS
  LsLease = 1
  LsGrace = 1
  LsMaxAttempts = 2
  LsMaxResets = 1
  LsMaxGens = 2
  LsMaxCmds = 3
  LsMaxFaults = 1
  KlMaxFaults = 1
  KlMaxAsked = 2
  DcMaxChanges = 2
 
PROPERTIES StopIsCarriedOut DisplaySettles
CHECK_DEADLOCK FALSE
