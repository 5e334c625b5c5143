SPECIFICATION FairSpec
CONSTANTS
  LsLease = 1
  LsGrace = 1
  LsMaxAttempts = 2
  LsMaxResets = 1
  LsMaxGens = 2
  LsMaxCmds = 3
  LsMaxFaults = 0
  KlMaxFaults = 1
  KlMaxAsked = 2
  DcMaxChanges = 2
PROPERTY StoppingEnds
CHECK_DEADLOCK FALSE
