SPECIFICATION FairSpec
CONSTANTS
  cmdA = cmdA
  cmdB = cmdB
  Commands <- MCCommands
  KindOf <- UpdateAndPower
  MaxCalls = 2
  MaxBoot = 2
  DiskFaults = TRUE
INVARIANTS AtMostOnce SuccessIsEarned NoPreBootSuccess
PROPERTIES  EveryCallAnswered
CHECK_DEADLOCK FALSE
