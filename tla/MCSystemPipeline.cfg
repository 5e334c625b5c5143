SPECIFICATION Spec
CONSTANTS
  anUpdate = anUpdate
  aReboot = aReboot
  Commands <- MCCommands
  KindOf <- MCKindOf
  MaxAttempts = 2
  Lease = 1
  Ttl = 2
  RetryDelay = 0
  MaxWait = 0
  MaxTime = 2
  MaxBoot = 2
  DiskFaults = FALSE
  MaxLate = 1
CONSTRAINT OneCommand
INVARIANTS SuccessWasAnswered
PROPERTIES ImplementsRemoteCommand
CHECK_DEADLOCK FALSE
