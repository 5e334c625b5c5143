SPECIFICATION MCFairSpec
CONSTANTS
  MaxBoot = 2
  MaxSent = 2
  CaMaxDays = 2
  CaMaxChanges = 1
  CaMaxFaults = 1
INVARIANTS  RebootsAreSpare
PROPERTIES LocalIsMarked PendingRebootEnds ScheduleIsCarriedOut
CHECK_DEADLOCK FALSE
