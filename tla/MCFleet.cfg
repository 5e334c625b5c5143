SPECIFICATION FairSpec
CONSTANTS
  Installs = {i1, i2, m}
  Tokens = {k1}
  Orgs = {o1}
  Nil = Nil
  Machine = m
  MaxBoots = 4
  MaxFaults = 1
  MaxTries = 2
INVARIANTS GoneHasNoAuthority InstallKeepsTrack
 
CHECK_DEADLOCK FALSE
