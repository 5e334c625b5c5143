SPECIFICATION FairSpec
CONSTANTS
  Installs = {i1, i2, m}
  Tokens = {k1}
  Orgs = {o1}
  Nil = Nil
  Machine = m
  MaxBoots = 2
  MaxFaults = 1
  MaxTries = 2
PROPERTIES CredentialsBecomePending
CHECK_DEADLOCK FALSE
