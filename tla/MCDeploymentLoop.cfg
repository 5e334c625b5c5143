SPECIFICATION FairSpec
CONSTANTS
  Deployments = {d1}
  Commands = {c1, c2}
  AsyncCommands = {c2}
  Producers = {p1, p2}
  None = None
PROPERTY ConnectionsComeBack
CHECK_DEADLOCK FALSE
