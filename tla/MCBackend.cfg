SPECIFICATION MCSpec
CONSTANTS
  Deployments = {d1, d2}
  Commands = {c2}
  AsyncCommands = {c2}
  Producers = {p1, p2}
  None = None
  Users = {s, u}
  Nobody = Nobody
  FirstAdmins = {s}
  Reqs = {q}
  Timeout = 1
  MaxNow = 1
  MaxRows = 3
  MaxChanges = 2
  Given = {"admin"}
SYMMETRY Symmetry
INVARIANTS OneJob OutcomeAgreesWithGate  SessionHasAbsoluteEnd
CHECK_DEADLOCK FALSE
