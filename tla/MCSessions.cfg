SPECIFICATION FairSpec
CONSTANTS
  Browsers = {a}
  MaxFailures = 2
  MaxSessions = 1
  MaxConns = 2
  s1 = s1
  s2 = s2
  RdSessions = {s1, s2}
  RdDriven <- MCDriven
  RdMaxConns = 2
  RdMaxDown = 1
  FiKinds = {"list", "move", "upload", "download"}
  FiMaxRequests = 2
  FiMaxConns = 2
  FiChunks = 1
  FiMaxTries = 2
  CwMaxRequests = 4
  CwAttempts = 2
  HrOwners = {o1}
  HrMaxRelays = 2
  HrMaxPerOwner = 2
  HrDepth = 1
  HrBudget = 2
  HrMaxOpened = 3
INVARIANTS UploadShownIsPublished AnswerIsToTheRequest OneSocketPerTicket
PROPERTIES  ShellEndsWithLogin 
CHECK_DEADLOCK FALSE
