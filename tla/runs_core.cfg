\* One locator: requests, two processes that may crash, and a client reading.
SPECIFICATION ReadsSpec
CONSTANTS
  r1 = r1  r2 = r2  w1 = w1  w2 = w2  p1 = p1  p2 = p2  me = me  you = you
  h2h = h2h  s1 = s1  c1 = c1
  RunId = {r1, r2}
  Locator = {h2h}
  CardSet = {}
  WorkerId = {me, you}
  None = None
  MaxVersion = 2
  MaxClock = 1
  Submitter = {s1}
  Members <- NoMembers
  Modes = {"normal", "regeneration"}
  MayAbandon = TRUE
  Worker = {w1, w2}
  Process = {p1, p2}
  Host <- OwnProcess
  WorkerName <- OwnName
  WorkerLimit = 4
  MayCrash = TRUE
  MayRecover = FALSE
  MayLoseAck = FALSE
  Reader = {c1}
INVARIANTS
  TypeOK
  ExclusiveExecution
  WorkersKnowTheirRun
  RetriesExhausted
  RunPublishesOnce
  FailedAnswerExplains
  AcceptedLocatorFound
  SucceededResultFindable
PROPERTIES
  ImplementsLifecycle
  VersionsAdvance
