\* A client reads while the run it asks for is finished; nothing fails.
SPECIFICATION ReadsSpec
CONSTANTS
  r1 = r1  r2 = r2  w1 = w1  w2 = w2  p1 = p1  p2 = p2  me = me  you = you
  h2h = h2h  s1 = s1  c1 = c1
  RunId = {r1, r2}
  Locator = {h2h}
  CardSet = {}
  WorkerId = {me}
  None = None
  MaxVersion = 2
  MaxClock = 0
  Submitter = {s1}
  Members <- NoMembers
  Modes = {"normal"}
  MayAbandon = FALSE
  Worker = {w1}
  Process = {p1}
  Host <- OwnProcess
  WorkerName <- OwnName
  WorkerLimit = 4
  MayCrash = FALSE
  MayRecover = FALSE
  MayLoseAck = FALSE
  Reader = {c1}
INVARIANTS
  SucceededIncludesResult
