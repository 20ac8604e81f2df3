\* Recovered leases with workers that live on, and lost commit acknowledgements.
SPECIFICATION Spec
CONSTANTS
  r1 = r1  r2 = r2  r3 = r3  w1 = w1  w2 = w2  p1 = p1  p2 = p2
  me = me  you = you  pre_toss = pre_toss  h2h = h2h  dna = dna  s1 = s1  s2 = s2
  RunId = {r1, r2}
  Locator = {h2h}
  CardSet = {}
  WorkerId = {me, you}
  None = None
  MaxVersion = 2
  MaxClock = 0
  Submitter = {s1}
  Members <- NoMembers
  Modes = {"normal"}
  MayAbandon = FALSE
  Worker = {w1, w2}
  Process = {p1, p2}
  Host <- OwnProcess
  WorkerName <- SameName
  WorkerLimit = 4
  MayCrash = FALSE
  MayRecover = TRUE
  MayLoseAck = TRUE
INVARIANTS
  ResultsNumbered
  BasesNotAhead
  SucceededRunHasResult
PROPERTIES
  ImplementsHistory
