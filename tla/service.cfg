\* A process that is stopped, fails or is killed, and is started again.
SPECIFICATION FairLifecycle
CONSTANTS
  r1 = r1  r2 = r2  r3 = r3  w1 = w1  p1 = p1  me = me
  pre_toss = pre_toss  h2h = h2h  handler = handler  reconciler = reconciler
  RunId = {r1, r2}
  Locator = {h2h}
  CardSet = {pre_toss}
  WorkerId = {me}
  None = None
  MaxVersion = 2
  MaxClock = 0
  Submitter = {handler, reconciler}
  Members <- OneMember
  Modes = {"normal"}
  MayAbandon = TRUE
  Worker = {w1}
  Process = {p1}
  Host <- OneProcess
  WorkerName <- ItsName
  WorkerLimit = 4
  MayCrash = TRUE
  MayRecover = FALSE
  MayLoseAck = FALSE
  Home <- AtHome
  Reconciler <- ItsReconciler
  Asked = {h2h}
  Eligible <- OneMatch
  MaxStarts = 3
  MayFail = TRUE
  MayKill = TRUE
INVARIANTS
  OneOrphanPerStop
  RoundSubmitsAll
PROPERTIES
  ImplementsService
  QueuedRunsSurvive
  LoopEndsProcess
