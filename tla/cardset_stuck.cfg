\* The worker settles a card set before its submission writes it again.
SPECIFICATION FairSpec
CONSTANTS
  r1 = r1  r2 = r2  r3 = r3  w1 = w1  w2 = w2  p1 = p1  p2 = p2
  me = me  you = you  pre_toss = pre_toss  h2h = h2h  dna = dna  s1 = s1  s2 = s2
  RunId = {r1, r2, r3}
  Locator = {h2h, dna}
  CardSet = {pre_toss}
  WorkerId = {me, you}
  None = None
  MaxVersion = 1
  MaxClock = 0
  Submitter = {s1}
  Members <- TwoMembers
  Modes = {"normal"}
  MayAbandon = FALSE
  Worker = {w1}
  Process = {p1}
  Host <- OneProcess
  WorkerName <- SameName
  WorkerLimit = 1
  MayCrash = FALSE
  MayRecover = FALSE
  MayLoseAck = FALSE
PROPERTIES
  CardSetSettles
