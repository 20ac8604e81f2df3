\* Submissions of all kinds around a match whose facts are corrected.
SPECIFICATION Spec
CONSTANTS
  m1 = m1
  Match = {m1}
  Facts <- MatchFacts
  Request <- Requests
  EligibleInputs <- Eligible
  MaxRemembered = 2
  MaxEnded = 1
  MaxSaving = 1
  MaxFailures = 1
INVARIANTS
  LocatorIdentifiesCard
  AnsweredLocatorsSaved
  AcceptedInputsUsable
