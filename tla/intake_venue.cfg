\* The head-to-head card of a card set: is its venue used?
SPECIFICATION Spec
CONSTANTS
  m1 = m1
  Match = {m1}
  Facts <- MatchFacts
  Request <- Requests
  EligibleInputs <- Eligible
  MaxRemembered = 2
  MaxEnded = 1
  MaxSaving = 1
  MaxFailures = 1
INVARIANTS
  VenueSliceShown
