\* Does every generation with history have data to store?
SPECIFICATION CardSpec
CONSTANTS
  m1 = m1  m2 = m2  m3 = m3  m4 = m4  m5 = m5
  Matches <- FiveMatches
  CountryOf <- TwoVenues
  Since2024 = 3
  Ever = 9
  Query <- Queries
  VenueMinimum = 2
  PlayerMinimum = 2
  PhaseMinimum = 2
  MaxChanges = 3
INVARIANTS
  EmptySlicesReturned
\* A generation ends, and nothing happens after it.
CHECK_DEADLOCK FALSE
