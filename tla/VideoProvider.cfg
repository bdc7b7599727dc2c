\* A configured provider, and nothing goes wrong.
SPECIFICATION Spec
CONSTANTS
  first = first  retry = retry  Nobody = Nobody
  Submissions = {first}
  RealProvider = TRUE
  MaxTrips = 0
  MaxFaults = 0
INVARIANTS OnlyTroubleFails
CHECK_DEADLOCK FALSE
