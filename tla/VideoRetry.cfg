\* A submission and its retry, and nothing goes wrong.
SPECIFICATION Spec
CONSTANTS
  first = first  retry = retry  Nobody = Nobody
  Submissions = {first, retry}
  RealProvider = FALSE
  MaxTrips = 0
  MaxFaults = 0
PROPERTIES FinishedJobStays
CHECK_DEADLOCK FALSE
