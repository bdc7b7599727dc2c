\* A submission and its retry, one switch on and off, one fault.
SPECIFICATION FairSpec
CONSTANTS
  first = first  retry = retry  Nobody = Nobody
  Submissions = {first, retry}
  RealProvider = FALSE
  MaxTrips = 2
  MaxFaults = 1
INVARIANTS TypeOK OnlyApprovedJobsRun CompletionHasEvidence
PROPERTIES DeniedJobStops AdmittedJobSettles KeepsPromise
CHECK_DEADLOCK FALSE
