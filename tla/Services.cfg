SPECIFICATION Spec
CONSTANTS
  alice = alice
  bob = bob
  j1 = j1
  j2 = j2
  src = src
  dst = dst
  script = script
  anywhere = anywhere
  Emails = {alice, bob}
  OwnerEmail = alice
  Callers = 4
  Plans <- MCPlans
  FailLimit = 2
  MaxClock = 1
  ProposalIds = {"p"}
  Actions <- MCActions
  Ballots <- MCBallots
  MaxCalls = 5
  ToolCalls <- MCToolCalls
  NoPath = anywhere
  Flights = {1, 2}
  MaxConsecutive = 2
  MaxIdentical = 3
  MaxSteps = 5
  MaxShort = 3
  Short = 0
  MaxLong = 4
  Long = 1
  MaxThrash = 3
  Thrash = 2
  MaxTime = 2
  Jobs = {j1, j2}
  Instances <- MCInstances
  Files = {src, dst}
  Script = script
  Mangled = "mangled"
  Orders <- MCOrders
  LeaseTtl = 1
  Affordable = 1
  MaxElapse = 2
  Clients = {1, 2}
  MaxVersion = 2
  Tenants = {"t", "u"}
  Subjects = {"s", "r"}
  NoSubject = "none"
  MaxDocuments = 4
INVARIANTS TypeOK LateComersAreUsers ThrottleHolds QuorumHolds NoRunaway LeasesFit SecretIsCurrent BeliefsCurrent
PROPERTIES LogoutEnds TrialRestoresText RunsEnd
CHECK_DEADLOCK FALSE
