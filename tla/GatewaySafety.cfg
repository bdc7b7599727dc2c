\* Two submissions of one approval and a tool call that competes for the budget.
SPECIFICATION Spec
CONSTANTS
  submit1 = submit1  submit2 = submit2  tool1 = tool1
  gVideo = gVideo  gTool1 = gTool1
  task = task  alice = alice  provider = provider  site = site
  NoCall = NoCall  NoTask = NoTask
  Calls = {submit1, submit2, tool1}
  Grants = {gVideo, gTool1}
  Tasks = {task}
  Users = {alice}
  Admins = {alice}
  Endpoints = {provider, site}
  AllowedEgress = {provider, site}
  Frozen = {gVideo}
  GrantOf <- MCGrantOf
  UserOf <- MCUserOf
  TargetOf <- MCTargetOf
  Request <- MCRequest
  ToolScopes <- MCToolScopes
  Units = {"tokens"}
  Budget <- MCBudget
  MaxBudget <- MCMaxBudget
  GrantTtl = 2
  LeaseTtl = 2
  ApprovalTtl = 2
  MaxClock = 1
  MaxFaults = 1
SYMMETRY Symmetry
INVARIANTS TypeOK EffectOncePerGrant EffectsAreApproved BudgetHeld EffectsAreCharged
           LeaseWithinGrant EvidenceComesFirst
PROPERTIES StopFences DecidedOnce KeepsPromise
CHECK_DEADLOCK FALSE
