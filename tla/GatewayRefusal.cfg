\* One approved submission and a tool call that takes the budget first.
SPECIFICATION Spec
CONSTANTS
  submit1 = submit1  submit2 = submit2  tool1 = tool1
  gVideo = gVideo  gTool1 = gTool1
  task = task  alice = alice  provider = provider  site = site
  NoCall = NoCall  NoTask = NoTask
  Calls = {submit1, tool1}
  Grants = {gVideo, gTool1}
  Tasks = {task}
  Users = {alice}
  Admins = {alice}
  Endpoints = {provider, site}
  AllowedEgress = {provider, site}
  Frozen = {gVideo}
  GrantOf <- MCGrantOf
  UserOf <- MCUserOf
  TargetOf <- MCTargetOf
  Request <- MCRequest
  ToolScopes <- MCToolScopes
  Units = {"tokens"}
  Budget <- MCBudget
  MaxBudget <- MCMaxBudget
  GrantTtl = 3
  LeaseTtl = 2
  ApprovalTtl = 3
  MaxClock = 1
  MaxFaults = 0
INVARIANTS RefusalKeepsNonces
CHECK_DEADLOCK FALSE
