\* Two writers, five events of two tasks, one rollback, one change from outside.
SPECIFICATION FairSpec
CONSTANTS
  w1 = w1  w2 = w2  admitted = admitted  refused = refused
  task1 = task1  task2 = task2  Nobody = Nobody  Node = Node  NoRow = NoRow
  Writers = {w1, w2}
  Contents = {admitted, refused}
  Tasks = {task1, task2}
  MaxEvents = 5
  MaxFaults = 1
INVARIANTS TypeOK ChainVerifies LoudTamperingIsCaught BundlesVerify RootsBindTheirEvents
PROPERTIES NobodyHoldsTheHead
CHECK_DEADLOCK FALSE
