\* Two events and one change from outside.
SPECIFICATION Spec
CONSTANTS
  w1 = w1  w2 = w2  admitted = admitted  refused = refused
  task1 = task1  task2 = task2  Nobody = Nobody  Node = Node  NoRow = NoRow
  Writers = {w1, w2}
  Contents = {admitted, refused}
  Tasks = {task1, task2}
  MaxEvents = 2
  MaxFaults = 0
INVARIANTS TamperingIsCaught
CHECK_DEADLOCK FALSE
