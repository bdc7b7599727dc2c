\* One envelope reviewed twice, one failed statement.
SPECIFICATION Spec
CONSTANTS
  review = review  repeat = repeat  task1 = task1  task2 = task2  key = key
  NoTask = NoTask
  Runs = {review, repeat}
  Tasks = {task1}
  Keys = {key}
  TaskOf <- MCSameTask
  KeyOf <- MCKeyOf
  Guarded = {}
  Verdicts <- MCCleared
  MaxFaults = 1
PROPERTIES TerminalStays
CHECK_DEADLOCK FALSE
