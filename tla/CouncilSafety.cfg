\* A review and its repetition under one key, two failed statements or lost answers.
SPECIFICATION FairSpec
CONSTANTS
  review = review  repeat = repeat  task1 = task1  task2 = task2  key = key
  NoTask = NoTask
  Runs = {review, repeat}
  Tasks = {task1, task2}
  Keys = {key}
  TaskOf <- MCFreshTasks
  KeyOf <- MCKeyOf
  Guarded = {task2}
  Verdicts <- MCVerdicts
  MaxFaults = 2
INVARIANTS TypeOK OneReviewPerKey CompletionIsBacked LogTellsStatus
PROPERTIES TerminalStays ReviewsEnd
CHECK_DEADLOCK FALSE
