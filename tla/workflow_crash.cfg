SPECIFICATION WorkflowSpec
CONSTANTS
  Phases = 1
  Results <- ChainFirst
  GoalOn = FALSE
  Stopped = {"REVIEW", "BLOCKED"}
  MaxReplans = 1
  MaxAnswers = 0
  DropGap = TRUE
  MaxPlans = 3
  MaxEvents = 1
INVARIANTS DoneIsWorked
CHECK_DEADLOCK FALSE
