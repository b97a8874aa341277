SPECIFICATION WorkflowFairSpec
CONSTANTS
  Phases = 2
  Results <- ChainFirst
  GoalOn = TRUE
  Stopped = {"REVIEW", "BLOCKED"}
  MaxReplans = 1
  MaxAnswers = 1
  DropGap = FALSE
  MaxPlans = 3
  MaxEvents = 1
INVARIANTS WorkflowTypeOK NoDoubleMaterialization AllOrNothing DependenciesDone NeverStuck PlannerCallsCounted GoalReviewedOnce OnePlanPerPhase DoneIsWorked
PROPERTIES CompletedStays WorkflowEnds
CHECK_DEADLOCK FALSE
