SPECIFICATION Spec
CONSTANTS
  Trees = {"t0"}
  Details = {"d0"}
  MaxAttempts = 2
  MaxConsecutive = 2
  RetryMax = 1
  HintMax = 2
  TriageMax = 0
  TriageRetryMax = 1
  ReplanMax = 1
  TriageOn = FALSE
  ReplanCapable = FALSE
  RequiresVerifier = TRUE
  GateOnly = FALSE
  Adaptive = TRUE
  Approved <- NoPairs
  Protected <- NoPairs
  WorkerOutcomes <- AllWorkers
  GateOutcomes <- AllGates
  VerifierOutcomes <- AllVerifiers
  ReadOnlyEnforced = TRUE
  CallsCanFail = TRUE
  OperatorTargets <- NotDone
  CrashPoints <- AllStages
  MaxEdits = 0
  MaxPauses = 1
  MaxCrashes = 1
  MaxOps = 1
INVARIANTS EvidencedDone RetryBudget StageStatus
PROPERTIES KeepsPromise
CHECK_DEADLOCK FALSE
