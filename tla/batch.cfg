SPECIFICATION BatchFairSpec
CONSTANTS
  N = 2
  Files <- TwoFiles
  MaxParallel = 2
  NoCap = NoCap
  Caps = {1, 2, NoCap}
  Results <- AllResults
  Changes <- OneOrBoth
  CrashUnjournaled = FALSE
  MaxEdits = 1
  MaxCrashes = 1
  MaxFaults = 1
INVARIANTS BatchTypeOK ReviewIsWhole NoHalves CapRespected BatchAwaited
PROPERTIES NothingLost Integrated
CHECK_DEADLOCK FALSE
