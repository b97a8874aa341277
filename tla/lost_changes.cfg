SPECIFICATION BatchSpec
CONSTANTS
  N = 2
  Files <- TwoFiles
  MaxParallel = 2
  NoCap = NoCap
  Caps = {NoCap}
  Results <- AllResults
  Changes <- OneOrBoth
  CrashUnjournaled = TRUE
  MaxEdits = 0
  MaxCrashes = 1
  MaxFaults = 0
INVARIANTS ReviewIsWhole
CHECK_DEADLOCK FALSE
