\* One release after the cable-flashed firmware; two resets at any point.
SPECIFICATION FairSpec
CONSTANTS
  MaxVer = 2
  PbBadMax = 2
  PbBadGap = 1
  PbEnd = 2
  AuMaxTries = 1
  TriesBound = 1
  ResetBound = 2
INVARIANTS
  TypeOk
  NeverBricked
  RejectedNeverRuns
  ProbationWatchesRunning
PROPERTIES
  FailedInstallsSkipped
  BootCompletes
