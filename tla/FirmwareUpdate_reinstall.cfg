\* One hard reset; scheduled updates only.
SPECIFICATION Spec
CONSTANTS
  MaxVer = 2
  PbBadMax = 2
  PbBadGap = 1
  PbEnd = 2
  AuMaxTries = 2
  TriesBound = 0
  ResetBound = 1
PROPERTIES
  RolledBackSkipped
