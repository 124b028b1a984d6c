SPECIFICATION FairSpec
CONSTANT Writers = {"touch"}
PROPERTIES
  ResetReboots
