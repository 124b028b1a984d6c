\* Up to three presses, tests, changes, faces and packets, in any order; the
\* inputs come to an end.  A clip of three halves and a sample: both halves are
\* refilled, and the last part is short.
SPECIFICATION Spec
CONSTANTS
  Looks = {"red", "blue"}
  Animations = {}
  ChangeMax = 3
  PressMax = 3
  InputMax = 3
  Total = 7
  Half = 2
  Spare = 8
  StallMax = 4
  Prompt = TRUE
INVARIANTS
  ClipAccounted
PROPERTIES
  MutexReturns
  
  PlaysTheClip
