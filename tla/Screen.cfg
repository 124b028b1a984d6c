SPECIFICATION Spec
CONSTANTS
  Tubes = {1, 2}
  Modes = {"clock", "date", "weather"}
  Themes = {"pack", "live", "custom"}
  EventMax = 1
  Slots = 1
  WriteMax = 2
PROPERTIES   ArtCatchesUp
