SPECIFICATION Spec
CONSTANTS
  CalFrames = 3
  TraceFrames = 2
  Late = FALSE
  GateModes = {"off", "persist"}
  Raws = {0, 1, 3}
  Phase1 = 1
  SpikeLo = 1
  SpikeHi = 1
  GRun = 2
  HoldMax = 1
  BurstMax = 2
  QuietMax = 5
  Debounce = 2
  StuckMax = 3
  ComboHold = 3
  ComboMiss = 1
  Depth = 2
  ModeCount = 3
  Minute = 3
  JumpMax = 3
  Passes = 2
  BarTubes = {1}
  Segs = 3
  Levels = {0, 1, 2}
  HealAfter = 2
  StaleAfter = 2
  PanelKinds = {0, 1, 5}
  Heavy = {2}
  Builtin = {2, 4}
  Folders = {1, 3}
  Interval = 2
  Pictures = {1, 2, 3}
  MaxAlbum = 2
  ChangeMax = 2
INVARIANTS
  
  OncePerTouch
  TubesTellTime
  TubesExact
  PagesCurrent
PROPERTIES
  DwellKept
