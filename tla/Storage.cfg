\* One task that saves beside httpd; two revisions of a pack with two files; two
\* browsers for two session slots; one change by hand or power cut to the themes.
SPECIFICATION StorageSpec
CONSTANTS
  Writers = {"touch"}
  Files = {"a", "b"}
  RevMax = 2
  Touches = 1
  Pws = {"p", "q"}
  Clients = {"a", "b"}
  Slots = 2
  LockoutMax = 2
  Zones = {0, 4}
  Summer = 4
  Chips = {"low"}
  Slew = 1
  Drift = 1
  Far = 7
  Events = 1
  Changing = {{"invert", "profile", "vcom"}, {"gamma", "offset", "soft"}}
  GammaStep = 1
  FailMax = 1
INVARIANTS
  
  ThemesWhole
  
  ReadsBack
  SettingsFit
  PreviewHonest
  
PROPERTIES
  BackupKeptUntilWritten
