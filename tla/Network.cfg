\* Two networks and two saves; one update besides the WiFi events; one topic of
\* the settings and one of the update check; two stock
\* files, one of which the list holds.
SPECIFICATION Spec
CONSTANTS
  Nets = {"a", "b"}
  SaveMax = 2
  FailMax = 4
  Attempts = 2
  UpdateMax = 1
  Topics = {"theme", "update"}
  Values = {"A", "B"}
  SensorFitted = TRUE
  ChangeMax = 2
  StockCount = 2
  ListMax = 1
PROPERTIES
  SettingsRebootHappens
  MqttCallsReturn
  ChangesPublished
  
  BannerCatchesUp
