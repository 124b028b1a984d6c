\* Two cities, one provider of each kind and the pushed weather; delays of one
\* to three units; two changes by the user at any moment.
SPECIFICATION Spec
CONSTANTS
  Cities = {"rome", "oslo"}
  Sources = {"wttr", "metno", "external"}
  Platforms = {"video"}
  RetryMax = 3
  WeatherEvery = 2
  SocialEvery = 1
  CheckEvery = 2
  ChangeMax = 2
INVARIANTS
  ForcedSoon
PROPERTIES
  KeepsPolling
  
