\* Every request, and everything that starts without one.  The catalog refresh
\* is the daily one; a local theme job leaves at its first step, as a failed one.
SPECIFICATION FairSpec
CONSTANTS
  Requests = {"upload", "pull", "webui", "repair", "install",
              "hotpatch", "staged", "look", "rescan"}
  Scheduled = {"update", "catalog", "autostart"}
  Meeting = FALSE

  
PROPERTIES
  QueueDrains
