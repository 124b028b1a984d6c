SPECIFICATION FairSpec
\* Calls may arrive during a wait screen that ends in a restart; those that
\* arrive during the other kind, or beside a table rebuild, are in the
\* configurations DisplayPark_resumed and DisplayPark_frozen.
CONSTANTS
  Pausers = {p1, p2, p3}
  Overlaps = {"restart"}
INVARIANTS
  BusOfOne
  RefcountExact
PROPERTIES
  PauseReturns
