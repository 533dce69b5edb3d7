\* Three objects in two collections, small pages, one fault of any kind, and a
\* client whose clock is anywhere between one object behind and one ahead.
SPECIFICATION FairSpec
CONSTANTS
  Collection = {c1, c2}
  None = None
  PageLimit = 2
  MaxPages = 2
  MaxObjects = 3
  Ahead = 1
  Behind = 1
  Faults = {"request", "store", "discovery", "restart"}
  MaxFaults = 1
INVARIANTS
  TypeOK
  NothingPassedOver
PROPERTIES
  PublishedIsStored
CHECK_DEADLOCK FALSE
