\* Two overlapping runners, edits, two faults of any kind, over three minutes.
SPECIFICATION Spec
CONSTANTS
  Schedule = {s1}
  Runner = {r1, r2}
  Handler = {h1}
  None = None
  Period = {1, 2}
  MaxTime = 3
  Faults = {"insert", "publish", "record", "db", "crash"}
  MaxFaults = 2
SYMMETRY Symmetry
INVARIANTS
  TypeOK
  LastRunIsDispatched
PROPERTIES
  DisabledStaysQuiet
  NoSlotSkipped
\* Every id may have been deleted at the last minute: nothing is left to do.
CHECK_DEADLOCK FALSE
