\* Two scans of a target on two workers, with one fault of any kind.
SPECIFICATION FairSpec
CONSTANTS
  t1 = t1
  x = x
  a = a
  b = b
  MaxScan = 2
  Target = {t1}
  TargetOf <- MCTargetOf
  Service = {x, y}
  Address = {a, b}
  AddressOf <- MCAddressOf
  Worker = {w1, w2}
  AbortsOnError = TRUE
  Faults = {"crash", "visibility", "kill", "publish", "handler", "db", "insert"}
  MaxFaults = 1
INVARIANTS
  TypeOK
  DiffIsGrounded
  OncePerDelivery
PROPERTIES
  CompletedWhole
  ScansSettle
\* Every scan may have ended: nothing is left to do.
CHECK_DEADLOCK FALSE
