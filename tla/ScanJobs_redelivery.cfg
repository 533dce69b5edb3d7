\* At-least-once delivery on PostgreSQL, with every kind of fault.
SPECIFICATION FairSpec
CONSTANTS
  Job = {j1}
  Target = {t1}
  Worker = {w1, w2}
  Handler = {h1, h2}
  None = None
  TargetOf <- OneTarget
  MaxRetries = 1
  AbortsOnError = TRUE
  Faults = {"crash", "visibility", "kill", "publish", "handler", "db", "insert"}
  MaxFaults = 1
INVARIANTS
  TypeOK
  NoOrphan
PROPERTIES
  CancelledIsNotRun
  OutcomeIsFinal
  JobsSettle
\* Every id may have been used and every request served: nothing is left to do.
CHECK_DEADLOCK FALSE
