\* Delivery exactly once, on a database where an error aborts no transaction.
SPECIFICATION Spec
CONSTANTS
  Job = {j1, j2}
  Target = {t1}
  Worker = {w1, w2}
  Handler = {h1}
  None = None
  TargetOf <- OneTarget
  MaxRetries = 1
  AbortsOnError = FALSE
  Faults = {"kill", "publish", "handler", "db", "insert"}
  MaxFaults = 2
SYMMETRY Symmetry
INVARIANTS
  OneExecutor
  SummaryBacked
\* Every id may have been used and every request served: nothing is left to do.
CHECK_DEADLOCK FALSE
