\* A worker child that executes a second task, with nothing failing around it.
SPECIFICATION Spec
CONSTANTS
  Job = {j1, j2}
  Target = {t1}
  Worker = {w1}
  Handler = {h1}
  None = None
  TargetOf <- OneTarget
  MaxRetries = 1
  AbortsOnError = TRUE
  Faults = {}
  MaxFaults = 0
INVARIANTS
  AcknowledgedIsExecuted
\* Every id may have been used and every request served: nothing is left to do.
CHECK_DEADLOCK FALSE
