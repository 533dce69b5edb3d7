\* Two replicas, overlapping decisions, a failing database and a restart.
SPECIFICATION FairSpec
CONSTANTS
  Secret = {s1}
  Request = {q1}
  SecretOf <- OneSecret
  Grant = {g1, g2, g3}
  Process = {p1, p2}
  Handler = {h1, h2}
  None = None
  Duration = {0, 1}
  MaxTime = 2
  Faults = {"db", "restart"}
  MaxFaults = 2
INVARIANTS
  TypeOK
  ApprovedIsGranted
PROPERTIES
  DecisionIsFinal
  ExpiredIsRevoked
\* The secret may be deleted at the last minute: nothing is left to do.
CHECK_DEADLOCK FALSE
