\* One process; an approval outlives the secret it is about.
SPECIFICATION FairSpec
CONSTANTS
  Secret = {s1, s2}
  Request = {q1, q2}
  SecretOf <- TwoSecrets
  Grant = {g1, g2}
  Process = {p1}
  Handler = {h1}
  None = None
  Duration = {1}
  MaxTime = 1
  Faults = {}
  MaxFaults = 0
PROPERTIES
  RevocationGoesOn
CHECK_DEADLOCK FALSE
