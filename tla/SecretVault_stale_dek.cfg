\* A rotation of the secret falls into a rotation of the master key.
SPECIFICATION Spec
CONSTANTS
  Secret = {s1}
  Token = {}
  Process = {p1, p2}
  None = None
  MaxNumber = 2
  MaxMek = 2
INVARIANTS
  SecretKeepsItsDek
