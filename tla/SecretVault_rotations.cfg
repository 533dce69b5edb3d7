\* Two replicas rotate a secret and the master key and view a one-time secret.
SPECIFICATION Spec
CONSTANTS
  Secret = {s1}
  Token = {t1}
  Process = {p1, p2}
  None = None
  MaxNumber = 3
  MaxMek = 2
SYMMETRY Symmetry
INVARIANTS
  TypeOK
  CurrentIsLatest
  LatestIsInUse
  HistoryIsReadable
PROPERTIES
  OnceSpec
