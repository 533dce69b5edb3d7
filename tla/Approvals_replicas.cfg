\* Three replicas, three reviewers of whom one is an administrator, a viewer.
SPECIFICATION Spec
CONSTANTS
  Process = {p1, p2, p3}
  User = {u1, u2, u3, u4}
  Reviewer = {u1, u2, u3}
  Admin = {u1}
  Idle = Idle
  NoUser = NoUser
  MaxRequired = 2
  MaxRequests = 4
SYMMETRY MCSymmetry
INVARIANTS
  TypeOK
  ApprovedByQuorum
  RecordIsExact
PROPERTIES
  DecisionStands
CHECK_DEADLOCK FALSE
