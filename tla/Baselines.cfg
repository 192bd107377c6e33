CONSTANTS
  k1 = k1
  k2 = k2
  f1 = f1
  f2 = f2
  p1 = p1
  p2 = p2
  q1 = q1
  q2 = q2
  a1 = a1
  a2 = a2
  Mode = {"rule_only", "live"}
  Key = {k1, k2}
  Failure = {f1, f2}
  Query = {q1, q2}
  Reviewer = {p1, p2}
  Role = {"developer", "sales"}
  RequiredRole = {"developer", "sales"}
  Sealed <- MCSealed
  Review <- MCReview
  ReviewSet <- MCReviewSet
  Issue <- MCIssue
  Maintainer = {a1, a2}
  MaxAccepted = 3
  None = None
SPECIFICATION ChainSpec
INVARIANTS ReleaseIsBacked
PROPERTY ImplementsRatchet
SYMMETRY MaintainerSymmetry
CHECK_DEADLOCK FALSE
