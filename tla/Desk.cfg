CONSTANTS
  w1 = w1
  w2 = w2
  r1 = r1
  r2 = r2
  m1 = m1
  m2 = m2
  ask = ask
  stop = stop
  Worker = {w1}
  Reviewer = {r1, r2}
  Client = {w1, r1, r2}
  MessageId = {m1}
  Text = {ask}
  Suppressing = {}
  OpenState = {"needs_human_review"}
  Review <- MCReview
  MaxVersion = 3
  None = None
  Nobody = Nobody
  Orphan = Orphan
  Timely = FALSE
SPECIFICATION DeskSpec
INVARIANTS DeskTypeOK SentAsApproved ApprovedAsShown OneDecisionPerVersion
SYMMETRY ReviewerSymmetry
CHECK_DEADLOCK FALSE
