CONSTANTS
  w1 = w1
  r1 = r1
  o1 = o1
  m1 = m1
  m2 = m2
  ask = ask
  Worker = {w1}
  Reviewer = {r1}
  Operator = {o1}
  Client = {w1, r1, o1}
  MessageId = {m1, m2}
  Text = {ask}
  Suppressing = {}
  OpenState = {"ready_for_review"}
  Review <- MCDecisions
  MaxVersion = 2
  None = None
  Nobody = Nobody
  Orphan = Orphan
  Timely = TRUE
  Prompt = TRUE
SPECIFICATION AllSpec
INVARIANTS OnePagePerLead
PROPERTIES SentIsCurrent SyncedIsFinal
SYMMETRY MessageSymmetry
CHECK_DEADLOCK FALSE
