CONSTANTS
  w1 = w1
  w2 = w2
  r1 = r1
  r2 = r2
  m1 = m1
  m2 = m2
  ask = ask
  stop = stop
  Worker = {w1, w2}
  Reviewer = {r1}
  Client = {w1, w2, r1}
  MessageId = {m1, m2}
  Text = {ask, stop}
  Suppressing = {stop}
  OpenState = {"ready_for_review"}
  Review <- MCDecisive
  MaxVersion = 3
  None = None
  Nobody = Nobody
  Orphan = Orphan
  Timely = TRUE
SPECIFICATION DeskSpec
INVARIANTS MutualExclusion NotWedged AnsweredInOrder
PROPERTIES StopIsHeard
CHECK_DEADLOCK FALSE
