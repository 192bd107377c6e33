CONSTANTS
  w1 = w1
  w2 = w2
  m1 = m1
  m2 = m2
  m3 = m3
  ask = ask
  stop = stop
  Worker = {w1, w2}
  Client = {w1, w2}
  MessageId = {m1, m2}
  Text = {ask, stop}
  Suppressing = {stop}
  OpenState = {"ready_for_review"}
  None = None
  Nobody = Nobody
  Orphan = Orphan
  Timely = TRUE
SPECIFICATION Spec
PROPERTIES OptOutIsFinal
CHECK_DEADLOCK FALSE
