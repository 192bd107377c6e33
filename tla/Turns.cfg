CONSTANTS
  w1 = w1
  w2 = w2
  m1 = m1
  m2 = m2
  m3 = m3
  ask = ask
  stop = stop
  Worker = {w1, w2}
  Client = {w1, w2}
  MessageId = {m1, m2}
  Text = {ask}
  Suppressing = {}
  OpenState = {"ready_for_review"}
  None = None
  Nobody = Nobody
  Orphan = Orphan
  Timely = FALSE
SPECIFICATION FairSpec
INVARIANTS TypeOK FactsKeepEveryTurn SingleHistory CompletedNeverFailed
PROPERTIES ImplementsLedger  EveryRequestEnds
CHECK_DEADLOCK FALSE
