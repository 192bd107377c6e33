CONSTANTS
  o1 = o1
  o2 = o2
  v1 = v1
  v2 = v2
  Operator = {o1, o2}
  Sender = {o1, o2}
  Client = {o1, o2}
  Version = {v1, v2}
  None = None
  Nobody = Nobody
  Orphan = Orphan
  Timely = TRUE
  Prompt = FALSE
SPECIFICATION UndisturbedSpec
INVARIANTS OnePagePerLead
CHECK_DEADLOCK FALSE
