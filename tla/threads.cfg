\* A message and its reply: a full event queue, a full table of seen entries
CONSTANTS
  c1 = c1  m1 = m1  m2 = m2
  NoChannel = NoChannel  NoMsg = NoMsg
  Channels = {c1}
  Msgs = {m1, m2}
  ChanOf <- OneChannel
  RootOf <- Reply
  Overlap = 0  Lag = 0  Window = 1
  MaxSeen = 1  MaxThreads = 9
  EventCap = 1  QueueCap = 1
  MaxClock = 3
  Faults = {"gone"}
  MaxFaults = 1
SPECIFICATION Spec
INVARIANTS Inv Records Coverage Reopens
PROPERTIES RepliesReached
