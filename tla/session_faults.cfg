\* Faults of the process, the connection, the database, history and the state file
CONSTANTS
  c1 = c1  m1 = m1  m2 = m2
  NoChannel = NoChannel  NoMsg = NoMsg
  Channels = {c1}
  Msgs = {m1}
  ChanOf <- OneChannel
  RootOf <- NoThreads
  Overlap = 1  Lag = 1  Window = 2
  MaxSeen = 9  MaxThreads = 9
  EventCap = 1  QueueCap = 1
  MaxClock = 4
  Faults = {"disconnect", "crash", "insert", "shutdown", "timeout", "history", "move"}
  MaxFaults = 2
SPECIFICATION Spec
INVARIANTS Coverage SuppressedIsHandled RecoveryNotStale
PROPERTIES RepeatsExplained CheckpointsAdvance
