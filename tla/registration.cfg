\* Violated: a channel joined during a connection
CONSTANTS
  c1 = c1  m1 = m1  m2 = m2
  NoChannel = NoChannel  NoMsg = NoMsg
  Channels = {c1}
  Msgs = {m1}
  ChanOf <- OneChannel
  RootOf <- NoThreads
  Overlap = 1  Lag = 1  Window = 2
  MaxSeen = 9  MaxThreads = 9
  EventCap = 1  QueueCap = 1
  MaxClock = 6
  Faults = {"move"}
  MaxFaults = 1
SPECIFICATION Spec
INVARIANTS RegistrationCovered
