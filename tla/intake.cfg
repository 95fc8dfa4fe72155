\* Redeliveries over two connections and two sessions, a cache that is too
\* small, and a crash; the process really ends
CONSTANTS
  m1 = m1  m2 = m2  c1 = c1  c2 = c2
  Messages = {m1, m2}
  Calls = {c1, c2}
  NoEntry = NoEntry  NoEvent = NoEvent
  QueueBound = 1
  Capacity = 1
  QueueAge = 1
  DedupTTL = 3
  RetrySpan = 1
  MaxTime = 3
  MaxSessions = 2
  MaxFaults = 1
  MaxCrashes = 1
SYMMETRY Swaps
CHECK_DEADLOCK FALSE
SPECIFICATION Spec
INVARIANTS Inv AdmittedOnce AckedIsKept RememberedWasTaken
PROPERTIES KeepsPromise
