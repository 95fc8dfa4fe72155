\* Saves that are dropped or fail, crashes and power losses; a refused state file
\* is an end
CONSTANTS
  consumer = consumer  recovery = recovery  i1 = i1  i2 = i2  i3 = i3  i4 = i4
  Tasks = {consumer, recovery}
  Main = Main  Nobody = Nobody
  Inodes = {i1, i2, i3, i4}
  NoInode = NoInode  Empty = Empty  Torn = Torn
  MaxVersion = 2
  MaxDrops = 1
  MaxFaults = 1
SYMMETRY SwapInodes
CHECK_DEADLOCK FALSE
SPECIFICATION Spec
INVARIANTS SaveInv DamageExplained
PROPERTIES AtomicSaves
