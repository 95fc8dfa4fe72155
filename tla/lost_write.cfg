\* Violated: a write fails and the save is not told
CONSTANTS
  consumer = consumer  recovery = recovery  i1 = i1  i2 = i2  i3 = i3  i4 = i4
  Tasks = {consumer, recovery}
  Main = Main  Nobody = Nobody
  Inodes = {i1, i2, i3, i4}
  NoInode = NoInode  Empty = Empty  Torn = Torn
  MaxVersion = 2
  MaxDrops = 0
  MaxFaults = 1
SYMMETRY SwapInodes
SPECIFICATION Spec
INVARIANTS FileWhole
