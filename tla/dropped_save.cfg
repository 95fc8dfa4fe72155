\* Violated: a save is dropped half-way
CONSTANTS
  consumer = consumer  recovery = recovery  i1 = i1  i2 = i2  i3 = i3  i4 = i4
  Tasks = {consumer, recovery}
  Main = Main  Nobody = Nobody
  Inodes = {i1, i2, i3, i4}
  NoInode = NoInode  Empty = Empty  Torn = Torn
  MaxVersion = 2
  MaxDrops = 1
  MaxFaults = 0
SYMMETRY SwapInodes
SPECIFICATION Spec
INVARIANTS FileWhole
