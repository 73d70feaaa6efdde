\* Operations that write all of the MAXOPBLOCKS blocks they may.
SPECIFICATION Spec
CONSTANTS
  Procs = {p1, p2}
  Blocks = {b1, b2}
  NoBlock = NoBlock
  Data = {d1, d2}
  NoData = NoData
  LOGBLOCKS = 2
  MAXOPBLOCKS = 1
  OpWrites = 1
SYMMETRY Symmetry
INVARIANT NoPanic
