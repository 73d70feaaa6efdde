\* Two concurrent operations, and as many blocks as the log has slots: operations that
\* are admitted wrongly can fill it.
SPECIFICATION Spec
CONSTANTS
  Procs = {p1, p2}
  Blocks = {b1, b2, b3, b4}
  NoBlock = NoBlock
  Data = {d1, d2}
  NoData = NoData
  LOGBLOCKS = 4
  MAXOPBLOCKS = 2
  OpWrites = 1
SYMMETRY Symmetry
INVARIANTS NoPanic IInv
PROPERTY CrashSafe
