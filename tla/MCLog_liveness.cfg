\* Three processes, a log with room for two operations.
SPECIFICATION FairSpec
CONSTANTS
  Procs = {p1, p2, p3}
  Blocks = {b1}
  NoBlock = NoBlock
  Data = {d1}
  NoData = NoData
  LOGBLOCKS = 2
  MAXOPBLOCKS = 1
  OpWrites = 1

PROPERTIES BeginOpReturns SyncReturns
