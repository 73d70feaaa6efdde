\* Four processes and a sleep lock; the instances of the others are in MCTransfers.
SPECIFICATION MCFairSpec
CONSTANTS
  Parts = {"lock", "reading", "scarce", "waiting", "lines"}
  Pair = {p1, p2}
  Procs = {1, 2, 3, 4}
  NoProc = NoProc
  Error = Error
INVARIANT IInv
PROPERTIES IsMutex WaitsEnd

\* The ends of a pipe may all be closed, and bget() may panic.
CHECK_DEADLOCK FALSE
