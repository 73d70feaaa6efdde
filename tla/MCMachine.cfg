\* Two processes that move between two CPUs; the rest is in MCMachine.
SPECIFICATION MCSpec
CONSTANTS
  Parts = {"trap", "vm", "fork", "copy", "boot"}
  CPUs = {c1, c2}
  Procs = {p1, p2}
  NoProc = NoProc
  Kernel = Kernel
  NPC = 2
VIEW View
INVARIANTS RegistersIntact MemoryExact CopiesExact NothingEarly
PROPERTY MemorySteps
