\* Two CPUs and two threads or writers; two ordered locks; the rest is in MCProcesses.
SPECIFICATION MCSpec
CONSTANTS
  Parts = {"spin", "plic3", "table3", "output2"}
  Kills = {2}
  CPUs = {c1, c2}
  Threads = {t1, t2}
  Locks = {1, 2}
  NoCpu = NoCpu
SYMMETRY Symmetry
VIEW View
INVARIANTS MutualExclusion InterruptsRestored IInv OneServer ProcessesSafe OutputSafe
PROPERTY ProcessTree
