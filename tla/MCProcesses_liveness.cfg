\* Two CPUs and a thread that shares one lock with the interrupt handlers; the rest
\* is in MCProcesses.
SPECIFICATION MCFairSpec
CONSTANTS
  Parts = {"spin", "plic2", "table2", "output1", "jobs", "moves"}
  Kills = {2}
  CPUs = {1, 2}
  Threads = {t1}
  Locks = {3}
  NoCpu = NoCpu
PROPERTIES ProcessorsGoOn ProcessesReturn ShellReturns CallsReturn
CHECK_DEADLOCK FALSE
