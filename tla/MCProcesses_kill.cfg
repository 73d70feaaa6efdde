\* Programs may call kill(0).
SPECIFICATION MCSpec
CONSTANTS
  Parts = {"table3"}
  Kills = {0}
  CPUs = {c1}
  Threads = {t1}
  Locks = {1}
  NoCpu = NoCpu
INVARIANT KillsProcesses
