\* Two processes that link and unlink, that make and remove directories, and that
\* crash at every step.
SPECIFICATION MCSpec
CONSTANTS
  Procs = {p1, p2}
  InitProc = p1
  NoProc = NoProc
  NINODES = 4
  NINODE = 3
  NLINK_MAX = 2
  MaxEnts = 4
  Scenarios <- MCScenarios
  Image <- MCImage
  Calls <- MCCalls
  MaxCalls <- MCMaxCalls
  MaxCrash <- MCMaxCrash
INVARIANTS DiskExact TableExact
PROPERTY FreedUnreferenced
