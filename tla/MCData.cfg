\* Two processes with two descriptors each, three files, one pipe; the rest is in
\* MCData.
SPECIFICATION MCSpec
CONSTANTS
  Parts = {"fd", "alloc", "bytes", "long"}
  Procs = {p1, p2}
  InitProc = p1
  NFILE = 3
  NOFILE = 2
  NPIPE = 1
  NoProc = NoProc
  Writers = {w1, w2}
  Inodes = {f1, f2}
SYMMETRY Symmetry
VIEW View
INVARIANTS FilesExact BlocksExact
PROPERTY IsByteFile
