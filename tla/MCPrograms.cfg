\* A pipeline of three stages, of six processes; the rest is in MCPrograms.
SPECIFICATION MCSpec
CONSTANTS
  Parts = {"shell", "jobs", "parse", "match", "reads", "strings", "format", "malloc", "mkfs"}
  NPROC = 6
  NFD = 5
  Lines <- Pipeline
INVARIANTS ShellExact FiltersExact LibraryExact ImageExact
CHECK_DEADLOCK FALSE
