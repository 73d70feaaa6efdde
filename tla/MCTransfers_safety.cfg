\* The instances of pipe.c, bio.c, virtio_disk.c and console.c are in MCTransfers.
SPECIFICATION MCSpec
CONSTANTS
  Parts = {"writing", "ordered", "stored", "pins", "three", "two", "typing"}
  Pair = {p1, p2}
  Procs = {1}
  NoProc = NoProc
  Error = Error
SYMMETRY Symmetry
INVARIANTS NothingMissed OwnedOnce
PROPERTIES IsFifo IsStore IsBlockDevice IsLineInput
