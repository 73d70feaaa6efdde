---------------------------- MODULE MCTransfers -----------------------------
(* Sleep locks and what moves data while processes sleep, side by side:    *)
(* pipes, the buffer cache, the disk driver and console input.  A          *)
(* behaviour is one of a single part; the others stay as they begin.       *)
EXTENDS SleepLock, Naturals, TLC

CONSTANTS Parts, Pair, Error

VARIABLES
  part,
  data, nread, nwrite, readopen, writeopen, pi_lock, freed, open, killed, caller, n, i, last, result,
  disk, blockno, valid, refcnt, buffer, holder, lru, pinned, user, want, buf, bio_panicked,
  free, desc, info, avail, avail_idx, used, used_dev, used_idx, busy, mem, vdisk_lock, request, idx, rw,
  sect, seen, taken, irq, disk_panicked,
  cons_buf, r, w, e, cons_lock, reader, left, got, struck

piping == <<data, nread, nwrite, readopen, writeopen, pi_lock, freed, open, killed, caller, n, i, last, result>>
caching == <<disk, blockno, valid, refcnt, buffer, holder, lru, pinned, user, want, buf, bio_panicked>>
driving == <<free, desc, info, avail, avail_idx, used, used_dev, used_idx, busy, mem, vdisk_lock, request, idx, rw,
             sect, seen, taken, irq, disk_panicked>>
typing == <<cons_buf, r, w, e, cons_lock, reader, left, got, struck>>

-----------------------------------------------------------------------------
(* The instances.                                                          *)

\* Two writers and a reader; the counters wrap after two bytes.
Writing == INSTANCE Pipe WITH lock <- pi_lock, pc <- caller,
  Writers <- Pair, Readers <- {"r"}, Byte <- {1}, PIPESIZE <- 1, UINT <- 2, MaxCall <- 2
\* A writer and a reader of different bytes.
Ordered == INSTANCE Pipe WITH lock <- pi_lock, pc <- caller,
  Writers <- {"w"}, Readers <- {"r"}, Byte <- {1, 2}, PIPESIZE <- 2, UINT <- 4, MaxCall <- 2
\* A writer and a reader; calls of up to one byte more than fits.
Reading == INSTANCE Pipe WITH lock <- pi_lock, pc <- caller,
  Writers <- {"w"}, Readers <- {"r"}, Byte <- {1}, PIPESIZE <- 1, UINT <- 2, MaxCall <- 2

\* Two users of three blocks, and two buffers.
Stored == INSTANCE Bio WITH data <- buffer, locked <- holder, pc <- user, panicked <- bio_panicked,
  Users <- Pair, NoUser <- NoProc, Blocks <- 1..3, NoBlock <- 0, Data <- {1, 2}, NBUF <- 2, MaxPins <- 0
\* Two users of four blocks, and three buffers that the log can pin all, as the code
\* has NBUF = LOGBLOCKS: bget() may find none and panic.
Pins == INSTANCE Bio WITH data <- buffer, locked <- holder, pc <- user, panicked <- bio_panicked,
  Users <- Pair, NoUser <- NoProc, Blocks <- 1..4, NoBlock <- 0, Data <- {1}, NBUF <- 3, MaxPins <- 3
\* Three users of two buffers: bget() may find none and panic.
Scarce == INSTANCE Bio WITH data <- buffer, locked <- holder, pc <- user, panicked <- bio_panicked,
  Users <- 1..3, NoUser <- NoProc, Blocks <- 1..3, NoBlock <- 0, Data <- {1}, NBUF <- 2, MaxPins <- 0

\* The instances have the parameters that PipeProofs and BioProofs assume.
ASSUME Instances == /\ Writing!Parameters /\ Ordered!Parameters /\ Reading!Parameters
                    /\ Stored!Parameters /\ Pins!Parameters /\ Scarce!Parameters

\* Three processes, descriptors for one request and two to spare; the indices
\* go round the ring twice before they wrap.
Three == INSTANCE Virtio WITH lock <- vdisk_lock, pc <- request, panicked <- disk_panicked,
  Procs <- Pair \cup {"q"}, Intr <- "intr", Data <- {1}, NUM <- 5, UINT16 <- 10
\* Two processes, two values, and descriptors for two requests.
Two == INSTANCE Virtio WITH lock <- vdisk_lock, pc <- request, panicked <- disk_panicked,
  Procs <- Pair, Intr <- "intr", Data <- {1, 2}, NUM <- 8, UINT16 <- 16
\* Three processes and descriptors for one request.
Waiting == INSTANCE Virtio WITH lock <- vdisk_lock, pc <- request, panicked <- disk_panicked,
  Procs <- 1..3, Intr <- 0, Data <- {1}, NUM <- 4, UINT16 <- 4

\* Two readers of a buffer of three characters whose indices wrap after six.
Typing == INSTANCE Console WITH buf <- cons_buf, lock <- cons_lock, pc <- reader, n <- left, killed <- struck,
  Readers <- Pair, Plain <- {"a"}, INPUT_BUF_SIZE <- 3, UINT <- 6, MaxCall <- 2
\* Two readers of a buffer of two characters.
Lines == INSTANCE Console WITH buf <- cons_buf, lock <- cons_lock, pc <- reader, n <- left, killed <- struck,
  Readers <- 1..2, Plain <- {"a"}, INPUT_BUF_SIZE <- 2, UINT <- 4, MaxCall <- 1

-----------------------------------------------------------------------------
(* The parts side by side.                                                 *)

Pipes == {"writing", "ordered", "reading"}
Caches == {"stored", "pins", "scarce"}
Disks == {"three", "two", "waiting"}
Consoles == {"typing", "lines"}

Idle == 0
PipeIdle ==
  /\ data = Idle /\ nread = Idle /\ nwrite = Idle /\ readopen = Idle /\ writeopen = Idle /\ pi_lock = Idle
  /\ freed = Idle /\ open = Idle /\ killed = Idle /\ caller = Idle /\ n = Idle /\ i = Idle /\ last = Idle /\ result = Idle
CacheIdle ==
  /\ disk = Idle /\ blockno = Idle /\ valid = Idle /\ refcnt = Idle /\ buffer = Idle /\ holder = Idle
  /\ lru = Idle /\ pinned = Idle /\ user = Idle /\ want = Idle /\ buf = Idle /\ bio_panicked = Idle
DiskIdle ==
  /\ free = Idle /\ desc = Idle /\ info = Idle /\ avail = Idle /\ avail_idx = Idle /\ used = Idle /\ used_dev = Idle
  /\ used_idx = Idle /\ busy = Idle /\ mem = Idle /\ vdisk_lock = Idle /\ request = Idle /\ idx = Idle /\ rw = Idle
  /\ sect = Idle /\ seen = Idle /\ taken = Idle /\ irq = Idle /\ disk_panicked = Idle
ConsoleIdle ==
  /\ cons_buf = Idle /\ r = Idle /\ w = Idle /\ e = Idle /\ cons_lock = Idle /\ reader = Idle
  /\ left = Idle /\ got = Idle /\ struck = Idle

MCInit ==
  /\ part \in Parts /\ Init
  /\ CASE part = "writing" -> Writing!Init [] part = "ordered" -> Ordered!Init [] part = "reading" -> Reading!Init
       [] OTHER -> PipeIdle
  /\ CASE part = "stored" -> Stored!Init [] part = "pins" -> Pins!Init [] part = "scarce" -> Scarce!Init
       [] OTHER -> CacheIdle
  /\ CASE part = "three" -> Three!Init [] part = "two" -> Two!Init [] part = "waiting" -> Waiting!Init
       [] OTHER -> DiskIdle
  /\ CASE part = "typing" -> Typing!Init [] part = "lines" -> Lines!Init [] OTHER -> ConsoleIdle

MCNext ==
  /\ UNCHANGED part
  /\ \/ part = "lock" /\ Next /\ UNCHANGED <<piping, caching, driving, typing>>
     \/ /\ part \in Pipes /\ UNCHANGED <<vars, caching, driving, typing>>
        /\ \/ part = "writing" /\ Writing!Next
           \/ part = "ordered" /\ Ordered!Next
           \/ part = "reading" /\ Reading!Next
     \/ /\ part \in Caches /\ UNCHANGED <<vars, piping, driving, typing>>
        /\ \/ part = "stored" /\ Stored!Next
           \/ part = "pins" /\ Pins!Next
           \/ part = "scarce" /\ Scarce!Next
     \/ /\ part \in Disks /\ UNCHANGED <<vars, piping, caching, typing>>
        /\ \/ part = "three" /\ Three!Next
           \/ part = "two" /\ Two!Next
           \/ part = "waiting" /\ Waiting!Next
     \/ /\ part \in Consoles /\ UNCHANGED <<vars, piping, caching, driving>>
        /\ \/ part = "typing" /\ Typing!Next
           \/ part = "lines" /\ Lines!Next
     \/ /\ part \in Pipes /\ freed    \* all ends are closed
        /\ UNCHANGED <<vars, piping, caching, driving, typing>>
     \/ /\ part \in {"pins", "scarce"} /\ bio_panicked
        /\ UNCHANGED <<vars, piping, caching, driving, typing>>

MCVars == <<part, vars, piping, caching, driving, typing>>
MCSpec == MCInit /\ [][MCNext]_MCVars

Symmetry == Permutations(Pair)

\* The fairness of the parts, in their modules.  As part never changes, fairness of
\* a disjunction of actions of different parts is fairness of each of them; and a
\* user of a buffer is at one of its four actions at a time.
InLock == part = "lock" /\ UNCHANGED <<part, piping, caching, driving, typing>>
InPipe == part = "reading" /\ UNCHANGED <<part, vars, caching, driving, typing>>
InCache == part = "scarce" /\ UNCHANGED <<part, vars, piping, driving, typing>>
InDisk == part = "waiting" /\ UNCHANGED <<part, vars, piping, caching, typing>>
InConsole == part = "lines" /\ UNCHANGED <<part, vars, piping, caching, driving>>
Strong(k) ==
  \/ /\ InPipe
     /\ \/ k = 1 /\ Reading!pipewrite("w")
        \/ k = 2 /\ Reading!piperead("r")
        \/ k = 3 /\ Reading!pipeclose("w")
        \/ k = 4 /\ Reading!pipeclose("r")
  \/ InCache /\ k \in 1..3 /\ Scarce!releasesleep(k)
  \/ InDisk /\ k \in 1..3 /\ Waiting!virtio_disk_rw(k)
  \/ InDisk /\ k = 4 /\ Waiting!virtio_disk_intr
  \/ InConsole /\ k \in 1..2 /\ Lines!consoleread(k)
Weak(k) ==
  \/ InLock /\ k \in Procs /\ (acquiresleep(k) \/ sleep(k) \/ releasesleep(k))
  \/ /\ InPipe
     /\ \/ k = 1 /\ Reading!sleep("w")
        \/ k = 2 /\ Reading!sleep("r")
        \/ k = 3 /\ "w" \in killed /\ Reading!fileclose("w")
        \/ k = 4 /\ "r" \in killed /\ Reading!fileclose("r")
  \/ InCache /\ k \in 1..3 /\ (Scarce!acquiresleep(k) \/ Scarce!bread(k) \/ Scarce!bwrite(k) \/ Scarce!brelse(k))
  \/ InDisk /\ k \in 1..4 /\ Waiting!DeviceFinish(k - 1)
  \/ InDisk /\ k = 5 /\ Waiting!DeviceFetch
  \/ InConsole /\ k \in 1..2 /\ Lines!sleep(k)
MCFairSpec == MCSpec /\ (\A k \in 1..4 : SF_MCVars(Strong(k))) /\ (\A k \in 1..5 : WF_MCVars(Weak(k)))

-----------------------------------------------------------------------------
(* Properties of the parts.                                                *)

\* Nobody sleeps for what is there: a reader of a pipe or of the console only while
\* there is nothing to read, a writer while there is no room; a full console buffer
\* can be read, and a used entry the driver did not read has an interrupt raised.
NothingMissed ==
  /\ part = "writing" => Writing!NoLostWakeup
  /\ part = "ordered" => Ordered!NoLostWakeup
  /\ part = "typing" => Typing!NoLostWakeup /\ Typing!FullIsReadable
  /\ part = "three" => Three!NoLostInterrupt
  /\ part = "two" => Two!NoLostInterrupt

\* What is shared has exactly the owners the code counts: a pipe's page is given back
\* when no process can reach it; a block has one buffer, which counts its users and
\* stays that block's for all of them, and bget() panics only when all are in use; a
\* descriptor is free or belongs to one request, and a request is in one place of the
\* rings.  (The IInv are the invariants that PipeProofs and BioProofs prove these
\* from.)
OwnedOnce ==
  /\ part = "writing" => Writing!IInv /\ Writing!NoUseAfterFree
  /\ part = "ordered" => Ordered!IInv /\ Ordered!NoUseAfterFree
  /\ part = "stored" => Stored!IInv /\ Stored!OneBuffer /\ Stored!RefcntExact /\ Stored!KeepsBlock /\ Stored!OutOfBuffers
  /\ part = "pins" => Pins!IInv /\ Pins!OneBuffer /\ Pins!RefcntExact /\ Pins!KeepsBlock /\ Pins!OutOfBuffers
  /\ part = "three" => Three!NoPanic /\ Three!DescriptorsOwned /\ Three!OnePlace
  /\ part = "two" => Two!NoPanic /\ Two!DescriptorsOwned /\ Two!OnePlace

\* The pipe is a bounded FIFO, also when its counters wrap.
IsFifo == /\ (part = "writing" => Writing!Abstract!Init) /\ (part = "ordered" => Ordered!Abstract!Init)
          /\ [][(part = "writing" => Writing!Abstract!Step) /\ (part = "ordered" => Ordered!Abstract!Step)]_<<part, piping>>
\* A user of a block sees the last value any user gave it.
IsStore == /\ (part = "stored" => Stored!Store!Init) /\ (part = "pins" => Pins!Store!Init)
           /\ [][(part = "stored" => Stored!Store!Step) /\ (part = "pins" => Pins!Store!Step)]_<<part, caching>>
\* virtio_disk_rw() returns when its own block has been transferred, once.
IsBlockDevice == /\ (part = "three" => Three!Block!Init) /\ (part = "two" => Two!Block!Init)
                 /\ [][(part = "three" => Three!Block!Step) /\ (part = "two" => Two!Block!Step)]_<<part, driving>>
\* Every entered character is read once, in order, by one reader.
IsLineInput == (part = "typing" => Typing!Abstract!Init) /\ [][part = "typing" => Typing!Abstract!Step]_<<part, typing>>

\* Every wait for another process or for a device ends.  (Users of a buffer are
\* alike, and so are the processes that use the disk and the console: one stands
\* for all of them.)
\*   - A sleep lock that is waited for gets a new holder.
\*   - When the writers of a pipe are gone a reader comes back, and when the readers
\*     are gone a writer does.
\*   - A user that waits for a buffer's lock finds it free again and again until it
\*     has it, and a bread() that has the lock returns, unless bget() panics.
\*   - A disk request that has its descriptors ends, and a process that waits for
\*     descriptors is woken again and again until it has them.
\*   - A reader of the console does not stay in its call while there is something
\*     to read.
WaitsEnd ==
  /\ HandedOver
  /\ (part = "reading" /\ caller["r"] \in {"read", "rprep", "rsleep", "copy"} /\ ~ writeopen) ~> (part = "reading" => caller["r"] = "user")
  /\ (part = "reading" /\ caller["w"] \in {"write", "wprep", "wsleep"} /\ ~ readopen) ~> (part = "reading" => caller["w"] = "user")
  /\ (part = "scarce" /\ user[1] = "lock") ~> (part = "scarce" => user[1] # "lock" \/ holder[buf[1]] = NoProc \/ bio_panicked)
  /\ (part = "scarce" /\ user[1] = "read") ~> (part = "scarce" => user[1] = "use" \/ bio_panicked)
  /\ (part = "waiting" /\ request[1] = "publish") ~> (part = "waiting" => request[1] = "user")
  /\ (part = "waiting" /\ request[1] = "nodesc") ~> (part = "waiting" => request[1] = "alloc")
  /\ (part = "lines" /\ reader[1] # "user" /\ r # w) ~> (part = "lines" => reader[1] = "user" \/ r = w)
=============================================================================
