------------------------------- MODULE Virtio -------------------------------
(***************************************************************************)
(* The disk driver of kernel/virtio_disk.c and the device it talks to.     *)
(*                                                                         *)
(* One step is one critical section under vdisk_lock, cut where the device *)
(* may look in: between writing the avail ring and advancing avail->idx,   *)
(* and between two iterations of the interrupt handler's loop.  The device *)
(* is external: it reads and writes memory only through the descriptors    *)
(* it is given.  Each process has one buffer, which it holds locked.       *)
(* A ring entry that its reader has gone past keeps its value in memory    *)
(* until it is overwritten; the model forgets it, so that a step that      *)
(* reads it again finds Stale and panics instead of an old request.        *)
(***************************************************************************)
EXTENDS Naturals, FiniteSets

CONSTANTS
  Procs, NoProc,
  Intr,    \* the interrupt handler, as a holder of vdisk_lock
  Data,
  NUM,     \* descriptors, and slots of the rings
  UINT16   \* ring indices are taken modulo this (2^16 in the code)

Desc == 0..NUM-1
Stale == NUM  \* a ring entry that has been read: see below

VARIABLES
  free,               \* the set of i with disk.free[i]
  desc,               \* disk.desc: what addr points to, next, F_NEXT in flags, and
                      \* whether the request's header in disk.ops says write
  info,               \* disk.info: b and status
  avail, avail_idx,   \* disk.avail->ring and ->idx
  used, used_dev,     \* disk.used->ring and ->idx, written by the device
  used_idx,           \* disk.used_idx
  busy,               \* buffers with b->disk = 1
  mem,                \* b->data
  lock,               \* the holder of vdisk_lock from one step to the next
  pc, idx,            \* where each process is; the three descriptors it has
  rw,                 \* its request is a write
  \* the device
  sect,               \* the block on the disk that belongs to each buffer
  seen,               \* the avail index up to which it has fetched
  taken,              \* requests it works on
  irq,                \* is its interrupt raised?
  panicked

driver == <<free, desc, info>>
rings == <<avail, avail_idx, used, used_dev, used_idx>>
device == <<sect, seen, taken, irq>>
vars == <<driver, rings, busy, mem, lock, pc, idx, rw, device, panicked>>

NoDesc == [at |-> "none", of |-> NoProc, next |-> 0, more |-> FALSE, write |-> FALSE]

Init ==
  /\ free = Desc
  /\ desc = [i \in Desc |-> NoDesc]
  /\ info = [i \in Desc |-> [b |-> NoProc, ok |-> TRUE]]  \* status is 0
  /\ avail = [i \in Desc |-> Stale] /\ avail_idx = 0
  /\ used = [i \in Desc |-> Stale] /\ used_dev = 0 /\ used_idx = 0
  /\ busy = {}
  /\ mem \in [Procs -> Data] /\ sect \in [Procs -> Data]
  /\ lock = NoProc
  /\ pc = [p \in Procs |-> "user"]
  /\ idx = [p \in Procs |-> <<0, 0, 0>>]
  /\ rw = [p \in Procs |-> FALSE]
  /\ seen = 0 /\ taken = {} /\ irq = FALSE
  /\ panicked = FALSE

Running == ~ panicked
Goto(p, label) == pc' = [pc EXCEPT ![p] = label]

\* wakeup(&disk.free[0]), called by p.
WakeWaiters(p, next) ==
  pc' = [q \in Procs |-> IF q = p THEN next
                         ELSE IF pc[q] = "nodesc" THEN "alloc" ELSE pc[q]]

-----------------------------------------------------------------------------
(* virtio_disk_rw().                                                       *)

\* The caller holds its buffer locked and has filled it if it writes.
Call(p, write, d) ==
  /\ Running
  /\ pc[p] = "user"
  /\ rw' = [rw EXCEPT ![p] = write]
  /\ mem' = IF write THEN [mem EXCEPT ![p] = d] ELSE mem
  /\ Goto(p, "alloc")
  /\ UNCHANGED <<driver, rings, busy, lock, idx, device, panicked>>

\* The k-th free descriptor: alloc_desc() takes the lowest.
Lowest(k) == CHOOSE i \in free : Cardinality({j \in free : j < i}) = k - 1

\* Mutant: the status byte is not set to 0xff.
alloc3_desc_KeepsStatus(p) ==
  /\ Running
  /\ pc[p] = "alloc" /\ lock = NoProc
  /\ Cardinality(free) >= 3
  /\ LET i == Lowest(1)  j == Lowest(2)  k == Lowest(3)
     IN  /\ free' = free \ {i, j, k}
         /\ idx' = [idx EXCEPT ![p] = <<i, j, k>>]
         /\ desc' = [desc EXCEPT
              ![i] = [at |-> "op", of |-> i, next |-> j, more |-> TRUE, write |-> rw[p]],
              ![j] = [at |-> "data", of |-> p, next |-> k, more |-> TRUE, write |-> rw[p]],
              ![k] = [at |-> "status", of |-> i, next |-> 0, more |-> FALSE, write |-> FALSE]]
         /\ info' = [info EXCEPT ![i].b = p]
         /\ avail' = [avail EXCEPT ![avail_idx % NUM] = i]
  /\ busy' = busy \cup {p}
  /\ lock' = p
  /\ Goto(p, "publish")
  /\ UNCHANGED <<avail_idx, used, used_dev, used_idx, mem, rw, device, panicked>>

\* Allocate three descriptors, format them and enter them in the avail ring.
alloc3_desc(p) ==
  /\ Running
  /\ pc[p] = "alloc" /\ lock = NoProc
  /\ Cardinality(free) >= 3
  /\ LET i == Lowest(1)  j == Lowest(2)  k == Lowest(3)
     IN  /\ free' = free \ {i, j, k}
         /\ idx' = [idx EXCEPT ![p] = <<i, j, k>>]
         /\ desc' = [desc EXCEPT
              ![i] = [at |-> "op", of |-> i, next |-> j, more |-> TRUE, write |-> rw[p]],
              ![j] = [at |-> "data", of |-> p, next |-> k, more |-> TRUE, write |-> rw[p]],
              ![k] = [at |-> "status", of |-> i, next |-> 0, more |-> FALSE, write |-> FALSE]]
         /\ info' = [info EXCEPT ![i] = [b |-> p, ok |-> FALSE]]
         /\ avail' = [avail EXCEPT ![avail_idx % NUM] = i]
  /\ busy' = busy \cup {p}
  /\ lock' = p
  /\ Goto(p, "publish")
  /\ UNCHANGED <<avail_idx, used, used_dev, used_idx, mem, rw, device, panicked>>

\* Too few: what was allocated is freed again, which wakes the other waiters.
alloc_fails(p) ==
  /\ Running
  /\ pc[p] = "alloc" /\ lock = NoProc
  /\ Cardinality(free) < 3
  /\ IF free = {} THEN Goto(p, "nodesc") ELSE WakeWaiters(p, "nodesc")
  /\ UNCHANGED <<driver, rings, busy, mem, lock, idx, rw, device, panicked>>

\* avail->idx += 1, notify, sleep_prepare(b).
publish(p) ==
  /\ Running
  /\ pc[p] = "publish"
  /\ avail_idx' = (avail_idx + 1) % UINT16
  /\ lock' = NoProc
  /\ Goto(p, "wait")
  /\ UNCHANGED <<driver, avail, used, used_dev, used_idx, busy, mem, idx, rw, device, panicked>>

\* The descriptors of the chain at i, as free_chain() follows it.
Chain(i) == LET j == desc[i].next
            IN  IF ~ desc[i].more THEN {i}
                ELSE IF ~ desc[j].more THEN {i, j} ELSE {i, j, desc[j].next}

\* Awake, with vdisk_lock: sleep again, or free the chain and return.
complete(p) ==
  /\ Running
  /\ pc[p] = "woken" /\ lock = NoProc
  /\ IF p \in busy
     THEN Goto(p, "wait") /\ UNCHANGED <<free, desc, info, idx, rw, panicked>>
     ELSE LET C == Chain(idx[p][1])
          IN  /\ panicked' = (C \cap free # {})  \* "free_desc 2"
              /\ free' = free \cup C
              /\ desc' = [i \in Desc |-> IF i \in C THEN NoDesc ELSE desc[i]]
              /\ info' = [info EXCEPT ![idx[p][1]].b = NoProc]
              /\ idx' = [idx EXCEPT ![p] = <<0, 0, 0>>]
              /\ rw' = [rw EXCEPT ![p] = FALSE]
              /\ WakeWaiters(p, "user")
  /\ UNCHANGED <<rings, busy, mem, lock, device>>

\* kkill() makes a sleeper go round its loop once.
kkill(p) ==
  /\ Running
  /\ \/ pc[p] = "wait" /\ Goto(p, "woken")
     \/ pc[p] = "nodesc" /\ Goto(p, "alloc")
  /\ UNCHANGED <<driver, rings, busy, mem, lock, idx, rw, device, panicked>>

-----------------------------------------------------------------------------
(* virtio_disk_intr().                                                     *)

intr(h) ==
  /\ Running
  /\ irq /\ lock = NoProc
  /\ irq' = FALSE
  /\ lock' = h
  /\ UNCHANGED <<driver, rings, busy, mem, pc, idx, rw, sect, seen, taken, panicked>>

intr_loop(h) ==
  /\ Running
  /\ lock = h
  /\ used_idx # used_dev
  /\ LET id == used[used_idx % NUM]
         b  == IF id = Stale THEN NoProc ELSE info[id].b
     IN  IF b = NoProc \/ ~ info[id].ok
         THEN /\ panicked' = TRUE  \* null pointer, or "virtio_disk_intr status"
              /\ UNCHANGED <<busy, pc>>
         ELSE /\ busy' = busy \ {b}
              /\ Goto(b, IF pc[b] = "wait" THEN "woken" ELSE pc[b])
              /\ UNCHANGED panicked
  /\ used_idx' = (used_idx + 1) % UINT16
  /\ used' = [used EXCEPT ![used_idx % NUM] = Stale]
  /\ UNCHANGED <<driver, avail, avail_idx, used_dev, mem, lock, idx, rw, device>>

intr_return(h) ==
  /\ Running
  /\ lock = h
  /\ used_idx = used_dev
  /\ lock' = NoProc
  /\ UNCHANGED <<driver, rings, busy, mem, pc, idx, rw, device, panicked>>

-----------------------------------------------------------------------------
(* The device.                                                             *)

DeviceFetch ==
  /\ seen # avail_idx
  /\ taken' = taken \cup {avail[seen % NUM]}
  /\ seen' = (seen + 1) % UINT16
  /\ avail' = [avail EXCEPT ![seen % NUM] = Stale]
  /\ UNCHANGED <<driver, avail_idx, used, used_dev, used_idx, busy, mem, lock, pc, idx, rw, sect, irq, panicked>>

\* Requests finish in any order.
DeviceFinish(h) ==
  /\ h \in taken
  /\ LET j == desc[h].next
         k == desc[j].next
         b == desc[j].of
     IN  /\ desc[h].at = "op" /\ desc[j].at = "data" /\ desc[k].at = "status"
         /\ IF desc[h].write
            THEN sect' = [sect EXCEPT ![b] = mem[b]] /\ UNCHANGED mem
            ELSE mem' = [mem EXCEPT ![b] = sect[b]] /\ UNCHANGED sect
         /\ info' = [info EXCEPT ![desc[k].of].ok = TRUE]
  /\ used' = [used EXCEPT ![used_dev % NUM] = h]
  /\ used_dev' = (used_dev + 1) % UINT16
  /\ taken' = taken \ {h}
  /\ irq' = TRUE
  /\ UNCHANGED <<free, desc, avail, avail_idx, used_idx, busy, lock, pc, idx, rw, seen, panicked>>

-----------------------------------------------------------------------------
virtio_disk_rw(p) == alloc3_desc(p) \/ alloc_fails(p) \/ publish(p) \/ complete(p)

virtio_disk_intr == intr(Intr) \/ intr_loop(Intr) \/ intr_return(Intr)

Device == DeviceFetch \/ \E h \in Desc : DeviceFinish(h)

Next ==
  \/ \E p \in Procs : \/ \E w \in BOOLEAN, d \in Data : Call(p, w, d)
                      \/ virtio_disk_rw(p) \/ kkill(p)
  \/ virtio_disk_intr
  \/ Device

Spec == Init /\ [][Next]_vars

(* The scheduler runs a process that is in the kernel, a spinlock that     *)
(* becomes free again and again is won in the end, the device works on     *)
(* what it is given, and its interrupt is delivered.                       *)
Fairness ==
  /\ \A p \in Procs : SF_vars(virtio_disk_rw(p))
  /\ SF_vars(virtio_disk_intr)
  /\ WF_vars(DeviceFetch)
  /\ \A h \in Desc : WF_vars(DeviceFinish(h))

FairSpec == Spec /\ Fairness
-----------------------------------------------------------------------------
(* Properties.                                                             *)

\* Neither of the panics is reached: no chain is freed twice, and every used
\* entry belongs to a request that is waiting and has succeeded.
NoPanic == ~ panicked

InFlight(p) == pc[p] \in {"publish", "wait", "woken"}
Owns(p) == IF InFlight(p) THEN {idx[p][k] : k \in 1..3} ELSE {}

\* Every descriptor is free or belongs to one request, which has three: none
\* is lost when an allocation fails or two processes finish together.
DescriptorsOwned ==
  /\ \A p \in Procs : InFlight(p) => Cardinality(Owns(p)) = 3 /\ Chain(idx[p][1]) = Owns(p)
  /\ \A p, q \in Procs : p # q => Owns(p) \cap Owns(q) = {}
  /\ Desc \ free = UNION {Owns(p) : p \in Procs}

Between(a, b) == {k \in 0..UINT16-1 : (k + UINT16 - a) % UINT16 < (b + UINT16 - a) % UINT16}
Offered == {avail[k % NUM] : k \in Between(seen, avail_idx)}
Finished == {used[k % NUM] : k \in Between(used_idx, used_dev)}
Size(a, b) == (b + UINT16 - a) % UINT16

\* A request the driver waits for is in exactly one place: offered in the avail
\* ring, with the device, or finished in the used ring; no ring entry is
\* overwritten before it is read, also when the indices wrap.
OnePlace ==
  /\ Cardinality(Offered) = Size(seen, avail_idx)
  /\ Cardinality(Finished) = Size(used_idx, used_dev)
  /\ Offered \cap taken = {} /\ Offered \cap Finished = {} /\ taken \cap Finished = {}
  /\ Offered \cup taken \cup Finished = {idx[p][1] : p \in {q \in busy : pc[q] # "publish"}}

Transferred(p) == InFlight(p) /\ info[idx[p][1]].ok

Block == INSTANCE BlockDevice WITH
  req <- [p \in Procs |-> CASE pc[p] = "user" -> "none"
                            [] Transferred(p) -> "done"
                            [] OTHER -> IF rw[p] THEN "write" ELSE "read"]

\* The driver implements BlockDevice: virtio_disk_rw() returns when its own
\* block, and no other, has been transferred, once and in its direction.
IsBlockDevice == Block!Spec

\* No completion is lost: an entry in the used ring that the handler has not
\* read has an interrupt raised, or the handler is still in its loop.
NoLostInterrupt == used_idx # used_dev => irq \/ lock = Intr

=============================================================================
