-------------------------------- MODULE Bio ---------------------------------
(***************************************************************************)
(* The buffer cache of kernel/bio.c: NBUF buffers on a list from most to   *)
(* least recently used, over a disk.                                       *)
(*                                                                         *)
(* One step is one critical section under bcache.lock, the taking or the   *)
(* release of a buffer's sleep lock, or one transfer by the disk driver.   *)
(* A user is one chain of bread() ... brelse(); a process that holds two   *)
(* buffers is two users.                                                   *)
(***************************************************************************)
EXTENDS Naturals, FiniteSets

CONSTANTS
  Users, NoUser,
  Blocks, NoBlock,
  Data,
  NBUF,
  MaxPins   \* LOGBLOCKS: most buffers the log pins at one time

Bufs == 1..NBUF

\* What the proofs assume of the constants.
Parameters == /\ IsFiniteSet(Users) /\ NoUser \notin Users /\ NoBlock \notin Blocks
              /\ NBUF \in Nat \ {0} /\ MaxPins \in Nat

VARIABLES
  disk,
  blockno, valid, refcnt, data,  \* of each buffer
  locked,   \* the user that holds the buffer's sleep lock
  lru,      \* the list from head.next (most recent) to head.prev
  pinned,   \* buffers with a reference from bpin()
  pc, want, \* where each user is, and the block it asked for
  buf,      \* the buffer bget() found for it
  panicked

bufVars == <<blockno, valid, refcnt, data, locked>>
userVars == <<pc, want, buf>>
vars == <<disk, bufVars, lru, pinned, userVars, panicked>>

\* binit(): each buffer is put in front of the ones before it.
Init ==
  /\ disk \in [Blocks -> Data]
  /\ blockno = [i \in Bufs |-> NoBlock]
  /\ valid = [i \in Bufs |-> FALSE]
  /\ refcnt = [i \in Bufs |-> 0]
  /\ \E d \in Data : data = [i \in Bufs |-> d]
  /\ locked = [i \in Bufs |-> NoUser]
  /\ lru = [i \in Bufs |-> NBUF + 1 - i]
  /\ pinned = {}
  /\ pc = [u \in Users |-> "idle"]
  /\ want = [u \in Users |-> NoBlock]
  /\ buf = [u \in Users |-> 1]
  /\ panicked = FALSE

-----------------------------------------------------------------------------
(* bread().                                                                *)

\* Mutant: an unlocked buffer counts as unused.
Unused_Unlocked == {k \in Bufs : locked[lru[k]] = NoUser}

\* Positions on the list; the scan for a free buffer runs from the tail.
Cached(b) == {k \in Bufs : blockno[lru[k]] = b}
Unused == {k \in Bufs : refcnt[lru[k]] = 0}

Nearest(S) == CHOOSE k \in S : \A j \in S : k <= j
Farthest(S) == CHOOSE k \in S : \A j \in S : j <= k

bget_hit(u, b) ==
  /\ ~ panicked
  /\ pc[u] = "idle"
  /\ Cached(b) # {}
  /\ LET i == lru[Nearest(Cached(b))]
     IN  /\ refcnt' = [refcnt EXCEPT ![i] = @ + 1]
         /\ buf' = [buf EXCEPT ![u] = i]
  /\ want' = [want EXCEPT ![u] = b]
  /\ pc' = [pc EXCEPT ![u] = "lock"]
  /\ UNCHANGED <<disk, blockno, valid, data, locked, lru, pinned, panicked>>

\* Mutant: valid is not reset.
bget_miss_KeepsValid(u, b) ==
  /\ ~ panicked
  /\ pc[u] = "idle"
  /\ Cached(b) = {}
  /\ IF Unused = {}
     THEN /\ panicked' = TRUE  \* "bget: no buffers"
          /\ UNCHANGED <<blockno, refcnt, userVars>>
     ELSE /\ LET i == lru[Farthest(Unused)]
             IN  /\ blockno' = [blockno EXCEPT ![i] = b]
                 /\ refcnt' = [refcnt EXCEPT ![i] = 1]
                 /\ buf' = [buf EXCEPT ![u] = i]
          /\ want' = [want EXCEPT ![u] = b]
          /\ pc' = [pc EXCEPT ![u] = "lock"]
          /\ UNCHANGED panicked
  /\ UNCHANGED <<disk, valid, data, locked, lru, pinned>>

bget_miss(u, b) ==
  /\ ~ panicked
  /\ pc[u] = "idle"
  /\ Cached(b) = {}
  /\ IF Unused = {}
     THEN /\ panicked' = TRUE  \* "bget: no buffers"
          /\ UNCHANGED <<blockno, valid, refcnt, userVars>>
     ELSE /\ LET i == lru[Farthest(Unused)]
             IN  /\ blockno' = [blockno EXCEPT ![i] = b]
                 /\ valid' = [valid EXCEPT ![i] = FALSE]
                 /\ refcnt' = [refcnt EXCEPT ![i] = 1]
                 /\ buf' = [buf EXCEPT ![u] = i]
          /\ want' = [want EXCEPT ![u] = b]
          /\ pc' = [pc EXCEPT ![u] = "lock"]
          /\ UNCHANGED panicked
  /\ UNCHANGED <<disk, data, locked, lru, pinned>>

acquiresleep(u) ==
  /\ ~ panicked
  /\ pc[u] = "lock"
  /\ locked[buf[u]] = NoUser
  /\ locked' = [locked EXCEPT ![buf[u]] = u]
  /\ pc' = [pc EXCEPT ![u] = IF valid[buf[u]] THEN "use" ELSE "read"]
  /\ UNCHANGED <<disk, blockno, valid, refcnt, data, lru, pinned, want, buf, panicked>>

\* virtio_disk_rw(b, 0); b->valid = 1
bread(u) ==
  /\ ~ panicked
  /\ pc[u] = "read"
  /\ data' = [data EXCEPT ![buf[u]] = disk[blockno[buf[u]]]]
  /\ valid' = [valid EXCEPT ![buf[u]] = TRUE]
  /\ pc' = [pc EXCEPT ![u] = "use"]
  /\ UNCHANGED <<disk, blockno, refcnt, locked, lru, pinned, want, buf, panicked>>

-----------------------------------------------------------------------------
(* What a user does with a locked buffer: "After changing buffer data, call *)
(* bwrite to write it to disk", or have the log pin it until it is written. *)

Modify(u, d) ==
  /\ ~ panicked
  /\ pc[u] = "use"
  /\ data[buf[u]] # d
  /\ data' = [data EXCEPT ![buf[u]] = d]
  /\ UNCHANGED <<disk, blockno, valid, refcnt, locked, lru, pinned, userVars, panicked>>

bwrite(u) ==
  /\ ~ panicked
  /\ pc[u] = "use"
  /\ disk' = [disk EXCEPT ![blockno[buf[u]]] = data[buf[u]]]
  /\ UNCHANGED <<bufVars, lru, pinned, userVars, panicked>>

\* log_write() of a block that is not in the log.
bpin(u) ==
  /\ ~ panicked
  /\ pc[u] = "use"
  /\ buf[u] \notin pinned
  /\ Cardinality(pinned) < MaxPins
  /\ refcnt' = [refcnt EXCEPT ![buf[u]] = @ + 1]
  /\ pinned' = pinned \cup {buf[u]}
  /\ UNCHANGED <<disk, blockno, valid, data, locked, lru, userVars, panicked>>

\* install_trans(), after bwrite().
bunpin(u) ==
  /\ ~ panicked
  /\ pc[u] = "use"
  /\ buf[u] \in pinned
  /\ disk[blockno[buf[u]]] = data[buf[u]]
  /\ refcnt' = [refcnt EXCEPT ![buf[u]] = @ - 1]
  /\ pinned' = pinned \ {buf[u]}
  /\ UNCHANGED <<disk, blockno, valid, data, locked, lru, userVars, panicked>>

-----------------------------------------------------------------------------
(* brelse(): the lock first, then the reference.                           *)

releasesleep(u) ==
  /\ ~ panicked
  /\ pc[u] = "use"
  /\ buf[u] \in pinned \/ disk[blockno[buf[u]]] = data[buf[u]]
  /\ locked' = [locked EXCEPT ![buf[u]] = NoUser]
  /\ pc' = [pc EXCEPT ![u] = "put"]
  /\ UNCHANGED <<disk, blockno, valid, refcnt, data, lru, pinned, want, buf, panicked>>

\* Unlink the buffer and put it behind the list's head.
MoveToFront(i) ==
  LET k == CHOOSE j \in Bufs : lru[j] = i
  IN  [j \in Bufs |-> IF j = 1 THEN i ELSE IF j <= k THEN lru[j - 1] ELSE lru[j]]

brelse(u) ==
  /\ ~ panicked
  /\ pc[u] = "put"
  /\ refcnt' = [refcnt EXCEPT ![buf[u]] = @ - 1]
  /\ lru' = IF refcnt[buf[u]] = 1 THEN MoveToFront(buf[u]) ELSE lru
  /\ pc' = [pc EXCEPT ![u] = "idle"]
  /\ want' = [want EXCEPT ![u] = NoBlock]
  /\ buf' = [buf EXCEPT ![u] = 1]
  /\ UNCHANGED <<disk, blockno, valid, data, locked, pinned, panicked>>

-----------------------------------------------------------------------------
Next ==
  \E u \in Users :
    \/ \E b \in Blocks : bget_hit(u, b) \/ bget_miss(u, b)
    \/ acquiresleep(u) \/ bread(u)
    \/ bwrite(u) \/ bpin(u) \/ bunpin(u)
    \/ \E d \in Data : Modify(u, d)
    \/ releasesleep(u) \/ brelse(u)

Spec == Init /\ [][Next]_vars

(* The scheduler runs a process that can go on, the disk answers, and a    *)
(* user writes out or pins what it changed and lets go.  Nothing says which *)
(* of the users that wait for a sleep lock gets it.                        *)
Fairness ==
  \A u \in Users : /\ WF_vars(acquiresleep(u))
                   /\ WF_vars(bread(u))
                   /\ WF_vars(bwrite(u))
                   /\ SF_vars(releasesleep(u))
                   /\ WF_vars(brelse(u))

FairSpec == Spec /\ Fairness
-----------------------------------------------------------------------------
(* Properties.                                                             *)

\* No block has two buffers, whoever misses on it at the same time.
OneBuffer == \A i, j \in Bufs : blockno[i] = blockno[j] /\ blockno[i] # NoBlock => i = j

RefersTo(i) == {u \in Users : pc[u] # "idle" /\ buf[u] = i}

\* b->refcnt counts the users between bget() and the end of brelse(), asleep
\* on the lock or not, and the log's pin: so no buffer is taken from under
\* a user that waits for it, and none stays allocated for ever.
RefcntExact ==
  \A i \in Bufs :
    refcnt[i] = Cardinality(RefersTo(i)) + (IF i \in pinned THEN 1 ELSE 0)

\* The buffer a user waits for, reads into or uses still is that of its block.
KeepsBlock == \A u \in Users : pc[u] # "idle" => blockno[buf[u]] = want[u]

Active == {u \in Users : pc[u] # "idle"}

\* "bget: no buffers" comes only when every buffer is needed: each has a block (another
\* one, by OneBuffer) that a user is at or the log has pinned, and users and pins are
\* together at least as many as the buffers.  None is held back by a user that is done.
OutOfBuffers ==
  panicked => /\ \A i \in Bufs : blockno[i] \in Blocks /\ (i \in pinned \/ RefersTo(i) # {})
              /\ NBUF <= Cardinality(Active) + Cardinality(pinned)

TypeOK ==
  /\ disk \in [Blocks -> Data]
  /\ blockno \in [Bufs -> Blocks \cup {NoBlock}] /\ valid \in [Bufs -> BOOLEAN]
  /\ refcnt \in [Bufs -> Nat] /\ data \in [Bufs -> Data] /\ locked \in [Bufs -> Users \cup {NoUser}]
  /\ lru \in [Bufs -> Bufs] /\ pinned \subseteq Bufs /\ panicked \in BOOLEAN
  /\ pc \in [Users -> {"idle", "lock", "read", "use", "put"}]
  /\ want \in [Users -> Blocks \cup {NoBlock}] /\ buf \in [Users -> Bufs]

\* Where a user is with its buffer: "read" and "use" hold the lock, and nobody else does.
UserInv(u) ==
  /\ pc[u] # "idle" => want[u] \in Blocks /\ blockno[buf[u]] = want[u]
  /\ pc[u] \in {"read", "use"} <=> locked[buf[u]] = u
  /\ pc[u] = "read" => ~ valid[buf[u]]
  /\ pc[u] \in {"use", "put"} => valid[buf[u]]

\* A valid buffer that nobody uses has what the disk has, unless the log pins it.
BufInv(i) ==
  /\ \E k \in Bufs : lru[k] = i
  /\ locked[i] # NoUser => buf[locked[i]] = i
  /\ i \in pinned \/ valid[i] => blockno[i] \in Blocks
  /\ i \in pinned => valid[i]
  /\ valid[i] /\ i \notin pinned /\ (\A u \in Users : pc[u] = "use" => buf[u] # i) => data[i] = disk[blockno[i]]

\* The inductive form of the four properties above.
IInv ==
  /\ TypeOK /\ OneBuffer /\ RefcntExact /\ OutOfBuffers /\ IsFiniteSet(pinned)
  /\ \A u \in Users : UserInv(u)
  /\ \A i \in Bufs : BufInv(i)

HasBuffer(b) == \E i \in Bufs : blockno[i] = b /\ valid[i]
BufferOf(b) == CHOOSE i \in Bufs : blockno[i] = b /\ valid[i]

\* What a user of a block finds, and who has it.
Value == [b \in Blocks |-> IF HasBuffer(b) THEN data[BufferOf(b)] ELSE disk[b]]
Owner == [b \in Blocks |->
            IF HasBuffer(b) /\ \E u \in Users : pc[u] = "use" /\ buf[u] = BufferOf(b)
            THEN locked[BufferOf(b)] ELSE NoUser]

Store == INSTANCE BlockStore WITH value <- Value, owner <- Owner

\* The cache implements BlockStore: a user of a block sees the last value any
\* user gave it, wherever that value is now (buffer, pinned buffer or disk),
\* and has it to itself until releasesleep().
IsStore == Store!Spec

=============================================================================
