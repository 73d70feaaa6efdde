-------------------------------- MODULE Log ---------------------------------
(***************************************************************************)
(* The write-ahead log of kernel/log.c over the buffer cache of            *)
(* kernel/bio.c and a disk that may stop at any write.                     *)
(*                                                                         *)
(* One step is one critical section under log.lock, one modification of a  *)
(* locked buffer, or one bwrite().  Log blocks and the header block are    *)
(* only ever changed by a memmove() that the very next statement writes    *)
(* out, so their cached copy is their disk copy and is not kept apart.     *)
(* Sleeping in begin_op() and sys_sync() is the pc "bsleep" or "ssleep";   *)
(* wakeup(&log) moves every sleeper on, and kkill() may move one on early. *)
(***************************************************************************)
EXTENDS Naturals, Sequences, FiniteSets

CONSTANTS
  Procs,        \* processes that run file system calls
  Blocks,       \* home blocks (the disk without its log)
  NoBlock,      \* "no buffer held"
  Data,         \* contents of a block
  NoData,       \* "not cached"
  LOGBLOCKS,    \* log slots on disk (kernel/param.h)
  MAXOPBLOCKS,  \* slots begin_op() sets aside for one operation
  OpWrites      \* distinct blocks one operation does write

ASSUME LogAssumption ==
  /\ IsFiniteSet(Procs) /\ IsFiniteSet(Blocks)
  /\ NoBlock \notin Blocks
  /\ NoData \notin Data
  /\ LOGBLOCKS \in Nat /\ MAXOPBLOCKS \in Nat /\ OpWrites \in Nat
  /\ 0 < MAXOPBLOCKS /\ MAXOPBLOCKS <= LOGBLOCKS
  /\ OpWrites <= MAXOPBLOCKS

VARIABLES
  \* on disk
  disk,         \* home blocks
  logdisk,      \* the log's data blocks
  header,       \* the log's header block: block[0..n-1]
  \* in memory
  cache,        \* contents of the buffer for a block, NoData when there is none
  pins,         \* references bpin() added to that buffer
  lh,           \* log.lh
  outstanding, committing,
  tail,         \* loop index of write_log() and install_trans()
  pc,           \* where each process is
  held,         \* the buffer each process has locked
  wrote,        \* blocks written by each process's current operation
  due,          \* n - log.ncommit of sys_sync(): commits it still waits for
  boot,         \* "run", or the step of recover_from_log()
  panicked,
  \* history variables
  ended,        \* has an operation ended since the last commit point?
  owed          \* processes whose sync() has such an operation to wait for

diskVars == <<disk, logdisk, header>>
logVars == <<lh, outstanding, committing>>
procVars == <<held, wrote, due>>
history == <<ended, owed>>
vars == <<diskVars, cache, pins, logVars, tail, pc, procVars, boot, panicked, history>>

InOp == {p \in Procs : pc[p] \in {"op", "modified"}}

\* What bread(b) returns: the cached copy, or the disk's.
Contents(b) == IF cache[b] = NoData THEN disk[b] ELSE cache[b]

Logged(b) == \E i \in 1..Len(lh) : lh[i] = b

-----------------------------------------------------------------------------
Init ==
  /\ disk \in [Blocks -> Data]
  /\ \E d \in Data : logdisk = [i \in 1..LOGBLOCKS |-> d]  \* zeroed by mkfs
  /\ header = <<>>
  /\ cache = [b \in Blocks |-> NoData]
  /\ pins = [b \in Blocks |-> 0]
  /\ lh = <<>>
  /\ outstanding = 0
  /\ committing = FALSE
  /\ tail = 0
  /\ pc = [p \in Procs |-> "user"]
  /\ held = [p \in Procs |-> NoBlock]
  /\ wrote = [p \in Procs |-> {}]
  /\ due = [p \in Procs |-> 0]
  /\ boot = "read_head"
  /\ panicked = FALSE
  /\ ended = FALSE
  /\ owed = {}

Running == boot = "run" /\ ~ panicked

\* wakeup(&log): every sleeper rechecks its condition.
Woken(q) == CASE pc[q] = "bsleep" -> "begin"
              [] pc[q] = "ssleep" -> "swoken"
              [] OTHER -> pc[q]

wakeup(p, next) == pc' = [q \in Procs |-> IF q = p THEN next ELSE Woken(q)]

\* A sleeper that kkill() makes RUNNABLE rechecks its condition too.
Kill(p) ==
  /\ Running
  /\ pc[p] \in {"bsleep", "ssleep"}
  /\ pc' = [pc EXCEPT ![p] = Woken(p)]
  /\ UNCHANGED <<diskVars, cache, pins, logVars, tail, procVars, boot, panicked, history>>

-----------------------------------------------------------------------------
(* Buffer cache traffic that does not belong to a transaction.             *)

\* A reader (readi() outside a transaction) brings a block into the cache.
Bread(b) ==
  /\ Running
  /\ cache[b] = NoData
  /\ cache' = [cache EXCEPT ![b] = disk[b]]
  /\ UNCHANGED <<diskVars, pins, logVars, tail, pc, procVars, boot, panicked, history>>

\* bget() recycles a buffer whose refcnt is 0 for some other block.
Recycle(b) ==
  /\ Running
  /\ cache[b] # NoData
  /\ pins[b] = 0
  /\ \A p \in Procs : held[p] # b
  /\ cache' = [cache EXCEPT ![b] = NoData]
  /\ UNCHANGED <<diskVars, pins, logVars, tail, pc, procVars, boot, panicked, history>>

-----------------------------------------------------------------------------
(* begin_op() and end_op().                                                *)

CallBeginOp(p) ==
  /\ Running
  /\ pc[p] = "user"
  /\ pc' = [pc EXCEPT ![p] = "begin"]
  /\ UNCHANGED <<diskVars, cache, pins, logVars, tail, procVars, boot, panicked, history>>

\* Mutant: begin_op() forgets the operations that are under way.
MustWait_ForgetsOthers == \/ committing
                          \/ Len(lh) + MAXOPBLOCKS > LOGBLOCKS

MustWait == \/ committing
            \/ Len(lh) + (outstanding + 1) * MAXOPBLOCKS > LOGBLOCKS

begin_op(p) ==
  /\ Running
  /\ pc[p] = "begin"
  /\ \/ /\ MustWait
        /\ pc' = [pc EXCEPT ![p] = "bsleep"]
        /\ UNCHANGED <<outstanding, wrote>>
     \/ /\ ~ MustWait
        /\ pc' = [pc EXCEPT ![p] = "op"]
        /\ outstanding' = outstanding + 1
        /\ wrote' = [wrote EXCEPT ![p] = {}]
  /\ UNCHANGED <<diskVars, cache, pins, lh, committing, tail,
                 held, due, boot, panicked, history>>

end_op(p) ==
  /\ Running
  /\ pc[p] = "op"
  /\ outstanding' = outstanding - 1
  /\ \/ /\ committing
        /\ panicked' = TRUE  \* "log.committing"
        /\ UNCHANGED <<committing, pc, ended>>
     \/ /\ ~ committing
        /\ IF outstanding = 1
           THEN /\ committing' = TRUE
                /\ pc' = [pc EXCEPT ![p] = "commit"]
           ELSE /\ wakeup(p, "user")
                /\ UNCHANGED committing
        /\ ended' = TRUE
        /\ UNCHANGED panicked
  /\ UNCHANGED <<diskVars, cache, pins, lh, tail, procVars, boot, owed>>

-----------------------------------------------------------------------------
(* One logged write: bread(), modify bp->data, log_write(), brelse().      *)

Modify(p, b, d) ==
  /\ Running
  /\ pc[p] = "op"
  /\ \A q \in Procs : held[q] # b
  /\ Cardinality(wrote[p] \cup {b}) <= OpWrites
  /\ cache' = [cache EXCEPT ![b] = d]
  /\ held' = [held EXCEPT ![p] = b]
  /\ wrote' = [wrote EXCEPT ![p] = @ \cup {b}]
  /\ pc' = [pc EXCEPT ![p] = "modified"]
  /\ UNCHANGED <<diskVars, pins, logVars, tail, due, boot, panicked, history>>

LogAndPin(p, append, pin) ==
  /\ Running
  /\ pc[p] = "modified"
  /\ Len(lh) < LOGBLOCKS /\ outstanding >= 1
  /\ lh' = IF append THEN Append(lh, held[p]) ELSE lh
  /\ pins' = IF pin THEN [pins EXCEPT ![held[p]] = @ + 1] ELSE pins
  /\ held' = [held EXCEPT ![p] = NoBlock]
  /\ pc' = [pc EXCEPT ![p] = "op"]
  /\ UNCHANGED <<diskVars, cache, outstanding, committing, tail,
                 wrote, due, boot, panicked, history>>

\* Mutant: a block that is logged already is logged again.
log_write_NoAbsorption(p) == LogAndPin(p, TRUE, ~ Logged(held[p]))

log_write(p) ==
  /\ Running
  /\ pc[p] = "modified"
  /\ \/ /\ Len(lh) >= LOGBLOCKS \/ outstanding < 1
        /\ panicked' = TRUE  \* "too big a transaction", "log_write outside of trans"
        /\ UNCHANGED <<lh, pins, held, pc>>
     \/ /\ Len(lh) < LOGBLOCKS /\ outstanding >= 1
        /\ IF Logged(held[p])
           THEN UNCHANGED <<lh, pins>>
           ELSE /\ lh' = Append(lh, held[p])
                /\ pins' = [pins EXCEPT ![held[p]] = @ + 1]
        /\ held' = [held EXCEPT ![p] = NoBlock]
        /\ pc' = [pc EXCEPT ![p] = "op"]
        /\ UNCHANGED panicked
  /\ UNCHANGED <<diskVars, cache, outstanding, committing, tail,
                 wrote, due, boot, history>>

-----------------------------------------------------------------------------
(* commit(), run by the process whose end_op() found no other operation.   *)

CommitPoint == ended' = FALSE /\ owed' = {}

commit(p) ==
  /\ Running
  /\ pc[p] = "commit"
  /\ tail' = 0
  /\ IF lh = <<>>
     THEN pc' = [pc EXCEPT ![p] = "done"] /\ CommitPoint
     ELSE pc' = [pc EXCEPT ![p] = "write_log"] /\ UNCHANGED history
  /\ UNCHANGED <<diskVars, cache, pins, logVars, procVars, boot, panicked>>

write_log(p) ==
  /\ Running
  /\ pc[p] = "write_log"
  /\ tail < Len(lh)
  /\ LET b == lh[tail + 1]
     IN  /\ logdisk' = [logdisk EXCEPT ![tail + 1] = Contents(b)]
         /\ cache' = [cache EXCEPT ![b] = Contents(b)]
  /\ tail' = tail + 1
  /\ UNCHANGED <<disk, header, pins, logVars, pc, procVars, boot, panicked, history>>

\* Mutant: the header is written before the log blocks.
write_head_Early(p) ==
  /\ Running
  /\ pc[p] = "write_log"
  /\ header' = lh
  /\ tail' = 0
  /\ pc' = [pc EXCEPT ![p] = "install"]
  /\ CommitPoint
  /\ UNCHANGED <<disk, logdisk, cache, pins, logVars, procVars, boot, panicked>>

\* "Write header to disk -- the real commit"
write_head(p) ==
  /\ Running
  /\ pc[p] = "write_log"
  /\ tail = Len(lh)
  /\ header' = lh
  /\ tail' = 0
  /\ pc' = [pc EXCEPT ![p] = "install"]
  /\ CommitPoint
  /\ UNCHANGED <<disk, logdisk, cache, pins, logVars, procVars, boot, panicked>>

\* One iteration of install_trans(): copy a log block to its home.
InstallBlock ==
  /\ tail < Len(lh)
  /\ LET b == lh[tail + 1]
     IN  /\ cache' = [cache EXCEPT ![b] = logdisk[tail + 1]]
         /\ disk' = [disk EXCEPT ![b] = logdisk[tail + 1]]
  /\ tail' = tail + 1
  /\ UNCHANGED <<logdisk, header>>

install_trans(p) ==
  /\ Running
  /\ pc[p] = "install"
  /\ InstallBlock
  /\ pins' = [pins EXCEPT ![lh[tail + 1]] = @ - 1]
  /\ UNCHANGED <<logVars, pc, procVars, boot, panicked, history>>

\* log.lh.n = 0; write_head(): "Erase the transaction from the log"
ClearLog ==
  /\ tail = Len(lh)
  /\ lh' = <<>>
  /\ header' = <<>>
  /\ tail' = 0
  /\ UNCHANGED <<disk, logdisk, cache, pins>>

erase(p) ==
  /\ Running
  /\ pc[p] = "install"
  /\ ClearLog
  /\ pc' = [pc EXCEPT ![p] = "done"]
  /\ UNCHANGED <<outstanding, committing, procVars, boot, panicked, history>>

\* log.ncommit += 1: one commit less to wait for.
NextCommit == due' = [q \in Procs |-> IF due[q] = 0 THEN 0 ELSE due[q] - 1]

\* Mutant: nobody is woken.
commit_done_NoWakeup(p) ==
  /\ Running
  /\ pc[p] = "done"
  /\ committing' = FALSE
  /\ NextCommit
  /\ pc' = [pc EXCEPT ![p] = "user"]
  /\ UNCHANGED <<diskVars, cache, pins, lh, outstanding, tail, held, wrote, boot, panicked, history>>

\* The last critical section of end_op().
commit_done(p) ==
  /\ Running
  /\ pc[p] = "done"
  /\ committing' = FALSE
  /\ NextCommit
  /\ wakeup(p, "user")
  /\ UNCHANGED <<diskVars, cache, pins, lh, outstanding, tail, held, wrote, boot, panicked, history>>

-----------------------------------------------------------------------------
(* sys_sync().                                                             *)

CallSync(p) ==
  /\ Running
  /\ pc[p] = "user"
  /\ pc' = [pc EXCEPT ![p] = "sync"]
  /\ owed' = IF ended THEN owed \cup {p} ELSE owed
  /\ UNCHANGED <<diskVars, cache, pins, logVars, tail, procVars, boot, panicked, ended>>

\* Mutant: sync() waits for a commit too many.
sys_sync_TwoCommits(p) ==
  /\ Running
  /\ pc[p] = "sync"
  /\ IF committing \/ outstanding > 0
     THEN /\ due' = [due EXCEPT ![p] = 2]
          /\ pc' = [pc EXCEPT ![p] = "ssleep"]
     ELSE /\ pc' = [pc EXCEPT ![p] = "user"]
          /\ UNCHANGED due
  /\ UNCHANGED <<diskVars, cache, pins, logVars, tail, held, wrote, boot, panicked, history>>

sys_sync(p) ==
  /\ Running
  /\ pc[p] = "sync"
  /\ IF committing \/ outstanding > 0
     THEN /\ due' = [due EXCEPT ![p] = 1]
          /\ pc' = [pc EXCEPT ![p] = "ssleep"]
     ELSE /\ pc' = [pc EXCEPT ![p] = "user"]
          /\ UNCHANGED due
  /\ UNCHANGED <<diskVars, cache, pins, logVars, tail, held, wrote, boot, panicked, history>>

sync_recheck(p) ==
  /\ Running
  /\ pc[p] = "swoken"
  /\ pc' = [pc EXCEPT ![p] = IF due[p] > 0 THEN "ssleep" ELSE "user"]
  /\ UNCHANGED <<diskVars, cache, pins, logVars, tail, procVars, boot, panicked, history>>

-----------------------------------------------------------------------------
(* Power failure and recover_from_log().                                   *)

\* A block that is being written when the power fails may be left torn:
\* it then holds neither the old nor the new contents.  The header fits one
\* sector (4 + 4 * LOGBLOCKS < 512 bytes), so its write is atomic.
WritingLog == (\E p \in Procs : pc[p] = "write_log") /\ tail < Len(lh)
WritingHome == /\ (\E p \in Procs : pc[p] = "install") \/ boot = "install"
               /\ tail < Len(lh)

Crash ==
  /\ \/ ~ WritingLog /\ UNCHANGED logdisk
     \/ WritingLog /\ \E d \in Data : logdisk' = [logdisk EXCEPT ![tail + 1] = d]
  /\ \/ ~ WritingHome /\ UNCHANGED disk
     \/ WritingHome /\ \E d \in Data : disk' = [disk EXCEPT ![lh[tail + 1]] = d]
  /\ cache' = [b \in Blocks |-> NoData]
  /\ pins' = [b \in Blocks |-> 0]
  /\ lh' = <<>>
  /\ outstanding' = 0
  /\ committing' = FALSE
  /\ tail' = 0
  /\ pc' = [p \in Procs |-> "user"]
  /\ held' = [p \in Procs |-> NoBlock]
  /\ wrote' = [p \in Procs |-> {}]
  /\ due' = [p \in Procs |-> 0]
  /\ boot' = "read_head"
  /\ panicked' = FALSE
  /\ CommitPoint
  /\ UNCHANGED header

read_head ==
  /\ boot = "read_head"
  /\ lh' = header
  /\ boot' = "install"
  /\ UNCHANGED <<diskVars, cache, pins, outstanding, committing, tail,
                 pc, procVars, panicked, history>>

recover_install ==
  /\ boot = "install"
  /\ InstallBlock
  /\ UNCHANGED <<pins, logVars, pc, procVars, boot, panicked, history>>

recover_done ==
  /\ boot = "install"
  /\ ClearLog
  /\ boot' = "run"
  /\ UNCHANGED <<outstanding, committing, pc, procVars, panicked, history>>

-----------------------------------------------------------------------------
Commits(p) == commit(p) \/ write_log(p) \/ write_head(p) \/ install_trans(p)
                \/ erase(p) \/ commit_done(p)

Recover == read_head \/ recover_install \/ recover_done

Next ==
  \/ \E p \in Procs :
       \/ CallBeginOp(p) \/ begin_op(p) \/ end_op(p) \/ log_write(p)
       \/ \E b \in Blocks, d \in Data : Modify(p, b, d)
       \/ Commits(p)
       \/ CallSync(p) \/ sys_sync(p) \/ sync_recheck(p)
       \/ Kill(p)
  \/ \E b \in Blocks : Bread(b) \/ Recycle(b)
  \/ Recover
  \/ Crash

Spec == Init /\ [][Next]_vars

(* A process that the scheduler keeps running takes its next step, and an  *)
(* operation that has begun writes finitely often before it ends.  Nothing *)
(* makes a process start an operation, and nothing excludes a crash.       *)
Fairness ==
  /\ \A p \in Procs : /\ WF_vars(begin_op(p))
                      /\ WF_vars(log_write(p))
                      /\ SF_vars(end_op(p))
                      /\ WF_vars(Commits(p))
                      /\ WF_vars(sys_sync(p) \/ sync_recheck(p))
  /\ WF_vars(Recover)

FairSpec == Spec /\ Fairness
-----------------------------------------------------------------------------
(* Properties.                                                             *)

PC == {"user", "begin", "bsleep", "op", "modified", "commit", "write_log", "install", "done",
       "sync", "ssleep", "swoken"}

\* Every variable has its type.
TypeOK ==
  /\ pc \in [Procs -> PC]
  /\ disk \in [Blocks -> Data]
  /\ logdisk \in [1..LOGBLOCKS -> Data]
  /\ header \in Seq(Blocks) /\ Len(header) <= LOGBLOCKS
  /\ cache \in [Blocks -> Data \cup {NoData}]
  /\ pins \in [Blocks -> Nat]
  /\ lh \in Seq(Blocks) /\ Len(lh) <= LOGBLOCKS
  /\ outstanding \in Nat
  /\ committing \in BOOLEAN
  /\ tail \in 0..LOGBLOCKS
  /\ held \in [Procs -> Blocks \cup {NoBlock}]
  /\ wrote \in [Procs -> SUBSET Blocks]
  /\ due \in [Procs -> Nat]
  /\ boot \in {"read_head", "install", "run"}
  /\ panicked \in BOOLEAN
  /\ ended \in BOOLEAN
  /\ owed \in SUBSET Procs

\* None of "too big a transaction", "log_write outside of trans" and
\* "log.committing" is reached: begin_op() admits an operation only when the
\* log has room for everything the admitted operations may still write.
NoPanic == ~ panicked

Installed == IF \E p \in Procs : pc[p] = "install" THEN tail ELSE 0

\* While the system runs, the buffers log_write() has pinned are exactly the
\* logged blocks that install_trans() has not yet written home, each pinned
\* once: none may be recycled before its home is written, none stays pinned
\* after the commit.
PinsMatchLog ==
  boot = "run" =>
    \A b \in Blocks :
      pins[b] = IF \E i \in Installed + 1 .. Len(lh) : lh[i] = b THEN 1 ELSE 0

\* The contents a reboot would recover: what the header names comes from the
\* log, the rest from the home blocks.
Recovered ==
  [b \in Blocks |->
     IF \E i \in 1..Len(header) : header[i] = b
     THEN logdisk[CHOOSE i \in 1..Len(header) : header[i] = b]
     ELSE disk[b]]

Seen == [b \in Blocks |-> IF boot = "run" THEN Contents(b) ELSE Recovered[b]]

Atomic == INSTANCE AtomicDisk WITH
            mem <- Seen, durable <- Recovered, active <- InOp,
            syncing <- {p \in Procs : pc[p] \in {"sync", "ssleep", "swoken"}}

\* The log implements the transactional disk of AtomicDisk: at every crash,
\* torn block writes and crashes during recovery included, the disk recovers
\* to the state of the last commit, and sync() returns only when every
\* operation that had ended before the call is part of that state.
CrashSafe == Atomic!Spec

Idle == outstanding = 0
Admits(p) == pc[p] = "begin" /\ pc'[p] = "op"

\* If the file system becomes idle again and again, a call of begin_op() waits for
\* ever only because other operations are admitted for ever, each before the waiter
\* has looked again: wakeup(&log) comes whenever there may be room, and a waiter
\* that nobody overtakes gets in.
BeginOpReturns ==
  []<>Idle => \A p \in Procs : []<>(pc[p] \notin {"begin", "bsleep"}) \/ []<><<\E q \in Procs : Admits(q)>>_vars

\* If the file system becomes idle again and again, every sync() returns: it is woken
\* by the commit it waits for, however many operations follow.
SyncReturns == []<>Idle => \A p \in Procs : pc[p] = "sync" ~> pc[p] = "user"
-----------------------------------------------------------------------------
(* The inductive invariant behind the theorems of LogProofs.               *)

Committer(p) == pc[p] \in {"commit", "write_log", "install", "done"}

Installing == \E p \in Procs : pc[p] = "install"

Held(b) == \E p \in Procs : held[p] = b

\* Logged, and not yet written home.
Dirty(b) == \E i \in Installed + 1 .. Len(lh) : lh[i] = b

Distinct(s) == \A i, j \in 1..Len(s) : s[i] = s[j] => i = j

BootInv ==
  boot # "run" =>
    /\ \A p \in Procs : pc[p] = "user" /\ held[p] = NoBlock
    /\ ~ committing /\ ~ panicked /\ ~ ended
    /\ \A b \in Blocks : pins[b] = 0 /\ cache[b] \in {NoData, disk[b]}
    /\ boot = "read_head" => tail = 0 /\ lh = <<>>
    /\ boot = "install" => lh = header

OpInv ==
  /\ outstanding = Cardinality(InOp)
  /\ committing => InOp = {}
  /\ committing <=> \E p \in Procs : Committer(p)
  /\ \A p, q \in Procs : Committer(p) /\ Committer(q) => p = q
  /\ \A p \in Procs : pc[p] = "modified" <=> held[p] # NoBlock
  /\ \A p, q \in Procs : held[p] = held[q] /\ held[p] # NoBlock => p = q

LogInv ==
  /\ Distinct(lh) /\ Distinct(header)
  /\ \A p \in Procs : pc[p] = "done" => lh = <<>>
  /\ boot = "run" => header = IF Installing THEN lh ELSE <<>>
  /\ \A p \in Procs : pc[p] = "write_log" =>
       tail <= Len(lh) /\ \A i \in 1..tail : logdisk[i] = cache[lh[i]]
  /\ Installing \/ boot = "install" =>
       tail <= Len(lh) /\ \A i \in 1..tail : disk[lh[i]] = logdisk[i]
  /\ Installing => \A i \in tail + 1 .. Len(lh) : logdisk[i] = cache[lh[i]]

CacheInv ==
  boot = "run" =>
    \A b \in Blocks :
      IF Dirty(b) \/ Held(b) THEN cache[b] # NoData ELSE cache[b] \in {NoData, disk[b]}

SyncInv ==
  /\ ended => outstanding > 0 \/ \E p \in Procs : pc[p] \in {"commit", "write_log"}
  /\ owed # {} => ended
  /\ \A p \in owed : pc[p] \in {"ssleep", "swoken"} => due[p] > 0

\* The log slots that running operations have used up of their share.
Charged == {c \in InOp \X Blocks : c[2] \in wrote[c[1]] /\ Logged(c[2])}

SpaceInv ==
  /\ boot = "run" => Len(lh) + outstanding * MAXOPBLOCKS <= LOGBLOCKS + Cardinality(Charged)
  /\ \A p \in Procs : Cardinality(wrote[p]) <= OpWrites
  /\ \A p \in Procs : pc[p] = "modified" => held[p] \in wrote[p]

\* What log.c maintains between any two steps of any two processes: who may
\* be in a transaction or commit it, which copy of a block is current, what
\* the on-disk log holds at each stage of a commit, and how much of the log
\* the admitted operations may still use.
IInv == TypeOK /\ BootInv /\ OpInv /\ LogInv /\ CacheInv /\ PinsMatchLog /\ SyncInv /\ SpaceInv
=============================================================================
