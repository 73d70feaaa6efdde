------------------------------ MODULE LogSteps ------------------------------
(***************************************************************************)
(* What one step of a process does to the log, conjunct by conjunct of     *)
(* IInv: to the operations in progress (OpAct), to the header, the cache   *)
(* and the pins (ActKeeps), to sync() (SyncAct), to the room in the log    *)
(* (SpaceAct) and to the types (TypeAct).                                  *)
(***************************************************************************)
EXTENDS Log, FiniteSetTheorems, TLAPS

\* Zenon tries every leaf; those with arithmetic or functional updates cite SMT.
USE ZenonT(60)

-----------------------------------------------------------------------------
(* What one step of a process does to the operations in progress (OpAct),  *)
(* and to the header, the cache and the pins (ActKeeps).                   *)

Act(p) == \/ CallBeginOp(p) \/ begin_op(p) \/ end_op(p) \/ log_write(p)
          \/ \E b \in Blocks, d \in Data : Modify(p, b, d)
          \/ Commits(p) \/ CallSync(p) \/ sys_sync(p) \/ sync_recheck(p) \/ Kill(p)

\* The step of the system, sorted by who takes it.
LEMMA NextCases ==
  Next <=> \/ \E p \in Procs : Act(p)
           \/ \E b \in Blocks : Bread(b) \/ Recycle(b)
           \/ Recover
           \/ Crash
BY DEF Next, Act

\* A step of p leaves the pc of another process alone, or wakes it.
LEMMA Others ==
  ASSUME TypeOK, NEW p \in Procs, Act(p), NEW q \in Procs, q # p
  PROVE  \/ pc'[q] = pc[q]
         \/ pc[q] = "bsleep" /\ pc'[q] = "begin"
         \/ pc[q] = "ssleep" /\ pc'[q] = "swoken"
<1> USE DEF TypeOK
<1>1. CASE CallBeginOp(p) \/ begin_op(p) \/ log_write(p) \/ \E b \in Blocks, d \in Data : Modify(p, b, d)
  BY <1>1 DEF CallBeginOp, begin_op, log_write, Modify
<1>2. CASE CallSync(p) \/ sys_sync(p) \/ sync_recheck(p) \/ Kill(p)
  BY <1>2 DEF CallSync, sys_sync, sync_recheck, Kill
<1>3. CASE end_op(p)
  BY <1>3 DEF end_op, wakeup, Woken
<1>4. CASE Commits(p)
  BY <1>4 DEF Commits, commit, write_log, write_head, install_trans, erase, commit_done, wakeup, Woken,
              logVars, procVars
<1> QED BY <1>1, <1>2, <1>3, <1>4 DEF Act

\* Only finitely many operations are in progress.
LEMMA InOpFinite == IsFiniteSet(InOp) /\ Cardinality(InOp) \in Nat
BY LogAssumption, FS_Subset, FS_CardinalityType DEF InOp

\* A begin_op() adds one operation, an end_op() removes one.
LEMMA InOpAdd ==
  ASSUME NEW p \in Procs, p \notin InOp, InOp' = InOp \cup {p}
  PROVE  Cardinality(InOp') = Cardinality(InOp) + 1
BY InOpFinite, FS_AddElement

LEMMA InOpRemove ==
  ASSUME NEW p \in Procs, p \in InOp, InOp' = InOp \ {p}
  PROVE  Cardinality(InOp') = Cardinality(InOp) - 1 /\ Cardinality(InOp) >= 1
BY InOpFinite, FS_RemoveElement, FS_EmptySet, SMTT(60)

\* Only begin_op() and end_op() change the set of running operations, and
\* outstanding with it.
LEMMA InOpStep ==
  ASSUME IInv, NEW p \in Procs, Act(p)
  PROVE  \/ InOp' = InOp /\ outstanding' = outstanding
         \/ begin_op(p) /\ p \notin InOp /\ InOp' = InOp \cup {p} /\ outstanding' = outstanding + 1
         \/ end_op(p) /\ p \in InOp /\ InOp' = InOp \ {p} /\ outstanding' = outstanding - 1
<1> USE DEF IInv, TypeOK, InOp
<1>0. \A q \in Procs : q # p => (q \in InOp' <=> q \in InOp)
  BY Others
<1>1. CASE CallBeginOp(p) \/ log_write(p) \/ \E b \in Blocks, d \in Data : Modify(p, b, d)
  BY <1>0, <1>1 DEF CallBeginOp, log_write, Modify, logVars
<1>2. CASE CallSync(p) \/ sys_sync(p) \/ sync_recheck(p) \/ Kill(p)
  BY <1>0, <1>2 DEF CallSync, sys_sync, sync_recheck, Kill, Woken, logVars
<1>3. CASE end_op(p)
  BY <1>0, <1>3 DEF end_op, wakeup, OpInv
<1>4. CASE Commits(p)
  BY <1>0, <1>4 DEF Commits, commit, write_log, write_head, install_trans, erase, commit_done, wakeup, logVars
<1>5. CASE begin_op(p)
  BY <1>0, <1>5 DEF begin_op
<1> QED BY <1>1, <1>2, <1>3, <1>4, <1>5 DEF Act

\* outstanding never goes negative: end_op() undoes a begin_op().
LEMMA OutstandingNext ==
  ASSUME IInv, NEW p \in Procs, Act(p)
  PROVE  outstanding' = Cardinality(InOp') /\ outstanding' \in Nat
BY InOpStep, InOpAdd, InOpRemove, InOpFinite, SMTT(60) DEF IInv, OpInv

\* Only end_op() starts a commit and only commit_done() finishes one; the
\* committing process is otherwise the same before and after a step.
LEMMA CommitStep ==
  ASSUME IInv, NEW p \in Procs, Act(p)
  PROVE  \/ committing' = committing /\ (Committer(p)' <=> Committer(p))
         \/ end_op(p) /\ ~ committing /\ outstanding = 1 /\ committing' /\ Committer(p)'
         \/ commit_done(p) /\ Committer(p) /\ ~ committing' /\ ~ Committer(p)'
<1> USE DEF IInv, TypeOK, Committer
<1>1. CASE CallBeginOp(p) \/ begin_op(p) \/ log_write(p) \/ \E b \in Blocks, d \in Data : Modify(p, b, d)
  BY <1>1 DEF CallBeginOp, begin_op, log_write, Modify, logVars
<1>2. CASE CallSync(p) \/ sys_sync(p) \/ sync_recheck(p) \/ Kill(p)
  BY <1>2 DEF CallSync, sys_sync, sync_recheck, Kill, Woken, logVars
<1>3. CASE end_op(p)
  BY <1>3 DEF end_op, wakeup, OpInv, InOp
<1>4. CASE commit_done(p)
  BY <1>4 DEF commit_done, wakeup
<1>5. CASE Commits(p) /\ ~ commit_done(p)
  BY <1>5 DEF Commits, commit, write_log, write_head, install_trans, erase, logVars
<1> QED BY <1>1, <1>2, <1>3, <1>4, <1>5 DEF Act

\* Only Modify locks a buffer for a process, and only log_write() ends it.
LEMMA HeldStep ==
  ASSUME IInv, NEW p \in Procs, Act(p)
  PROVE  /\ \A q \in Procs : q # p => held'[q] = held[q]
         /\ pc'[p] = "modified" <=> held'[p] # NoBlock
         /\ held'[p] # NoBlock => \A q \in Procs : q # p => held[q] # held'[p]
<1> USE LogAssumption DEF IInv, TypeOK
<1>1. CASE CallBeginOp(p) \/ begin_op(p)
  BY <1>1 DEF CallBeginOp, begin_op, procVars, OpInv
<1>2. CASE CallSync(p) \/ sys_sync(p) \/ sync_recheck(p) \/ Kill(p)
  BY <1>2 DEF CallSync, sys_sync, sync_recheck, Kill, Woken, procVars, OpInv
<1>3. CASE end_op(p)
  BY <1>3 DEF end_op, wakeup, OpInv, procVars
<1>4. CASE Commits(p)
  BY <1>4 DEF Commits, commit, write_log, write_head, install_trans, erase, commit_done, wakeup, procVars, OpInv
<1>5. CASE log_write(p)
  BY <1>5 DEF log_write, OpInv
<1>6. ASSUME NEW b \in Blocks, NEW d \in Data, Modify(p, b, d)
      PROVE  /\ \A q \in Procs : q # p => held'[q] = held[q]
             /\ pc'[p] = "modified" <=> held'[p] # NoBlock
             /\ held'[p] # NoBlock => \A q \in Procs : q # p => held[q] # held'[p]
  BY <1>6 DEF Modify, OpInv
<1> QED BY <1>1, <1>2, <1>3, <1>4, <1>5, <1>6 DEF Act

\* A step of a process preserves OpInv.
LEMMA OpAct == ASSUME IInv, NEW p \in Procs, Act(p) PROVE OpInv'
<1>1. outstanding' = Cardinality(InOp')
  BY OutstandingNext
<1>2. \A q \in Procs : q # p => (Committer(q)' <=> Committer(q)) /\ (pc'[q] = "modified" <=> pc[q] = "modified")
  BY Others DEF IInv, Committer
<1>3. committing' => InOp' = {}
  <2>1. CASE InOp' = InOp /\ outstanding' = outstanding
    <3>1. ~ end_op(p)
      BY <2>1, SMTT(60) DEF end_op, IInv, TypeOK
    <3> QED BY <2>1, <3>1, CommitStep DEF IInv, OpInv
  <2>2. CASE begin_op(p) /\ outstanding' = outstanding + 1
    <3>1. ~ committing /\ committing' = committing
      BY <2>2, SMTT(60) DEF begin_op, MustWait, IInv, TypeOK
    <3> QED BY <3>1
  <2>3. CASE end_op(p) /\ p \in InOp /\ InOp' = InOp \ {p}
    <3>1. ~ committing
      BY <2>3 DEF IInv, OpInv
    <3>2. committing' => Cardinality(InOp) = 1
      BY <2>3, <3>1 DEF end_op, IInv, OpInv
    <3> QED BY <2>3, <3>2, InOpFinite, FS_Singleton, SMTT(60)
  <2> QED BY <2>1, <2>2, <2>3, InOpStep
<1>4. committing' <=> \E q \in Procs : Committer(q)'
  BY <1>2, CommitStep DEF IInv, OpInv
<1>5. \A q, r \in Procs : Committer(q)' /\ Committer(r)' => q = r
  BY <1>2, CommitStep DEF IInv, OpInv
<1>6. \A q \in Procs : pc'[q] = "modified" <=> held'[q] # NoBlock
  BY <1>2, HeldStep DEF IInv, OpInv
<1>7. \A q, r \in Procs : held'[q] = held'[r] /\ held'[q] # NoBlock => q = r
  BY HeldStep DEF IInv, OpInv
<1> QED BY <1>1, <1>3, <1>4, <1>5, <1>6, <1>7 DEF OpInv

Ordinary(p) == CallBeginOp(p) \/ begin_op(p) \/ end_op(p) \/ CallSync(p) \/ sys_sync(p) \/ sync_recheck(p) \/ Kill(p)

Phase == {"write_log", "install", "done"}

\* Processes run only once recovery has finished.
LEMMA Runs == ASSUME NEW p \in Procs, Act(p) PROVE Running /\ boot' = "run"
<1> USE DEF Running
<1>1. CASE CallBeginOp(p) \/ begin_op(p) \/ end_op(p) \/ log_write(p) \/ \E b \in Blocks, d \in Data : Modify(p, b, d)
  BY <1>1 DEF CallBeginOp, begin_op, end_op, log_write, Modify
<1>2. CASE CallSync(p) \/ sys_sync(p) \/ sync_recheck(p) \/ Kill(p)
  BY <1>2 DEF CallSync, sys_sync, sync_recheck, Kill
<1>3. CASE Commits(p)
  BY <1>3 DEF Commits, commit, write_log, write_head, install_trans, erase, commit_done
<1> QED BY <1>1, <1>2, <1>3 DEF Act

\* A step other than one of commit() moves no process into or out of a commit
\* that has reached the disk.
LEMMA PhaseStep ==
  ASSUME IInv, NEW p \in Procs, Act(p), ~ Commits(p)
  PROVE  /\ \A q \in Procs : \A s \in Phase : pc'[q] = s <=> pc[q] = s
         /\ UNCHANGED <<disk, logdisk, header, tail>>
<1> USE DEF IInv, TypeOK, Phase
<1>1. \A q \in Procs : q # p => \A s \in Phase : pc'[q] = s <=> pc[q] = s
  BY Others
<1>2. CASE CallBeginOp(p) \/ begin_op(p) \/ log_write(p) \/ \E b \in Blocks, d \in Data : Modify(p, b, d)
  BY <1>1, <1>2 DEF CallBeginOp, begin_op, log_write, Modify, diskVars
<1>3. CASE CallSync(p) \/ sys_sync(p) \/ sync_recheck(p) \/ Kill(p)
  BY <1>1, <1>3 DEF CallSync, sys_sync, sync_recheck, Kill, Woken, diskVars
<1>4. CASE end_op(p)
  BY <1>1, <1>4 DEF end_op, wakeup, diskVars
<1> QED BY <1>2, <1>3, <1>4 DEF Act

\* ... so it does not change how much of the log is installed.
LEMMA InstalledSame ==
  ASSUME IInv, NEW p \in Procs, Act(p), ~ Commits(p)
  PROVE  Installing' = Installing /\ Installed' = Installed
BY PhaseStep DEF Installing, Installed, Phase

\* What the steps that neither touch data nor commit leave alone.
LEMMA OrdinaryStep ==
  ASSUME IInv, NEW p \in Procs, Ordinary(p)
  PROVE  Act(p) /\ ~ Commits(p) /\ UNCHANGED <<cache, pins, lh, held>>
<1>1. CASE CallBeginOp(p) \/ begin_op(p)
  BY <1>1 DEF Act, Commits, commit, write_log, write_head, install_trans, erase, commit_done, CallBeginOp, begin_op, logVars, procVars
<1>2. CASE CallSync(p) \/ sys_sync(p) \/ sync_recheck(p) \/ Kill(p)
  BY <1>2 DEF Act, Commits, commit, write_log, write_head, install_trans, erase, commit_done, CallSync, sys_sync, sync_recheck, Kill, logVars, procVars
<1>3. CASE end_op(p)
  BY <1>3 DEF Act, Commits, commit, write_log, write_head, install_trans, erase, commit_done, end_op, procVars
<1> QED BY <1>1, <1>2, <1>3 DEF Ordinary

\* Such a step preserves the invariants on the log and the cache.
LEMMA OrdinaryKeeps ==
  ASSUME IInv, NEW p \in Procs, Ordinary(p)
  PROVE  LogInv' /\ CacheInv' /\ PinsMatchLog'
<1>1. Act(p) /\ ~ Commits(p) /\ UNCHANGED <<cache, pins, lh, held, disk, logdisk, header, tail>>
  BY OrdinaryStep, PhaseStep
<1>2. Installing' = Installing /\ Installed' = Installed /\ boot' = boot
  BY <1>1, InstalledSame, Runs DEF Running
<1>3. LogInv'
  BY <1>1, <1>2, PhaseStep DEF IInv, LogInv, Distinct, Phase
<1>4. CacheInv'
  BY <1>1, <1>2 DEF IInv, CacheInv, Dirty, Held
<1>5. PinsMatchLog'
  BY <1>1, <1>2 DEF IInv, PinsMatchLog
<1> QED BY <1>3, <1>4, <1>5

\* No commit is under way while an operation runs.
LEMMA OpExcludesCommit ==
  ASSUME IInv, NEW p \in Procs, p \in InOp
  PROVE  /\ ~ committing /\ ~ Installing /\ Installed = 0
         /\ \A q \in Procs : pc[q] \notin {"commit", "write_log", "install", "done"}
BY DEF IInv, OpInv, Committer, Installing, Installed

\* While an operation runs, the log is in order if it has no block twice.
LEMMA OpKeepsLog ==
  ASSUME IInv, NEW p \in Procs, p \in InOp, Act(p), ~ Commits(p),
         ~ Installing', boot = "run", boot' = "run", Distinct(lh')
  PROVE  LogInv'
<1>1. \A q \in Procs : pc'[q] \notin {"write_log", "done"}
  BY PhaseStep, OpExcludesCommit DEF Phase
<1>2. header' = <<>> /\ Distinct(header')
  <2>1. header' = header
    BY PhaseStep
  <2>2. header = <<>> /\ Distinct(header)
    BY OpExcludesCommit DEF IInv, LogInv
  <2> QED BY <2>1, <2>2
<1> QED BY <1>1, <1>2 DEF LogInv

\* Modifying a locked buffer does not disturb the log.
LEMMA ModifyKeeps ==
  ASSUME IInv, NEW p \in Procs, NEW b \in Blocks, NEW d \in Data, Modify(p, b, d)
  PROVE  LogInv' /\ CacheInv' /\ PinsMatchLog'
<1>1. Act(p) /\ ~ Commits(p) /\ UNCHANGED <<pins, lh, disk, logdisk, header, tail>> /\ p \in InOp
  BY DEF Act, Commits, commit, write_log, write_head, install_trans, erase, commit_done, Modify, logVars, diskVars, InOp
<1>2. ~ Installing' /\ ~ Installing /\ Installed' = 0 /\ Installed = 0 /\ boot' = "run" /\ boot = "run"
  BY <1>1, InstalledSame, Runs, OpExcludesCommit DEF Running
<1>3. LogInv'
  <2>1. Distinct(lh')
    BY <1>1 DEF IInv, LogInv
  <2> QED BY <1>1, <1>2, <2>1, OpKeepsLog
<1>4. CacheInv'
  <2>1. cache' = [cache EXCEPT ![b] = d] /\ held' = [held EXCEPT ![p] = b] /\ held[p] = NoBlock
    BY DEF Modify, IInv, OpInv
  <2>2. \A c \in Blocks : Held(c)' <=> Held(c) \/ c = b
    BY <2>1, LogAssumption DEF Held, IInv, TypeOK
  <2>3. \A c \in Blocks : Dirty(c)' <=> Dirty(c)
    BY <1>1, <1>2 DEF Dirty
  <2> QED BY <1>1, <1>2, <2>1, <2>2, <2>3, LogAssumption DEF IInv, CacheInv, TypeOK
<1>5. PinsMatchLog'
  BY <1>1, <1>2 DEF IInv, PinsMatchLog
<1> QED BY <1>3, <1>4, <1>5

\* log_write() appends a block once, and pins it then.
LEMMA LogWriteKeeps ==
  ASSUME IInv, NEW p \in Procs, log_write(p)
  PROVE  LogInv' /\ CacheInv' /\ PinsMatchLog'
<1>1. Act(p) /\ ~ Commits(p) /\ UNCHANGED <<cache, disk, logdisk, header, tail>> /\ p \in InOp
  BY DEF Act, Commits, commit, write_log, write_head, install_trans, erase, commit_done, log_write, diskVars, InOp
<1>2. ~ Installing' /\ ~ Installing /\ Installed' = 0 /\ Installed = 0 /\ boot' = "run" /\ boot = "run"
  BY <1>1, InstalledSame, Runs, OpExcludesCommit DEF Running
<1>3. CASE UNCHANGED <<lh, pins, held>>
  <2>1. LogInv'
    <3>1. Distinct(lh')
      BY <1>3 DEF IInv, LogInv
    <3> QED BY <1>1, <1>2, <3>1, OpKeepsLog
  <2>2. CacheInv' /\ PinsMatchLog'
    BY <1>1, <1>2, <1>3 DEF IInv, CacheInv, PinsMatchLog, Dirty, Held
  <2> QED BY <2>1, <2>2
<1>4. CASE /\ held' = [held EXCEPT ![p] = NoBlock]
           /\ IF Logged(held[p])
              THEN UNCHANGED <<lh, pins>>
              ELSE lh' = Append(lh, held[p]) /\ pins' = [pins EXCEPT ![held[p]] = @ + 1]
  <2> DEFINE b == held[p]
  <2>1. b \in Blocks /\ \A q \in Procs : held[q] = b => q = p
    BY LogAssumption DEF log_write, IInv, OpInv, TypeOK
  <2>l. /\ Len(lh) \in Nat
        /\ ~ Logged(b) => /\ Len(lh') = Len(lh) + 1 /\ lh'[Len(lh) + 1] = b
                          /\ \A i \in 1..Len(lh) : lh'[i] = lh[i]
    <3>1. lh \in Seq(Blocks) /\ (~ Logged(b) => lh' = Append(lh, b))
      BY <1>4 DEF IInv, TypeOK
    <3> QED BY <2>1, <3>1, SMTT(60)
  <2>2. \A c \in Blocks : Logged(c)' <=> Logged(c) \/ c = b
    <3>1. CASE Logged(b)
      BY <1>4, <3>1 DEF Logged
    <3>2. CASE ~ Logged(b)
      BY <2>l, <3>2, SMTT(60) DEF Logged
    <3> QED BY <3>1, <3>2
  <2>3. \A c \in Blocks : (Dirty(c) <=> Logged(c)) /\ (Dirty(c)' <=> Logged(c)')
    BY <1>2, SMTT(60) DEF Dirty, Logged
  <2>4. \A c \in Blocks : Held(c) <=> Held(c)' \/ c = b
    BY <1>4, <2>1, LogAssumption DEF Held, IInv, TypeOK
  <2>5. Distinct(lh')
    <3>1. CASE Logged(b)
      BY <1>4, <3>1, SMTT(60) DEF Distinct, IInv, LogInv
    <3>2. CASE ~ Logged(b)
      BY <2>l, <3>2, SMTT(60) DEF Logged, Distinct, IInv, LogInv
    <3> QED BY <3>1, <3>2
  <2>6. LogInv'
    BY <1>1, <1>2, <2>5, OpKeepsLog
  <2>7. CacheInv'
    BY <1>1, <1>2, <2>2, <2>3, <2>4 DEF IInv, CacheInv
  <2>8. PinsMatchLog'
    <3>1. \A c \in Blocks : pins[c] = IF Logged(c) THEN 1 ELSE 0
      BY <1>2, SMTT(60) DEF IInv, PinsMatchLog, Logged
    <3>2. \A c \in Blocks : pins'[c] = IF Logged(c)' THEN 1 ELSE 0
      BY <1>4, <2>1, <2>2, <3>1, SMTT(60) DEF IInv, TypeOK
    <3> QED BY <1>2, <3>2, SMTT(60) DEF PinsMatchLog, Logged
  <2> QED BY <2>6, <2>7, <2>8
<1> QED BY <1>3, <1>4 DEF log_write

\* While a process commits, no operation runs and no buffer is held.
LEMMA CommitterFacts ==
  ASSUME IInv, NEW p \in Procs, Committer(p)
  PROVE  /\ committing /\ InOp = {}
         /\ \A q \in Procs : Committer(q) => q = p
         /\ \A b \in Blocks : ~ Held(b)
BY LogAssumption DEF IInv, OpInv, InOp, Held

\* Starting the commit changes no block.
LEMMA CommitKeeps ==
  ASSUME IInv, NEW p \in Procs, commit(p) \/ commit_done(p)
  PROVE  LogInv' /\ CacheInv' /\ PinsMatchLog'
<1>1. /\ Act(p) /\ boot = "run" /\ boot' = "run" /\ Committer(p)
      /\ UNCHANGED <<disk, logdisk, header, cache, pins, lh, held>>
  BY Runs DEF Act, Commits, commit, commit_done, logVars, diskVars, procVars, Committer, Running
<1>2. \A q \in Procs : pc[q] \notin {"install", "write_log"} /\ pc'[q] # "install"
  BY <1>1, CommitterFacts, Others DEF Committer, commit, commit_done, wakeup, IInv, TypeOK
<1>3. ~ Installing /\ ~ Installing' /\ Installed = 0 /\ Installed' = 0
  BY <1>2 DEF Installing, Installed
<1>4. \A q \in Procs : pc'[q] = "done" => lh = <<>>
  BY <1>1, Others DEF commit, commit_done, wakeup, IInv, TypeOK, LogInv
<1>5. \A q \in Procs : pc'[q] = "write_log" => tail' = 0
  BY <1>1, <1>2, Others DEF commit, commit_done, wakeup, IInv, TypeOK, LogInv
<1>6. LogInv'
  BY <1>1, <1>3, <1>4, <1>5, SMTT(60) DEF IInv, LogInv, Distinct, TypeOK
<1>7. CacheInv' /\ PinsMatchLog'
  BY <1>1, <1>3 DEF IInv, CacheInv, PinsMatchLog, Dirty, Held
<1> QED BY <1>6, <1>7

\* write_log() copies the cached contents of one logged block.
LEMMA WriteLogKeeps ==
  ASSUME IInv, NEW p \in Procs, write_log(p)
  PROVE  LogInv' /\ CacheInv' /\ PinsMatchLog'
<1> DEFINE b == lh[tail + 1]
<1>1. /\ boot = "run" /\ boot' = "run" /\ Committer(p) /\ tail < Len(lh) /\ tail' = tail + 1
      /\ UNCHANGED <<disk, header, pins, lh, held, pc>>
  BY DEF write_log, logVars, procVars, Committer, Running
<1>2. ~ Installing /\ ~ Installing' /\ Installed = 0 /\ Installed' = 0
  BY <1>1, CommitterFacts DEF Installing, Installed, Committer, write_log
<1>3. b \in Blocks /\ cache[b] # NoData
  BY <1>1, <1>2, SMTT(60) DEF IInv, CacheInv, Dirty, TypeOK
<1>4. cache' = cache /\ logdisk' = [logdisk EXCEPT ![tail + 1] = cache[b]]
  BY <1>3 DEF write_log, Contents, IInv, TypeOK
<1>5. \A i \in 1..tail' : logdisk'[i] = cache'[lh'[i]]
  <2>1. \A i \in 1..tail : logdisk[i] = cache[lh[i]]
    BY DEF IInv, LogInv, write_log
  <2>2. tail + 1 \in 1..LOGBLOCKS /\ \A i \in 1..tail + 1 : i = tail + 1 \/ i \in 1..tail
    BY <1>1, LogAssumption, SMTT(60) DEF IInv, TypeOK
  <2> QED BY <1>1, <1>4, <2>1, <2>2, SMTT(60) DEF IInv, TypeOK
<1>6. LogInv'
  BY <1>1, <1>2, <1>4, <1>5, SMTT(60) DEF IInv, LogInv, Distinct, TypeOK
<1>7. CacheInv' /\ PinsMatchLog'
  BY <1>1, <1>2, <1>4 DEF IInv, CacheInv, PinsMatchLog, Dirty, Held
<1> QED BY <1>6, <1>7

\* After the header write, disk log and memory log agree.
LEMMA WriteHeadKeeps ==
  ASSUME IInv, NEW p \in Procs, write_head(p)
  PROVE  LogInv' /\ CacheInv' /\ PinsMatchLog'
<1>1. /\ boot = "run" /\ boot' = "run" /\ Committer(p) /\ tail = Len(lh) /\ tail' = 0 /\ header' = lh
      /\ pc[p] = "write_log" /\ pc' = [pc EXCEPT ![p] = "install"]
      /\ UNCHANGED <<disk, logdisk, cache, pins, lh, held>>
  BY DEF write_head, logVars, procVars, Committer, Running
<1>2. ~ Installing /\ Installing' /\ Installed = 0 /\ Installed' = 0
  BY <1>1, CommitterFacts DEF Installing, Installed, Committer, IInv, TypeOK
<1>3. \A q \in Procs : pc'[q] \notin {"write_log", "done"}
  BY <1>1, CommitterFacts DEF Committer, IInv, TypeOK
<1>4. LogInv'
  BY <1>1, <1>2, <1>3, SMTT(60) DEF IInv, LogInv, Distinct, TypeOK
<1>5. CacheInv' /\ PinsMatchLog'
  BY <1>1, <1>2 DEF IInv, CacheInv, PinsMatchLog, Dirty, Held
<1> QED BY <1>4, <1>5

\* install_trans() moves one block home and unpins it.
LEMMA InstallKeeps ==
  ASSUME IInv, NEW p \in Procs, install_trans(p)
  PROVE  LogInv' /\ CacheInv' /\ PinsMatchLog' /\ pins[lh[tail + 1]] = 1 /\ lh[tail + 1] \in Blocks
<1>b. PICK b : b = lh[tail + 1]
  OBVIOUS
<1> USE <1>b
<1>1. /\ boot = "run" /\ boot' = "run" /\ Committer(p) /\ tail < Len(lh) /\ tail' = tail + 1
      /\ UNCHANGED <<logdisk, header, lh, held, pc>> /\ pins' = [pins EXCEPT ![b] = @ - 1]
  BY DEF install_trans, InstallBlock, logVars, procVars, Committer, Running
<1>2. Installing /\ Installing' /\ Installed = tail /\ Installed' = tail + 1
  BY <1>1 DEF Installing, Installed, install_trans
<1>3. b \in Blocks /\ tail + 1 \in 1..Len(lh) /\ Len(lh) \in Nat /\ tail \in Nat
  BY <1>1, SMTT(60) DEF IInv, TypeOK
<1>4. logdisk[tail + 1] = cache[b]
  BY <1>1, <1>2, <1>3, SMTT(60) DEF IInv, LogInv
<1>5. cache' = cache /\ disk' = [disk EXCEPT ![b] = cache[b]]
  BY <1>4, <1>3 DEF install_trans, InstallBlock, IInv, TypeOK
<1>6. \A c \in Blocks : Dirty(c) <=> Dirty(c)' \/ c = b
  BY <1>1, <1>2, <1>3, SMTT(60) DEF Dirty
<1>7. ~ Dirty(b)'
  <2>1. \A i \in tail + 2 .. Len(lh) : lh[i] # b
    BY <1>3, SMTT(60) DEF IInv, LogInv, Distinct
  <2> QED BY <1>1, <1>2, <1>3, <2>1, SMTT(60) DEF Dirty
<1>8. LogInv'
  <2>1. \A i \in 1..tail : lh[i] \in Blocks /\ lh[i] # b /\ disk[lh[i]] = logdisk[i]
    BY <1>1, <1>2, <1>3, SMTT(60) DEF IInv, TypeOK, LogInv, Distinct
  <2>2. \A i \in 1..tail + 1 : disk'[lh[i]] = logdisk[i]
    BY <1>3, <1>4, <1>5, <2>1, SMTT(60) DEF IInv, TypeOK
  <2>3. \A q \in Procs : pc[q] # "write_log"
    BY <1>1, CommitterFacts DEF Committer, install_trans
  <2> QED BY <1>1, <1>2, <1>3, <1>5, <2>2, <2>3, SMTT(60) DEF IInv, LogInv, Distinct
<1>9. CacheInv'
  <2>1. \A c \in Blocks : ~ Held(c) /\ ~ Held(c)'
    BY <1>1, CommitterFacts DEF Held
  <2> QED BY <1>1, <1>2, <1>3, <1>5, <1>6, <1>7, <2>1 DEF IInv, TypeOK, CacheInv
<1>10. \A c \in Blocks : pins[c] = IF Dirty(c) THEN 1 ELSE 0
  BY <1>1 DEF IInv, PinsMatchLog, Dirty
<1>11. \A c \in Blocks : pins'[c] = IF Dirty(c)' THEN 1 ELSE 0
  <2>1. pins[b] = 1 /\ pins'[b] = 0
    BY <1>1, <1>3, <1>6, <1>10, SMTT(60) DEF IInv, TypeOK
  <2>2. \A c \in Blocks : c # b => pins'[c] = pins[c]
    BY <1>1, <1>3 DEF IInv, TypeOK
  <2> QED BY <1>6, <1>7, <1>10, <2>1, <2>2
<1>12. PinsMatchLog'
  BY <1>11 DEF PinsMatchLog, Dirty
<1> QED BY <1>3, <1>6, <1>8, <1>9, <1>10, <1>12

\* When the log is erased every logged block is home.
LEMMA EraseKeeps ==
  ASSUME IInv, NEW p \in Procs, erase(p)
  PROVE  LogInv' /\ CacheInv' /\ PinsMatchLog'
<1>1. /\ boot = "run" /\ boot' = "run" /\ Committer(p) /\ tail = Len(lh) /\ lh' = <<>> /\ header' = <<>>
      /\ pc[p] = "install" /\ pc' = [pc EXCEPT ![p] = "done"]
      /\ UNCHANGED <<disk, logdisk, cache, pins, held>>
  BY DEF erase, ClearLog, procVars, Committer, Running
<1>2. Installed = Len(lh) /\ ~ Installing' /\ Installed' = 0 /\ Len(lh) \in Nat /\ Len(lh') = 0
  BY <1>1, CommitterFacts, SMTT(60) DEF Installing, Installed, Committer, IInv, TypeOK
<1>3. \A q \in Procs : pc'[q] # "write_log"
  BY <1>1, CommitterFacts DEF Committer, IInv, TypeOK
<1>4. LogInv'
  BY <1>1, <1>2, <1>3, SMTT(60) DEF IInv, LogInv, Distinct, TypeOK
<1>5. \A c \in Blocks : ~ Dirty(c) /\ ~ Dirty(c)'
  BY <1>1, <1>2, SMTT(60) DEF Dirty
<1>6. CacheInv'
  BY <1>1, <1>5 DEF IInv, CacheInv, Held
<1>7. PinsMatchLog'
  BY <1>1, <1>5 DEF IInv, PinsMatchLog, Dirty
<1> QED BY <1>4, <1>6, <1>7

\* Together: a step of a process preserves the invariants on log and cache.
LEMMA ActKeeps ==
  ASSUME IInv, NEW p \in Procs, Act(p)
  PROVE  LogInv' /\ CacheInv' /\ PinsMatchLog'
BY OrdinaryKeeps, ModifyKeeps, LogWriteKeeps, CommitKeeps, WriteLogKeeps, WriteHeadKeeps,
   InstallKeeps, EraseKeeps DEF Act, Commits, Ordinary

-----------------------------------------------------------------------------
(* What one step of a process does to sync() (SyncAct), to the room in the *)
(* log (SpaceAct) and to the types (TypeAct), with the facts about         *)
(* cardinalities the room in the log is counted by.                        *)

\* The cardinality of a union is at most the sum of the cardinalities.
LEMMA UnionBound ==
  ASSUME NEW S, IsFiniteSet(S), NEW T, IsFiniteSet(T)
  PROVE  IsFiniteSet(S \cup T) /\ Cardinality(S \cup T) <= Cardinality(S) + Cardinality(T)
<1>1. Cardinality(S) \in Nat /\ Cardinality(T) \in Nat
  BY FS_CardinalityType
<1>2. Cardinality(S \cap T) \in Nat
  BY FS_Intersection, FS_CardinalityType
<1>3. IsFiniteSet(S \cup T) /\ Cardinality(S \cup T) = Cardinality(S) + Cardinality(T) - Cardinality(S \cap T)
  BY FS_Union
<1> QED BY <1>1, <1>2, <1>3, SMTT(60)

\* A row of a product has the size of its second factor.
LEMMA SingletonProduct ==
  ASSUME NEW x, NEW T, IsFiniteSet(T)
  PROVE  IsFiniteSet({x} \X T) /\ Cardinality({x} \X T) = Cardinality(T)
<1>1. IsFiniteSet({x}) /\ Cardinality({x}) = 1
  BY FS_Singleton
<1>2. IsFiniteSet({x} \X T) /\ Cardinality({x} \X T) = 1 * Cardinality(T)
  BY <1>1, FS_Product
<1>3. Cardinality(T) \in Nat
  BY FS_CardinalityType
<1> QED BY <1>2, <1>3, SMTT(60)

\* A set of pairs with at most n second components for each first one.
LEMMA PairCount ==
  ASSUME NEW I, IsFiniteSet(I), NEW B, IsFiniteSet(B), NEW n \in Nat,
         NEW C, C \subseteq I \X B,
         \A i \in I : Cardinality({b \in B : <<i, b>> \in C}) <= n
  PROVE  Cardinality(C) <= Cardinality(I) * n
<1> DEFINE Row(i) == {b \in B : <<i, b>> \in C}
<1>1. \A i \in I : \E f \in [Row(i) -> 1..n] : \A a, b \in Row(i) : f[a] = f[b] => a = b
  <2> SUFFICES ASSUME NEW i \in I
               PROVE  \E f \in [Row(i) -> 1..n] : \A a, b \in Row(i) : f[a] = f[b] => a = b
    OBVIOUS
  <2>1. IsFiniteSet(Row(i)) /\ Cardinality(Row(i)) <= n
    BY FS_Subset
  <2> DEFINE k == Cardinality(Row(i))
  <2>2. k \in Nat /\ ExistsBijection(1..k, Row(i))
    BY <2>1, FS_CardinalityType
  <2> HIDE DEF k, Row
  <2>3. PICK g \in [1..k -> Row(i)] : \A b \in Row(i) : \E j \in 1..k : g[j] = b
    BY <2>2 DEF ExistsBijection, Bijection, Injection, Surjection
  <2> DEFINE f == [b \in Row(i) |-> CHOOSE j \in 1..k : g[j] = b]
  <2>4. \A b \in Row(i) : f[b] \in 1..k /\ g[f[b]] = b
    BY <2>3
  <2>5. 1..k \subseteq 1..n
    BY <2>1, <2>2, SMTT(60) DEF k
  <2>6. f \in [Row(i) -> 1..n] /\ \A a, b \in Row(i) : f[a] = f[b] => a = b
    BY <2>4, <2>5
  <2> QED BY <2>6
<1> HIDE DEF Row
<1> DEFINE Good(i, f) == f \in [Row(i) -> 1..n] /\ \A a, b \in Row(i) : f[a] = f[b] => a = b
           F == [i \in I |-> CHOOSE f : Good(i, f)]
           G == [c \in C |-> <<c[1], F[c[1]][c[2]]>>]
<1>2. \A i \in I : Good(i, F[i])
  <2> SUFFICES ASSUME NEW i \in I PROVE Good(i, F[i])
    OBVIOUS
  <2>1. \E f : Good(i, f)
    BY <1>1
  <2>2. Good(i, CHOOSE f : Good(i, f))
    BY <2>1, Zenon
  <2> QED BY <2>2
<1>3. \A c \in C : c[1] \in I /\ c[2] \in Row(c[1]) /\ c = <<c[1], c[2]>>
  BY SMTT(60) DEF Row
<1> HIDE DEF F
<1>4. G \in [C -> I \X (1..n)]
  BY <1>2, <1>3, SMTT(60)
<1>5. \A c, d \in C : G[c] = G[d] => c = d
  BY <1>2, <1>3
<1>6. G \in Injection(C, I \X (1..n))
  BY <1>4, <1>5 DEF Injection, IsInjective
<1>7. IsFiniteSet(1..n) /\ Cardinality(1..n) = n
  BY FS_Interval, SMTT(60)
<1>8. IsFiniteSet(I \X (1..n)) /\ Cardinality(I \X (1..n)) = Cardinality(I) * n
  BY <1>7, FS_Product
<1> QED BY <1>6, <1>8, FS_Injection, SMTT(60)

-----------------------------------------------------------------------------
\* A step of a process preserves SyncInv: sync() waits long enough.
LEMMA SyncAct == ASSUME IInv, NEW p \in Procs, Act(p) PROVE SyncInv'
<1> USE DEF IInv, TypeOK, SyncInv
<1> DEFINE Open(q) == pc[q] \in {"commit", "write_log"}
           Asleep(q) == pc[q] \in {"ssleep", "swoken"}
<1>0. \A q \in Procs : q # p => (Open(q)' <=> Open(q)) /\ (Asleep(q)' => Asleep(q))
  BY Others
<1>1. CASE CallBeginOp(p) \/ log_write(p) \/ \E b \in Blocks, d \in Data : Modify(p, b, d)
  <2>1. UNCHANGED <<outstanding, due, ended, owed>> /\ ~ Asleep(p)' /\ ~ Open(p)
    BY <1>1 DEF CallBeginOp, log_write, Modify, logVars, procVars, history
  <2> QED BY <1>0, <2>1
<1>2. CASE begin_op(p)
  <2>1. UNCHANGED <<due, ended, owed>> /\ ~ Asleep(p)' /\ ~ Open(p)
    BY <1>2 DEF begin_op, logVars, procVars, history
  <2>2. outstanding' >= outstanding
    BY <1>2, SMTT(60) DEF begin_op
  <2> QED BY <1>0, <2>1, <2>2, OutstandingNext, SMTT(60)
<1>3. CASE end_op(p)
  <2>1. UNCHANGED <<due, owed>> /\ ~ Asleep(p)' /\ ~ committing /\ ended'
    BY <1>3 DEF end_op, wakeup, procVars, OpInv, InOp
  <2>2. outstanding' > 0 \/ Open(p)'
    <3>1. outstanding' = outstanding - 1 /\ outstanding' \in Nat
      BY <1>3, OutstandingNext DEF end_op
    <3>2. outstanding = 1 => pc'[p] = "commit"
      BY <1>3, <2>1 DEF end_op
    <3> QED BY <3>1, <3>2, SMTT(60)
  <2> QED BY <1>0, <2>1, <2>2
<1>4. CASE CallSync(p) \/ sys_sync(p) \/ sync_recheck(p) \/ Kill(p)
  BY <1>0, <1>4, SMTT(60) DEF CallSync, sys_sync, sync_recheck, Kill, Woken, logVars, procVars, history
<1>5. CASE commit(p) \/ write_head(p)
  BY <1>0, <1>5 DEF commit, write_head, logVars, procVars, history, CommitPoint
<1>6. CASE write_log(p) \/ install_trans(p) \/ erase(p)
  BY <1>0, <1>6, SMTT(60) DEF write_log, install_trans, erase, logVars, procVars, history
<1>7. CASE commit_done(p)
  <2>1. ~ ended
    <3>1. Committer(p) /\ pc[p] = "done"
      BY <1>7 DEF commit_done, Committer
    <3>2. outstanding = 0
      BY <3>1, CommitterFacts, FS_EmptySet DEF OpInv
    <3>3. \A q \in Procs : ~ Open(q)
      BY <3>1, CommitterFacts DEF Committer
    <3> QED BY <3>2, <3>3, SMTT(60)
  <2> QED BY <1>0, <1>7, <2>1 DEF commit_done, history
<1> QED BY <1>1, <1>2, <1>3, <1>4, <1>5, <1>6, <1>7 DEF Act, Commits

-----------------------------------------------------------------------------
\* The slots charged to operations can be counted.
LEMMA ChargedFinite ==
  /\ IsFiniteSet(Charged) /\ Cardinality(Charged) \in Nat
  /\ IsFiniteSet(Charged') /\ Cardinality(Charged') \in Nat
<1>1. IsFiniteSet(InOp \X Blocks) /\ IsFiniteSet(InOp' \X Blocks)
  <2>1. IsFiniteSet(InOp) /\ IsFiniteSet(InOp')
    BY LogAssumption, FS_Subset DEF InOp
  <2> QED BY <2>1, LogAssumption, FS_Product
<1>2. Charged \subseteq InOp \X Blocks /\ Charged' \subseteq InOp' \X Blocks
  BY DEF Charged
<1> QED BY <1>1, <1>2, FS_Subset, FS_CardinalityType

\* begin_op() forgets what the previous operation wrote, Modify adds a block.
LEMMA WroteStep ==
  ASSUME IInv, NEW p \in Procs, Act(p)
  PROVE  /\ \A q \in Procs : Cardinality(wrote'[q]) <= OpWrites
         /\ \A q \in Procs : pc'[q] = "modified" => held'[q] \in wrote'[q]
<1> USE DEF IInv, TypeOK, SpaceInv
<1>0. \A q \in Procs : q # p => /\ pc'[q] = "modified" => pc[q] = "modified"
                                /\ held'[q] = held[q]
  BY Others, HeldStep
<1>1. CASE CallBeginOp(p) \/ CallSync(p) \/ sys_sync(p) \/ sync_recheck(p) \/ Kill(p)
  BY <1>0, <1>1 DEF CallBeginOp, CallSync, sys_sync, sync_recheck, Kill, Woken, procVars
<1>2. CASE begin_op(p)
  <2>1. held' = held /\ pc'[p] # "modified" /\ (wrote' = wrote \/ wrote' = [wrote EXCEPT ![p] = {}])
    BY <1>2 DEF begin_op
  <2>2. Cardinality({}) <= OpWrites
    BY FS_EmptySet, LogAssumption, SMTT(60)
  <2> QED BY <1>0, <2>1, <2>2
<1>3. CASE end_op(p) \/ log_write(p)
  BY <1>0, <1>3 DEF end_op, wakeup, log_write, procVars
<1>4. ASSUME NEW b \in Blocks, NEW d \in Data, Modify(p, b, d)
      PROVE  /\ \A q \in Procs : Cardinality(wrote'[q]) <= OpWrites
             /\ \A q \in Procs : pc'[q] = "modified" => held'[q] \in wrote'[q]
  BY <1>0, <1>4 DEF Modify
<1>5. CASE Commits(p)
  BY <1>0, <1>5 DEF Commits, commit, write_log, write_head, install_trans, erase, commit_done, wakeup, procVars
<1> QED BY <1>1, <1>2, <1>3, <1>4, <1>5 DEF Act

\* A step of a process preserves SpaceInv: begin_op()'s reservation holds.
LEMMA SpaceAct == ASSUME IInv, NEW p \in Procs, Act(p) PROVE SpaceInv'
<1> DEFINE Fits == Len(lh') + outstanding' * MAXOPBLOCKS <= LOGBLOCKS + Cardinality(Charged')
<1>0. /\ Len(lh) + outstanding * MAXOPBLOCKS <= LOGBLOCKS + Cardinality(Charged)
      /\ outstanding \in Nat /\ Len(lh) \in Nat /\ MAXOPBLOCKS \in Nat /\ LOGBLOCKS \in Nat
      /\ outstanding * MAXOPBLOCKS \in Nat
  BY Runs, LogAssumption, SMTT(60) DEF IInv, SpaceInv, TypeOK, Running
<1>1. SUFFICES Fits
  BY WroteStep DEF SpaceInv
<1>2. CASE UNCHANGED <<lh, outstanding, wrote>> /\ InOp' = InOp
  <2>1. Charged' = Charged
    BY <1>2 DEF Charged, Logged
  <2> QED BY <1>0, <1>2, <2>1
<1>3. CASE begin_op(p) /\ outstanding' = outstanding + 1
  <2>1. lh' = lh /\ Len(lh) + (outstanding + 1) * MAXOPBLOCKS <= LOGBLOCKS
    BY <1>3, <1>0, LogAssumption, SMTT(60) DEF begin_op, MustWait, IInv, TypeOK
  <2> QED BY <1>0, <1>3, <2>1, ChargedFinite, SMTT(60)
<1>4. CASE end_op(p)
  <2>1. /\ lh' = lh /\ wrote' = wrote /\ p \in InOp /\ InOp' = InOp \ {p}
        /\ outstanding' = outstanding - 1 /\ outstanding' \in Nat
    <3>1. lh' = lh /\ wrote' = wrote /\ outstanding' = outstanding - 1 /\ ~ begin_op(p)
      BY <1>4 DEF end_op, begin_op, procVars
    <3> QED BY <1>0, <3>1, InOpStep, OutstandingNext, SMTT(60)
  <2> DEFINE W == {p} \X wrote[p]
  <2>2. IsFiniteSet(W) /\ Cardinality(W) <= MAXOPBLOCKS /\ Cardinality(W) \in Nat
    <3>1. IsFiniteSet(wrote[p]) /\ Cardinality(wrote[p]) <= OpWrites /\ Cardinality(wrote[p]) \in Nat
      BY LogAssumption, FS_Subset, FS_CardinalityType DEF IInv, TypeOK, SpaceInv
    <3>2. IsFiniteSet(W) /\ Cardinality(W) = Cardinality(wrote[p])
      BY <3>1, SingletonProduct
    <3> QED BY <3>1, <3>2, LogAssumption, SMTT(60)
  <2>3. Charged \subseteq Charged' \cup W
    BY <2>1 DEF Charged, Logged, InOp, IInv, TypeOK
  <2>4. /\ IsFiniteSet(Charged' \cup W)
        /\ Cardinality(Charged' \cup W) <= Cardinality(Charged') + Cardinality(W)
    BY <2>2, ChargedFinite, UnionBound
  <2>5. Cardinality(Charged) <= Cardinality(Charged') + MAXOPBLOCKS
    <3>1. Cardinality(Charged) <= Cardinality(Charged' \cup W)
      BY <2>3, <2>4, FS_Subset
    <3>2. Cardinality(Charged' \cup W) \in Nat
      BY <2>4, FS_CardinalityType
    <3> QED BY <2>2, <2>4, <3>1, <3>2, ChargedFinite, <1>0, SMTT(60)
  <2>6. outstanding' * MAXOPBLOCKS = outstanding * MAXOPBLOCKS - MAXOPBLOCKS
    BY <1>0, <2>1, SMTT(60)
  <2> QED BY <1>0, <2>1, <2>5, <2>6, ChargedFinite, SMTT(60)
<1>5. ASSUME NEW b \in Blocks, NEW d \in Data, Modify(p, b, d) PROVE Fits
  <2>1. UNCHANGED <<lh, outstanding>> /\ \A q \in Procs : wrote[q] \subseteq wrote'[q]
    BY <1>5 DEF Modify, logVars, IInv, TypeOK
  <2>2. InOp' = InOp
    <3>1. ~ begin_op(p)
      BY <1>5 DEF Modify, begin_op
    <3> QED BY <1>0, <2>1, <3>1, InOpStep, SMTT(60)
  <2>3. Charged \subseteq Charged'
    BY <2>1, <2>2 DEF Charged, Logged, InOp
  <2>4. Cardinality(Charged) <= Cardinality(Charged')
    BY <2>3, ChargedFinite, FS_Subset
  <2> QED BY <1>0, <2>1, <2>4, ChargedFinite, SMTT(60)
<1>6. CASE log_write(p) /\ lh' = Append(lh, held[p]) /\ ~ Logged(held[p])
  <2>1. UNCHANGED <<outstanding, wrote>> /\ p \in InOp /\ held[p] \in wrote[p] /\ held[p] \in Blocks
    BY <1>6 DEF log_write, InOp, IInv, TypeOK, SpaceInv
  <2>2. InOp' = InOp
    BY <1>6, InOpStep DEF log_write, begin_op, end_op
  <2>3. Len(lh') = Len(lh) + 1 /\ \A c \in Blocks : Logged(c) \/ c = held[p] => Logged(c)'
    <3>1. /\ lh \in Seq(Blocks) /\ lh' \in Seq(Blocks) /\ Len(lh') = Len(lh) + 1
          /\ lh'[Len(lh) + 1] = held[p] /\ \A i \in 1..Len(lh) : lh'[i] = lh[i]
      <4>1. lh \in Seq(Blocks)
        BY DEF IInv, TypeOK
      <4> QED BY <1>6, <2>1, <4>1, SMTT(60)
    <3> QED BY <1>0, <3>1, SMTT(60) DEF Logged
  <2>4. <<p, held[p]>> \notin Charged /\ Charged \cup {<<p, held[p]>>} \subseteq Charged'
    BY <1>6, <2>1, <2>2, <2>3, SMTT(60) DEF Charged
  <2>5. /\ IsFiniteSet(Charged \cup {<<p, held[p]>>})
        /\ Cardinality(Charged \cup {<<p, held[p]>>}) = Cardinality(Charged) + 1
    BY <2>4, ChargedFinite, FS_AddElement
  <2>6. Cardinality(Charged) + 1 <= Cardinality(Charged')
    BY <2>4, <2>5, ChargedFinite, FS_Subset
  <2> QED BY <1>0, <2>1, <2>3, <2>6, ChargedFinite, SMTT(60)
<1>7. CASE erase(p)
  <2>1. Len(lh') = 0 /\ outstanding' = outstanding /\ outstanding = 0
    BY <1>7, CommitterFacts, FS_EmptySet DEF erase, ClearLog, Committer, IInv, OpInv
  <2> QED BY <1>0, <2>1, ChargedFinite, SMTT(60)
<1>8. CASE CallBeginOp(p) \/ CallSync(p) \/ sys_sync(p) \/ sync_recheck(p) \/ Kill(p)
  BY <1>2, <1>8, InOpStep DEF CallBeginOp, CallSync, sys_sync, sync_recheck, Kill, logVars, procVars, begin_op, end_op, IInv, TypeOK
<1>9. CASE commit(p) \/ write_log(p) \/ write_head(p) \/ install_trans(p) \/ commit_done(p)
  BY <1>2, <1>9, InOpStep DEF commit, write_log, write_head, install_trans, commit_done, logVars, procVars, begin_op, end_op, IInv, TypeOK
<1>10. CASE log_write(p)
  BY <1>2, <1>6, <1>10, InOpStep DEF log_write, begin_op, end_op, IInv, TypeOK
<1>11. CASE begin_op(p)
  BY <1>2, <1>3, <1>11, InOpStep DEF begin_op, end_op, IInv, TypeOK
<1> QED BY <1>4, <1>5, <1>7, <1>8, <1>9, <1>10, <1>11 DEF Act, Commits

-----------------------------------------------------------------------------
\* Appending an entry to a log that is not full.
LEMMA AppendFits ==
  ASSUME NEW s \in Seq(Blocks), Len(s) < LOGBLOCKS, NEW b \in Blocks
  PROVE  Append(s, b) \in Seq(Blocks) /\ Len(Append(s, b)) <= LOGBLOCKS
BY LogAssumption, SMTT(60)

\* A step of a process preserves TypeOK, one step per variable it assigns.
LEMMA TypeAct == ASSUME IInv, NEW p \in Procs, Act(p) PROVE TypeOK'
<1> USE LogAssumption DEF TypeOK, diskVars, logVars, procVars, history
<1>0. TypeOK
  BY DEF IInv
<1> USE <1>0
<1>1. CASE CallBeginOp(p)
  BY <1>1 DEF CallBeginOp, PC
<1>2. CASE begin_op(p)
  <2> USE <1>2
  <2>1. (pc \in [Procs -> PC])'
    BY DEF begin_op, PC
  <2>2. (outstanding \in Nat)'
    BY OutstandingNext DEF begin_op
  <2>3. (wrote \in [Procs -> SUBSET Blocks])'
    BY DEF begin_op
  <2> QED BY <2>1, <2>2, <2>3 DEF begin_op
<1>3. CASE end_op(p)
  <2> USE <1>3
  <2>1. (pc \in [Procs -> PC])'
    BY ZenonT(60) DEF end_op, wakeup, Woken, PC
  <2>2. (outstanding \in Nat)'
    BY OutstandingNext DEF end_op, wakeup
  <2>3. (committing \in BOOLEAN)'
    BY DEF end_op, wakeup
  <2>4. (ended \in BOOLEAN)'
    BY DEF end_op, wakeup
  <2>5. (panicked \in BOOLEAN)'
    BY DEF end_op, wakeup
  <2> QED BY <2>1, <2>2, <2>3, <2>4, <2>5 DEF end_op, wakeup
<1>4. CASE log_write(p)
  <2>1. (pc \in [Procs -> PC])'
    BY <1>4 DEF log_write, PC
  <2>2. (held \in [Procs -> Blocks \cup {NoBlock}])'
    BY <1>4 DEF log_write
  <2>b. held[p] \in Blocks
    BY <1>4 DEF log_write, IInv, OpInv
  <2>3. (lh \in Seq(Blocks) /\ Len(lh) <= LOGBLOCKS)'
    <3>1. lh \in Seq(Blocks) /\ Len(lh) <= LOGBLOCKS
      OBVIOUS
    <3>2. lh' = lh \/ (Len(lh) < LOGBLOCKS /\ lh' = Append(lh, held[p]))
      BY <1>4 DEF log_write
    <3>3. Len(lh) < LOGBLOCKS => Append(lh, held[p]) \in Seq(Blocks) /\ Len(Append(lh, held[p])) <= LOGBLOCKS
      BY <2>b, <3>1, AppendFits, Zenon
    <3> QED BY <3>1, <3>2, <3>3, Zenon
  <2>4. (pins \in [Blocks -> Nat])'
    <3>1. pins' = pins \/ pins' = [pins EXCEPT ![held[p]] = @ + 1]
      BY <1>4 DEF log_write
    <3> QED BY <2>b, <3>1, SMTT(60)
  <2>5. (panicked \in BOOLEAN)'
    BY <1>4 DEF log_write
  <2> QED BY <1>4, <2>1, <2>2, <2>3, <2>4, <2>5 DEF log_write
<1>5. ASSUME NEW b \in Blocks, NEW d \in Data, Modify(p, b, d) PROVE TypeOK'
  <2> USE <1>5
  <2>1. (pc \in [Procs -> PC])'
    BY DEF Modify, PC
  <2>2. (cache \in [Blocks -> Data \cup {NoData}])'
    BY DEF Modify
  <2>3. (held \in [Procs -> Blocks \cup {NoBlock}])'
    BY DEF Modify
  <2>4. (wrote \in [Procs -> SUBSET Blocks])'
    BY DEF Modify
  <2> QED BY <2>1, <2>2, <2>3, <2>4 DEF Modify
<1>6. CASE commit(p)
  <2> USE <1>6
  <2>1. (pc \in [Procs -> PC])'
    BY DEF commit, CommitPoint, PC
  <2>2. (tail \in 0..LOGBLOCKS)'
    BY SMTT(60) DEF commit, CommitPoint
  <2>3. (ended \in BOOLEAN)'
    BY DEF commit, CommitPoint
  <2>4. (owed \in SUBSET Procs)'
    BY DEF commit, CommitPoint
  <2> QED BY <2>1, <2>2, <2>3, <2>4 DEF commit, CommitPoint
<1>7. CASE write_log(p)
  <2> USE <1>7
  <2>1. (logdisk \in [1..LOGBLOCKS -> Data])'
    BY SMTT(60) DEF write_log, Contents
  <2>2. (cache \in [Blocks -> Data \cup {NoData}])'
    BY DEF write_log, Contents
  <2>3. (tail \in 0..LOGBLOCKS)'
    BY SMTT(60) DEF write_log, Contents
  <2> QED BY <2>1, <2>2, <2>3 DEF write_log, Contents
<1>8. CASE write_head(p)
  <2> USE <1>8
  <2>1. (pc \in [Procs -> PC])'
    BY DEF write_head, CommitPoint, PC
  <2>2. (header \in Seq(Blocks) /\ Len(header) <= LOGBLOCKS)'
    BY DEF write_head, CommitPoint
  <2>3. (tail \in 0..LOGBLOCKS)'
    BY SMTT(60) DEF write_head, CommitPoint
  <2>4. (ended \in BOOLEAN)'
    BY DEF write_head, CommitPoint
  <2>5. (owed \in SUBSET Procs)'
    BY DEF write_head, CommitPoint
  <2> QED BY <2>1, <2>2, <2>3, <2>4, <2>5 DEF write_head, CommitPoint
<1>9. CASE install_trans(p)
  <2> USE <1>9
  <2>1. (cache \in [Blocks -> Data \cup {NoData}])'
    BY SMTT(60) DEF install_trans, InstallBlock
  <2>2. (disk \in [Blocks -> Data])'
    BY SMTT(60) DEF install_trans, InstallBlock
  <2>3. (tail \in 0..LOGBLOCKS)'
    BY SMTT(60) DEF install_trans, InstallBlock
  <2>4. (pins \in [Blocks -> Nat])'
    BY InstallKeeps, SMTT(60) DEF install_trans, InstallBlock
  <2> QED BY <2>1, <2>2, <2>3, <2>4 DEF install_trans, InstallBlock
<1>10. CASE erase(p)
  <2> USE <1>10
  <2>1. (pc \in [Procs -> PC])'
    BY DEF erase, ClearLog, PC
  <2>2. (lh \in Seq(Blocks) /\ Len(lh) <= LOGBLOCKS)'
    BY SMTT(60) DEF erase, ClearLog
  <2>3. (header \in Seq(Blocks) /\ Len(header) <= LOGBLOCKS)'
    BY SMTT(60) DEF erase, ClearLog
  <2>4. (tail \in 0..LOGBLOCKS)'
    BY SMTT(60) DEF erase, ClearLog
  <2> QED BY <2>1, <2>2, <2>3, <2>4 DEF erase, ClearLog
<1>11. CASE commit_done(p)
  <2> USE <1>11
  <2>1. (pc \in [Procs -> PC])'
    BY DEF commit_done, wakeup, Woken, PC
  <2>2. (committing \in BOOLEAN)'
    BY DEF commit_done, wakeup
  <2>3. (due \in [Procs -> Nat])'
    BY SMTT(60) DEF commit_done, NextCommit
  <2> QED BY <2>1, <2>2, <2>3 DEF commit_done, wakeup
<1>12. CASE CallSync(p)
  <2> USE <1>12
  <2>1. (pc \in [Procs -> PC])'
    BY DEF CallSync, PC
  <2>2. (owed \in SUBSET Procs)'
    BY DEF CallSync
  <2> QED BY <2>1, <2>2 DEF CallSync
<1>13. CASE sys_sync(p)
  <2> USE <1>13
  <2>1. (pc \in [Procs -> PC])'
    BY ZenonT(60) DEF sys_sync, PC
  <2>2. (due \in [Procs -> Nat])'
    BY SMTT(60) DEF sys_sync
  <2> QED BY <2>1, <2>2 DEF sys_sync
<1>14. CASE sync_recheck(p)
  BY <1>14 DEF sync_recheck, PC
<1>15. CASE Kill(p)
  BY <1>15 DEF Kill, Woken, PC
<1> QED BY <1>1, <1>2, <1>3, <1>4, <1>5, <1>6, <1>7, <1>8, <1>9, <1>10, <1>11, <1>12, <1>13, <1>14, <1>15 DEF Act, Commits

=============================================================================
