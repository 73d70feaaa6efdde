----------------------------- MODULE LogProofs ------------------------------
(***************************************************************************)
(* IInv is an invariant of Log for every number of processes, blocks,      *)
(* contents and log slots; from it, that the log never panics and that it  *)
(* implements AtomicDisk.                                                  *)
(*                                                                         *)
(* The steps of a process are proved conjunct by conjunct in LogSteps; the *)
(* steps of no process, one lemma each (CacheTraffic, ReadHeadKeeps, ...,  *)
(* CrashKeeps).  For the refinement, each step of Log changes what running *)
(* system calls see (Seen) and what a reboot would recover (Recovered) the *)
(* way one step of AtomicDisk does, or changes neither.  The commit point  *)
(* is the write of the header block.                                       *)
(***************************************************************************)
EXTENDS LogSteps

\* Zenon tries every leaf; those with arithmetic or functional updates cite SMT.
USE ZenonT(60)

-----------------------------------------------------------------------------
\* The steps that no process takes: cache traffic, recovery, power failure.
\* Reading a block into the cache, or recycling a clean buffer.
LEMMA CacheTraffic ==
  ASSUME IInv, NEW b \in Blocks, Bread(b) \/ Recycle(b)
  PROVE  IInv'
<1>1. /\ boot = "run" /\ UNCHANGED <<disk, logdisk, header, pins, lh, outstanding, committing,
                                    tail, pc, held, wrote, due, boot, panicked, ended, owed>>
      /\ cache' \in [Blocks -> Data \cup {NoData}]
      /\ ~ Dirty(b) /\ ~ Held(b)
      /\ cache'[b] \in {NoData, disk[b]} /\ \A c \in Blocks : c # b => cache'[c] = cache[c]
  <2>1. CASE Bread(b)
    BY <2>1 DEF Bread, Running, diskVars, logVars, procVars, history, IInv, TypeOK, CacheInv
  <2>2. CASE Recycle(b)
    <3>1. boot = "run" /\ ~ Held(b) /\ pins[b] = 0
      BY <2>2 DEF Recycle, Running, Held
    <3>2. ~ Dirty(b)
      BY <3>1, SMTT(60) DEF IInv, PinsMatchLog, Dirty
    <3> QED BY <2>2, <3>1, <3>2 DEF Recycle, diskVars, logVars, procVars, history, IInv, TypeOK
  <2> QED BY <2>1, <2>2
<1>2. TypeOK'
  BY <1>1 DEF IInv, TypeOK
<1>3. OpInv' /\ BootInv' /\ PinsMatchLog' /\ SyncInv'
  <2>1. OpInv'
    BY <1>1 DEF IInv, OpInv, InOp, Committer
  <2>2. BootInv'
    BY <1>1 DEF BootInv
  <2>3. PinsMatchLog'
    BY <1>1 DEF IInv, PinsMatchLog, Installed
  <2>4. SyncInv'
    BY <1>1 DEF IInv, SyncInv
  <2> QED BY <2>1, <2>2, <2>3, <2>4
<1>4. SpaceInv'
  BY <1>1 DEF IInv, SpaceInv, Charged, InOp, Logged
<1>5. CacheInv'
  <2>1. \A c \in Blocks : (Dirty(c)' <=> Dirty(c)) /\ (Held(c)' <=> Held(c))
    BY <1>1 DEF Dirty, Held, Installed
  <2> QED BY <1>1, <2>1 DEF IInv, CacheInv
<1>6. LogInv'
  <2>1. \A q \in Procs : pc[q] = "write_log" => \A i \in 1..tail : lh[i] # b
    <3> SUFFICES ASSUME NEW q \in Procs, pc[q] = "write_log", NEW i \in 1..tail PROVE lh[i] # b
      OBVIOUS
    <3>1. Installed = 0
      BY CommitterFacts DEF Installed, Committer
    <3>2. tail <= Len(lh) /\ lh \in Seq(Blocks) /\ tail \in 0..LOGBLOCKS
      BY DEF IInv, LogInv, TypeOK
    <3>3. i \in 0 + 1 .. Len(lh)
      BY <3>2, LogAssumption, SMTT(60)
    <3> QED BY <1>1, <3>1, <3>3 DEF Dirty
  <2>2. Installing => \A i \in tail + 1 .. Len(lh) : lh[i] # b
    BY <1>1 DEF Installing, Installed, Dirty
  <2> QED BY <1>1, <2>1, <2>2, SMTT(60) DEF IInv, LogInv, TypeOK, Installing, Distinct
<1> QED BY <1>2, <1>3, <1>4, <1>5, <1>6 DEF IInv

\* Before the system runs, no process is in a system call.
LEMMA Quiet ==
  ASSUME IInv, boot # "run"
  PROVE  /\ InOp = {} /\ outstanding = 0 /\ ~ Installing /\ Installed = 0 /\ Charged = {}
         /\ \A p \in Procs : pc[p] = "user" /\ held[p] = NoBlock
         /\ committing = FALSE /\ ended = FALSE /\ owed = {}
<1>1. \A p \in Procs : pc[p] = "user" /\ held[p] = NoBlock
  BY DEF IInv, BootInv
<1>2. InOp = {} /\ ~ Installing /\ Installed = 0
  BY <1>1 DEF InOp, Installing, Installed
<1>3. Charged = {}
  BY <1>2 DEF Charged
<1>4. outstanding = 0
  BY <1>2, FS_EmptySet DEF IInv, OpInv
<1>5. committing = FALSE /\ ended = FALSE /\ owed = {}
  BY DEF IInv, BootInv, SyncInv, TypeOK
<1> QED BY <1>1, <1>2, <1>3, <1>4, <1>5

\* read_head() after a reboot.
LEMMA ReadHeadKeeps == ASSUME IInv, read_head PROVE IInv'
<1> USE DEF read_head, diskVars, logVars, procVars, history
<1>1. /\ boot = "read_head" /\ boot' = "install" /\ lh' = header /\ tail = 0 /\ tail' = 0
      /\ UNCHANGED <<disk, logdisk, header, cache, pins, outstanding, committing,
                     pc, held, wrote, due, panicked, ended, owed>>
  BY DEF IInv, BootInv
<1>2. TypeOK'
  BY <1>1 DEF IInv, TypeOK
<1>3. OpInv'
  BY <1>1, SMTT(60) DEF IInv, OpInv, InOp, Committer
<1>4. BootInv'
  BY <1>1, SMTT(60) DEF IInv, BootInv
<1>5. LogInv'
  <2>1. ~ Installing' /\ \A q \in Procs : pc'[q] = "user"
    BY <1>1, Quiet DEF Installing
  <2> QED BY <1>1, <2>1, SMTT(60) DEF IInv, LogInv, Distinct, TypeOK
<1>6. CacheInv' /\ PinsMatchLog'
  BY <1>1 DEF CacheInv, PinsMatchLog
<1>7. SyncInv' /\ SpaceInv'
  BY <1>1, SMTT(60) DEF IInv, SyncInv, SpaceInv
<1> QED BY <1>2, <1>3, <1>4, <1>5, <1>6, <1>7 DEF IInv

\* install_trans(1): repeating an installation does no harm.
LEMMA RecoverInstallKeeps == ASSUME IInv, recover_install PROVE IInv'
<1>1. /\ boot = "install" /\ boot' = "install"
      /\ UNCHANGED <<logdisk, header, pins, lh, outstanding, committing,
                     pc, held, wrote, due, panicked, ended, owed>>
  BY DEF recover_install, InstallBlock, logVars, procVars, history
<1> PICK b : b = lh[tail + 1]
  OBVIOUS
<1>2. /\ tail \in Nat /\ tail < Len(lh) /\ tail' = tail + 1 /\ Len(lh) \in Nat /\ Len(lh) <= LOGBLOCKS
      /\ cache' = [cache EXCEPT ![b] = logdisk[tail + 1]]
      /\ disk' = [disk EXCEPT ![b] = logdisk[tail + 1]]
      /\ b \in Blocks /\ logdisk[tail + 1] \in Data
  BY LogAssumption, SMTT(60) DEF recover_install, InstallBlock, IInv, TypeOK
<1>3. TypeOK'
  <2>1. (disk \in [Blocks -> Data])'
    BY <1>2 DEF IInv, TypeOK
  <2>2. (cache \in [Blocks -> Data \cup {NoData}])'
    BY <1>2 DEF IInv, TypeOK
  <2>3. (tail \in 0..LOGBLOCKS)'
    BY <1>2, LogAssumption, SMTT(60)
  <2> QED BY <1>1, <2>1, <2>2, <2>3 DEF IInv, TypeOK
<1>4. OpInv'
  BY <1>1 DEF IInv, OpInv, InOp, Committer
<1>5. BootInv'
  <2>1. \A c \in Blocks : cache'[c] \in {NoData, disk'[c]}
    BY <1>1, <1>2 DEF IInv, BootInv, TypeOK
  <2> QED BY <1>1, <2>1 DEF IInv, BootInv
<1>6. LogInv'
  <2>1. ~ Installing' /\ \A q \in Procs : pc'[q] = "user"
    BY <1>1, Quiet DEF Installing
  <2>2. ASSUME NEW i \in 1..tail' PROVE disk'[lh[i]] = logdisk[i]
    <3>1. /\ Distinct(lh) /\ \A k \in 1..tail : disk[lh[k]] = logdisk[k]
          /\ lh \in Seq(Blocks) /\ disk \in [Blocks -> Data] /\ tail \in 0..LOGBLOCKS
      BY <1>1 DEF IInv, LogInv, TypeOK
    <3>2. i \in 1..Len(lh) /\ tail + 1 \in 1..Len(lh) /\ (i = tail + 1 \/ i \in 1..tail)
      BY <1>2, <3>1, LogAssumption, SMTT(60)
    <3>3. CASE i = tail + 1
      BY <1>2, <3>1, <3>3
    <3>4. CASE i # tail + 1
      <4>1. i \in 1..tail /\ lh[i] # b
        BY <3>1, <3>2, <3>4 DEF Distinct
      <4>2. lh[i] \in Blocks
        BY <3>1, <3>2, SMTT(60)
      <4> QED BY <1>2, <3>1, <4>1, <4>2
    <3> QED BY <3>3, <3>4
  <2> QED BY <1>1, <1>2, <2>1, <2>2, SMTT(60) DEF IInv, LogInv, Distinct
<1>7. CacheInv' /\ PinsMatchLog'
  BY <1>1 DEF CacheInv, PinsMatchLog
<1>8. SyncInv' /\ SpaceInv'
  BY <1>1 DEF IInv, SyncInv, SpaceInv
<1> QED BY <1>3, <1>4, <1>5, <1>6, <1>7, <1>8 DEF IInv

\* The end of recover_from_log().
LEMMA RecoverDoneKeeps == ASSUME IInv, recover_done PROVE IInv'
<1>1. /\ boot = "install" /\ boot' = "run" /\ lh' = <<>> /\ header' = <<>> /\ tail' = 0
      /\ UNCHANGED <<disk, logdisk, cache, pins, outstanding, committing,
                     pc, held, wrote, due, panicked, ended, owed>>
  BY DEF recover_done, ClearLog, procVars, history
<1>2. TypeOK'
  BY <1>1, LogAssumption, SMTT(60) DEF IInv, TypeOK
<1>3. OpInv'
  BY <1>1 DEF IInv, OpInv, InOp, Committer
<1>4. BootInv'
  BY <1>1 DEF BootInv
<1>5. ~ Installing' /\ Installed' = 0 /\ InOp' = {} /\ Charged' = {}
        /\ \A q \in Procs : pc'[q] = "user" /\ held'[q] = NoBlock
  BY <1>1, Quiet DEF Installing, Installed, InOp, Charged
<1>6. LogInv'
  BY <1>1, <1>5, SMTT(60) DEF LogInv, Distinct
<1>7. \A b \in Blocks : ~ Dirty(b)' /\ ~ Held(b)'
  BY <1>1, <1>5, LogAssumption, SMTT(60) DEF Dirty, Held
<1>8. CacheInv' /\ PinsMatchLog'
  BY <1>1, <1>5, <1>7 DEF IInv, BootInv, CacheInv, PinsMatchLog, Dirty
<1>9. SyncInv' /\ SpaceInv'
  <2>1. SyncInv'
    BY <1>1 DEF IInv, SyncInv
  <2>2. Cardinality(Charged') = 0 /\ outstanding' = 0
    BY <1>1, <1>5, Quiet, FS_EmptySet
  <2> QED BY <1>1, <2>1, <2>2, LogAssumption, SMTT(60) DEF IInv, SpaceInv
<1> QED BY <1>2, <1>3, <1>4, <1>6, <1>8, <1>9 DEF IInv

\* A power failure leaves a state recovery can start from.
LEMMA CrashKeeps == ASSUME IInv, Crash PROVE IInv'
<1> USE DEF Crash, CommitPoint
<1>1. /\ disk' \in [Blocks -> Data] /\ logdisk' \in [1..LOGBLOCKS -> Data]
  <2>1. disk' \in [Blocks -> Data]
    BY DEF IInv, TypeOK
  <2>2. logdisk' \in [1..LOGBLOCKS -> Data]
    BY DEF IInv, TypeOK
  <2> QED BY <2>1, <2>2
<1>2. TypeOK'
  <2>1. (pc \in [Procs -> PC] /\ held \in [Procs -> Blocks \cup {NoBlock}])'
    BY DEF PC
  <2>2. (wrote \in [Procs -> SUBSET Blocks] /\ due \in [Procs -> Nat])'
    OBVIOUS
  <2>3. (cache \in [Blocks -> Data \cup {NoData}] /\ pins \in [Blocks -> Nat])'
    OBVIOUS
  <2>5. /\ (header \in Seq(Blocks) /\ Len(header) <= LOGBLOCKS)'
        /\ (lh \in Seq(Blocks) /\ Len(lh) <= LOGBLOCKS /\ tail \in 0..LOGBLOCKS)'
    BY LogAssumption, SMTT(60) DEF IInv, TypeOK
  <2>6. (committing \in BOOLEAN /\ panicked \in BOOLEAN /\ ended \in BOOLEAN)'
    OBVIOUS
  <2> QED BY <1>1, <2>1, <2>2, <2>3, <2>5, <2>6 DEF TypeOK
<1>3. \A q \in Procs : pc'[q] = "user" /\ held'[q] = NoBlock /\ wrote'[q] = {}
  OBVIOUS
<1>4. ~ Installing' /\ InOp' = {}
  BY <1>3 DEF Installing, InOp
<1>5. OpInv'
  BY <1>3, <1>4, FS_EmptySet DEF OpInv, Committer
<1>6. BootInv'
  BY <1>3 DEF BootInv
<1>7. LogInv'
  BY <1>3, <1>4, SMTT(60) DEF IInv, LogInv, Distinct
<1>8. CacheInv' /\ PinsMatchLog'
  BY DEF CacheInv, PinsMatchLog
<1>9. SyncInv' /\ SpaceInv'
  BY <1>3, FS_EmptySet, LogAssumption, SMTT(60) DEF SyncInv, SpaceInv
<1> QED BY <1>2, <1>5, <1>6, <1>7, <1>8, <1>9 DEF IInv

\* A disk fresh from mkfs.
LEMMA InitIInv == Init => IInv
<1> SUFFICES ASSUME Init PROVE IInv
  OBVIOUS
<1> USE DEF Init
<1>2. TypeOK
  <2>1. pc \in [Procs -> PC] /\ held \in [Procs -> Blocks \cup {NoBlock}]
    BY DEF PC
  <2>2. wrote \in [Procs -> SUBSET Blocks] /\ due \in [Procs -> Nat]
    OBVIOUS
  <2>3. cache \in [Blocks -> Data \cup {NoData}] /\ pins \in [Blocks -> Nat]
    OBVIOUS
  <2>4. logdisk \in [1..LOGBLOCKS -> Data]
    OBVIOUS
  <2>5. /\ header \in Seq(Blocks) /\ Len(header) <= LOGBLOCKS
        /\ lh \in Seq(Blocks) /\ Len(lh) <= LOGBLOCKS /\ tail \in 0..LOGBLOCKS
    BY LogAssumption, SMTT(60)
  <2>6. committing \in BOOLEAN /\ panicked \in BOOLEAN /\ ended \in BOOLEAN
    OBVIOUS
  <2> QED BY <2>1, <2>2, <2>3, <2>4, <2>5, <2>6 DEF TypeOK
<1>3. \A q \in Procs : pc[q] = "user" /\ held[q] = NoBlock /\ wrote[q] = {}
  OBVIOUS
<1>4. ~ Installing /\ InOp = {}
  BY <1>3 DEF Installing, InOp
<1>5. OpInv
  BY <1>3, <1>4, FS_EmptySet DEF OpInv, Committer
<1>6. BootInv
  BY <1>3 DEF BootInv
<1>7. LogInv
  BY <1>3, <1>4, SMTT(60) DEF LogInv, Distinct
<1>8. CacheInv /\ PinsMatchLog
  BY DEF CacheInv, PinsMatchLog
<1>9. SyncInv /\ SpaceInv
  BY <1>3, FS_EmptySet, LogAssumption, SMTT(60) DEF SyncInv, SpaceInv
<1> QED BY <1>2, <1>5, <1>6, <1>7, <1>8, <1>9 DEF IInv

\* Steps of other parts of the kernel.
LEMMA StutterKeeps == ASSUME IInv, UNCHANGED vars PROVE IInv'
<1> USE DEF vars, diskVars, logVars, procVars, history
<1>1. TypeOK'
  BY DEF IInv, TypeOK
<1>2. OpInv'
  BY DEF IInv, OpInv, InOp, Committer
<1>3. BootInv'
  BY DEF IInv, BootInv
<1>4. LogInv'
  BY DEF IInv, LogInv, Installing, Distinct
<1>5. CacheInv' /\ PinsMatchLog'
  BY DEF IInv, CacheInv, PinsMatchLog, Dirty, Held, Installed
<1>6. SyncInv' /\ SpaceInv'
  BY DEF IInv, SyncInv, SpaceInv, Charged, InOp, Logged
<1> QED BY <1>1, <1>2, <1>3, <1>4, <1>5, <1>6 DEF IInv

\* A step of a process preserves the whole invariant.
LEMMA ActIInv == ASSUME IInv, NEW p \in Procs, Act(p) PROVE IInv'
<1>1. BootInv'
  BY Runs DEF BootInv
<1> QED BY <1>1, TypeAct, OpAct, ActKeeps, SyncAct, SpaceAct DEF IInv

\* Every step preserves the whole invariant.
LEMMA NextIInv == ASSUME IInv, [Next]_vars PROVE IInv'
BY NextCases, ActIInv, CacheTraffic, ReadHeadKeeps, RecoverInstallKeeps, RecoverDoneKeeps,
   CrashKeeps, StutterKeeps DEF Recover

-----------------------------------------------------------------------------
\* log.c maintains IInv through every interleaving of file system calls, every
\* power failure and every recovery.
THEOREM Invariance == Spec => []IInv
<1>1. IInv /\ [Next]_vars => IInv'
  BY NextIInv
<1> QED BY InitIInv, <1>1, PTL DEF Spec

\* No step of log.c takes a variable out of its type: in particular lh.n never
\* exceeds LOGBLOCKS, no pin count and no outstanding count goes negative.
THEOREM TypeCorrect == Spec => []TypeOK
<1>1. IInv => TypeOK
  BY DEF IInv
<1> QED BY Invariance, <1>1, PTL

\* log_write() and install_trans() keep exactly the logged blocks that are not
\* yet home pinned, once each, so that bget() can recycle none of them.
THEOREM PinsCorrect == Spec => []PinsMatchLog
<1>1. IInv => PinsMatchLog
  BY DEF IInv
<1> QED BY Invariance, <1>1, PTL

\* The operations in progress have used at most OpWrites slots each.
LEMMA ChargedBound == ASSUME IInv PROVE Cardinality(Charged) <= outstanding * OpWrites
<1>1. \A p \in InOp : Cardinality({b \in Blocks : <<p, b>> \in Charged}) <= OpWrites
  <2> SUFFICES ASSUME NEW p \in InOp PROVE Cardinality({b \in Blocks : <<p, b>> \in Charged}) <= OpWrites
    OBVIOUS
  <2> DEFINE Row == {b \in Blocks : <<p, b>> \in Charged}
  <2>1. p \in Procs /\ wrote[p] \subseteq Blocks /\ Cardinality(wrote[p]) <= OpWrites
    BY DEF IInv, SpaceInv, TypeOK, InOp
  <2>2. Row \subseteq wrote[p]
    BY DEF Charged
  <2>3. IsFiniteSet(wrote[p])
    BY <2>1, LogAssumption, FS_Subset
  <2>4. Cardinality(Row) <= Cardinality(wrote[p]) /\ Cardinality(Row) \in Nat /\ Cardinality(wrote[p]) \in Nat
    BY <2>2, <2>3, FS_Subset, FS_CardinalityType
  <2> QED BY <2>1, <2>4, LogAssumption, SMTT(60)
<1>2. Charged \subseteq InOp \X Blocks
  BY DEF Charged
<1>3. Cardinality(Charged) <= Cardinality(InOp) * OpWrites
  BY <1>1, <1>2, InOpFinite, LogAssumption, PairCount
<1> QED BY <1>3 DEF IInv, OpInv

\* If every operation writes fewer distinct blocks than begin_op() sets aside
\* for it, none of the panics of log.c is reached: the space reserved by
\* begin_op() covers what the admitted operations still append.
THEOREM NeverPanics == ASSUME OpWrites < MAXOPBLOCKS PROVE Spec => []NoPanic
<1>1. Init => NoPanic
  BY DEF Init, NoPanic
<1>2. ASSUME IInv, NoPanic, [Next]_vars PROVE NoPanic'
  <2> USE <1>2 DEF NoPanic
  <2>1. ASSUME NEW p \in Procs, log_write(p) PROVE NoPanic'
    <3>1. p \in InOp /\ boot = "run"
      BY <2>1 DEF log_write, Running, InOp
    <3>2. outstanding \in Nat /\ outstanding >= 1
      <4>1. InOp # {}
        BY <3>1
      <4>2. Cardinality(InOp) # 0
        BY <4>1, InOpFinite, FS_EmptySet
      <4> QED BY <4>2, InOpFinite, SMTT(60) DEF IInv, OpInv
    <3>3. Len(lh) \in Nat /\ Len(lh) + outstanding * MAXOPBLOCKS <= LOGBLOCKS + outstanding * OpWrites
      <4>1. Len(lh) \in Nat
        BY SMTT(60) DEF IInv, TypeOK
      <4>2. Len(lh) + outstanding * MAXOPBLOCKS <= LOGBLOCKS + Cardinality(Charged)
        BY <3>1 DEF IInv, SpaceInv
      <4>3. outstanding * OpWrites \in Nat /\ outstanding * MAXOPBLOCKS \in Nat
        BY <3>2, LogAssumption, SMTT(60)
      <4> QED BY <4>1, <4>2, <4>3, ChargedBound, ChargedFinite, LogAssumption, SMTT(60)
    <3>4. outstanding * MAXOPBLOCKS >= outstanding * OpWrites + outstanding
      <4>1. MAXOPBLOCKS - OpWrites - 1 \in Nat
        BY LogAssumption, SMTT(60)
      <4> DEFINE k == MAXOPBLOCKS - OpWrites - 1
      <4>2. outstanding * MAXOPBLOCKS = outstanding * OpWrites + outstanding + outstanding * k
        BY <3>2, LogAssumption, SMTT(60)
      <4>3. outstanding * k \in Nat /\ outstanding * OpWrites \in Nat
        BY <3>2, <4>1, LogAssumption, SMTT(60)
      <4> HIDE DEF k
      <4> QED BY <4>2, <4>3, <3>2, SMTT(60)
    <3>5. Len(lh) < LOGBLOCKS
      <4>1. outstanding * OpWrites \in Nat /\ outstanding * MAXOPBLOCKS \in Nat
        BY <3>2, LogAssumption, SMTT(60)
      <4> QED BY <3>2, <3>3, <3>4, <4>1, LogAssumption, SMTT(60)
    <3> QED BY <2>1, <3>2, <3>5, LogAssumption, SMTT(60) DEF log_write
  <2>2. ASSUME NEW p \in Procs, end_op(p) PROVE NoPanic'
    BY <2>2 DEF end_op, IInv, OpInv, InOp
  <2>3. ASSUME NEW p \in Procs, Act(p), ~ log_write(p), ~ end_op(p) PROVE NoPanic'
    BY <2>3 DEF Act, Commits, CallBeginOp, begin_op, Modify, commit, write_log, write_head, install_trans,
                erase, commit_done, CallSync, sys_sync, sync_recheck, Kill
  <2>4. ASSUME NEW b \in Blocks, Bread(b) \/ Recycle(b) PROVE NoPanic'
    BY <2>4 DEF Bread, Recycle
  <2>5. CASE Recover \/ Crash
    BY <2>5 DEF Recover, read_head, recover_install, recover_done, Crash
  <2>6. CASE UNCHANGED vars
    BY <2>6 DEF vars
  <2> QED BY <2>1, <2>2, <2>3, <2>4, <2>5, <2>6, NextCases
<1> QED BY Invariance, <1>1, <1>2, PTL DEF Spec

-----------------------------------------------------------------------------
(* What each step does to Seen and Recovered.                              *)

\* Distinct header entries make Recovered's CHOOSE a lookup.
LEMMA Lookup ==
  ASSUME IInv
  PROVE  /\ \A i \in 1..Len(header) : header[i] \in Blocks /\ Recovered[header[i]] = logdisk[i]
         /\ \A b \in Blocks : (\A i \in 1..Len(header) : header[i] # b) => Recovered[b] = disk[b]
<1>1. ASSUME NEW i \in 1..Len(header) PROVE header[i] \in Blocks /\ Recovered[header[i]] = logdisk[i]
  <2> DEFINE b == header[i]
             c == CHOOSE j \in 1..Len(header) : header[j] = b
  <2>1. b \in Blocks
    BY SMTT(60) DEF IInv, TypeOK
  <2>2. c \in 1..Len(header) /\ header[c] = b
    OBVIOUS
  <2>3. c = i
    BY <2>2 DEF IInv, LogInv, Distinct
  <2>4. Recovered[b] = logdisk[c]
    BY <2>1 DEF Recovered
  <2> QED BY <2>1, <2>3, <2>4
<1>2. ASSUME NEW b \in Blocks, \A i \in 1..Len(header) : header[i] # b PROVE Recovered[b] = disk[b]
  BY <1>2 DEF Recovered
<1> QED BY <1>1, <1>2

\* The same in the next state.
LEMMA LookupNext ==
  ASSUME IInv'
  PROVE  /\ \A i \in 1..Len(header') : header'[i] \in Blocks /\ Recovered'[header'[i]] = logdisk'[i]
         /\ \A b \in Blocks : (\A i \in 1..Len(header') : header'[i] # b) => Recovered'[b] = disk'[b]
<1>1. ASSUME NEW i \in 1..Len(header') PROVE header'[i] \in Blocks /\ Recovered'[header'[i]] = logdisk'[i]
  <2> DEFINE b == header'[i]
             c == CHOOSE j \in 1..Len(header') : header'[j] = b
  <2>1. b \in Blocks
    BY SMTT(60) DEF IInv, TypeOK
  <2>2. c \in 1..Len(header') /\ header'[c] = b
    OBVIOUS
  <2>3. c = i
    BY <2>2 DEF IInv, LogInv, Distinct
  <2>4. Recovered'[b] = logdisk'[c]
    BY <2>1 DEF Recovered
  <2> QED BY <2>1, <2>3, <2>4
<1>2. ASSUME NEW b \in Blocks, \A i \in 1..Len(header') : header'[i] # b PROVE Recovered'[b] = disk'[b]
  BY <1>2 DEF Recovered
<1> QED BY <1>1, <1>2

\* Two recovered states are equal when they agree on every block.
LEMMA RecoveredEq ==
  ASSUME \A b \in Blocks : Recovered'[b] = Recovered[b] PROVE Recovered' = Recovered
BY DEF Recovered

\* What system calls see is the cache over the disk, or before recovery has
\* finished, what it is going to recover.
LEMMA SeenIs ==
  /\ \A b \in Blocks : Seen[b] = IF boot = "run" THEN Contents(b) ELSE Recovered[b]
  /\ \A b \in Blocks : Seen'[b] = IF boot' = "run" THEN Contents(b)' ELSE Recovered'[b]
  /\ (\A b \in Blocks : Seen'[b] = Seen[b]) => Seen' = Seen
<1>1. \A b \in Blocks : Seen[b] = IF boot = "run" THEN Contents(b) ELSE Recovered[b]
  BY DEF Seen
<1>2. \A b \in Blocks : Seen'[b] = IF boot' = "run" THEN Contents(b)' ELSE Recovered'[b]
  BY DEF Seen
<1>3. (\A b \in Blocks : Seen'[b] = Seen[b]) => Seen' = Seen
  BY DEF Seen
<1> QED BY <1>1, <1>2, <1>3

\* With an empty header the disk is what a reboot recovers.
LEMMA NoHeader ==
  /\ IInv /\ header = <<>> => \A b \in Blocks : Recovered[b] = disk[b]
  /\ IInv' /\ header' = <<>> => \A b \in Blocks : Recovered'[b] = disk'[b]
BY Lookup, LookupNext, SMTT(60)

\* The steps that change neither what is seen nor what would be recovered.
LEMMA DataUnchanged ==
  ASSUME UNCHANGED <<disk, logdisk, header, cache, boot>>
  PROVE  Recovered' = Recovered /\ Seen' = Seen
BY DEF Recovered, Seen, Contents

\* Copying blocks to the log, before the header names them, changes no view.
LEMMA WriteLogData ==
  ASSUME IInv, IInv', NEW p \in Procs, write_log(p)
  PROVE  Recovered' = Recovered /\ Seen' = Seen
<1>1. boot = "run" /\ boot' = "run" /\ UNCHANGED <<disk, header, pc>> /\ tail < Len(lh) /\ pc[p] = "write_log"
  BY DEF write_log, Running
<1>2. header = <<>> /\ header' = <<>>
  <2>1. ~ Installing
    BY <1>1 DEF IInv, OpInv, Committer, Installing
  <2> QED BY <1>1, <2>1 DEF IInv, LogInv
<1>3. Recovered' = Recovered
  BY <1>1, <1>2, NoHeader, RecoveredEq
<1>4. PICK b : b = lh[tail + 1]
  OBVIOUS
<1>5. cache' = [cache EXCEPT ![b] = Contents(b)] /\ b \in Blocks
  BY <1>1, <1>4, SMTT(60) DEF write_log, IInv, TypeOK
<1>6. \A c \in Blocks : Contents(c)' = Contents(c)
  BY <1>1, <1>5, LogAssumption DEF Contents, IInv, TypeOK
<1> QED BY <1>1, <1>3, <1>6, SeenIs

\* Installing a block that the header names changes neither view.
LEMMA InstallData ==
  ASSUME IInv, IInv', InstallBlock, lh = header, lh' = lh,
         boot' = boot, boot = "run" => Installing
  PROVE  Recovered' = Recovered /\ Seen' = Seen
<1>1. UNCHANGED <<logdisk, header>> /\ tail < Len(lh) /\ tail \in Nat /\ Len(lh) \in Nat /\ Len(lh) <= LOGBLOCKS
  BY LogAssumption, SMTT(60) DEF InstallBlock, IInv, TypeOK
<1>2. PICK b : b = lh[tail + 1]
  OBVIOUS
<1>3. /\ cache' = [cache EXCEPT ![b] = logdisk[tail + 1]]
      /\ disk' = [disk EXCEPT ![b] = logdisk[tail + 1]] /\ b \in Blocks
      /\ tail + 1 \in 1..Len(lh) /\ logdisk[tail + 1] \in Data
  BY <1>1, <1>2, LogAssumption, SMTT(60) DEF InstallBlock, IInv, TypeOK
<1>4. \A c \in Blocks : Recovered'[c] = Recovered[c]
  <2> SUFFICES ASSUME NEW c \in Blocks PROVE Recovered'[c] = Recovered[c]
    OBVIOUS
  <2>1. CASE \E i \in 1..Len(header) : header[i] = c
    BY <1>1, <2>1, Lookup, LookupNext, SMTT(60)
  <2>2. CASE \A i \in 1..Len(header) : header[i] # c
    <3>1. c # b
      BY <1>2, <1>3, <2>2
    <3>2. disk'[c] = disk[c]
      BY <1>3, <3>1 DEF IInv, TypeOK
    <3> QED BY <1>1, <2>2, <3>2, Lookup, LookupNext
  <2> QED BY <2>1, <2>2
<1>5. Recovered' = Recovered
  BY <1>4, RecoveredEq
<1>6. ASSUME boot = "run" PROVE \A c \in Blocks : Contents(c)' = Contents(c)
  <2>1. cache[b] = logdisk[tail + 1]
    BY <1>1, <1>2, <1>3, <1>6, SMTT(60) DEF IInv, LogInv
  <2> QED BY <1>3, <2>1, LogAssumption DEF Contents, IInv, TypeOK
<1> QED BY <1>5, <1>6, SeenIs

\* When every block of the log is installed, the header can be cleared.
LEMMA ClearData ==
  ASSUME IInv, IInv', ClearLog, lh = header, Installing \/ boot = "install"
  PROVE  Recovered' = Recovered /\ \A b \in Blocks : Recovered[b] = disk[b]
<1>1. \A b \in Blocks : Recovered[b] = disk[b]
  <2> SUFFICES ASSUME NEW b \in Blocks PROVE Recovered[b] = disk[b]
    OBVIOUS
  <2>1. CASE \E i \in 1..Len(header) : header[i] = b
    <3>1. PICK i \in 1..Len(header) : header[i] = b
      BY <2>1
    <3>2. disk[lh[i]] = logdisk[i]
      BY <3>1 DEF IInv, LogInv, ClearLog
    <3> QED BY <3>1, <3>2, Lookup
  <2>2. CASE \A i \in 1..Len(header) : header[i] # b
    BY <2>2, Lookup
  <2> QED BY <2>1, <2>2
<1>2. \A b \in Blocks : Recovered'[b] = disk[b]
  BY NoHeader DEF ClearLog
<1> QED BY <1>1, <1>2, RecoveredEq

\* At the commit point of an empty log nothing is dirty.
LEMMA EmptyCommitData ==
  ASSUME IInv, IInv', NEW p \in Procs, commit(p), lh = <<>>
  PROVE  InOp = {} /\ Seen' = Seen /\ Recovered' = Seen
<1>1. boot = "run" /\ boot' = "run" /\ UNCHANGED <<disk, logdisk, header, cache>> /\ pc[p] = "commit"
  BY DEF commit, Running, diskVars
<1>2. InOp = {} /\ ~ Installing
  BY <1>1 DEF IInv, OpInv, Committer, Installing
<1>3. header = <<>>
  BY <1>1, <1>2 DEF IInv, LogInv
<1>4. \A b \in Blocks : ~ Dirty(b) /\ ~ Held(b)
  <2>1. \A b \in Blocks : ~ Held(b)
    BY <1>2, LogAssumption DEF Held, IInv, OpInv, InOp
  <2>2. \A b \in Blocks : ~ Dirty(b)
    BY <1>2, SMTT(60) DEF Dirty, Installed, Installing
  <2> QED BY <2>1, <2>2
<1>5. \A b \in Blocks : Contents(b) = disk[b]
  BY <1>1, <1>4 DEF IInv, CacheInv, Contents
<1>6. Seen' = Seen /\ Recovered' = Recovered
  BY <1>1, DataUnchanged
<1>7. \A b \in Blocks : Recovered[b] = Seen[b]
  BY <1>1, <1>3, <1>5, NoHeader, SeenIs
<1>8. Recovered = Seen
  BY <1>7 DEF Recovered, Seen
<1> QED BY <1>2, <1>6, <1>8

\* Writing the header makes every logged block durable at once.
LEMMA CommitData ==
  ASSUME IInv, IInv', NEW p \in Procs, write_head(p)
  PROVE  InOp = {} /\ Seen' = Seen /\ Recovered' = Seen
<1>1. /\ boot = "run" /\ boot' = "run" /\ UNCHANGED <<disk, logdisk, cache>> /\ header' = lh
      /\ pc[p] = "write_log" /\ tail = Len(lh)
  BY DEF write_head, Running
<1>2. InOp = {} /\ ~ Installing
  BY <1>1 DEF IInv, OpInv, Committer, Installing
<1>3. \A b \in Blocks : Contents(b)' = Contents(b)
  BY <1>1 DEF Contents
<1>4. Seen' = Seen
  BY <1>1, <1>3, SeenIs
<1>5. \A b \in Blocks : Recovered'[b] = Contents(b)
  <2> SUFFICES ASSUME NEW b \in Blocks PROVE Recovered'[b] = Contents(b)
    OBVIOUS
  <2>1. CASE \E i \in 1..Len(lh) : lh[i] = b
    <3>1. PICK i \in 1..Len(lh) : lh[i] = b
      BY <2>1
    <3>2. logdisk[i] = cache[b] /\ logdisk[i] \in Data
      <4>1. i \in 1..LOGBLOCKS
        BY <3>1, LogAssumption, SMTT(60) DEF IInv, TypeOK
      <4>2. logdisk[i] \in Data
        BY <4>1 DEF IInv, TypeOK
      <4>3. logdisk[i] = cache[lh[i]]
        BY <1>1, <3>1 DEF IInv, LogInv
      <4> QED BY <3>1, <4>2, <4>3
    <3> QED BY <1>1, <3>1, <3>2, LookupNext, LogAssumption DEF Contents
  <2>2. CASE \A i \in 1..Len(lh) : lh[i] # b
    <3>1. ~ Dirty(b)
      BY <1>2, <2>2, SMTT(60) DEF Dirty, Installed, Installing
    <3>2. ~ Held(b)
      BY <1>2, LogAssumption DEF Held, IInv, OpInv, InOp
    <3>3. Contents(b) = disk[b]
      BY <1>1, <3>1, <3>2 DEF IInv, CacheInv, Contents
    <3> QED BY <1>1, <2>2, <3>3, LookupNext
  <2> QED BY <2>1, <2>2
<1>6. \A b \in Blocks : Recovered'[b] = Seen[b]
  BY <1>1, <1>5, SeenIs
<1>7. Recovered' = Seen
  BY <1>6 DEF Recovered, Seen
<1> QED BY <1>2, <1>4, <1>7

\* A torn block is one that recovery does not read, or one it overwrites.
LEMMA CrashData ==
  ASSUME IInv, IInv', Crash
  PROVE  Recovered' = Recovered /\ Seen' = Recovered
<1>1. header' = header /\ boot' = "read_head"
  BY DEF Crash
<1>2. \A i \in 1..Len(header) : logdisk'[i] = logdisk[i]
  <2>1. CASE ~ WritingLog
    BY <2>1 DEF Crash
  <2>2. CASE WritingLog
    <3>1. PICK p \in Procs : pc[p] = "write_log"
      BY <2>2 DEF WritingLog
    <3>2. ~ Installing /\ boot = "run"
      BY <3>1 DEF IInv, OpInv, Committer, Installing, BootInv
    <3> QED BY <3>2, SMTT(60) DEF IInv, LogInv
  <2> QED BY <2>1, <2>2
<1>3. \A b \in Blocks : (\A i \in 1..Len(header) : header[i] # b) => disk'[b] = disk[b]
  <2>1. CASE ~ WritingHome
    BY <2>1 DEF Crash
  <2>2. CASE WritingHome
    <3>1. header = lh
      BY <2>2 DEF WritingHome, Installing, IInv, LogInv, BootInv, TypeOK
    <3>2. tail \in Nat /\ tail < Len(lh) /\ tail + 1 \in 1..Len(header)
      BY <2>2, <3>1, LogAssumption, SMTT(60) DEF WritingHome, IInv, TypeOK
    <3>3. PICK d \in Data : disk' = [disk EXCEPT ![lh[tail + 1]] = d]
      BY <2>2 DEF Crash
    <3> QED BY <3>1, <3>2, <3>3 DEF IInv, TypeOK
  <2> QED BY <2>1, <2>2
<1>4. \A b \in Blocks : Recovered'[b] = Recovered[b]
  BY <1>1, <1>2, <1>3, Lookup, LookupNext, SMTT(60)
<1>5. Recovered' = Recovered
  BY <1>4, RecoveredEq
<1>6. Seen' = Recovered'
  <2>1. \A b \in Blocks : Seen'[b] = Recovered'[b]
    BY <1>1, SeenIs
  <2> QED BY <2>1 DEF Seen, Recovered
<1> QED BY <1>5, <1>6

-----------------------------------------------------------------------------
(* What each step is in AtomicDisk.                                        *)

Syncing == {p \in Procs : pc[p] \in {"sync", "ssleep", "swoken"}}

\* A step that changes no mapped variable is a stuttering step.
LEMMA StutterMaps ==
  ASSUME Seen' = Seen, Recovered' = Recovered, InOp' = InOp, Syncing' = Syncing, ended' = ended, owed' = owed
  PROVE  UNCHANGED Atomic!vars
BY DEF Atomic!vars, Syncing

\* The steps of commit(): one of them is the atomic commit.
LEMMA CommitMaps ==
  ASSUME IInv, IInv', NEW p \in Procs, Commits(p)
  PROVE  [Atomic!Next]_(Atomic!vars)
<1>0. InOp' = InOp /\ Syncing' = Syncing
  <2>1. Act(p) /\ ~ begin_op(p) /\ ~ end_op(p)
    BY DEF Act, Commits, commit, write_log, write_head, install_trans, erase, commit_done, begin_op, end_op
  <2>2. InOp' = InOp
    BY <2>1, InOpStep
  <2>3. p \notin Syncing /\ p \notin Syncing'
    BY DEF Commits, commit, write_log, write_head, install_trans, erase, commit_done, wakeup, Syncing, IInv, TypeOK
  <2>4. \A q \in Procs : q # p => (q \in Syncing' <=> q \in Syncing)
    BY <2>1, Others DEF IInv, Syncing
  <2>5. Syncing' = Syncing
    BY <2>3, <2>4 DEF Syncing
  <2> QED BY <2>2, <2>5
<1>1. CASE (commit(p) /\ lh = <<>>) \/ write_head(p)
  <2>1. InOp = {} /\ Seen' = Seen /\ Recovered' = Seen
    BY <1>1, EmptyCommitData, CommitData
  <2>2. ended' = FALSE /\ owed' = {}
    BY <1>1 DEF commit, write_head, CommitPoint
  <2>3. Atomic!Commit
    BY <1>0, <2>1, <2>2 DEF Atomic!Commit, Syncing
  <2> QED BY <2>3 DEF Atomic!Next
<1>2. CASE (commit(p) /\ lh # <<>>) \/ commit_done(p)
  <2>1. UNCHANGED <<disk, logdisk, header, cache, boot, ended, owed>>
    BY <1>2 DEF commit, commit_done, diskVars, history
  <2> QED BY <1>0, <2>1, DataUnchanged, StutterMaps
<1>3. CASE write_log(p)
  <2>1. UNCHANGED <<ended, owed>>
    BY <1>3 DEF write_log, history
  <2> QED BY <1>0, <1>3, <2>1, WriteLogData, StutterMaps
<1>4. CASE install_trans(p)
  <2>1. UNCHANGED <<ended, owed, lh, boot>> /\ InstallBlock /\ Installing /\ boot = "run"
    BY <1>4 DEF install_trans, history, logVars, Installing, Running
  <2>2. lh = header
    BY <2>1 DEF IInv, LogInv
  <2> QED BY <1>0, <2>1, <2>2, InstallData, StutterMaps
<1>5. CASE erase(p)
  <2>1. UNCHANGED <<ended, owed, boot, cache, disk>> /\ ClearLog /\ Installing /\ boot = "run"
    BY <1>5 DEF erase, history, ClearLog, Installing, Running
  <2>2. lh = header
    BY <2>1 DEF IInv, LogInv
  <2>3. Recovered' = Recovered
    BY <2>1, <2>2, ClearData
  <2>4. \A b \in Blocks : Contents(b)' = Contents(b)
    BY <2>1 DEF Contents
  <2>5. Seen' = Seen
    BY <2>1, <2>4, SeenIs
  <2> QED BY <1>0, <2>1, <2>3, <2>5, StutterMaps
<1> QED BY <1>1, <1>2, <1>3, <1>4, <1>5 DEF Commits

\* begin_op(), end_op() and the writes between them.
LEMMA OpMaps ==
  ASSUME IInv, IInv', NEW p \in Procs,
         CallBeginOp(p) \/ begin_op(p) \/ end_op(p) \/ log_write(p) \/ \E b \in Blocks, d \in Data : Modify(p, b, d)
  PROVE  [Atomic!Next]_(Atomic!vars)
<1>0. Act(p) /\ Syncing' = Syncing /\ p \notin Syncing
  <2>1. Act(p) /\ pc[p] \in {"user", "begin", "op", "modified"}
    BY DEF Act, CallBeginOp, begin_op, end_op, log_write, Modify
  <2>2. p \notin Syncing /\ p \notin Syncing'
    BY <2>1 DEF CallBeginOp, begin_op, end_op, log_write, Modify, wakeup, Syncing, IInv, TypeOK
  <2>3. \A q \in Procs : q # p => (q \in Syncing' <=> q \in Syncing)
    BY <2>1, Others DEF IInv, Syncing
  <2>4. Syncing' = Syncing
    BY <2>2, <2>3 DEF Syncing
  <2> QED BY <2>1, <2>2, <2>4
<1>1. CASE CallBeginOp(p) \/ log_write(p)
  <2>1. UNCHANGED <<disk, logdisk, header, cache, boot, ended, owed>> /\ ~ begin_op(p) /\ ~ end_op(p)
    BY <1>1 DEF CallBeginOp, log_write, begin_op, end_op, diskVars, history
  <2>2. InOp' = InOp
    BY <1>0, <2>1, InOpStep
  <2> QED BY <1>0, <2>1, <2>2, DataUnchanged, StutterMaps
<1>2. CASE begin_op(p)
  <2>1. UNCHANGED <<disk, logdisk, header, cache, boot, ended, owed>> /\ ~ end_op(p)
    BY <1>2 DEF begin_op, end_op, diskVars, history
  <2>2. Recovered' = Recovered /\ Seen' = Seen
    BY <2>1, DataUnchanged
  <2>3. CASE InOp' = InOp
    BY <1>0, <2>1, <2>2, <2>3, StutterMaps
  <2>4. CASE p \notin InOp /\ InOp' = InOp \cup {p}
    <3>1. Atomic!Begin(p)
      BY <1>0, <2>1, <2>2, <2>4 DEF Atomic!Begin, Syncing
    <3> QED BY <3>1 DEF Atomic!Next
  <2> QED BY <1>0, <2>1, <2>3, <2>4, InOpStep
<1>3. CASE end_op(p)
  <2>1. UNCHANGED <<disk, logdisk, header, cache, boot, owed>> /\ ended' = TRUE /\ outstanding' = outstanding - 1 /\ ~ begin_op(p)
    BY <1>3 DEF end_op, begin_op, diskVars, IInv, OpInv, InOp
  <2>2. Recovered' = Recovered /\ Seen' = Seen
    BY <2>1, DataUnchanged
  <2>3. p \in InOp /\ InOp' = InOp \ {p}
    BY <1>0, <2>1, InOpStep, SMTT(60) DEF IInv, TypeOK
  <2>4. Atomic!End(p)
    BY <1>0, <2>1, <2>2, <2>3 DEF Atomic!End, Syncing
  <2> QED BY <2>4 DEF Atomic!Next
<1>4. ASSUME NEW b \in Blocks, NEW d \in Data, Modify(p, b, d) PROVE [Atomic!Next]_(Atomic!vars)
  <2>1. /\ UNCHANGED <<disk, logdisk, header, boot, ended, owed>> /\ boot = "run"
        /\ cache' = [cache EXCEPT ![b] = d] /\ p \in InOp /\ outstanding' = outstanding
    BY <1>4 DEF Modify, diskVars, logVars, history, InOp, Running
  <2>2. InOp' = InOp
    <3>1. outstanding \in Nat
      BY DEF IInv, TypeOK
    <3> QED BY <1>0, <2>1, <3>1, InOpStep, SMTT(60)
  <2>3. Recovered' = Recovered
    BY <2>1 DEF Recovered
  <2>4. \A c \in Blocks : Contents(c)' = IF c = b THEN d ELSE Contents(c)
    BY <2>1, LogAssumption DEF Contents, IInv, TypeOK
  <2>5. \A c \in Blocks : Seen'[c] = IF c = b THEN d ELSE Seen[c]
    BY <2>1, <2>4, SeenIs
  <2>6. Seen' = [Seen EXCEPT ![b] = d]
    BY <2>5 DEF Seen
  <2>7. Atomic!Write(p, b, d)
    BY <1>0, <2>1, <2>2, <2>3, <2>6 DEF Atomic!Write, Syncing
  <2> QED BY <2>7 DEF Atomic!Next
<1> QED BY <1>1, <1>2, <1>3, <1>4

\* sys_sync(): it returns only when nothing is owed to the caller.
LEMMA SyncMaps ==
  ASSUME IInv, IInv', NEW p \in Procs, CallSync(p) \/ sys_sync(p) \/ sync_recheck(p) \/ Kill(p)
  PROVE  [Atomic!Next]_(Atomic!vars)
<1>0. /\ UNCHANGED <<disk, logdisk, header, cache, boot, ended>> /\ Act(p)
      /\ outstanding' = outstanding /\ outstanding \in Nat
  BY DEF CallSync, sys_sync, sync_recheck, Kill, Act, diskVars, logVars, history, IInv, TypeOK
<1>1. InOp' = InOp /\ Recovered' = Recovered /\ Seen' = Seen
  BY <1>0, InOpStep, DataUnchanged, SMTT(60)
<1>2. \A q \in Procs : q # p => (q \in Syncing' <=> q \in Syncing)
  BY <1>0, Others DEF IInv, Syncing
<1>3. CASE Kill(p)
  <2>1. Syncing' = Syncing /\ owed' = owed
    <3>1. (p \in Syncing' <=> p \in Syncing) /\ owed' = owed
      BY <1>3 DEF Kill, Woken, Syncing, history, IInv, TypeOK
    <3> QED BY <1>2, <3>1 DEF Syncing
  <2> QED BY <1>0, <1>1, <2>1, StutterMaps
<1>4. CASE CallSync(p)
  <2>1. /\ p \notin Syncing /\ p \in Syncing' /\ p \notin InOp
        /\ owed' = IF ended THEN owed \cup {p} ELSE owed
    BY <1>4 DEF CallSync, Syncing, InOp, IInv, TypeOK
  <2>2. Syncing' = Syncing \cup {p}
    BY <1>2, <2>1 DEF Syncing
  <2>3. Atomic!SyncCall(p)
    BY <1>0, <1>1, <2>1, <2>2 DEF Atomic!SyncCall, Syncing
  <2> QED BY <2>3 DEF Atomic!Next
<1>5. CASE sys_sync(p) \/ sync_recheck(p)
  <2>1. owed' = owed /\ p \in Syncing
    BY <1>5 DEF sys_sync, sync_recheck, history, Syncing
  <2>2. CASE p \in Syncing'
    <3>1. Syncing' = Syncing
      BY <1>2, <2>1, <2>2 DEF Syncing
    <3> QED BY <1>0, <1>1, <2>1, <3>1, StutterMaps
  <2>3. CASE p \notin Syncing'
    <3>1. Syncing' = Syncing \ {p}
      BY <1>2, <2>1, <2>3 DEF Syncing
    <3>2. p \notin owed
      <4>1. CASE sys_sync(p)
        <5>1. ~ committing /\ outstanding = 0
          BY <1>0, <2>3, <4>1, SMTT(60) DEF sys_sync, Syncing, IInv, TypeOK
        <5>2. \A q \in Procs : pc[q] \notin {"commit", "write_log"}
          BY <5>1 DEF IInv, OpInv, Committer
        <5> QED BY <5>1, <5>2, SMTT(60) DEF IInv, SyncInv
      <4>2. CASE sync_recheck(p)
        <5>1. pc[p] = "swoken" /\ ~ (due[p] > 0)
          BY <2>3, <4>2 DEF sync_recheck, Syncing, IInv, TypeOK
        <5> QED BY <5>1 DEF IInv, SyncInv
      <4> QED BY <1>5, <4>1, <4>2
    <3>3. Atomic!SyncReturn(p)
      BY <1>0, <1>1, <2>1, <3>1, <3>2 DEF Atomic!SyncReturn, Syncing
    <3> QED BY <3>3 DEF Atomic!Next
  <2> QED BY <2>2, <2>3
<1> QED BY <1>3, <1>4, <1>5

\* Cache traffic is invisible.
LEMMA CacheMaps ==
  ASSUME IInv, IInv', NEW b \in Blocks, Bread(b) \/ Recycle(b)
  PROVE  [Atomic!Next]_(Atomic!vars)
<1>1. /\ UNCHANGED <<disk, logdisk, header, boot, ended, owed, pc>> /\ boot = "run"
  BY DEF Bread, Recycle, diskVars, history, Running
<1>2. InOp' = InOp /\ Syncing' = Syncing /\ Recovered' = Recovered
  BY <1>1 DEF InOp, Syncing, Recovered
<1>3. \A c \in Blocks : Contents(c)' = Contents(c)
  <2>1. CASE Bread(b)
    BY <1>1, <2>1, LogAssumption DEF Bread, Contents, IInv, TypeOK
  <2>2. CASE Recycle(b)
    <3>1. ~ Dirty(b) /\ ~ Held(b) /\ cache[b] # NoData
      BY <1>1, <2>2, SMTT(60) DEF Recycle, IInv, PinsMatchLog, Dirty, Held
    <3>2. cache[b] = disk[b]
      BY <1>1, <3>1 DEF IInv, CacheInv
    <3> QED BY <1>1, <2>2, <3>1, <3>2 DEF Recycle, Contents, IInv, TypeOK
  <2> QED BY <2>1, <2>2
<1>4. Seen' = Seen
  BY <1>1, <1>3, SeenIs
<1> QED BY <1>1, <1>2, <1>4, StutterMaps

\* Recovery is invisible.
LEMMA RecoverMaps ==
  ASSUME IInv, IInv', Recover
  PROVE  [Atomic!Next]_(Atomic!vars)
<1>1. UNCHANGED <<pc, ended, owed>> /\ boot # "run"
  BY DEF Recover, read_head, recover_install, recover_done, history
<1>2. InOp' = InOp /\ Syncing' = Syncing
  BY <1>1 DEF InOp, Syncing
<1>3. Recovered' = Recovered /\ Seen' = Seen
  <2>1. CASE read_head
    <3>1. Recovered' = Recovered
      BY <2>1 DEF read_head, diskVars, Recovered
    <3>2. boot' # "run"
      BY <2>1 DEF read_head
    <3> QED BY <1>1, <3>1, <3>2, SeenIs
  <2>2. CASE recover_install
    <3>1. InstallBlock /\ lh = header /\ lh' = lh /\ boot' = boot
      BY <2>2 DEF recover_install, logVars, IInv, BootInv
    <3> QED BY <1>1, <3>1, InstallData
  <2>3. CASE recover_done
    <3>1. ClearLog /\ lh = header /\ boot = "install" /\ boot' = "run"
      BY <2>3 DEF recover_done, IInv, BootInv
    <3>2. Recovered' = Recovered /\ \A b \in Blocks : Recovered[b] = disk[b]
      BY <3>1, ClearData
    <3>3. \A b \in Blocks : Contents(b)' = disk[b]
      BY <1>1, <3>1 DEF ClearLog, Contents, IInv, BootInv
    <3>4. \A b \in Blocks : Seen'[b] = Seen[b]
      BY <1>1, <3>1, <3>2, <3>3, SeenIs
    <3> QED BY <3>2, <3>4, SeenIs
  <2> QED BY <2>1, <2>2, <2>3 DEF Recover
<1> QED BY <1>1, <1>2, <1>3, StutterMaps

\* A power failure is the crash of the abstract disk.
LEMMA CrashMaps ==
  ASSUME IInv, IInv', Crash
  PROVE  [Atomic!Next]_(Atomic!vars)
<1>1. InOp' = {} /\ Syncing' = {} /\ ended' = FALSE /\ owed' = {}
  BY DEF Crash, CommitPoint, InOp, Syncing
<1>2. Atomic!Crash
  BY <1>1, CrashData DEF Atomic!Crash, Syncing
<1> QED BY <1>2 DEF Atomic!Next

\* The initial states correspond.
LEMMA InitMaps == ASSUME Init PROVE Atomic!Init
<1>1. IInv /\ header = <<>> /\ boot = "read_head"
  BY InitIInv DEF Init
<1>2. \A b \in Blocks : Recovered[b] = disk[b] /\ Seen[b] = disk[b]
  BY <1>1, NoHeader, SeenIs
<1>3. disk \in [Blocks -> Data]
  BY <1>1 DEF IInv, TypeOK
<1>4. Recovered = Seen /\ Seen \in [Blocks -> Data]
  <2>1. Recovered = Seen
    BY <1>2, SMTT(60) DEF Recovered, Seen
  <2>2. Seen \in [Blocks -> Data]
    BY <1>2, <1>3 DEF Seen
  <2> QED BY <2>1, <2>2
<1>5. InOp = {} /\ Syncing = {} /\ ended = FALSE /\ owed = {}
  BY DEF Init, InOp, Syncing
<1> QED BY <1>4, <1>5 DEF Atomic!Init, Syncing

\* The log of log.c is a transactional disk: whatever the interleaving, and
\* wherever the power fails, also in recovery, a reboot finds the blocks as
\* they were at the last commit, and sync() returns only when every operation
\* that had ended before the call is among them.
THEOREM Refinement == Spec => CrashSafe
<1>1. Init => Atomic!Init
  BY InitMaps
<1>2. ASSUME IInv, IInv', [Next]_vars PROVE [Atomic!Next]_(Atomic!vars)
  <2>1. ASSUME NEW p \in Procs, Act(p) PROVE [Atomic!Next]_(Atomic!vars)
    BY <1>2, <2>1, OpMaps, CommitMaps, SyncMaps DEF Act
  <2>2. ASSUME NEW b \in Blocks, Bread(b) \/ Recycle(b) PROVE [Atomic!Next]_(Atomic!vars)
    BY <1>2, <2>2, CacheMaps
  <2>3. CASE Recover
    BY <1>2, <2>3, RecoverMaps
  <2>4. CASE Crash
    BY <1>2, <2>4, CrashMaps
  <2>5. CASE UNCHANGED vars
    <3>1. UNCHANGED <<disk, logdisk, header, cache, boot, pc, ended, owed>>
      BY <2>5 DEF vars, diskVars, history
    <3>2. InOp' = InOp /\ Syncing' = Syncing
      BY <3>1 DEF InOp, Syncing
    <3> QED BY <3>1, <3>2, DataUnchanged, StutterMaps
  <2> QED BY <1>2, <2>1, <2>2, <2>3, <2>4, <2>5, NextCases
<1> QED BY <1>1, <1>2, Invariance, PTL DEF Spec, CrashSafe, Atomic!Spec
=============================================================================
