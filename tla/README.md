# A TLA+ verification of xv6

This directory holds TLA+ models of the kernel under `src/kernel`, of the shell
and libraries under `src/user` and of `src/mkfs`; TLC configurations that check
them on small instances; and TLAPS proofs of the properties that matter most, for
every size of the system. `PROJECT.json` is the index: components, runs, mutants,
the source lines behind each definition, findings, hazards and theorems.

## The system, its parts and the modules

| Part | Source | Modules | Abstract specification |
|---|---|---|---|
| Write-ahead log | `log.c` | `Log` | `AtomicDisk` |
| Buffer cache | `bio.c` | `Bio` | `BlockStore` |
| Disk driver | `virtio_disk.c` | `Virtio` | `BlockDevice` |
| Inodes, directories, paths, calls on them | `fs.c`, `sysfile.c` | `FileSystem` | |
| Contents of files | `fs.c`, `file.c` | `FileData` | `ByteFile` |
| Open files, descriptors | `file.c`, `sysfile.c`, `pipe.c` | `Descriptors` | |
| Pipes | `pipe.c` | `Pipe` | `Fifo` |
| Console input | `console.c` | `Console` | `LineInput` |
| Console output | `uart.c`, `console.c` | `Uart` | |
| Processes, scheduler | `proc.c`, `sysproc.c` | `Proc` | `ProcTree` |
| Spin locks, interrupt state, context switches | `spinlock.c`, `proc.c` | `Spin` | |
| Sleep locks | `sleeplock.c` | `SleepLock` | `Mutex` |
| Registers in traps and switches | `trampoline.S`, `kernelvec.S`, `swtch.S`, `trap.c` | `Trap` | |
| Interrupts | `trap.c`, `plic.c` | `Interrupts` | |
| Memory | `vm.c`, `kalloc.c`, `exec.c`, `proc.c` | `Vm` | |
| User memory, words, strings, offsets | `vm.c`, `syscall.c`, `fs.c` | `UserCopy` | |
| Boot | `start.c`, `main.c` | `Boot` | |
| Printing | `printk.c`, `printf.c` | `Format` | |
| Strings, path elements | `string.c`, `ulib.c`, `fs.c` | `Strings` | |
| User allocator | `umalloc.c` | `Malloc` | |
| Shell, init | `sh.c`, `init.c` | `ShellParse`, `Shell` | |
| cat, wc, grep | `cat.c`, `wc.c`, `grep.c` | `Filters` | |
| Image builder | `mkfs.c` | `Mkfs` | |

A file system call runs between `begin_op` and `end_op`, changes blocks through
`bread`/`log_write`/`brelse`, and may sleep in each; the log commits when the
last concurrent operation ends. Everything that sleeps uses `sleep_prepare`,
`sleep` and `wakeup` of `proc.c`. The modules cut the system at these interfaces:
`FileSystem` takes from `AtomicDisk` that a group of operations becomes durable as
a whole, `Log` takes from the cache that a locked buffer is its block's only
current copy, `Shell` takes descriptors, pipes and processes as `Descriptors`,
`Pipe` and `Proc` show them.

### How state and steps correspond to the code

The header comment of each module says what a step is. In general a step is one
critical section, or one access to shared memory or to a device where no lock is
held; actions carry the names of the functions. What a call that sleeps or
releases a lock has still to do is its `pc` (`FileSystem` and `Descriptors`: a stack
of what is left).

* **`Log`**: `disk`, `logdisk` and `header` survive a crash; `cache` is what the
  buffer of a block holds (`NoData` when there is none), `pins` counts `bpin`, and
  `lh`, `outstanding`, `committing` are the fields of `log`; of `ncommit` only the
  distance to what a `sync` waits for matters (`due`). `end_op` is
  the actions `end_op` (first critical section), `commit`, `write_log`,
  `write_head`, `install_trans`, `erase` and `commit_done`. `Crash` is enabled in
  every state and may leave the block that is being written with any contents;
  the header is written atomically, as its 4 + 4 * 30 bytes lie in one sector.
  `CrashSafe` maps `durable` to what recovery would make of the disk.
* **`Proc`**: `wait_lock` is held throughout `kexit`, and `p->lock` from the
  assignment of `p->state` through `sched` and `swtch` until `scheduler` releases it
  on the other side. `On(c, p)`: CPU `c` executes the thread of `p`; a timer may
  `yield` wherever no lock is held. `wakeup` takes one slot per step.
* **`Spin`**: `acquire` is `push_off`, the exchange, `lk->cpu = mycpu()`; `release`
  is `lk->cpu = 0`, the store, `pop_off`; an interrupt may come between any two of
  these that leave `sie` set. `sched` and `scheduler` hand the lock `p->lock` and
  `intena` over to another context on the same CPU.
* **`SleepLock`, `Pipe`, `Console`, `Uart`, `Virtio`**: `sleep_prepare` and `sleep`
  are apart, as a `wakeup` between them cancels the sleep. `kkill` wakes a sleeper
  early. `copyin` and `copyout` may fail at any byte.
* **`Bio`**: `bget_hit` and `bget_miss` are the two scans under `bcache.lock`, then
  come `acquiresleep`, the disk read of `bread`, the user's changes, and the two
  halves of `brelse`. A user writes a changed buffer or has it pinned before it
  lets go, as `log.c` does.
* **`Virtio`**: cut where the device may look in. The device is external: it fetches
  avail entries in order, finishes requests in any order by following the
  descriptors, and raises its interrupt. A ring entry that has been read is
  forgotten (`Stale`); a step that read one again would panic.
* **`FileSystem`**: `dinode` is the disk as the cache shows it, `durable` what a
  crash leaves; `it` the inode table. A lookup locks one inode at a time;
  `ireclaim` runs at boot. `iget` panics when the table is full, wherever it is
  called: `panicked` is the reason. `FileData` has blocks, the bitmap, `addrs` and
  `size` in memory and (`dinode`) on the disk; a write and a truncation take a step
  per block.
* **`Trap`**: every register is saved and restored where the assembly does it;
  values say whose they are, so that a register of another context is seen.
* **`Vm`**: three-level tables with two entries per level; each call is given how
  many pages it will get, so that it fails at every possible place. `sys_exec` is one
  step: the argument pages (`Fetch`, `freeargs`), the new address space from program
  headers whose sums wrap (`LoadSegs`), and the exchange or the way back (`kexec`).
* **Pure code** (`UserCopy`, `Format`, `Strings`, `Malloc`, `ShellParse`, `Filters`,
  `Mkfs`): loops as recursive operators, checked against definitions that say
  what the result is, not how it is computed, over all inputs of a bounded size.

## Runs

A run puts several small instances side by side: the variable `part` is chosen in
the initial state and never changes, the chosen part takes its steps, and the
variables of the others keep one value. So a run's states are the union of the
states of its instances, and each property says what it demands of each part.
Fairness of a disjunction of actions of different parts is fairness of each of
them. The instances are in the MC modules.

| Run | Parts | Shows |
|---|---|---|
| `log_safety` | 2 processes, 4 blocks, 2 values, log of 4, 2 reserved and 1 written per operation | `NoPanic`, `IInv`, `CrashSafe` |
| `log_liveness` | 3 processes, a log with room for two operations | `BeginOpReturns`, `SyncReturns` |
| `log_full_operation` | operations that write all MAXOPBLOCKS blocks | a violation of `NoPanic` (Findings) |
| `proc_kill_unused` | the process table with kill(0) | a violation of `KillsProcesses` (Findings) |
| `processes_safety` | spin locks: 2 CPUs, 2 threads, 2 locks; 3 harts, 2 devices; init and 2 slots that are reused, 2 CPUs; 2 writers and 2 CPUs that echo, print and panic | `MutualExclusion`, `InterruptsRestored`, `IInv`; `OneServer`; `ProcessesSafe`, `ProcessTree`; `OutputSafe` |
| `processes_liveness` | the same with fewer processes; the shell with 5 processes; 2 processes that move in, make and remove directories | `ProcessorsGoOn`, `ProcessesReturn`, `ShellReturns`, `CallsReturn` |
| `transfers_safety` | pipes of 1 or 2 bytes; 2 or 3 buffers for 3 or 4 blocks, up to 3 of them pinned; 5 or 8 descriptors for 2 or 3 processes; 2 readers of a console buffer of 3 | `NothingMissed`, `OwnedOnce`, `IsFifo`, `IsStore`, `IsBlockDevice`, `IsLineInput` |
| `transfers_liveness` | a sleep lock and 4 processes; smaller instances of the others | `IInv`, `IsMutex`, `WaitsEnd` |
| `files` | 2 processes, 4 inodes, 3 slots in the inode table, three scenarios: links, directories, a crash at every step | `DiskExact`, `TableExact`, `FreedUnreferenced` |
| `data` | 2 processes with 2 descriptors, 3 files and a pipe; 2 writers and few blocks; a shared position; long writes with the real MAXOPBLOCKS | `FilesExact`, `BlocksExact`, `IsByteFile` |
| `machine` | 2 CPUs and 2 processes in traps; 1 or 2 address spaces; all addresses of 4 bits; 3 harts that boot | `RegistersIntact`, `MemoryExact`, `MemorySteps`, `CopiesExact`, `NothingEarly` |
| `programs` | a pipeline of three stages with 6 processes, jobs with 5; all lines of 6 tokens; all texts of 3 and patterns of 4 characters; all files of 6 characters in all cuts; all memories of 5 bytes; words of 10 bits, formats of 5 characters; heaps of 11 headers; images of up to 3 files | `ShellExact`, `FiltersExact`, `LibraryExact`, `ImageExact` |

Each property is stated, with the code behaviour it is about, where it is defined:
in the component's module, or in the MC module where it joins what several parts
promise.

**Bounds.** The log runs have no bound on commits, operations or crashes. In
`log_safety` there are as many blocks as log slots, so that an admission rule that
reserves too little fills the log and panics. Two operations are enough for one to
begin, write, absorb or end while the other does anything, and three processes for
two to sleep in `begin_op` while a third commits. Two values per block tell old from
new; a torn block takes either. `MaxPid` bounds the pids handed out: past it `fork`
finds the table full, which the code handles anyway. `UINT` and `UINT16` stand for
2^32 and 2^16: like those they are multiples of the ring's size, and small enough to
wrap many times; the disk's indices go round their ring twice before they wrap. More
blocks than buffers make `bget` recycle; 8 descriptors are enough for two requests
in flight, and 5 leave 2 over beside one, so that an allocation fails half way.
`MaxCalls` bounds the calls to the file system in a behaviour, two or three, which
is enough for a name to be removed, made again and linked while two lookups are
under way. `MaxCall` and `MaxRx` bound the bytes of a call and the characters that
arrive; `MaxPins` is LOGBLOCKS and, as in the code, equal to `NBUF`: the cache can
be exhausted. The inode table has fewer slots than there are inodes, as in the code,
and can fill up. Images of `mkfs` have 15 blocks, which some command lines exceed,
and a bit map that a full image does not fit. Address spaces have 8 pages in a table
of three levels, so that every level is allocated, shared and freed. A program is
executed with one argument; all other numbers of arguments, and the ones that cannot
be fetched, are tried with a file that does not exist. The pages of `argv` are freed
in the same place whatever `kexec` returned, so the product of the two is left out,
and only the page that `argv` holds when memory runs out in `kexec` is one. Words of 10
bits need as many digits, signed and unsigned, as the buffer has: the same tight fit
as 64 bits in 20 digits.

**Symmetry and views.** Processes, CPUs, threads, writers and blocks that are model
values are permuted in the safety runs only. `processes_safety`, `machine` and
`data` use views that leave out values which are overwritten before they are read
(the trap registers and saved registers of code that runs, the result of the last
read, the fields of a closed file, the killed flag of a process that exits), where
in its cycle of `NPC` instructions user code is, and, for `Vm`, which page is where;
every property keeps its value under the view.

**Fairness.** A thread that the scheduler keeps running takes its next step, and
`scheduler` visits every slot in turn, so a process that is again and again RUNNABLE
is run. Timer interrupts keep coming, devices work on what they are given, and
critical sections and interrupt handlers end. A spin lock that becomes free again
and again is won in the end (strong fairness of the exchange), and so is the chance
to run a critical section that others interleave with. Nothing obliges a program to
make a system call, to close or to read, except that a killed process exits and
closes its descriptors; nothing excludes a crash. `BeginOpReturns` and `SyncReturns`
assume in addition that the file system becomes idle again and again: the log
commits only then, so an endless overlap of operations does starve a `sync`. Even so
a caller of `begin_op` can starve: after each commit two others may fill a log with
room for two before it looks again. `BeginOpReturns` says that this is the only way:
it waits for ever only if other operations are admitted for ever. Of the processes
that wait for a sleep lock or for descriptors the code prefers none, so one of them
can be overtaken for ever, and `WaitsEnd` promises only that it is woken to try
again. The PLIC may prefer one of several devices that interrupt without end;
`ProcessorsGoOn` is about one device. A write to the console can be held off as long
as input is echoed and `printk` polls the transmitter.

The liveness runs do not check for deadlock: all ends of a pipe may be closed,
`bget` may panic, and the shell's user may stop typing; nor does `programs`, whose
parts come to an end.

## Proofs

TLC shows a property on the instances above, TLAPS for every value of the
constants that the `ASSUME` of the component's module, or the theorem itself,
allows.

**The log** (`LogSteps`, `LogProofs`), for any finite sets of processes and blocks
and any `LOGBLOCKS >= MAXOPBLOCKS > 0`:

* `Invariance`: `Spec => []IInv`.
* `TypeCorrect`, `PinsCorrect`: `TypeOK` and `PinsMatchLog`, from `IInv`.
* `NeverPanics`: if operations write fewer than `MAXOPBLOCKS` distinct blocks,
  `Spec => []NoPanic`.
* `Refinement`: `Spec => CrashSafe`.

None of the safety properties is inductive. `IInv` adds: who may be in an
operation or commit it (`OpInv`: `outstanding` counts exactly the operations,
and a commit excludes them), which copy of a block is current (`CacheInv`: a
block's buffer differs from its home only while it is logged or locked), what
the on-disk log holds at each stage of a commit (`LogInv`: the part already
copied equals the cache, the part already installed equals the log), what a
sleeping `sync` waits for (`SyncInv`), and the accounting behind `NoPanic`
(`SpaceInv`: log entries plus reserved slots, less the reserved slots that
running operations have already used, fit the log). There is one lemma per
conjunct and action that can disturb it. The refinement shows that each action
is a step of `AtomicDisk` or leaves its variables alone: `write_head` is the
commit, `erase` changes nothing because every home block already equals its log
block, and a crash during installation or recovery changes nothing durable
because the torn block is one that the header still names.

**Sleep locks** (`SleepLock`), for any set of processes: `Invariance`
(`Spec => []IInv`), `LockCorrect` (a process that `acquiresleep` let in is the one
`holdingsleep` names, and no waiter is left asleep with the lock free), and
`Refinement` (`Spec => IsMutex`). `IInv` adds to mutual exclusion what a waiter knows
between its test of `locked` and its sleep: if the lock has become free since, its
channel has been cleared, so that `sleep` returns at once.

**Interrupts** (last section of `TrapProofs`), for any harts and devices:
`PlicInvariance`, and `ServedOnce`, that the handler of a device runs on one hart at a time. The invariant
says that a source is claimed by exactly the hart that is between its claim and
its completion.

**Spin locks** (`SpinProofs`), for any CPUs, any finite sets of threads and locks and
any nesting (`SpinAssumption`): `Invariance`, `Exclusion` (`Spec => []MutualExclusion`)
and `Restored` (`Spec => []InterruptsRestored`). Mutual exclusion alone is not
inductive: `lk->cpu` lags behind `lk->locked` on both sides, so `LockWord` says which
CPU is in which window; a switch hands `p->lock` from one context to another, so
`RunsOnce`, `Place` and `Owned` say where every context is and which locks its CPU
has there; `NoffExact` makes `noff` the number of these locks; and `Enabled` and `Kept`
say that `intena`, in the CPU or in `sched`'s local variable, is what the context will
get back. From these follows that no panic of `acquire`, `release`, `pop_off` or
`sched` is reached (`NoPanic`, a conjunct of `IInv`).

**Traps** (`TrapProofs`), for any CPUs and processes (`TrapAssumption`):
`TrapInvariance`, and `RegistersKept` (`Spec => []RegistersIntact`). `IInv` says, for each
place a CPU can be at, what its control registers are (`Control`), whose values its
registers hold (`Registers`), and which of the trapframe, the kernel stack and the
context holds the copy that will be restored (`Saved`, and `Parked` for a process
without a CPU). A step concerns one CPU and the process it runs: the lemma `Compose`
reduces the invariant to that CPU and that process, and there is a lemma for each
action.

**The buffer cache** (`BioProofs`), for any blocks, values, `NBUF > 0` and finite
set of users (`Parameters` in `Bio`): `Invariance`, `BuffersCounted` (one buffer per
block, exact reference counts, a buffer in use keeps its block), `OutOnlyInUse`
(`Spec => []OutOfBuffers`) and `StoreImplemented` (`Spec => IsStore`). `IInv` adds
who holds which buffer's lock and what is known of `valid` at each point of `bread`
(`UserInv`), and that a valid buffer which nobody uses or pins equals the disk
(`BufInv`): that is why a buffer may be recycled without being written.
`OutOnlyInUse` is about the panic of `bget`, which the code can reach: with NBUF =
LOGBLOCKS = 30 a full log and one more user are enough. When it does, every buffer
holds a block that is pinned or that a user refers to, and these are at least NBUF
in number: exact reference counts mean that no buffer is lost on the way. The
refinement maps `value` to the contents of a block's valid buffer, or of the disk,
and `owner` to the user between `bread` and `brelse`; only the lock, the read, a
change and the unlock are seen.

**Pipes** (`PipeProofs`), for any disjoint sets of writers and readers, any bytes, any
`PIPESIZE > 0` and counters that wrap at any larger multiple of it (`Parameters` in
`Pipe`): `Invariance`, `SleepersRight` (`Spec => []NoLostWakeup`), `FreedLast` (`Spec =>
[]NoUseAfterFree`) and `FifoImplemented` (`Spec => IsFifo`). `IInv` bounds the distance of
the counters (`Used`), says where a process can be and that only one with `pi->lock`
is between two bytes (`CallInv`), that an end is closed by the last process that
had it (`EndInv`), and that whoever owes the other end a wakeup still has the lock
(`WakeInv`). The first lemmas are about the wrap-around: sums and differences wrap at
most once, and as `PIPESIZE` divides 2^32 the place in `data` does not change when a
counter wraps (`Place`). With `Apart`, that places of bytes in the pipe differ, a write
appends to the queue (`QueuePut`) and a read takes its head (`QueueGet`).

**Processes** (`ProcProofs`), for any number of slots and CPUs, and any pids but init's
passed to `kill` (`Parameters` in `Proc`): `Invariance`, `Stacks` (`Spec => []StackSafe`),
`Woken` (`Spec => []NoLostWakeup`) and `TreeImplemented` (`Spec => ProcessTree`). `IInv` says
that a CPU has a process that is `RUNNING`, or holds the lock of one it is leaving
(`Placed`); what a slot is in each state and at each place of the kernel (`Slot`); that
`kexit` has `wait_lock` until the process is a `ZOMBIE` (`Exits`); that a child under
construction has one creator, and that a parent has not exited (`Family`); and that
init is neither killed nor exits (`InitProc`). `Wakeups` is the heart of `Woken`: while a
parent is on its way into `sleep` in `kwait`, or asleep there, the process that owes
it a wakeup holds `wait_lock`, and its loop in `wakeup` has not come to the parent's
slot yet. It is a child that exits, or one whose exited children have just become
init's. The refinement maps slots to pids: `allocproc` and a
`fork` that fails spend a pid, `fork_parent` is the fork, `kexit` the exit, `wait_reap`
the wait, and nothing else changes the tree. That a pid names one slot (`Unique`) and
that a parent is itself in the tree are what the mapping needs (`Seen`). `MaxPid` bounds
`nextpid`: pids do not wrap in the model, as they would after 2^31 forks.

`Bio`, `Pipe`, `Proc` and `Interrupts` are instantiated several times in the MC modules,
so what their theorems assume of the constants is stated in each theorem;
`MCTransfers` and `MCProcesses` have TLC evaluate it for the instances of `Bio`, `Pipe`
and `Proc`. TLC also checks the inductive invariants: those of the log, spin locks and
sleep locks as properties of their runs, those of pipes and of the cache within
`OwnedOnce`, that of the process table within `ProcessesSafe`.

The proof modules of any size put Zenon first (`USE ZenonT(60)`) and name SMT in the
leaves that need arithmetic or updates of functions. `tlapm M.tla` takes some five
minutes for each of the larger ones.

## Only model-checked, and why

Liveness (it needs fairness and `ENABLED`, which are out of the prover's reach);
everything that recursive operators compute (`UserCopy`, `Format`, `Strings`,
`Malloc`, `ShellParse`, `Filters`, `Mkfs`: the provers have no induction over data);
and, so far, the safety of `Virtio`, `Console`, `Uart`, `FileSystem`, `FileData`,
`Descriptors`, `Vm`, `Boot` and `Shell`.

## Findings

* `log_write` tests for a full log before it looks for the block among the
  logged ones. Three operations that write ten distinct blocks each, which
  `param.h` allows, fill the log; rewriting one of these blocks then panics.
* `kkill` does not look at `p->state`: `kill(0)` marks a free slot, and the
  next process created there starts out killed.

Not a disagreement with any comment, but worth knowing:

* A `pipewrite` that finds itself killed after it has written some bytes returns
  without `wakeup(&pi->nread)`: a reader can sleep on while the pipe holds bytes,
  until another write or the close of the writing end. `NoLostWakeup` in `Pipe`
  allows exactly this case.
* `kkill` that comes after `kwait` has tested `killed` and before it sleeps is not
  seen until a child exits. `MissedKill` in `Proc` describes the case, and
  `ProcessesReturn` excepts it.
* `bget` panics when every buffer is referenced, and as NBUF = LOGBLOCKS a log that is
  full of pinned blocks leaves none for anybody else. `OutOfBuffers` in `Bio` says
  that it panics in no other case.
* `iget` panics when all NINODE = 50 slots of the inode table are in use, fewer than the
  200 inodes of the disk and the 100 open files of the system. `OnlyPanicWhenFull` in
  `FileSystem` says that it panics in no other case; `CallsReturn` is about a table with
  room.
* A caller of `begin_op` can be overtaken for ever (see Fairness).

## Not modelled

* `usertests.c`, `grind.c` and the other test programs, and the user programs that
  are a few calls in a row (`echo`, `ls`, `mkdir`, `rm`, `ln`, `kill` ...).
* `kvmmake` and device initialisation, straight-line code whose result the models
  begin with; the feature negotiation of `virtio_disk_init`.
* `printptr`, `gets`, `stat`, `fstat` and `procdump`.
* What an ELF file and the initial user stack contain, beyond segments and sizes.
* Requests of more than an `int` to `malloc`.
* That the root directory `mkfs` writes fits the blocks it has, and that there are
  inodes for all files, which `mkfs` itself takes for granted; its superblock.
* `pr.lock` and the test of `panicking` around `printk`'s loop; the control registers that
  `start` sets.
