----------------------------- MODULE SpinProofs -----------------------------
(***************************************************************************)
(* Spin locks exclude each other, the nesting of push_off() and pop_off()  *)
(* is exact and no panic of spinlock.c or sched() is reached, for any      *)
(* number of CPUs, threads and locks.                                      *)
(*                                                                         *)
(* A step of CPU c changes the context of c and one lock at most, so the   *)
(* invariant splits into a part for every CPU.  Compose says that a step   *)
(* that keeps c's own part, and LockWord, keeps the invariant; the lemmas  *)
(* on actions show that each does.                                         *)
(***************************************************************************)
EXTENDS Spin, FiniteSetTheorems, TLAPS

\* Zenon tries every leaf; those with arithmetic or functional updates cite SMT.
USE ZenonT(60)

\* Two CPUs run different contexts, and no CPU another's scheduler.
LEMMA Apart ==
  ASSUME RunsOnce, NEW c \in CPUs, NEW d \in CPUs, c # d
  PROVE  cur[d] # cur[c] /\ cur[d] # c
BY SpinAssumption, SMTT(60) DEF RunsOnce

\* A CPU's locks can be counted.
LEMMA Countable ==
  \A c : IsFiniteSet(LocksOf(c)) /\ Count(c) \in Nat
BY SpinAssumption, FS_Subset, FS_CardinalityType DEF AllLocks, Count, LocksOf

\* Only own() and release() change the locks a CPU has.
LEMMA CountSame ==
  ASSUME cpu' = cpu PROVE \A d : Count(d)' = Count(d)
BY DEF Count, LocksOf

\* own() gives a CPU one lock more.
LEMMA CountOwn ==
  ASSUME TypeOK, NEW c \in CPUs, NEW l \in AllLocks, cpu[l] = NoCpu, cpu' = [cpu EXCEPT ![l] = c]
  PROVE  Count(c)' = Count(c) + 1 /\ \A d \in CPUs \ {c} : Count(d)' = Count(d)
<1>1. LocksOf(c)' = LocksOf(c) \cup {l} /\ l \notin LocksOf(c)
  BY SpinAssumption DEF TypeOK, LocksOf
<1>2. \A d \in CPUs \ {c} : LocksOf(d)' = LocksOf(d)
  BY SpinAssumption DEF TypeOK, LocksOf
<1>3. Cardinality(LocksOf(c) \cup {l}) = Cardinality(LocksOf(c)) + 1
  BY <1>1, Countable, FS_AddElement
<1> QED BY <1>1, <1>2, <1>3 DEF Count

\* release() takes one from it.
LEMMA CountRelease ==
  ASSUME TypeOK, NEW c \in CPUs, NEW l \in AllLocks, cpu[l] = c, cpu' = [cpu EXCEPT ![l] = NoCpu]
  PROVE  Count(c)' = Count(c) - 1 /\ \A d \in CPUs \ {c} : Count(d)' = Count(d)
<1>1. LocksOf(c)' = LocksOf(c) \ {l} /\ l \in LocksOf(c)
  BY SpinAssumption DEF TypeOK, LocksOf
<1>2. \A d \in CPUs \ {c} : LocksOf(d)' = LocksOf(d)
  BY SpinAssumption DEF TypeOK, LocksOf
<1>3. Cardinality(LocksOf(c) \ {l}) = Cardinality(LocksOf(c)) - 1
  BY <1>1, Countable, FS_RemoveElement
<1> QED BY <1>1, <1>2, <1>3 DEF Count

\* A CPU with no lock counts none, and one with a lock at least one.
LEMMA CountSome ==
  ASSUME NEW c
  PROVE  /\ LocksOf(c) = {} <=> Count(c) = 0
         /\ \A l : LocksOf(c) = {l} => Count(c) = 1
BY Countable, FS_EmptySet, FS_Singleton DEF Count

\* At boot every CPU is in its scheduler and no lock is held.
LEMMA InitIInv == Init => IInv
<1> SUFFICES ASSUME Init PROVE IInv
  OBVIOUS
<1> USE SpinAssumption DEF Init, AllLocks, Contexts
<1>0. (CHOOSE l \in Locks : TRUE) \in Locks
  OBVIOUS
<1>1. TypeOK
  BY <1>0 DEF TypeOK, PC
<1>2. NoPanic
  BY DEF NoPanic
<1>3. RunsOnce
  BY DEF RunsOnce
<1>4. LockWord
  BY DEF LockWord, Window
<1>5. ASSUME NEW c \in CPUs PROVE NoffExact(c) /\ Place(c) /\ Owned(c) /\ Enabled(c)
  <2>1. LocksOf(c) = {}
    BY DEF LocksOf
  <2>2. NoffExact(c)
    BY <2>1, CountSome, SMTT(60) DEF NoffExact, InLock
  <2>3. Place(c) /\ Owned(c)
    BY DEF Place, Owned, Where, InLock
  <2>4. Enabled(c)
    BY DEF Enabled, Where, InLock, At
  <2> QED BY <2>2, <2>3, <2>4
<1>6. \A t \in Threads : Kept(t)
  BY DEF Kept, InLock
<1> QED BY <1>1, <1>2, <1>3, <1>4, <1>5, <1>6 DEF IInv

-----------------------------------------------------------------------------
(* One step of one CPU.                                                    *)

\* A step of CPU c leaves other CPUs, and contexts other than c's, as they are.
Others(c) ==
  /\ \A x \in Contexts \ {cur[c]} :
       pc'[x] = pc[x] /\ lk'[x] = lk[x] /\ ret'[x] = ret[x] /\ trap'[x] = trap[x]
  /\ \A t \in Threads \ {cur[c]} : saved'[t] = saved[t]
  /\ \A d \in CPUs \ {c} :
       /\ cur'[d] = cur[d] /\ noff'[d] = noff[d] /\ intena'[d] = intena[d] /\ sie'[d] = sie[d]
       /\ \A l \in AllLocks : cpu'[l] = d <=> cpu[l] = d

\* The part of the invariant that is about CPU c and the context it ran.
Keeps(c) ==
  /\ pc'[cur[c]] # "panic"
  /\ NoffExact(c)' /\ Place(c)' /\ Owned(c)' /\ Enabled(c)'
  /\ \A t \in Threads : t = cur[c] => Kept(t)'

\* What other CPUs see of the step.
LEMMA Untouched ==
  ASSUME IInv, NEW c \in CPUs, Others(c), NEW d \in CPUs, d # c
  PROVE  /\ cur'[d] = cur[d] /\ cur[d] \in Contexts \ {cur[c]}
         /\ pc'[cur[d]] = pc[cur[d]] /\ pc'[d] = pc[d] /\ lk'[cur[d]] = lk[cur[d]] /\ lk'[d] = lk[d]
         /\ ret'[cur[d]] = ret[cur[d]] /\ trap'[cur[d]] = trap[cur[d]]
         /\ noff'[d] = noff[d] /\ intena'[d] = intena[d] /\ sie'[d] = sie[d]
         /\ Where(d)' = Where(d) /\ Count(d)' = Count(d)
         /\ \A l : Window(d, l)' <=> Window(d, l)
<1>1. cur[d] \in Contexts \ {cur[c]} /\ d \in Contexts \ {cur[c]}
  BY SpinAssumption, Apart DEF IInv, TypeOK, Contexts
<1>2. LocksOf(d)' = LocksOf(d)
  BY DEF Others, LocksOf
<1>3. /\ cur'[d] = cur[d] /\ noff'[d] = noff[d] /\ intena'[d] = intena[d] /\ sie'[d] = sie[d]
      /\ pc'[cur[d]] = pc[cur[d]] /\ pc'[d] = pc[d] /\ lk'[cur[d]] = lk[cur[d]] /\ lk'[d] = lk[d]
      /\ ret'[cur[d]] = ret[cur[d]] /\ trap'[cur[d]] = trap[cur[d]]
  BY <1>1 DEF Others
<1> QED BY <1>1, <1>2, <1>3 DEF Where, Count, Window

\* A step that keeps CPU c's part keeps the invariant.
LEMMA Compose ==
  ASSUME IInv, NEW c \in CPUs, Others(c), Keeps(c), TypeOK', RunsOnce', LockWord'
  PROVE  IInv'
<1>1. NoPanic'
  BY DEF IInv, NoPanic, Others, Keeps
<1>2. ASSUME NEW d \in CPUs PROVE (NoffExact(d) /\ Place(d) /\ Owned(d) /\ Enabled(d))'
  <2>1. CASE d = c
    BY <2>1 DEF Keeps
  <2>2. CASE d # c
    <3>1. NoffExact(d)'
      BY <2>2, Untouched, SMTT(60) DEF IInv, NoffExact
    <3>2. Place(d)'
      BY <2>2, Untouched, SMTT(60) DEF IInv, Place
    <3>3. Owned(d)'
      <4>1. \A l \in AllLocks : cpu'[l] = d <=> cpu[l] = d
        BY <2>2 DEF Others
      <4> QED BY <2>2, <4>1, Untouched, SMTT(60) DEF IInv, Owned, AllLocks
    <3>4. Enabled(d)'
      BY <2>2, Untouched, SMTT(60) DEF IInv, Enabled, At
    <3> QED BY <3>1, <3>2, <3>3, <3>4
  <2> QED BY <2>1, <2>2
<1>3. ASSUME NEW t \in Threads PROVE Kept(t)'
  <2>1. CASE t = cur[c]
    BY <2>1 DEF Keeps
  <2>2. CASE t # cur[c]
    BY <2>2, SMTT(60) DEF IInv, Kept, Others, Contexts
  <2> QED BY <2>1, <2>2
<1> QED BY <1>1, <1>2, <1>3 DEF IInv

\* Without a context switch, each thread stays where it runs.
LEMMA Stays ==
  ASSUME IInv, NEW c \in CPUs, Others(c), cur' = cur, state' = state
  PROVE  RunsOnce'
<1>1. ASSUME NEW d \in CPUs, cur[d] # d PROVE pc'[d] = pc[d] /\ lk'[d] = lk[d]
  <2>1. cur[c] # d
    BY <1>1, SpinAssumption, SMTT(60) DEF IInv, RunsOnce
  <2> QED BY <2>1 DEF Others, Contexts
<1>2. \A t \in Threads : (\A d \in CPUs : cur[d] # t) => pc'[t] = pc[t]
  BY DEF Others, Contexts
<1> QED BY <1>1, <1>2 DEF IInv, RunsOnce

\* A step that touches no lock, and ends outside both windows.
LEMMA Quiet ==
  ASSUME IInv, NEW c \in CPUs, Others(c), locked' = locked, cpu' = cpu,
         \A l \in AllLocks : ~ Window(c, l)'
  PROVE  LockWord'
<1>1. \A d \in CPUs, l \in AllLocks : Window(d, l)' => d # c /\ Window(d, l)
  BY Untouched
<1> QED BY <1>1 DEF IInv, LockWord

\* The context a CPU runs, and its registers.
LEMMA Typed ==
  ASSUME IInv, NEW c \in CPUs
  PROVE  /\ cur[c] \in Contexts /\ (cur[c] = c \/ cur[c] \in Threads) /\ c \notin Threads
         /\ lk[cur[c]] \in AllLocks /\ pc[cur[c]] \in PC \ {"panic"} /\ ret[cur[c]] \in PC
         /\ noff[c] \in Nat /\ Count(c) \in Nat
         /\ NoffExact(c) /\ Place(c) /\ Owned(c) /\ Enabled(c)
BY SpinAssumption, Countable DEF IInv, TypeOK, NoPanic, RunsOnce, Contexts

-----------------------------------------------------------------------------
(* spinlock.c.                                                             *)

\* An exchange that finds 0 makes the lock this CPU's to own.
LEMMA SwapKeeps ==
  ASSUME IInv, NEW c \in CPUs, swap(c), ~ locked[lk[cur[c]]]
  PROVE  IInv'
<1>1. /\ pc' = [pc EXCEPT ![cur[c]] = "own"] /\ locked' = [locked EXCEPT ![lk[cur[c]]] = TRUE]
      /\ UNCHANGED <<cpu, noff, intena, sie, cur, state, lk, ret, trap, saved>> /\ pc[cur[c]] = "swap"
  BY DEF swap, Goto, At
<1>2. TypeOK'
  BY <1>1, Typed DEF IInv, TypeOK, PC
<1>3. Others(c)
  BY <1>1 DEF IInv, TypeOK, Others
<1>4. LockWord'
  <2>1. \A d \in CPUs, l \in AllLocks : Window(d, l)' => (d = c /\ l = lk[cur[c]]) \/ (d # c /\ Window(d, l))
    BY <1>1, <1>3, Untouched DEF Window
  <2>2. \A l \in AllLocks : locked'[l] <=> locked[l] \/ l = lk[cur[c]]
    BY <1>1 DEF IInv, TypeOK
  <2> QED BY <1>1, <2>1, <2>2, SMTT(60) DEF IInv, LockWord
<1>5. pc'[cur[c]] = "own"
  BY <1>1, Typed DEF IInv, TypeOK
<1>6. Keeps(c)
  <2>1. NoffExact(c)'
    BY <1>1, <1>5, Typed, CountSame DEF NoffExact, InLock
  <2>2. Where(c)' = Where(c)
    BY <1>1, <1>5 DEF Where, InLock
  <2>3. Place(c)'
    BY <1>1, <1>5, <2>2, Typed DEF Place
  <2>4. Owned(c)'
    BY <1>1, <1>5, <2>2, Typed, SMTT(60) DEF Owned
  <2>5. Enabled(c)'
    BY <1>1, <1>5, <2>2, Typed DEF Enabled, At
  <2>6. \A t \in Threads : t = cur[c] => Kept(t)'
    BY <1>1, <1>5 DEF IInv, Kept, InLock
  <2> QED BY <1>5, <2>1, <2>3, <2>4, <2>5, <2>6 DEF Keeps
<1> QED BY <1>1, <1>2, <1>3, <1>4, <1>6, Compose, Stays

\* The store of lk->cpu: the CPU has one lock more, and leaves the window.
LEMMA OwnKeeps ==
  ASSUME IInv, NEW c \in CPUs, own(c)
  PROVE  IInv'
<1>1. /\ pc' = [pc EXCEPT ![cur[c]] = ret[cur[c]]] /\ cpu' = [cpu EXCEPT ![lk[cur[c]]] = c]
      /\ UNCHANGED <<locked, noff, intena, sie, cur, state, lk, ret, trap, saved>> /\ pc[cur[c]] = "own"
  BY DEF own, Goto, At
<1>2. TypeOK'
  BY <1>1, Typed DEF IInv, TypeOK
<1>3. /\ pc'[cur[c]] = ret[cur[c]] /\ ret[cur[c]] \in {"run", "sched", "check"} /\ Window(c, lk[cur[c]])
      /\ \A l \in AllLocks : cpu'[l] = IF l = lk[cur[c]] THEN c ELSE cpu[l]
  BY <1>1, Typed DEF IInv, TypeOK, Place, Window
<1>4. cpu[lk[cur[c]]] = NoCpu /\ locked[lk[cur[c]]]
  BY <1>3, Typed DEF IInv, LockWord
<1>5. Others(c)
  BY <1>1, <1>3, <1>4, SpinAssumption DEF IInv, TypeOK, Others
<1>6. LockWord'
  <2>1. \A d \in CPUs, l \in AllLocks : Window(d, l)' => d # c /\ Window(d, l)
    BY <1>1, <1>3, <1>5, Untouched DEF Window
  <2> QED BY <1>1, <1>3, <1>4, <2>1, SMTT(60) DEF IInv, LockWord
<1>7. Keeps(c)
  <2>1. NoffExact(c)'
    <3>1. Count(c)' = Count(c) + 1
      BY <1>1, <1>4, Typed, CountOwn DEF IInv
    <3> QED BY <1>1, <1>3, <3>1, Typed, SMTT(60) DEF NoffExact, InLock
  <2>2. Where(c)' = Where(c) /\ Where(c) = ret[cur[c]]
    BY <1>1, <1>3 DEF Where, InLock
  <2>3. Place(c)'
    BY <1>1, <1>3, <2>2, Typed DEF Place
  <2>4. Owned(c)'
    <3>1. \A t \in Threads : cpu[t] # c
      BY <1>1, Typed, SMTT(60) DEF Owned
    <3>2. CASE ret[cur[c]] = "run"
      <4>1. lk[cur[c]] \in Locks
        BY <1>1, <3>2, Typed DEF Place
      <4> QED BY <1>1, <1>3, <2>2, <3>1, <3>2, <4>1, Typed, SpinAssumption, SMTT(60) DEF Owned, AllLocks
    <3>3. CASE ret[cur[c]] = "sched"
      <4>1. lk[cur[c]] = cur[c] /\ cur[c] # c
        BY <1>1, <2>2, <3>3, Typed DEF Place
      <4>2. \A l \in Locks : cpu'[l] # c
        BY <1>3, <2>2, <3>3, <4>1, Typed, SpinAssumption, SMTT(60) DEF Owned, AllLocks
      <4>3. \A t \in Threads : cpu'[t] = c <=> t = cur[c]
        BY <1>3, <3>1, <4>1 DEF AllLocks
      <4> QED BY <1>1, <1>3, <3>3, <4>1, <4>2, <4>3, Typed DEF Owned
    <3>4. CASE ret[cur[c]] = "check"
      <4>1. cur[c] = c /\ lk[c] \in Threads
        BY <1>1, <2>2, <3>4, Typed DEF Place
      <4>2. \A l \in Locks : cpu'[l] # c
        BY <1>3, <2>2, <3>4, <4>1, Typed, SpinAssumption, SMTT(60) DEF Owned, AllLocks
      <4>3. \A t \in Threads : cpu'[t] = c <=> t = lk[c]
        BY <1>3, <3>1, <4>1 DEF AllLocks
      <4> QED BY <1>1, <1>3, <3>4, <4>1, <4>2, <4>3, Typed DEF Owned
    <3> QED BY <1>3, <3>2, <3>3, <3>4
  <2>5. Enabled(c)'
    BY <1>1, <1>3, <2>2, Typed, SMTT(60) DEF Enabled, NoffExact, InLock, At
  <2>6. \A t \in Threads : t = cur[c] => Kept(t)'
    BY <1>1, <1>3 DEF Kept, InLock
  <2> QED BY <1>3, <2>1, <2>3, <2>4, <2>5, <2>6 DEF Keeps
<1> QED BY <1>1, <1>2, <1>5, <1>6, <1>7, Compose, Stays

\* The store of lk->locked in release().
LEMMA ClearKeeps ==
  ASSUME IInv, NEW c \in CPUs, clear(c)
  PROVE  IInv'
<1>1. /\ pc' = [pc EXCEPT ![cur[c]] = "pop"] /\ locked' = [locked EXCEPT ![lk[cur[c]]] = FALSE]
      /\ UNCHANGED <<cpu, noff, intena, sie, cur, state, lk, ret, trap, saved>> /\ pc[cur[c]] = "clear"
  BY DEF clear, Goto, At
<1>2. TypeOK'
  BY <1>1, Typed DEF IInv, TypeOK, PC
<1>3. Others(c)
  BY <1>1 DEF IInv, TypeOK, Others
<1>4. pc'[cur[c]] = "pop" /\ Window(c, lk[cur[c]])
  BY <1>1, Typed DEF IInv, TypeOK, Window
<1>5. LockWord'
  <2>1. \A d \in CPUs, l \in AllLocks : Window(d, l)' => d # c /\ Window(d, l)
    BY <1>1, <1>3, <1>4, Untouched DEF Window
  <2>2. \A l \in AllLocks : locked'[l] <=> locked[l] /\ l # lk[cur[c]]
    BY <1>1 DEF IInv, TypeOK
  <2> QED BY <1>1, <1>4, <2>1, <2>2, Typed, SMTT(60) DEF IInv, LockWord
<1>6. Keeps(c)
  <2>1. NoffExact(c)'
    BY <1>1, <1>4, Typed, CountSame DEF NoffExact, InLock
  <2>2. Where(c)' = Where(c)
    BY <1>1, <1>4 DEF Where, InLock
  <2>3. Place(c)'
    BY <1>1, <1>4, <2>2, Typed DEF Place
  <2>4. Owned(c)'
    BY <1>1, <1>4, <2>2, Typed, SMTT(60) DEF Owned
  <2>5. Enabled(c)'
    BY <1>1, <1>4, <2>2, Typed DEF Enabled, At
  <2>6. \A t \in Threads : t = cur[c] => Kept(t)'
    BY <1>1, <1>4 DEF IInv, Kept, InLock
  <2> QED BY <1>4, <2>1, <2>3, <2>4, <2>5, <2>6 DEF Keeps
<1> QED BY <1>1, <1>2, <1>3, <1>5, <1>6, Compose, Stays

\* pop_off() finds interrupts off and noff positive, and turns interrupts on
\* again only where the context had them on.
LEMMA PopKeeps ==
  ASSUME IInv, NEW c \in CPUs, pop_off(c)
  PROVE  IInv'
<1>0. pc[cur[c]] = "pop" /\ ~ sie[c] /\ noff[c] = Count(c) + 1 /\ ret[cur[c]] \in {"run", "user", "scan"}
  BY Typed DEF pop_off, At, NoffExact, InLock, Enabled, Place
<1>1. /\ pc' = [pc EXCEPT ![cur[c]] = ret[cur[c]]] /\ noff' = [noff EXCEPT ![c] = noff[c] - 1]
      /\ sie' = [sie EXCEPT ![c] = noff'[c] = 0 /\ intena[c]]
      /\ UNCHANGED <<locked, cpu, intena, cur, state, lk, ret, trap, saved>>
  BY <1>0, Typed, SMTT(60) DEF pop_off, Goto, At
<1>2. /\ pc'[cur[c]] = ret[cur[c]] /\ noff'[c] = Count(c) /\ sie'[c] = (Count(c) = 0 /\ intena[c])
      /\ noff[c] # 0 /\ Count(c) \in Nat
  BY <1>0, <1>1, Typed, SMTT(60) DEF IInv, TypeOK
<1>3. TypeOK'
  <2>1. noff' \in [CPUs -> Nat] /\ sie' \in [CPUs -> BOOLEAN]
    BY <1>0, <1>1, Typed, SMTT(60) DEF IInv, TypeOK
  <2> QED BY <1>1, <2>1, Typed DEF IInv, TypeOK
<1>4. Others(c)
  BY <1>1 DEF IInv, TypeOK, Others
<1>5. LockWord'
  BY <1>0, <1>1, <1>2, <1>4, Quiet DEF Window
<1>6. Keeps(c)
  <2>1. NoffExact(c)'
    BY <1>0, <1>1, <1>2, Typed, CountSame, SMTT(60) DEF NoffExact, InLock
  <2>2. Where(c)' = Where(c) /\ Where(c) = ret[cur[c]]
    BY <1>0, <1>1, <1>2 DEF Where, InLock
  <2>3. Place(c)'
    BY <1>0, <1>1, <1>2, <2>2, Typed DEF Place
  <2>4. Owned(c)'
    BY <1>0, <1>1, <1>2, <2>2, Typed, SMTT(60) DEF Owned
  <2>5. Enabled(c)'
    BY <1>0, <1>1, <1>2, <2>2, Typed DEF Enabled, At
  <2>6. \A t \in Threads : t = cur[c] => Kept(t)'
    BY <1>0, <1>1, <1>2 DEF IInv, Kept, InLock
  <2> QED BY <1>0, <1>2, <2>1, <2>3, <2>4, <2>5, <2>6 DEF Keeps
<1> QED BY <1>1, <1>3, <1>4, <1>5, <1>6, Compose, Stays

\* acquire() of a lock the CPU does not hold, by code that runs, by sched()'s
\* caller or by the scheduler, ends at the exchange with interrupts off.
LEMMA AcquireKeeps ==
  ASSUME IInv, NEW c \in CPUs, NEW l \in AllLocks, NEW r, cpu[l] # c, acquire(c, l, r),
         UNCHANGED <<cur, state, trap, saved>>,
         \/ At(c, "run") /\ r = "run" /\ l \in Locks
         \/ At(c, "run") /\ r = "sched" /\ l = cur[c] /\ l \in Threads /\ Held(c) = {}
         \/ At(c, "scan") /\ r = "check" /\ l \in Threads
  PROVE  IInv'
<1>0. pc[cur[c]] \in {"run", "scan"} /\ r \in {"run", "sched", "check"} /\ Where(c) = pc[cur[c]]
  BY DEF At, Where, InLock
<1>1. /\ pc' = [pc EXCEPT ![cur[c]] = "swap"] /\ lk' = [lk EXCEPT ![cur[c]] = l]
      /\ ret' = [ret EXCEPT ![cur[c]] = r] /\ noff' = [noff EXCEPT ![c] = noff[c] + 1]
      /\ intena' = [intena EXCEPT ![c] = IF noff[c] = 0 THEN sie[c] ELSE intena[c]]
      /\ sie' = [sie EXCEPT ![c] = FALSE] /\ UNCHANGED <<locked, cpu, cur, state, trap, saved>>
  BY DEF acquire, push_off, Goto, holding
<1>2. /\ pc'[cur[c]] = "swap" /\ lk'[cur[c]] = l /\ ret'[cur[c]] = r /\ noff'[c] = noff[c] + 1
      /\ intena'[c] = (IF noff[c] = 0 THEN sie[c] ELSE intena[c]) /\ ~ sie'[c]
  BY <1>1, Typed DEF IInv, TypeOK
<1>3. TypeOK'
  <2>1. pc' \in [Contexts -> PC] /\ lk' \in [Contexts -> AllLocks] /\ ret' \in [Contexts -> PC]
    BY <1>0, <1>1 DEF IInv, TypeOK, PC
  <2>2. noff' \in [CPUs -> Nat] /\ intena' \in [CPUs -> BOOLEAN] /\ sie' \in [CPUs -> BOOLEAN]
    BY <1>1, SMTT(60) DEF IInv, TypeOK
  <2> QED BY <1>1, <2>1, <2>2 DEF IInv, TypeOK
<1>4. Others(c)
  BY <1>1 DEF IInv, TypeOK, Others
<1>5. LockWord'
  BY <1>1, <1>2, <1>4, Quiet DEF Window
<1>6. Keeps(c)
  <2>1. NoffExact(c)'
    BY <1>0, <1>1, <1>2, Typed, CountSame, SMTT(60) DEF NoffExact, InLock
  <2>2. Where(c)' = r
    BY <1>1, <1>2 DEF Where, InLock
  <2>3. Place(c)'
    BY <1>0, <1>1, <1>2, <2>2, Typed DEF Place, At
  <2>4. Owned(c)'
    <3>1. \A k \in Locks : cpu[k] = c => r = "run"
      BY <1>0, Typed DEF Owned, Held, At
    <3>2. \A t \in Threads : cpu[t] # c
      BY <1>0, Typed DEF Owned
    <3> QED BY <1>1, <1>2, <2>2, <3>1, <3>2 DEF Owned
  <2>5. Enabled(c)'
    <3>1. noff'[c] # 0
      BY <1>2, Typed, SMTT(60)
    <3>2. r \in {"run", "sched"} => (intena'[c] <=> ~ trap[cur[c]])
      BY <1>0, <1>2, Typed DEF Enabled, At
    <3>3. r = "check" => ~ intena'[c]
      BY <1>0, <1>2, Typed DEF Enabled, At
    <3> QED BY <1>0, <1>1, <1>2, <2>2, <3>1, <3>2, <3>3 DEF Enabled, At
  <2>6. \A t \in Threads : t = cur[c] => Kept(t)'
    BY <1>0, <1>1, <1>2 DEF Kept, InLock
  <2> QED BY <1>2, <2>1, <2>3, <2>4, <2>5, <2>6 DEF Keeps
<1> QED BY <1>1, <1>3, <1>4, <1>5, <1>6, Compose, Stays

\* The places release() is called from, and what sched() and scheduler() have
\* stored in intena before it.
Releases(c, l, r) ==
  \/ At(c, "run") /\ l \in Locks /\ r = "run" /\ intena' = intena
  \/ At(c, "resume") /\ l = cur[c] /\ r = "run" /\ intena' = [intena EXCEPT ![c] = saved[l]]
  \/ At(c, "forkret") /\ l = cur[c] /\ r = "user" /\ intena' = intena
  \/ At(c, "back") /\ l = lk[c] /\ r = "scan" /\ intena' = [intena EXCEPT ![c] = FALSE]
  \/ At(c, "check") /\ l = lk[c] /\ r = "scan" /\ intena' = intena

\* release() finds the lock held, and ends before the store of lk->locked.
LEMMA ReleaseKeeps ==
  ASSUME IInv, NEW c \in CPUs, NEW l, NEW r, Releases(c, l, r), l \in Locks => cpu[l] = c,
         release(c, l, r), UNCHANGED <<cur, state, trap, saved>>
  PROVE  IInv'
<1>0. /\ pc[cur[c]] \in {"run", "resume", "forkret", "back", "check"} /\ r \in {"run", "user", "scan"}
      /\ Where(c) = pc[cur[c]]
  BY DEF Releases, At, Where, InLock
<1>1. /\ pc[cur[c]] \in {"back", "check"} => cur[c] = c /\ lk[c] \in Threads
      /\ pc[cur[c]] \in {"resume", "forkret"} => cur[c] # c /\ cur[c] \in Threads
  BY <1>0, Typed DEF Place
<1>2. l \in AllLocks /\ cpu[l] = c /\ locked[l]
  <2>1. l \in AllLocks /\ cpu[l] = c
    BY <1>0, <1>1, Typed, SMTT(60) DEF Releases, At, Owned, AllLocks
  <2> QED BY <2>1, SpinAssumption DEF IInv, LockWord
<1>3. /\ pc' = [pc EXCEPT ![cur[c]] = "clear"] /\ lk' = [lk EXCEPT ![cur[c]] = l]
      /\ ret' = [ret EXCEPT ![cur[c]] = r] /\ cpu' = [cpu EXCEPT ![l] = NoCpu]
      /\ UNCHANGED <<locked, noff, sie, cur, state, trap, saved>>
  BY <1>2 DEF release, holding, Goto
<1>4. /\ pc'[cur[c]] = "clear" /\ lk'[cur[c]] = l /\ ret'[cur[c]] = r
      /\ \A k \in AllLocks : cpu'[k] = IF k = l THEN NoCpu ELSE cpu[k]
  BY <1>3, Typed DEF IInv, TypeOK
<1>5. /\ intena' \in [CPUs -> BOOLEAN]
      /\ \A d \in CPUs \ {c} : intena'[d] = intena[d]
      /\ pc[cur[c]] \in {"run", "forkret", "check"} => intena'[c] = intena[c]
      /\ pc[cur[c]] = "resume" => intena'[c] = saved[cur[c]]
      /\ pc[cur[c]] = "back" => ~ intena'[c]
  BY <1>1 DEF IInv, TypeOK, Releases, At
<1>6. TypeOK'
  BY <1>0, <1>2, <1>3, <1>5 DEF IInv, TypeOK, PC
<1>7. Others(c)
  BY <1>2, <1>3, <1>4, <1>5, SpinAssumption DEF IInv, TypeOK, Others
<1>8. LockWord'
  <2>1. \A d \in CPUs, k \in AllLocks : Window(d, k)' => (d = c /\ k = l) \/ (d # c /\ Window(d, k))
    BY <1>3, <1>4, <1>7, Untouched, SMTT(60) DEF Window
  <2>2. \A d \in CPUs : ~ Window(d, l)
    BY <1>2, SpinAssumption DEF IInv, LockWord
  <2> QED BY <1>2, <1>3, <1>4, <2>1, <2>2, SMTT(60) DEF IInv, LockWord
<1>9. Count(c)' = Count(c) - 1 /\ noff[c] = Count(c) /\ noff[c] # 0
  <2>1. noff[c] = Count(c)
    BY <1>0, Typed, SMTT(60) DEF NoffExact, InLock
  <2>2. LocksOf(c) # {}
    BY <1>2 DEF LocksOf
  <2> QED BY <1>2, <1>3, <2>1, <2>2, CountRelease, CountSome DEF IInv
<1>10. Keeps(c)
  <2>1. NoffExact(c)'
    BY <1>3, <1>4, <1>9, Typed, SMTT(60) DEF NoffExact, InLock
  <2>2. Where(c)' = r
    BY <1>3, <1>4 DEF Where, InLock
  <2>3. Place(c)'
    BY <1>0, <1>1, <1>3, <1>4, <2>2 DEF Place, Releases, At
  <2>4. Owned(c)'
    <3>1. \A k \in Locks : cpu'[k] = c => r = "run"
      BY <1>0, <1>4, Typed, SpinAssumption, SMTT(60) DEF Owned, AllLocks, Releases, At
    <3>2. \A t \in Threads : cpu'[t] # c
      <4>1. \A t \in Threads : cpu[t] = c => t = l
        BY <1>0, <1>1, Typed, SMTT(60) DEF Owned, Releases, At
      <4> QED BY <1>4, <4>1, SpinAssumption DEF AllLocks
    <3> QED BY <1>3, <1>4, <2>2, <3>1, <3>2 DEF Owned
  <2>5. Enabled(c)'
    <3>1. ~ sie[c]
      BY <1>9, Typed DEF Enabled
    <3>2. r = "run" => (intena'[c] <=> ~ trap[cur[c]])
      BY <1>0, <1>1, <1>5, <1>9, Typed DEF IInv, Releases, At, Enabled, Kept
    <3>3. r \in {"scan", "user"} => ~ intena'[c]
      BY <1>0, <1>5, <1>9, Typed DEF Releases, At, Enabled
    <3> QED BY <1>0, <1>3, <1>4, <1>9, <2>2, <3>1, <3>2, <3>3 DEF Enabled, At
  <2>6. \A t \in Threads : t = cur[c] => Kept(t)'
    BY <1>0, <1>3, <1>4 DEF IInv, Kept, InLock, Releases, At
  <2> QED BY <1>4, <2>1, <2>3, <2>4, <2>5, <2>6 DEF Keeps
<1> QED BY <1>3, <1>6, <1>7, <1>8, <1>10, Compose, Stays

-----------------------------------------------------------------------------
(* Interrupts, and the scheduler's loop.                                   *)

\* A step that changes where c is, its interrupt bit and its trap flag, and
\* touches no lock.
LEMMA MoveKeeps ==
  ASSUME IInv, NEW c \in CPUs, NEW label, NEW on \in BOOLEAN, NEW tr \in BOOLEAN,
         pc' = [pc EXCEPT ![cur[c]] = label], sie' = [sie EXCEPT ![c] = on],
         trap' = [trap EXCEPT ![cur[c]] = tr],
         UNCHANGED <<locked, cpu, noff, intena, cur, state, lk, ret, saved>>,
         noff[c] = 0, LocksOf(c) = {}, label \in {"run", "on", "off", "scan"},
         cur[c] = c \/ label = "run", on => label \in {"run", "off"},
         label = "run" => on = ~ tr
  PROVE  IInv'
<1>1. pc'[cur[c]] = label /\ sie'[c] = on /\ trap'[cur[c]] = tr
  BY Typed DEF IInv, TypeOK
<1>2. TypeOK'
  BY DEF IInv, TypeOK, PC
<1>3. Others(c)
  BY DEF IInv, TypeOK, Others
<1>4. LockWord'
  BY <1>1, <1>3, Quiet DEF Window
<1>5. Keeps(c)
  <2>1. NoffExact(c)'
    BY <1>1, CountSome, CountSame, SMTT(60) DEF NoffExact, InLock
  <2>2. Where(c)' = label
    BY <1>1 DEF Where, InLock
  <2>3. Place(c)'
    BY <1>1, <2>2, Typed DEF Place
  <2>4. Owned(c)'
    BY <1>1, <2>2 DEF Owned, LocksOf, AllLocks
  <2>5. Enabled(c)'
    BY <1>1, <2>2 DEF Enabled, At
  <2>6. \A t \in Threads : t = cur[c] => Kept(t)'
    BY <1>1 DEF Kept, InLock
  <2> QED BY <1>1, <2>1, <2>3, <2>4, <2>5, <2>6 DEF Keeps
<1> QED BY <1>2, <1>3, <1>4, <1>5, Compose, Stays

\* A CPU outside critical sections, acquire() and release() has no locks.
LEMMA NoLocks ==
  ASSUME IInv, NEW c \in CPUs, pc[cur[c]] \in {"run", "user", "on", "off", "scan"},
         noff[c] = 0 \/ Held(c) = {} \/ pc[cur[c]] # "run"
  PROVE  noff[c] = 0 /\ LocksOf(c) = {}
<1>1. noff[c] = Count(c)
  BY Typed, SMTT(60) DEF NoffExact, InLock
<1>2. noff[c] # 0 => LocksOf(c) = {}
  <2>1. Where(c) = pc[cur[c]]
    BY DEF Where, InLock
  <2>2. \A t \in Threads : cpu[t] # c
    BY Typed, SMTT(60) DEF Owned
  <2> QED BY <2>1, <2>2, Typed, SMTT(60) DEF Owned, Held, LocksOf, AllLocks
<1> QED BY <1>1, <1>2, CountSome

\* An interrupt is taken where interrupts are on.
LEMMA InterruptKeeps ==
  ASSUME IInv, NEW c \in CPUs, Interrupt(c)
  PROVE  IInv'
<1>1. noff[c] = 0 /\ pc[cur[c]] \in {"run", "off"}
  BY Typed DEF Interrupt, Enabled
<1>2. LocksOf(c) = {}
  BY <1>1, NoLocks
<1> QED BY <1>1, <1>2, MoveKeeps DEF Interrupt, Goto

\* It returns with its locks released, and interrupts on as they were.
LEMMA InterruptReturnKeeps ==
  ASSUME IInv, NEW c \in CPUs, InterruptReturn(c)
  PROVE  IInv'
<1>1. noff[c] = 0 /\ LocksOf(c) = {}
  BY NoLocks DEF InterruptReturn, At
<1> DEFINE label == IF cur[c] = c THEN "off" ELSE "run"
<1>2. label \in {"run", "off"} /\ (cur[c] = c \/ label = "run")
  OBVIOUS
<1> HIDE DEF label
<1>3. pc' = [pc EXCEPT ![cur[c]] = label]
  BY DEF InterruptReturn, Goto, label
<1> QED BY <1>1, <1>2, <1>3, MoveKeeps DEF InterruptReturn

\* A thread enters the kernel from user space.
LEMMA UserKeeps ==
  ASSUME IInv, NEW c \in CPUs, usertrap(c)
  PROVE  IInv'
<1>1. noff[c] = 0 /\ LocksOf(c) = {}
  BY NoLocks DEF usertrap, At
<1>2. cur[c] \in Threads /\ trap[cur[c]] = FALSE /\ trap = [trap EXCEPT ![cur[c]] = FALSE]
  <2>1. cur[c] \in Threads
    BY Typed DEF usertrap, At, Place, Where, InLock
  <2>2. trap[cur[c]] = FALSE
    BY <2>1, Typed DEF usertrap, At, IInv, Kept, TypeOK
  <2> QED BY <2>1, <2>2 DEF IInv, TypeOK
<1> QED BY <1>1, <1>2, MoveKeeps DEF usertrap, Goto

\* The scheduler turns interrupts on and off between its scans.
LEMMA LoopKeeps ==
  ASSUME IInv, NEW c \in CPUs, scheduler_intr(c)
  PROVE  IInv'
<1>1. noff[c] = 0 /\ LocksOf(c) = {}
  BY NoLocks DEF scheduler_intr, At
<1>2. PICK tr \in BOOLEAN : trap = [trap EXCEPT ![cur[c]] = tr]
  BY Typed, SMTT(60) DEF IInv, TypeOK
<1>3. PICK label \in {"off", "scan", "on"}, on \in BOOLEAN :
        /\ pc' = [pc EXCEPT ![cur[c]] = label] /\ sie' = [sie EXCEPT ![c] = on]
        /\ on => label = "off"
  <2>1. At(c, "scan") => sie = [sie EXCEPT ![c] = FALSE]
    BY Typed DEF At, Enabled, IInv, TypeOK
  <2> QED BY <2>1 DEF scheduler_intr, Goto
<1> QED BY <1>1, <1>2, <1>3, MoveKeeps DEF scheduler_intr

-----------------------------------------------------------------------------
(* The context switches.                                                   *)

\* sched() finds what it checks: its thread's lock held and no other, and
\* interrupts off.  The scheduler gets the lock.
LEMMA SchedKeeps ==
  ASSUME IInv, NEW c \in CPUs, sched(c)
  PROVE  IInv'
<1>1. pc[cur[c]] = "sched" /\ cur[c] \in Threads /\ Where(c) = "sched" /\ cur[c] # c
  BY Typed DEF sched, At, Place, Where, InLock
<1>2. pc[c] = "back" /\ lk[c] = cur[c] /\ (\A t \in Threads : cpu[t] = c <=> t = cur[c])
  BY <1>1, Typed, SMTT(60) DEF IInv, RunsOnce, Owned
<1>3. LocksOf(c) = {cur[c]}
  BY <1>1, <1>2, Typed, SMTT(60) DEF Owned, LocksOf, AllLocks
<1>4. noff[c] = 1 /\ Count(c) = 1 /\ ~ sie[c] /\ locked[cur[c]]
  <2>1. Count(c) = 1
    BY <1>3, CountSome
  <2>2. noff[c] = 1 /\ ~ sie[c]
    BY <1>1, <2>1, Typed, SMTT(60) DEF NoffExact, InLock, Enabled
  <2>3. locked[cur[c]]
    BY <1>1, <1>2, SpinAssumption DEF IInv, LockWord, AllLocks
  <2> QED BY <2>1, <2>2, <2>3
<1>5. /\ state' = [state EXCEPT ![cur[c]] = "RUNNABLE"] /\ saved' = [saved EXCEPT ![cur[c]] = intena[c]]
      /\ cur' = [cur EXCEPT ![c] = c] /\ pc' = [pc EXCEPT ![cur[c]] = "resume"]
      /\ UNCHANGED <<locked, cpu, noff, intena, sie, lk, ret, trap>>
  BY <1>1, <1>2, <1>4 DEF sched, holding
<1>6. /\ cur'[c] = c /\ pc'[c] = "back" /\ pc'[cur[c]] = "resume" /\ saved'[cur[c]] = intena[c]
      /\ state'[cur[c]] = "RUNNABLE"
  BY <1>1, <1>2, <1>5, Typed DEF IInv, TypeOK, Contexts
<1>7. TypeOK'
  BY <1>1, <1>5 DEF IInv, TypeOK, PC, Contexts
<1>8. Others(c)
  BY <1>5 DEF IInv, TypeOK, Others
<1>9. RunsOnce'
  <2>1. \A d \in CPUs : d # c => cur'[d] = cur[d] /\ cur[d] # cur[c] /\ cur[d] # c
                                  /\ pc'[d] = pc[d] /\ lk'[d] = lk[d]
    BY <1>8, Untouched, Apart, SMTT(60) DEF IInv
  <2>2. \A t \in Threads : t # cur[c] => pc'[t] = pc[t] /\ state'[t] = state[t]
    BY <1>5, <1>8 DEF IInv, TypeOK, Others, Contexts
  <2> QED BY <1>1, <1>6, <2>1, <2>2, SpinAssumption, SMTT(60) DEF IInv, RunsOnce
<1>10. LockWord'
  BY <1>5, <1>6, <1>8, Quiet DEF Window
<1>11. Keeps(c)
  <2>1. Where(c)' = "back"
    BY <1>6 DEF Where, InLock
  <2>2. NoffExact(c)'
    BY <1>4, <1>5, <1>6, CountSame, SMTT(60) DEF NoffExact, InLock
  <2>3. Place(c)'
    BY <1>1, <1>2, <1>5, <1>6, <2>1 DEF Place
  <2>4. Owned(c)'
    <3>1. \A l \in Locks : cpu'[l] # c
      BY <1>1, <1>5, Typed DEF Owned
    <3> QED BY <1>1, <1>2, <1>5, <1>6, <3>1, Typed, SMTT(60) DEF Owned
  <2>5. Enabled(c)'
    BY <1>4, <1>5, <1>6, <2>1 DEF Enabled, At
  <2>6. \A t \in Threads : t = cur[c] => Kept(t)'
    BY <1>1, <1>4, <1>5, <1>6, Typed, SMTT(60) DEF Kept, Enabled, InLock
  <2> QED BY <1>6, <2>2, <2>3, <2>4, <2>5, <2>6 DEF Keeps
<1> QED BY <1>7, <1>8, <1>9, <1>10, <1>11, Compose

\* The scheduler's lock becomes that of the thread it switches to.
LEMMA SwitchKeeps ==
  ASSUME IInv, NEW c \in CPUs, scheduler_switch(c)
  PROVE  IInv'
<1>1. pc[c] = "check" /\ cur[c] = c /\ Where(c) = "check" /\ lk[c] \in Threads
  BY Typed DEF scheduler_switch, At, Place, Where, InLock
<1>2. \A t \in Threads : cpu[t] = c <=> t = lk[c]
  BY <1>1, Typed, SMTT(60) DEF Owned
<1>3. LocksOf(c) = {lk[c]}
  BY <1>1, <1>2, Typed, SMTT(60) DEF Owned, LocksOf, AllLocks
<1>4. noff[c] = 1 /\ Count(c) = 1 /\ ~ sie[c] /\ ~ intena[c]
  <2>1. Count(c) = 1
    BY <1>3, CountSome
  <2> QED BY <1>1, <2>1, Typed, SMTT(60) DEF NoffExact, InLock, Enabled
<1>5. /\ state[lk[c]] = "RUNNABLE" /\ pc[lk[c]] \in {"resume", "forkret"}
      /\ \A d \in CPUs : cur[d] # lk[c]
  BY <1>1 DEF scheduler_switch, IInv, RunsOnce
<1>6. /\ state' = [state EXCEPT ![lk[c]] = "RUNNING"] /\ cur' = [cur EXCEPT ![c] = lk[c]]
      /\ pc' = [pc EXCEPT ![c] = "back"]
      /\ UNCHANGED <<locked, cpu, noff, intena, sie, lk, ret, trap, saved>>
  BY <1>1 DEF scheduler_switch, Goto
<1>7. /\ cur'[c] = lk[c] /\ pc'[c] = "back" /\ pc'[lk[c]] = pc[lk[c]] /\ state'[lk[c]] = "RUNNING"
      /\ lk[c] # c
  BY <1>1, <1>6, Typed DEF IInv, TypeOK, Contexts
<1>8. TypeOK'
  BY <1>1, <1>6 DEF IInv, TypeOK, PC, Contexts
<1>9. Others(c)
  BY <1>1, <1>6 DEF IInv, TypeOK, Others
<1>10. RunsOnce'
  <2>1. \A d \in CPUs : d # c => cur'[d] = cur[d] /\ pc'[d] = pc[d] /\ lk'[d] = lk[d]
    BY <1>9, Untouched
  <2>2. \A t \in Threads : pc'[t] = pc[t] /\ (t # lk[c] => state'[t] = state[t])
    BY <1>6, SpinAssumption DEF IInv, TypeOK, Contexts
  <2> QED BY <1>1, <1>5, <1>6, <1>7, <2>1, <2>2, SpinAssumption, SMTT(60) DEF IInv, RunsOnce
<1>11. LockWord'
  BY <1>5, <1>6, <1>7, <1>9, Quiet DEF Window
<1>12. Keeps(c)
  <2>1. Where(c)' = pc[lk[c]]
    BY <1>5, <1>7 DEF Where, InLock
  <2>2. NoffExact(c)'
    BY <1>4, <1>5, <1>6, <1>7, CountSame, SMTT(60) DEF NoffExact, InLock
  <2>3. Place(c)'
    BY <1>5, <1>7, <2>1 DEF Place
  <2>4. Owned(c)'
    <3>1. \A l \in Locks : cpu'[l] # c
      BY <1>1, <1>6, Typed DEF Owned
    <3> QED BY <1>2, <1>5, <1>6, <1>7, <3>1 DEF Owned
  <2>5. Enabled(c)'
    BY <1>4, <1>5, <1>6, <1>7, <2>1 DEF Enabled, At
  <2>6. \A t \in Threads : t # cur[c]
    BY <1>1, Typed
  <2> QED BY <1>1, <1>7, <2>2, <2>3, <2>4, <2>5, <2>6 DEF Keeps
<1> QED BY <1>8, <1>9, <1>10, <1>11, <1>12, Compose

-----------------------------------------------------------------------------
\* Every step preserves the invariant.
LEMMA StepIInv == IInv /\ [Next]_vars => IInv'
<1> SUFFICES ASSUME IInv, [Next]_vars PROVE IInv'
  OBVIOUS
<1>1. ASSUME UNCHANGED vars PROVE IInv'
  <2>1. \A d : Count(d)' = Count(d)
    BY <1>1, CountSame DEF vars
  <2>2. (TypeOK /\ NoPanic /\ RunsOnce)'
    BY <1>1 DEF vars, IInv, TypeOK, NoPanic, RunsOnce
  <2>3. LockWord'
    BY <1>1 DEF vars, IInv, LockWord, Window
  <2>4. ASSUME NEW c \in CPUs PROVE (NoffExact(c) /\ Place(c) /\ Owned(c) /\ Enabled(c))'
    <3>1. Where(c)' = Where(c)
      BY <1>1 DEF vars, Where
    <3>2. NoffExact(c)'
      BY <1>1, <2>1, Typed DEF vars, NoffExact
    <3>3. Place(c)'
      BY <1>1, <3>1, Typed DEF vars, Place
    <3>4. Owned(c)'
      <4>1. Owned(c) /\ UNCHANGED <<cpu, cur, pc, lk>>
        BY <1>1, Typed DEF vars
      <4> QED BY ONLY <3>1, <4>1, SMTT(60) DEF Owned
    <3>5. Enabled(c)'
      BY <1>1, <3>1, Typed DEF vars, Enabled, At
    <3> QED BY <3>2, <3>3, <3>4, <3>5
  <2>5. \A t \in Threads : Kept(t)'
    BY <1>1 DEF vars, IInv, Kept
  <2> QED BY <2>2, <2>3, <2>4, <2>5 DEF IInv
<1>2. ASSUME NEW c \in CPUs, Spinlock(c) PROVE IInv'
  <2>1. CASE swap(c)
    BY <1>1, <2>1, SwapKeeps DEF swap
  <2> QED BY <1>2, <2>1, OwnKeeps, ClearKeeps, PopKeeps DEF Spinlock
<1>3. ASSUME NEW c \in CPUs, Switches(c) PROVE IInv'
  <2>1. CASE resume(c) \/ forkret(c)
    <3>1. cur[c] \notin Locks
      BY <2>1, Typed, SpinAssumption DEF resume, forkret, At, Place, Where, InLock
    <3> QED BY <2>1, <3>1, ReleaseKeeps DEF resume, forkret, Releases
  <2>2. CASE scheduler_release(c)
    <3>1. lk[c] \notin Locks
      BY <2>2, Typed, SpinAssumption DEF scheduler_release, At, Place, Where, InLock
    <3> QED BY <2>2, <3>1, ReleaseKeeps DEF scheduler_release, Releases
  <2> QED BY <1>3, <2>1, <2>2, SchedKeeps, UserKeeps, LoopKeeps, SwitchKeeps DEF Switches
<1>4. ASSUME NEW c \in CPUs, yield(c) PROVE IInv'
  <2>1. cpu[cur[c]] # c /\ cur[c] \in AllLocks
    <3>1. cur[c] \in Threads /\ pc[cur[c]] = "run"
      BY <1>4 DEF yield, At
    <3>2. Owned(c) /\ c \notin Threads
      BY Typed
    <3> QED BY <3>1, <3>2 DEF Owned, AllLocks
  <2> QED BY <1>4, <2>1, AcquireKeeps DEF yield
<1>5. ASSUME NEW c \in CPUs, NEW t \in Threads, scheduler_acquire(c, t) PROVE IInv'
  <2>1. cpu[t] # c /\ t \in AllLocks
    <3>1. pc[cur[c]] = "scan"
      BY <1>5 DEF scheduler_acquire, At
    <3>2. Owned(c)
      BY Typed
    <3> QED BY <3>1, <3>2 DEF Owned, AllLocks
  <2> QED BY <1>5, <2>1, AcquireKeeps DEF scheduler_acquire
<1>6. ASSUME NEW c \in CPUs, NEW l \in Locks, TakeLock(c, l) PROVE IInv'
  <2>1. cpu[l] # c /\ l \in AllLocks
    BY <1>6, SpinAssumption, SMTT(60) DEF TakeLock, Held, AllLocks
  <2> QED BY <1>6, <2>1, AcquireKeeps DEF TakeLock
<1>7. ASSUME NEW c \in CPUs, NEW l \in Locks, DropLock(c, l) PROVE IInv'
  BY <1>7, ReleaseKeeps DEF DropLock, Releases, Held
<1> QED BY <1>1, <1>2, <1>3, <1>4, <1>5, <1>6, <1>7, InterruptKeeps, InterruptReturnKeeps DEF Next

\* The inductive invariant holds whatever CPUs, threads and locks there are: in
\* particular no panic of spinlock.c or sched() is reached, and noff is exact.
THEOREM Invariance == Spec => []IInv
<1>1. Init => IInv
  BY InitIInv
<1>2. IInv /\ [Next]_vars => IInv'
  BY StepIInv
<1> QED BY <1>1, <1>2, PTL DEF Spec

\* At most one CPU is between the exchange of acquire() and the store of
\* release(), and it cannot be interrupted there.
THEOREM Exclusion == Spec => []MutualExclusion
<1>1. IInv => MutualExclusion
  <2> SUFFICES ASSUME IInv, NEW l \in AllLocks
               PROVE  Cardinality(Inside(l)) <= 1 /\ \A c \in Inside(l) : ~ sie[c]
    BY DEF MutualExclusion
  <2>1. \A c, d \in Inside(l) : c = d
    BY SpinAssumption DEF Inside, IInv, LockWord
  <2>2. Inside(l) = {} \/ \E c : Inside(l) = {c}
    BY <2>1
  <2>3. Cardinality(Inside(l)) <= 1
    BY <2>2, FS_EmptySet, FS_Singleton, SMTT(60)
  <2>4. ASSUME NEW c \in Inside(l) PROVE ~ sie[c]
    <3>1. c \in CPUs /\ (cpu[l] = c \/ Window(c, l))
      BY DEF Inside
    <3>2. cpu[l] = c => noff[c] # 0
      <4>1. cpu[l] = c => LocksOf(c) # {}
        BY DEF LocksOf
      <4> QED BY <3>1, <4>1, CountSome, Typed, SMTT(60) DEF NoffExact
    <3> QED BY <3>1, <3>2, Typed DEF Enabled, Window
  <2> QED BY <2>3, <2>4
<1> QED BY <1>1, Invariance, PTL

\* Outside critical sections each context has its interrupts back as they were.
THEOREM Restored == Spec => []InterruptsRestored
<1>1. IInv => InterruptsRestored
  BY DEF IInv, Enabled, InterruptsRestored, At
<1> QED BY <1>1, Invariance, PTL
=============================================================================
