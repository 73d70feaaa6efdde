----------------------------- MODULE SleepLock ------------------------------
(***************************************************************************)
(* kernel/sleeplock.c, with sleep_prepare(), sleep(), wakeup() and kkill() *)
(* of kernel/proc.c.  A step is one critical section under lk->lk or under *)
(* p->lock; wakeup() runs inside lk->lk, as sleep_prepare() does.          *)
(***************************************************************************)
EXTENDS TLAPS

CONSTANTS Procs, NoProc

ASSUME SleepLockAssumption == NoProc \notin Procs

VARIABLES
  locked, pid,  \* lk->locked and lk->pid; a process stands for its pid
  chan,         \* the processes whose p->chan is the lock
  pc            \* "sleep" lies between sleep_prepare() and sleep()

vars == <<locked, pid, chan, pc>>

\* initsleeplock()
Init ==
  /\ locked = FALSE /\ pid = NoProc
  /\ chan = {}
  /\ pc = [p \in Procs |-> "idle"]

Goto(p, label) == pc' = [pc EXCEPT ![p] = label]

Call(p) ==
  /\ pc[p] = "idle"
  /\ Goto(p, "acquire")
  /\ UNCHANGED <<locked, pid, chan>>

\* Mutant: a woken process takes the lock without testing again.
acquiresleep_IfNotWhile(p) ==
  /\ pc[p] = "acquire"
  /\ IF locked /\ p \notin chan
     THEN chan' = chan \cup {p} /\ Goto(p, "sleep") /\ UNCHANGED <<locked, pid>>
     ELSE locked' = TRUE /\ pid' = p /\ Goto(p, "held") /\ UNCHANGED chan

\* One test of the loop, and what follows it under lk->lk.
acquiresleep(p) ==
  /\ pc[p] = "acquire"
  /\ IF locked
     THEN chan' = chan \cup {p} /\ Goto(p, "sleep") /\ UNCHANGED <<locked, pid>>
     ELSE locked' = TRUE /\ pid' = p /\ Goto(p, "held") /\ UNCHANGED chan

\* Mutant: a wakeup() since sleep_prepare() is not noticed.
sleep_Blind(p) ==
  /\ pc[p] = "sleep"
  /\ Goto(p, "asleep")
  /\ UNCHANGED <<locked, pid, chan>>

sleep(p) ==
  /\ pc[p] = "sleep"
  /\ Goto(p, IF p \in chan THEN "asleep" ELSE "acquire")
  /\ UNCHANGED <<locked, pid, chan>>

releasesleep(p) ==
  /\ pc[p] = "held"
  /\ locked' = FALSE /\ pid' = NoProc
  /\ chan' = {}
  /\ pc' = [q \in Procs |-> CASE q = p -> "idle"
                              [] q # p /\ q \in chan /\ pc[q] = "asleep" -> "acquire"
                              [] OTHER -> pc[q]]

\* kkill() makes a sleeper run again and leaves its chan.
kkill(p) ==
  /\ pc[p] = "asleep"
  /\ Goto(p, "acquire")
  /\ UNCHANGED <<locked, pid, chan>>

holdingsleep(p) == locked /\ pid = p

Next == \E p \in Procs : \/ Call(p) \/ acquiresleep(p) \/ sleep(p)
                         \/ releasesleep(p) \/ kkill(p)

Spec == Init /\ [][Next]_vars

(* A process that runs takes its next step; holders let go.                *)
FairSpec == Spec /\ \A p \in Procs : WF_vars(acquiresleep(p) \/ sleep(p) \/ releasesleep(p))
-----------------------------------------------------------------------------
(* Properties.                                                             *)

\* Every variable has its type.
TypeOK ==
  /\ locked \in BOOLEAN /\ pid \in Procs \cup {NoProc}
  /\ chan \subseteq Procs
  /\ pc \in [Procs -> {"idle", "acquire", "sleep", "asleep", "held"}]

\* holdingsleep() is true for the process between acquiresleep() and
\* releasesleep() and for no other, so the panics that test it are right.
HoldingExact == \A p \in Procs : holdingsleep(p) <=> pc[p] = "held"

\* A process sleeps, or is about to, only while the lock is held, and the
\* holder's wakeup() will find it.
NoLostWakeup ==
  \A p \in Procs :
    /\ pc[p] = "asleep" => locked /\ p \in chan
    /\ pc[p] = "sleep" /\ p \in chan => locked

\* The conjunction that the proofs carry through every step.
IInv ==
  /\ TypeOK /\ HoldingExact /\ NoLostWakeup
  /\ ~ locked => pid = NoProc

Abstract == INSTANCE Mutex WITH
              owner <- pid,
              asking <- {p \in Procs : pc[p] \in {"acquire", "sleep", "asleep"}}

\* A sleep lock is a mutual exclusion lock.
IsMutex == Abstract!Spec

\* A lock that is free while processes wait for it is taken by one of them, or
\* by a process that came later.
HandedOver ==
  (~ locked /\ \E p \in Procs : pc[p] \in {"acquire", "sleep", "asleep"}) ~> locked

-----------------------------------------------------------------------------
(* A sleep lock is right, for any set of processes.                        *)

\* IInv holds when initsleeplock() has run.
LEMMA InitIInv == Init => IInv
BY SleepLockAssumption DEF Init, IInv, TypeOK, HoldingExact, NoLostWakeup, holdingsleep

\* Every step of acquiresleep(), sleep(), releasesleep() and kkill() keeps IInv.
LEMMA StepIInv == IInv /\ [Next]_vars => IInv'
<1> SUFFICES ASSUME IInv, [Next]_vars PROVE IInv'
  OBVIOUS
<1> USE SleepLockAssumption DEF IInv, TypeOK, HoldingExact, NoLostWakeup, holdingsleep, Goto
<1>1. ASSUME NEW p \in Procs, Call(p) PROVE IInv'
  BY <1>1 DEF Call
<1>2. ASSUME NEW p \in Procs, acquiresleep(p) PROVE IInv'
  <2>1. CASE locked
    BY <1>2, <2>1 DEF acquiresleep
  <2>2. CASE ~ locked
    BY <1>2, <2>2 DEF acquiresleep
  <2> QED BY <2>1, <2>2
<1>3. ASSUME NEW p \in Procs, sleep(p) PROVE IInv'
  BY <1>3 DEF sleep
<1>4. ASSUME NEW p \in Procs, releasesleep(p) PROVE IInv'
  <2>1. \A q \in Procs : pc'[q] = IF q = p THEN "idle"
                                  ELSE IF q \in chan /\ pc[q] = "asleep" THEN "acquire" ELSE pc[q]
    BY <1>4 DEF releasesleep
  <2>2. \A q \in Procs : pc[q] = "held" => q = p
    BY <1>4 DEF releasesleep
  <2>3. TypeOK'
    BY <1>4, <2>1 DEF releasesleep
  <2>4. HoldingExact' /\ NoLostWakeup' /\ (~ locked' => pid' = NoProc)
    BY <1>4, <2>1, <2>2 DEF releasesleep
  <2> QED BY <2>3, <2>4
<1>5. ASSUME NEW p \in Procs, kkill(p) PROVE IInv'
  BY <1>5 DEF kkill
<1>6. CASE UNCHANGED vars
  BY <1>6 DEF vars
<1> QED BY <1>1, <1>2, <1>3, <1>4, <1>5, <1>6 DEF Next

\* IInv holds always.
THEOREM Invariance == Spec => []IInv
BY InitIInv, StepIInv, PTL DEF Spec

\* holdingsleep() identifies the holder, and no waiter sleeps on a free lock.
THEOREM LockCorrect == Spec => [](HoldingExact /\ NoLostWakeup)
<1>1. IInv => HoldingExact /\ NoLostWakeup
  BY DEF IInv
<1> QED BY <1>1, Invariance, PTL

\* The lock implements the abstract one: a successful test of acquiresleep() is
\* a grant, releasesleep() a release, and sleeping and waking change nothing.
THEOREM Refinement == Spec => IsMutex
<1> DEFINE asking == {p \in Procs : pc[p] \in {"acquire", "sleep", "asleep"}}
<1>1. Init => Abstract!Init
  BY DEF Init, Abstract!Init
<1>2. IInv /\ [Next]_vars => [Abstract!Next]_<<pid, asking>>
  <2> SUFFICES ASSUME IInv, [Next]_vars PROVE [Abstract!Next]_<<pid, asking>>
    OBVIOUS
  <2> USE SleepLockAssumption DEF IInv, TypeOK, HoldingExact, holdingsleep, Goto
  <2>1. ASSUME NEW p \in Procs, Call(p) PROVE Abstract!Ask(p)
    BY <2>1 DEF Call, Abstract!Ask
  <2>2. ASSUME NEW p \in Procs, acquiresleep(p)
        PROVE Abstract!Grant(p) \/ UNCHANGED <<pid, asking>>
    <3>1. CASE locked
      BY <2>2, <3>1 DEF acquiresleep
    <3>2. CASE ~ locked
      BY <2>2, <3>2 DEF acquiresleep, Abstract!Grant
    <3> QED BY <3>1, <3>2
  <2>3. ASSUME NEW p \in Procs, sleep(p) PROVE UNCHANGED <<pid, asking>>
    BY <2>3 DEF sleep
  <2>4. ASSUME NEW p \in Procs, releasesleep(p) PROVE Abstract!Release(p)
    BY <2>4 DEF releasesleep, Abstract!Release
  <2>5. ASSUME NEW p \in Procs, kkill(p) PROVE UNCHANGED <<pid, asking>>
    BY <2>5 DEF kkill
  <2>6. CASE UNCHANGED vars
    BY <2>6 DEF vars
  <2> QED BY <2>1, <2>2, <2>3, <2>4, <2>5, <2>6 DEF Next, Abstract!Next
<1> QED BY <1>1, <1>2, Invariance, PTL DEF Spec, IsMutex, Abstract!Spec
=============================================================================
