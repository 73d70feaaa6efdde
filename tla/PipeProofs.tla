----------------------------- MODULE PipeProofs -----------------------------
(***************************************************************************)
(* IInv is an invariant of Pipe and Pipe implements Fifo, for any          *)
(* processes, any size of the pipe and any wrap-around of its counters     *)
(* that is a larger multiple of the size.                                  *)
(***************************************************************************)
EXTENDS Pipe, Integers, SequenceTheorems, TLAPS

\* Zenon tries every leaf; those with arithmetic or functional updates cite SMT.
USE ZenonT(60)

-----------------------------------------------------------------------------
(* The counters and their wrap-around.                                     *)

\* The sum of two counters wraps at most once.
LEMMA Sum ==
  ASSUME NEW m \in Nat \ {0}, NEW a \in 0..m-1, NEW b \in 0..m-1
  PROVE  (a + b) % m = IF a + b < m THEN a + b ELSE a + b - m
BY SMTT(60)

\* So does the number of steps from one counter to another.
LEMMA Difference ==
  ASSUME NEW m \in Nat \ {0}, NEW a \in 0..m-1, NEW b \in 0..m-1
  PROVE  (b + m - a) % m = IF b < a THEN b + m - a ELSE b - a
BY SMTT(60)

\* And so does a counter that is incremented.
LEMMA Successor ==
  ASSUME NEW m \in Nat \ {0}, NEW a \in 0..m-1
  PROVE  (a + 1) % m = IF a + 1 < m THEN a + 1 ELSE 0
BY SMTT(60)

\* The remainder of a number is the one that leaves a multiple.
LEMMA Remainder ==
  ASSUME NEW m \in Nat \ {0}, NEW q \in Nat, NEW r \in 0..m-1
  PROVE  (q * m + r) % m = r
BY SMTT(60)

\* Numbers less than m apart have different remainders.
LEMMA Apart ==
  ASSUME NEW m \in Nat \ {0}, NEW a \in Nat, NEW b \in Nat, a < b, b - a < m
  PROVE  a % m # b % m
<1> SUFFICES ASSUME a % m = b % m PROVE FALSE
  OBVIOUS
<1> DEFINE d == a \div m
           e == b \div m
           r == a % m
<1>1. d \in Nat /\ r \in 0..m-1 /\ a = m * d + r
  BY SMTT(60)
<1>2. e \in Nat /\ b = m * e + r
  BY SMTT(60)
<1> HIDE DEF d, e, r
<1>3. b - a = m * (e - d) /\ e - d \in Int
  BY <1>1, <1>2, SMTT(60)
<1>4. e - d > 0
  BY <1>3, SMTT(60)
<1> QED BY <1>3, <1>4, SMTT(60)

\* A multiple of m does not change the remainder.
LEMMA Multiple ==
  ASSUME NEW m \in Nat \ {0}, NEW a \in Nat, NEW q \in Nat
  PROVE  (q * m + a) % m = a % m
<1> DEFINE d == a \div m
           r == a % m
<1>1. d \in Nat /\ r \in 0..m-1 /\ a = m * d + r
  BY SMTT(60)
<1> HIDE DEF d, r
<1>2. q * m + a = (q + d) * m + r /\ q + d \in Nat
  BY <1>1, SMTT(60)
<1>3. ((q + d) * m + r) % m = r
  BY <1>1, <1>2, Remainder
<1> QED BY <1>2, <1>3 DEF r

\* UINT is a multiple of PIPESIZE, so that the wrap-around of a counter does not
\* change the place in data[].
LEMMA Place ==
  ASSUME Parameters, NEW a \in Nat
  PROVE  /\ a % PIPESIZE \in 0..PIPESIZE-1
         /\ (UINT + a) % PIPESIZE = a % PIPESIZE
         /\ (a % UINT) % PIPESIZE = a % PIPESIZE
<1> DEFINE m == UINT \div PIPESIZE
           d == a \div UINT
           r == a % UINT
<1>1. PIPESIZE \in Nat \ {0} /\ UINT \in Nat \ {0}
  BY SMTT(60) DEF Parameters
<1>2. m \in Nat /\ UINT = PIPESIZE * m
  BY <1>1, SMTT(60) DEF Parameters
<1>3. d \in Nat /\ r \in Nat /\ a = UINT * d + r
  BY <1>1, SMTT(60)
<1> HIDE DEF m, d, r
<1>4. UINT + a = m * PIPESIZE + a
  BY <1>1, <1>2, SMTT(60)
<1>5. a = (m * d) * PIPESIZE + r /\ m * d \in Nat
  BY <1>1, <1>2, <1>3, SMTT(60)
<1>6. a % PIPESIZE = r % PIPESIZE
  BY <1>1, <1>3, <1>5, Multiple, SMTT(60)
<1>7. (m * PIPESIZE + a) % PIPESIZE = a % PIPESIZE
  BY <1>1, <1>2, Multiple
<1> QED BY <1>1, <1>4, <1>6, <1>7, SMTT(60) DEF r

\* What the two tests of pipe.c say.
LEMMA Counts ==
  ASSUME Parameters, TypeOK
  PROVE  /\ Used \in 0..UINT-1 /\ nwrite = (nread + Used) % UINT
         /\ Empty <=> Used = 0
         /\ Full <=> Used = PIPESIZE
<1>1. UINT \in Nat \ {0} /\ PIPESIZE \in Nat \ {0} /\ PIPESIZE < UINT
  BY SMTT(60) DEF Parameters
<1>2. nread \in 0..UINT-1 /\ nwrite \in 0..UINT-1
  BY DEF TypeOK
<1>3. Used = IF nwrite < nread THEN nwrite + UINT - nread ELSE nwrite - nread
  BY <1>1, <1>2, Difference DEF Used
<1>4. Used \in 0..UINT-1 /\ PIPESIZE \in 0..UINT-1
  BY <1>1, <1>2, <1>3, SMTT(60)
<1>5. /\ (nread + Used) % UINT = IF nread + Used < UINT THEN nread + Used ELSE nread + Used - UINT
      /\ (nread + PIPESIZE) % UINT = IF nread + PIPESIZE < UINT THEN nread + PIPESIZE ELSE nread + PIPESIZE - UINT
  BY <1>1, <1>2, <1>4, Sum
<1> QED BY <1>1, <1>2, <1>3, <1>4, <1>5, SMTT(60) DEF Empty, Full

\* A byte more, a byte less.
LEMMA CountsNext ==
  ASSUME Parameters, TypeOK, Used <= PIPESIZE
  PROVE  /\ ~ Full /\ nread' = nread /\ nwrite' = (nwrite + 1) % UINT =>
              nwrite' \in 0..UINT-1 /\ Used' = Used + 1 /\ Used < PIPESIZE
         /\ ~ Empty /\ nwrite' = nwrite /\ nread' = (nread + 1) % UINT =>
              nread' \in 0..UINT-1 /\ Used' = Used - 1 /\ Used > 0
<1>1. UINT \in Nat \ {0} /\ PIPESIZE \in Nat \ {0} /\ PIPESIZE < UINT
  BY SMTT(60) DEF Parameters
<1>2. nread \in 0..UINT-1 /\ nwrite \in 0..UINT-1
  BY DEF TypeOK
<1>4. Used = IF nwrite < nread THEN nwrite + UINT - nread ELSE nwrite - nread
  BY <1>1, <1>2, Difference DEF Used
<1>5. Used \in Nat /\ (Empty <=> Used = 0) /\ (Full <=> Used = PIPESIZE)
  BY Counts, SMTT(60)
<1>6. ASSUME ~ Full, nread' = nread, nwrite' = (nwrite + 1) % UINT
      PROVE  nwrite' \in 0..UINT-1 /\ Used' = Used + 1 /\ Used < PIPESIZE
  <2>1. nwrite' = IF nwrite + 1 < UINT THEN nwrite + 1 ELSE 0
    BY <1>1, <1>2, <1>6, Successor
  <2>2. nwrite' \in 0..UINT-1
    BY <1>1, <1>2, <2>1, SMTT(60)
  <2>3. Used' = IF nwrite' < nread THEN nwrite' + UINT - nread ELSE nwrite' - nread
    BY <1>1, <1>2, <1>6, <2>2, Difference DEF Used
  <2> QED BY <1>1, <1>2, <1>4, <1>5, <1>6, <2>1, <2>2, <2>3, SMTT(60)
<1>7. ASSUME ~ Empty, nwrite' = nwrite, nread' = (nread + 1) % UINT
      PROVE  nread' \in 0..UINT-1 /\ Used' = Used - 1 /\ Used > 0
  <2>1. nread' = IF nread + 1 < UINT THEN nread + 1 ELSE 0
    BY <1>1, <1>2, <1>7, Successor
  <2>2. nread' \in 0..UINT-1
    BY <1>1, <1>2, <2>1, SMTT(60)
  <2>3. Used' = IF nwrite < nread' THEN nwrite + UINT - nread' ELSE nwrite - nread'
    BY <1>1, <1>2, <1>7, <2>2, Difference DEF Used
  <2> QED BY <1>1, <1>2, <1>4, <1>5, <1>7, <2>1, <2>2, <2>3, SMTT(60)
<1> QED BY <1>6, <1>7

-----------------------------------------------------------------------------
(* What the step of one process leaves to the others.                      *)

Labels == {"user", "close", "write", "wprep", "wsleep", "read", "rprep", "rsleep", "copy"}

\* Another process stays where it is, or is woken.
Woken(q) == \/ pc'[q] = pc[q]
            \/ pc[q] \in {"wprep", "wsleep"} /\ pc'[q] = "write"
            \/ pc[q] \in {"rprep", "rsleep"} /\ pc'[q] = "read"

\* A step to another label moves nobody else.
LEMMA Moves ==
  ASSUME TypeOK, NEW p \in Callers, NEW l \in Labels, Goto(p, l)
  PROVE  pc' \in [Callers -> Labels] /\ pc'[p] = l /\ \A q \in Callers \ {p} : pc'[q] = pc[q] /\ Woken(q)
BY DEF TypeOK, Labels, Goto, Woken

\* wakeup() leaves nobody asleep on its channel.
LEMMA Wakes ==
  ASSUME TypeOK, NEW p \in Callers, NEW l \in Labels, NEW chan \in {"nread", "nwrite"}, wakeup(chan, p, l)
  PROVE  /\ pc' \in [Callers -> Labels] /\ pc'[p] = l /\ \A q \in Callers \ {p} : Woken(q)
         /\ chan = "nread" => \A q \in Callers \ {p} : pc'[q] \notin {"rprep", "rsleep"}
         /\ chan = "nwrite" => \A q \in Callers \ {p} : pc'[q] \notin {"wprep", "wsleep"}
<1>1. pc \in [Callers -> Labels]
  BY DEF TypeOK, Labels
<1>2. CASE chan = "nread"
  <2>1. pc' = [q \in Callers |-> IF q = p THEN l ELSE IF pc[q] \in {"rprep", "rsleep"} THEN "read" ELSE pc[q]]
    BY <1>2 DEF wakeup
  <2> QED BY <1>1, <1>2, <2>1 DEF Woken, Labels
<1>3. CASE chan = "nwrite"
  <2>1. pc' = [q \in Callers |-> IF q = p THEN l ELSE IF pc[q] \in {"wprep", "wsleep"} THEN "write" ELSE pc[q]]
    BY <1>3 DEF wakeup
  <2> QED BY <1>1, <1>3, <2>1 DEF Woken, Labels
<1> QED BY <1>2, <1>3

\* The call of another process goes on as before: who changes the pipe has pi->lock.
LEMMA CallsKeep ==
  ASSUME Parameters, IInv, NEW p \in Callers, NEW q \in Callers, q # p, Woken(q),
         n'[q] = n[q], i'[q] = i[q], q \in open' <=> q \in open,
         \/ lock \in {NoProc, p} /\ lock' \in {NoProc, p}
         \/ UNCHANGED <<lock, nread, nwrite, writeopen>>
  PROVE  CallInv(q)'
<1>1. CallInv(q) /\ NoProc # q
  BY DEF IInv, Parameters
<1>2. pc[q] = "copy" => lock = q
  BY <1>1 DEF CallInv
<1>3. pc'[q] = "copy" => pc[q] = "copy" /\ UNCHANGED <<lock, nread, nwrite, writeopen>>
  BY <1>1, <1>2 DEF Woken
<1>4. lock' = q => lock = q
  BY <1>1
<1> QED BY <1>1, <1>3, <1>4, SMTT(60) DEF CallInv, Woken, Empty

\* A process that keeps its descriptor keeps its end of the pipe open.
LEMMA EndsKeep ==
  ASSUME IInv, NEW p \in open, pc'[p] # "close", \A q \in Callers \ {p} : Woken(q),
         UNCHANGED <<open, readopen, writeopen>>
  PROVE  EndInv(Writers, writeopen)' /\ EndInv(Readers, readopen)'
<1>1. ASSUME NEW side \in {Writers, Readers}, NEW o, EndInv(side, o) PROVE
        /\ ~ o => \A q \in side : q \notin open /\ pc'[q] = "user"
        /\ \A q \in side : pc'[q] = "close" => o /\ \A r \in side : r \notin open /\ (r # q => pc'[r] = "user")
  <2>1. side \subseteq Callers
    BY DEF Callers
  <2> QED BY <1>1, <2>1 DEF EndInv, Woken
<1> QED BY <1>1 DEF IInv, EndInv

-----------------------------------------------------------------------------
(* Each step keeps IInv.                                                   *)

\* What is known of a process in a call.
LEMMA InCall ==
  ASSUME Parameters, IInv, NEW p \in Callers, pc[p] \notin {"user", "close"}
  PROVE  /\ p \in open /\ n[p] \in 0..MaxCall /\ i[p] \in 0..n[p] /\ CallInv(p) /\ p # NoProc
         /\ p \in Writers => p \notin Readers /\ writeopen
         /\ p \in Readers => p \notin Writers /\ readopen
<1>1. p \in open /\ n[p] \in 0..MaxCall /\ i[p] \in 0..n[p] /\ CallInv(p)
  BY SMTT(60) DEF IInv, CallInv, TypeOK
<1> QED BY <1>1 DEF IInv, EndInv, Parameters

\* The end of a call: Returns(p, r) for a process that goes back to "user".
LEMMA ReturnsType ==
  ASSUME TypeOK, Parameters, NEW p \in Callers, NEW r \in {Error} \cup 0..MaxCall, Returns(p, r)
  PROVE  /\ n' \in [Callers -> 0..MaxCall] /\ i' \in [Callers -> 0..MaxCall] /\ result' \in {Error} \cup 0..MaxCall
         /\ n'[p] = 0 /\ i'[p] = 0 /\ \A q \in Callers \ {p} : n'[q] = n[q] /\ i'[q] = i[q]
<1>1. 0 \in 0..MaxCall
  BY SMTT(60) DEF Parameters
<1> QED BY <1>1 DEF TypeOK, Returns

\* The parts of IInv, for a step of p that only holds or takes pi->lock.
LEMMA Compose ==
  ASSUME Parameters, IInv, NEW p \in open, \A q \in Callers \ {p} : Woken(q), pc'[p] # "close",
         \A q \in Callers \ {p} : n'[q] = n[q] /\ i'[q] = i[q],
         \/ lock \in {NoProc, p} /\ lock' \in {NoProc, p}
         \/ UNCHANGED <<lock, nread, nwrite>>,
         UNCHANGED <<open, readopen, writeopen, freed>>,
         TypeOK', (Used <= PIPESIZE)', CallInv(p)', WakeInv'
  PROVE  IInv'
<1>1. p \in Callers
  BY DEF IInv, TypeOK
<1>2. \A q \in Callers : CallInv(q)'
  BY <1>1, CallsKeep
<1>3. EndInv(Writers, writeopen)' /\ EndInv(Readers, readopen)'
  BY EndsKeep
<1> QED BY <1>2, <1>3 DEF IInv

\* A writer that finds no reader, or itself killed.
LEMMA WriteFailsKeeps == ASSUME Parameters, IInv, NEW p \in Writers, write_fails(p) PROVE IInv'
<1>1. /\ pc[p] = "write" /\ lock \in {NoProc, p} /\ (~ readopen \/ p \in killed)
      /\ lock' = NoProc /\ Goto(p, "user") /\ Returns(p, Error)
      /\ UNCHANGED <<data, nread, nwrite, readopen, writeopen, freed, open, killed, last>>
  BY DEF write_fails, Locks, pipe
<1>2. /\ p \in Callers /\ p \in open /\ p \notin Readers /\ writeopen /\ p # NoProc
      /\ TypeOK /\ WakeInv /\ Used <= PIPESIZE /\ EndInv(Readers, readopen)
  BY <1>1, InCall DEF IInv, Callers
<1>3. pc' \in [Callers -> Labels] /\ pc'[p] = "user" /\ \A q \in Callers \ {p} : pc'[q] = pc[q] /\ Woken(q)
  BY <1>1, <1>2, Moves DEF Labels
<1>4. /\ n' \in [Callers -> 0..MaxCall] /\ i' \in [Callers -> 0..MaxCall] /\ result' \in {Error} \cup 0..MaxCall
      /\ n'[p] = 0 /\ i'[p] = 0 /\ \A q \in Callers \ {p} : n'[q] = n[q] /\ i'[q] = i[q]
  BY <1>1, <1>2, ReturnsType
<1>5. TypeOK'
  BY <1>1, <1>2, <1>3, <1>4 DEF TypeOK, Labels
<1>6. (Used <= PIPESIZE)'
  BY <1>1, <1>2 DEF Used
<1>7. CallInv(p)'
  BY <1>1, <1>2, <1>3, <1>4 DEF CallInv
<1>8. WakeInv'
  <2>1. ASSUME NEW q \in Readers, pc'[q] \in {"rprep", "rsleep"}
        PROVE  writeopen /\ (Empty \/ Writers \cap killed # {})
    <3>1. pc[q] \in {"rprep", "rsleep"}
      BY <1>2, <1>3, <2>1 DEF Callers
    <3>2. readopen
      BY <1>2, <3>1 DEF EndInv
    <3> QED BY <1>1, <1>2, <3>2
  <2>2. ASSUME NEW q \in Writers, pc'[q] \in {"wprep", "wsleep"} PROVE Full /\ readopen
    <3>1. pc[q] \in {"wprep", "wsleep"}
      BY <1>2, <1>3, <2>2 DEF Callers
    <3>2. lock \notin Readers
      BY <1>1, <1>2 DEF Parameters, Callers
    <3> QED BY <1>2, <3>1, <3>2 DEF WakeInv
  <2> QED BY <1>1, <2>1, <2>2 DEF WakeInv, Empty, Full
<1> QED BY <1>1, <1>2, <1>3, <1>4, <1>5, <1>6, <1>7, <1>8, Compose

\* A writer that finds the pipe full: it wakes the readers before it sleeps.
LEMMA WriteFullKeeps == ASSUME Parameters, IInv, NEW p \in Writers, write_full(p) PROVE IInv'
<1>1. /\ pc[p] = "write" /\ lock \in {NoProc, p} /\ readopen /\ Full
      /\ lock' = NoProc /\ wakeup("nread", p, "wprep")
      /\ UNCHANGED <<data, nread, nwrite, readopen, writeopen, freed, open, killed, n, i, last, result>>
  BY DEF write_full, Locks, pipe, call
<1>2. /\ p \in Callers /\ p \in open /\ i[p] <= n[p] /\ p \notin Readers /\ p # NoProc
      /\ TypeOK /\ WakeInv /\ Used <= PIPESIZE
  BY <1>1, InCall DEF IInv, Callers, CallInv
<1>3. /\ pc' \in [Callers -> Labels] /\ pc'[p] = "wprep"
      /\ \A q \in Callers \ {p} : Woken(q) /\ pc'[q] \notin {"rprep", "rsleep"}
  BY <1>1, <1>2, Wakes DEF Labels
<1>4. TypeOK'
  BY <1>1, <1>2, <1>3 DEF TypeOK, Labels
<1>5. (Used <= PIPESIZE)'
  BY <1>1, <1>2 DEF Used
<1>6. CallInv(p)'
  BY <1>1, <1>2, <1>3 DEF CallInv
<1>7. WakeInv'
  BY <1>1, <1>2, <1>3 DEF WakeInv, Callers, Full
<1> QED BY <1>1, <1>2, <1>3, <1>4, <1>5, <1>6, <1>7, Compose

\* A writer that finds room: it holds pi->lock from this byte to the next.
LEMMA WriteByteKeeps == ASSUME Parameters, IInv, NEW p \in Writers, NEW ch \in Byte, write_byte(p, ch) PROVE IInv'
<1>1. /\ pc[p] = "write" /\ lock \in {NoProc, p} /\ i[p] < n[p] /\ ~ Full
      /\ data' = [data EXCEPT ![nwrite % PIPESIZE] = ch] /\ nwrite' = (nwrite + 1) % UINT
      /\ i' = [i EXCEPT ![p] = @ + 1] /\ lock' = p
      /\ UNCHANGED <<nread, readopen, writeopen, freed, open, killed, pc, n, last, result>>
  BY DEF write_byte, Locks
<1>2. /\ p \in Callers /\ p \in open /\ n[p] \in 0..MaxCall /\ i[p] \in 0..n[p] /\ p \notin Readers /\ p # NoProc
      /\ TypeOK /\ WakeInv /\ Used <= PIPESIZE
  BY <1>1, InCall DEF IInv, Callers
<1>3. i[p] + 1 \in 0..MaxCall /\ i'[p] <= n[p] /\ \A q \in Callers \ {p} : i'[q] = i[q] /\ Woken(q)
  BY <1>1, <1>2, SMTT(60) DEF TypeOK, Parameters, Woken
<1>4. nwrite' \in 0..UINT-1 /\ Used' = Used + 1 /\ Used < PIPESIZE /\ Used \in Nat
  BY <1>1, <1>2, CountsNext, Counts, SMTT(60)
<1>5. TypeOK'
  BY <1>1, <1>2, <1>3, <1>4 DEF TypeOK
<1>6. (Used <= PIPESIZE)'
  BY <1>4, SMTT(60) DEF Parameters
<1>7. CallInv(p)'
  BY <1>1, <1>2, <1>3 DEF CallInv
<1>8. WakeInv'
  <2>1. lock \notin Readers
    BY <1>1, <1>2 DEF Parameters, Callers
  <2> QED BY <1>1, <1>2, <2>1 DEF WakeInv
<1> QED BY <1>1, <1>2, <1>3, <1>5, <1>6, <1>7, <1>8, Compose

\* A writer that is done wakes the readers.
LEMMA WriteReturnsKeeps == ASSUME Parameters, IInv, NEW p \in Writers, write_returns(p) PROVE IInv'
<1>1. /\ pc[p] = "write" /\ lock \in {NoProc, p} /\ lock' = NoProc /\ wakeup("nread", p, "user")
      /\ UNCHANGED <<data, nread, nwrite, readopen, writeopen, freed, open, killed, last>>
  BY DEF write_returns, Locks, pipe
<1>2. /\ p \in Callers /\ p \in open /\ i[p] \in 0..MaxCall /\ p \notin Readers /\ p # NoProc
      /\ TypeOK /\ WakeInv /\ Used <= PIPESIZE
  BY <1>1, InCall DEF IInv, TypeOK, Callers
<1>3. PICK r \in {Error} \cup 0..MaxCall : Returns(p, r)
  BY <1>2 DEF write_returns
<1>4. /\ pc' \in [Callers -> Labels] /\ pc'[p] = "user"
      /\ \A q \in Callers \ {p} : Woken(q) /\ pc'[q] \notin {"rprep", "rsleep"}
  BY <1>1, <1>2, Wakes DEF Labels
<1>5. /\ n' \in [Callers -> 0..MaxCall] /\ i' \in [Callers -> 0..MaxCall] /\ result' \in {Error} \cup 0..MaxCall
      /\ n'[p] = 0 /\ i'[p] = 0 /\ \A q \in Callers \ {p} : n'[q] = n[q] /\ i'[q] = i[q]
  BY <1>2, <1>3, ReturnsType
<1>6. TypeOK'
  BY <1>1, <1>2, <1>4, <1>5 DEF TypeOK, Labels
<1>7. (Used <= PIPESIZE)'
  BY <1>1, <1>2 DEF Used
<1>8. CallInv(p)'
  BY <1>1, <1>2, <1>4, <1>5 DEF CallInv
<1>9. WakeInv'
  BY <1>1, <1>2, <1>4 DEF WakeInv, Callers, Full, Woken, Parameters
<1> QED BY <1>1, <1>2, <1>4, <1>5, <1>6, <1>7, <1>8, <1>9, Compose

\* A reader's test of the pipe: it sleeps only when there is nothing to read.
LEMMA ReadWaitKeeps == ASSUME Parameters, IInv, NEW p \in Readers, read_wait(p) PROVE IInv'
<1>1. /\ pc[p] = "read" /\ lock \in {NoProc, p}
      /\ UNCHANGED <<data, nread, nwrite, readopen, writeopen, freed, open, killed, last>>
  BY DEF read_wait, Locks, pipe
<1>2. /\ p \in Callers /\ p \in open /\ n[p] \in 0..MaxCall /\ i[p] = 0 /\ p \notin Writers /\ p # NoProc
      /\ lock = NoProc /\ TypeOK /\ WakeInv /\ Used <= PIPESIZE
  BY <1>1, InCall DEF IInv, Callers, CallInv
<1>3. (Used <= PIPESIZE)'
  BY <1>1, <1>2 DEF Used
<1>4. CASE Empty /\ writeopen /\ p \in killed
  <2>1. Returns(p, Error) /\ Goto(p, "user") /\ lock' = NoProc
    BY <1>4 DEF read_wait
  <2>2. pc' \in [Callers -> Labels] /\ pc'[p] = "user" /\ \A q \in Callers \ {p} : pc'[q] = pc[q] /\ Woken(q)
    BY <1>2, <2>1, Moves DEF Labels
  <2>3. /\ n' \in [Callers -> 0..MaxCall] /\ i' \in [Callers -> 0..MaxCall] /\ result' \in {Error} \cup 0..MaxCall
        /\ n'[p] = 0 /\ i'[p] = 0 /\ \A q \in Callers \ {p} : n'[q] = n[q] /\ i'[q] = i[q]
    BY <1>2, <2>1, ReturnsType
  <2>4. TypeOK'
    BY <1>1, <1>2, <2>1, <2>2, <2>3 DEF TypeOK, Labels
  <2>5. CallInv(p)'
    BY <1>2, <2>1, <2>2, <2>3 DEF CallInv
  <2>6. WakeInv'
    BY <1>1, <1>2, <2>1, <2>2 DEF WakeInv, Callers, Full, Empty, Parameters
  <2> QED BY <1>1, <1>2, <1>3, <2>1, <2>2, <2>3, <2>4, <2>5, <2>6, Compose
<1>5. CASE Empty /\ writeopen /\ p \notin killed
  <2>1. Goto(p, "rprep") /\ lock' = NoProc /\ UNCHANGED <<n, i, result>>
    BY <1>5 DEF read_wait
  <2>2. pc' \in [Callers -> Labels] /\ pc'[p] = "rprep" /\ \A q \in Callers \ {p} : pc'[q] = pc[q] /\ Woken(q)
    BY <1>2, <2>1, Moves DEF Labels
  <2>3. TypeOK'
    BY <1>1, <1>2, <2>1, <2>2 DEF TypeOK, Labels
  <2>4. CallInv(p)'
    BY <1>1, <1>2, <2>1, <2>2, SMTT(60) DEF CallInv
  <2>5. WakeInv'
    BY <1>1, <1>2, <1>5, <2>1, <2>2 DEF WakeInv, Callers, Full, Empty, Parameters
  <2> QED BY <1>1, <1>2, <1>3, <2>1, <2>2, <2>3, <2>4, <2>5, Compose
<1>6. CASE ~ (Empty /\ writeopen)
  <2>1. Goto(p, "copy") /\ lock' = p /\ UNCHANGED <<n, i, result>>
    BY <1>6 DEF read_wait
  <2>2. pc' \in [Callers -> Labels] /\ pc'[p] = "copy" /\ \A q \in Callers \ {p} : pc'[q] = pc[q] /\ Woken(q)
    BY <1>2, <2>1, Moves DEF Labels
  <2>3. TypeOK'
    BY <1>1, <1>2, <2>1, <2>2 DEF TypeOK, Labels
  <2>4. CallInv(p)'
    BY <1>1, <1>2, <1>6, <2>1, <2>2, SMTT(60) DEF CallInv, Empty
  <2>5. WakeInv'
    BY <1>1, <1>2, <2>1, <2>2 DEF WakeInv, Callers, Empty, Parameters
  <2> QED BY <1>1, <1>2, <1>3, <2>1, <2>2, <2>3, <2>4, <2>5, Compose
<1> QED BY <1>4, <1>5, <1>6

\* A reader takes a byte, with pi->lock held.
LEMMA ReadByteKeeps == ASSUME Parameters, IInv, NEW p \in Readers, read_byte(p) PROVE IInv'
<1>1. /\ pc[p] = "copy" /\ i[p] < n[p] /\ ~ Empty
      /\ last' = data[nread % PIPESIZE] /\ nread' = (nread + 1) % UINT /\ i' = [i EXCEPT ![p] = @ + 1]
      /\ UNCHANGED <<data, nwrite, readopen, writeopen, lock, freed, open, killed, pc, n, result>>
  BY DEF read_byte
<1>2. /\ p \in Callers /\ p \in open /\ n[p] \in 0..MaxCall /\ i[p] \in 0..n[p] /\ p \notin Writers /\ p # NoProc
      /\ lock = p /\ TypeOK /\ WakeInv /\ Used <= PIPESIZE
  BY <1>1, InCall DEF IInv, Callers, CallInv
<1>3. i[p] + 1 \in 0..MaxCall /\ i'[p] = i[p] + 1 /\ \A q \in Callers \ {p} : i'[q] = i[q] /\ Woken(q)
  BY <1>1, <1>2, SMTT(60) DEF TypeOK, Parameters, Woken
<1>4. nread' \in 0..UINT-1 /\ Used' = Used - 1 /\ Used > 0 /\ Used \in Nat
  BY <1>1, <1>2, CountsNext, Counts, SMTT(60)
<1>5. nread % PIPESIZE \in 0..PIPESIZE-1
  BY <1>2, Place, SMTT(60) DEF TypeOK
<1>6. TypeOK'
  BY <1>1, <1>2, <1>3, <1>4, <1>5 DEF TypeOK
<1>7. (Used <= PIPESIZE)'
  BY <1>2, <1>4, SMTT(60) DEF Parameters
<1>8. CallInv(p)'
  BY <1>1, <1>2, <1>3, SMTT(60) DEF CallInv
<1>9. WakeInv'
  BY <1>1, <1>2 DEF WakeInv
<1> QED BY <1>1, <1>2, <1>3, <1>6, <1>7, <1>8, <1>9, Compose

\* A reader that is done wakes the writers.
LEMMA ReadReturnsKeeps == ASSUME Parameters, IInv, NEW p \in Readers, read_returns(p) PROVE IInv'
<1>1. /\ pc[p] = "copy" /\ lock' = NoProc /\ wakeup("nwrite", p, "user")
      /\ UNCHANGED <<data, nread, nwrite, readopen, writeopen, freed, open, killed, last>>
  BY DEF read_returns, pipe
<1>2. /\ p \in Callers /\ p \in open /\ i[p] \in 0..MaxCall /\ p \notin Writers /\ p # NoProc
      /\ lock = p /\ TypeOK /\ WakeInv /\ Used <= PIPESIZE
  BY <1>1, InCall DEF IInv, TypeOK, Callers, CallInv
<1>3. PICK r \in {Error} \cup 0..MaxCall : Returns(p, r)
  BY <1>2 DEF read_returns
<1>4. /\ pc' \in [Callers -> Labels] /\ pc'[p] = "user"
      /\ \A q \in Callers \ {p} : Woken(q) /\ pc'[q] \notin {"wprep", "wsleep"}
  BY <1>1, <1>2, Wakes DEF Labels
<1>5. /\ n' \in [Callers -> 0..MaxCall] /\ i' \in [Callers -> 0..MaxCall] /\ result' \in {Error} \cup 0..MaxCall
      /\ n'[p] = 0 /\ i'[p] = 0 /\ \A q \in Callers \ {p} : n'[q] = n[q] /\ i'[q] = i[q]
  BY <1>2, <1>3, ReturnsType
<1>6. TypeOK'
  BY <1>1, <1>2, <1>4, <1>5 DEF TypeOK, Labels
<1>7. (Used <= PIPESIZE)'
  BY <1>1, <1>2 DEF Used
<1>8. CallInv(p)'
  BY <1>1, <1>2, <1>4, <1>5 DEF CallInv
<1>9. WakeInv'
  BY <1>1, <1>2, <1>4 DEF WakeInv, Callers, Empty, Woken
<1> QED BY <1>1, <1>2, <1>4, <1>5, <1>6, <1>7, <1>8, <1>9, Compose

\* A call begins.
LEMMA CallKeeps == ASSUME Parameters, IInv, NEW p \in Callers, NEW m \in 0..MaxCall, Call(p, m) PROVE IInv'
<1> DEFINE l == IF p \in Writers THEN "write" ELSE "read"
<1>1. /\ pc[p] = "user" /\ p \in open /\ Goto(p, l) /\ n' = [n EXCEPT ![p] = m]
      /\ UNCHANGED <<data, nread, nwrite, readopen, writeopen, lock, freed, open, killed, i, last, result>>
  BY DEF Call, pipe
<1>2. CallInv(p) /\ TypeOK /\ WakeInv /\ Used <= PIPESIZE /\ l \in Labels
  BY DEF IInv, Labels
<1>3. pc' \in [Callers -> Labels] /\ pc'[p] = l /\ \A q \in Callers \ {p} : pc'[q] = pc[q] /\ Woken(q)
  BY <1>1, <1>2, Moves
<1>4. TypeOK'
  BY <1>1, <1>2, <1>3 DEF TypeOK, Labels
<1>5. (Used <= PIPESIZE)'
  BY <1>1, <1>2 DEF Used
<1>6. n'[p] = m /\ i[p] = 0 /\ lock # p
  BY <1>1, <1>2 DEF CallInv, TypeOK
<1>7. (p \in Writers => p \notin Readers) /\ (p \notin Writers => p \in Readers)
  BY DEF Callers, Parameters
<1>8. CallInv(p)'
  BY <1>1, <1>3, <1>6, <1>7, SMTT(60) DEF CallInv
<1>9. WakeInv'
  BY <1>1, <1>2, <1>3 DEF WakeInv, Callers, Full, Empty
<1>10. \A q \in Callers \ {p} : n'[q] = n[q] /\ i'[q] = i[q]
  BY <1>1, <1>2 DEF TypeOK
<1> QED BY <1>1, <1>3, <1>4, <1>5, <1>8, <1>9, <1>10, Compose

\* sleep() after sleep_prepare(): nothing was missed in between.
LEMMA SleepKeeps == ASSUME Parameters, IInv, NEW p \in Callers, sleep(p) PROVE IInv'
<1> DEFINE l == IF pc[p] = "wprep" THEN "wsleep" ELSE "rsleep"
<1>1. /\ pc[p] \in {"wprep", "rprep"} /\ Goto(p, l)
      /\ UNCHANGED <<data, nread, nwrite, readopen, writeopen, lock, freed, open, killed, n, i, last, result>>
  BY DEF sleep, pipe, call
<1>2. p \in open /\ CallInv(p) /\ TypeOK /\ WakeInv /\ Used <= PIPESIZE /\ l \in Labels
  BY <1>1, InCall DEF IInv, Labels
<1>3. pc' \in [Callers -> Labels] /\ pc'[p] = l /\ \A q \in Callers \ {p} : pc'[q] = pc[q] /\ Woken(q)
  BY <1>1, <1>2, Moves
<1>4. TypeOK'
  BY <1>1, <1>2, <1>3 DEF TypeOK, Labels
<1>5. (Used <= PIPESIZE)'
  BY <1>1, <1>2 DEF Used
<1>6. CallInv(p)'
  BY <1>1, <1>2, <1>3 DEF CallInv
<1>7. WakeInv'
  BY <1>1, <1>2, <1>3 DEF WakeInv, Callers, Full, Empty
<1> QED BY <1>1, <1>2, <1>3, <1>4, <1>5, <1>6, <1>7, Compose

\* A kkill() moves its victim only out of sleep().
LEMMA KillKeeps == ASSUME Parameters, IInv, NEW p \in Callers, kkill(p) PROVE IInv'
<1> DEFINE l == IF pc[p] = "wsleep" THEN "write" ELSE IF pc[p] = "rsleep" THEN "read" ELSE pc[p]
<1>1. /\ Goto(p, l) /\ killed' = killed \cup {p}
      /\ UNCHANGED <<data, nread, nwrite, readopen, writeopen, lock, freed, open, n, i, last, result>>
  BY DEF kkill, pipe, call
<1>2. TypeOK /\ WakeInv /\ Used <= PIPESIZE /\ l \in Labels
  BY DEF IInv, TypeOK, Labels
<1>3. pc' \in [Callers -> Labels] /\ pc'[p] = l /\ \A q \in Callers : Woken(q)
  BY <1>1, <1>2, Moves DEF Woken
<1>4. TypeOK'
  BY <1>1, <1>2, <1>3 DEF TypeOK, Labels
<1>5. (Used <= PIPESIZE)'
  BY <1>1, <1>2 DEF Used
<1>6. ASSUME NEW q \in Callers PROVE CallInv(q)'
  <2>1. CallInv(q) /\ Woken(q)
    BY <1>3 DEF IInv
  <2> QED BY <1>1, <2>1 DEF CallInv, Woken, Empty
<1>7. EndInv(Writers, writeopen)' /\ EndInv(Readers, readopen)'
  BY <1>1, <1>3 DEF IInv, EndInv, Woken, Callers
<1>8. WakeInv'
  BY <1>1, <1>2, <1>3 DEF WakeInv, Woken, Callers, Full, Empty
<1> QED BY <1>1, <1>4, <1>5, <1>6, <1>7, <1>8 DEF IInv

\* A new child gets a descriptor of an end that is open.
LEMMA DupKeeps == ASSUME Parameters, IInv, NEW c \in Callers, Dup(c) PROVE IInv'
<1>1. /\ pc[c] = "user" /\ open' = open \cup {c}
      /\ UNCHANGED <<data, nread, nwrite, readopen, writeopen, lock, freed, killed, pc, n, i, last, result>>
  BY DEF Dup, pipe, call
<1>2. PICK p \in Side(c) : p \in open
  BY DEF Dup
<1>3. TypeOK' /\ (Used <= PIPESIZE)'
  BY <1>1 DEF IInv, TypeOK, Used
<1>4. ASSUME NEW q \in Callers PROVE CallInv(q)'
  BY <1>1 DEF IInv, CallInv, Empty
<1>5. c \in Writers => p \in Writers
  BY <1>2 DEF Side
<1>6. c \in Readers => p \in Readers
  BY <1>2 DEF Side, Parameters
<1>7. EndInv(Writers, writeopen)'
  BY <1>1, <1>2, <1>5 DEF IInv, EndInv
<1>8. EndInv(Readers, readopen)'
  BY <1>1, <1>2, <1>6 DEF IInv, EndInv
<1>9. WakeInv'
  BY <1>1 DEF IInv, WakeInv, Full, Empty
<1> QED BY <1>1, <1>3, <1>4, <1>7, <1>8, <1>9 DEF IInv

\* A process closes its descriptor; the last one of its end goes on to pipeclose().
LEMMA FilecloseKeeps == ASSUME Parameters, IInv, NEW p \in Callers, fileclose(p) PROVE IInv'
<1> DEFINE l == IF open \cap Side(p) = {p} THEN "close" ELSE "user"
<1>1. /\ pc[p] = "user" /\ p \in open /\ open' = open \ {p} /\ Goto(p, l)
      /\ UNCHANGED <<data, nread, nwrite, readopen, writeopen, lock, freed, killed, n, i, last, result>>
  BY DEF fileclose, pipe, call
<1>2. TypeOK /\ WakeInv /\ Used <= PIPESIZE /\ l \in Labels
  BY DEF IInv, Labels
<1>3. pc' \in [Callers -> Labels] /\ pc'[p] = l /\ \A q \in Callers \ {p} : pc'[q] = pc[q]
  BY <1>1, <1>2, Moves
<1>4. TypeOK' /\ (Used <= PIPESIZE)'
  BY <1>1, <1>2, <1>3 DEF TypeOK, Labels, Used
<1>5. ASSUME NEW q \in Callers PROVE CallInv(q)'
  <2>1. CallInv(q)
    BY DEF IInv
  <2>2. CASE q = p
    BY <1>1, <1>3, <2>1, <2>2 DEF CallInv
  <2>3. CASE q # p
    BY <1>1, <1>3, <2>1, <2>3 DEF CallInv, Empty
  <2> QED BY <2>2, <2>3
<1>6. ASSUME NEW side \in {Writers, Readers}, NEW o, EndInv(side, o)
      PROVE  /\ ~ o => \A q \in side : q \notin open' /\ pc'[q] = "user"
             /\ \A q \in side : pc'[q] = "close" => o /\ \A r \in side : r \notin open' /\ (r # q => pc'[r] = "user")
  <2>1. side \subseteq Callers /\ (p \in side => Side(p) = side)
    BY DEF Callers, Side, Parameters
  <2>2. CASE p \notin side
    BY <1>1, <1>3, <1>6, <2>1, <2>2 DEF EndInv
  <2>3. CASE p \in side
    <3>1. o /\ \A q \in side : pc[q] # "close"
      BY <1>1, <1>6, <2>3 DEF EndInv
    <3>2. CASE open \cap side = {p}
      <4>1. \A q \in side \ {p} : q \notin open /\ pc[q] = "user"
        BY <2>1, <3>1, <3>2 DEF IInv, CallInv
      <4> QED BY <1>1, <1>3, <2>1, <2>3, <3>1, <4>1
    <3>3. CASE open \cap side # {p}
      BY <1>3, <2>1, <2>3, <3>1, <3>3
    <3> QED BY <3>2, <3>3
  <2> QED BY <2>2, <2>3
<1>7. EndInv(Writers, writeopen)' /\ EndInv(Readers, readopen)'
  BY <1>1, <1>6 DEF IInv, EndInv
<1>8. WakeInv'
  BY <1>1, <1>2, <1>3 DEF WakeInv, Callers, Full, Empty
<1> QED BY <1>1, <1>4, <1>5, <1>7, <1>8 DEF IInv

\* The last process of an end closes it: nobody is in a call on that end.
LEMMA Closing ==
  ASSUME Parameters, IInv, NEW p \in Callers, pipeclose(p)
  PROVE  /\ pc[p] = "close" /\ lock = NoProc /\ lock' = NoProc /\ pc' \in [Callers -> Labels]
         /\ pc'[p] = "user" /\ \A q \in Callers \ {p} : Woken(q)
         /\ UNCHANGED <<data, nread, nwrite, open, killed, n, i, last, result>>
         /\ \/ /\ p \in Writers /\ p \notin Readers /\ writeopen /\ ~ writeopen' /\ UNCHANGED readopen
               /\ \A q \in Writers : q \notin open /\ pc[q] \in {"user", "close"} /\ pc'[q] = "user"
               /\ \A q \in Callers : pc'[q] \notin {"rprep", "rsleep"}
            \/ /\ p \in Readers /\ p \notin Writers /\ readopen /\ ~ readopen' /\ UNCHANGED writeopen
               /\ \A q \in Readers : q \notin open /\ pc[q] \in {"user", "close"} /\ pc'[q] = "user"
               /\ \A q \in Callers : pc'[q] \notin {"wprep", "wsleep"}
<1>1. /\ pc[p] = "close" /\ lock = NoProc /\ lock' = NoProc
      /\ UNCHANGED <<data, nread, nwrite, open, killed, n, i, last, result>>
  BY DEF pipeclose, call
<1>2. TypeOK /\ EndInv(Writers, writeopen) /\ EndInv(Readers, readopen)
  BY DEF IInv
<1>3. (p \in Writers => p \notin Readers) /\ (p \notin Writers => p \in Readers)
  BY DEF Callers, Parameters
<1>4. CASE p \in Writers
  <2>1. ~ writeopen' /\ wakeup("nread", p, "user") /\ UNCHANGED readopen
    BY <1>4 DEF pipeclose
  <2>2. /\ pc' \in [Callers -> Labels] /\ pc'[p] = "user" /\ \A q \in Callers \ {p} : Woken(q)
        /\ \A q \in Callers \ {p} : pc'[q] \notin {"rprep", "rsleep"}
    BY <1>2, <2>1, Wakes DEF Labels
  <2>3. writeopen /\ \A q \in Writers : q \notin open /\ pc[q] \in {"user", "close"}
    BY <1>1, <1>2, <1>4 DEF EndInv
  <2>4. \A q \in Writers : pc'[q] = "user"
    BY <1>1, <1>2, <1>4, <2>2 DEF EndInv, Woken, Callers
  <2> QED BY <1>1, <1>3, <1>4, <2>1, <2>2, <2>3, <2>4
<1>5. CASE p \notin Writers
  <2>1. ~ readopen' /\ wakeup("nwrite", p, "user") /\ UNCHANGED writeopen
    BY <1>5 DEF pipeclose
  <2>2. /\ pc' \in [Callers -> Labels] /\ pc'[p] = "user" /\ \A q \in Callers \ {p} : Woken(q)
        /\ \A q \in Callers \ {p} : pc'[q] \notin {"wprep", "wsleep"}
    BY <1>2, <2>1, Wakes DEF Labels
  <2>3. readopen /\ \A q \in Readers : q \notin open /\ pc[q] \in {"user", "close"}
    BY <1>1, <1>2, <1>3, <1>5 DEF EndInv
  <2>4. \A q \in Readers : pc'[q] = "user"
    BY <1>1, <1>2, <1>3, <1>5, <2>2 DEF EndInv, Woken, Callers
  <2> QED BY <1>1, <1>3, <1>5, <2>1, <2>2, <2>3, <2>4
<1> QED BY <1>4, <1>5

\* pipeclose() wakes the other end, and frees the pipe when that one is closed.
LEMMA PipecloseKeeps == ASSUME Parameters, IInv, NEW p \in Callers, pipeclose(p) PROVE IInv'
<1>1. TypeOK /\ WakeInv /\ Used <= PIPESIZE /\ EndInv(Writers, writeopen) /\ EndInv(Readers, readopen)
  BY DEF IInv
<1>2. freed' = (~ readopen' /\ ~ writeopen')
  BY DEF pipeclose
<1>3. TypeOK' /\ (Used <= PIPESIZE)'
  <2>1. freed' \in BOOLEAN /\ readopen' \in BOOLEAN /\ writeopen' \in BOOLEAN
    BY <1>1, <1>2 DEF pipeclose, TypeOK
  <2>2. pc' \in [Callers -> Labels] /\ lock' = NoProc /\ UNCHANGED <<data, nread, nwrite, open, killed, n, i, last, result>>
    BY Closing
  <2> QED BY <1>1, <2>1, <2>2 DEF TypeOK, Labels, Used
<1>4. CallInv(p)'
  <2>1. CallInv(p) /\ p # NoProc
    BY DEF IInv, Parameters
  <2> QED BY <2>1, Closing DEF CallInv
<1>5. \A q \in Callers \ {p} : CallInv(q)'
  BY Closing, CallsKeep
<1>6. EndInv(Writers, writeopen)' /\ EndInv(Readers, readopen)'
  <2>1. CASE p \in Writers
    <3>1. EndInv(Writers, writeopen)'
      BY <2>1, Closing DEF EndInv
    <3>2. EndInv(Readers, readopen)'
      BY <1>1, <2>1, Closing, SMTT(60) DEF EndInv, Woken, Callers
    <3> QED BY <3>1, <3>2
  <2>2. CASE p \in Readers
    <3>1. EndInv(Readers, readopen)'
      BY <2>2, Closing DEF EndInv
    <3>2. EndInv(Writers, writeopen)'
      BY <1>1, <2>2, Closing, SMTT(60) DEF EndInv, Woken, Callers
    <3> QED BY <3>1, <3>2
  <2> QED BY <2>1, <2>2 DEF Callers
<1>7. WakeInv'
  <2>1. NoProc \notin Writers /\ NoProc \notin Readers /\ Writers \subseteq Callers /\ Readers \subseteq Callers
    BY DEF Parameters, Callers
  <2> QED BY <1>1, <2>1, Closing DEF WakeInv, Woken, Full, Empty
<1> QED BY <1>2, <1>3, <1>4, <1>5, <1>6, <1>7 DEF IInv

-----------------------------------------------------------------------------
(* The invariant and what follows from it.                                 *)

\* A new pipe is empty, with both ends open.
LEMMA InitIInv == ASSUME Parameters, Init PROVE IInv
<1>1. UINT \in Nat \ {0} /\ PIPESIZE \in Nat \ {0} /\ MaxCall \in Nat /\ NoProc \notin Callers
  BY SMTT(60) DEF Parameters
<1>2. TypeOK
  <2>1. 0 \in 0..UINT-1 /\ 0 \in 0..MaxCall
    BY <1>1, SMTT(60)
  <2>2. data \in [0..PIPESIZE-1 -> Byte] /\ last \in Byte
    BY DEF Init
  <2>3. pc \in [Callers -> Labels] /\ n \in [Callers -> 0..MaxCall] /\ i \in [Callers -> 0..MaxCall]
    BY <2>1 DEF Init, Labels
  <2> QED BY <2>1, <2>2, <2>3 DEF Init, TypeOK, Labels
<1>3. Used <= PIPESIZE
  <2>1. Used = 0
    BY <1>1, <1>2, Counts DEF Init, Empty
  <2> QED BY <1>1, <2>1, SMTT(60)
<1>4. \A p \in Callers : CallInv(p)
  BY <1>1 DEF Init, CallInv
<1>5. EndInv(Writers, writeopen) /\ EndInv(Readers, readopen) /\ WakeInv /\ freed = (~ readopen /\ ~ writeopen)
  BY DEF Init, EndInv, WakeInv, Callers
<1> QED BY <1>2, <1>3, <1>4, <1>5 DEF IInv

\* Every step of every process keeps IInv.
LEMMA StepIInv == ASSUME Parameters, IInv, [Next]_vars PROVE IInv'
<1>1. ASSUME NEW p \in Writers, pipewrite(p) PROVE IInv'
  BY <1>1, WriteFailsKeeps, WriteFullKeeps, WriteByteKeeps, WriteReturnsKeeps DEF pipewrite
<1>2. ASSUME NEW p \in Readers, piperead(p) PROVE IInv'
  BY <1>2, ReadWaitKeeps, ReadByteKeeps, ReadReturnsKeeps DEF piperead
<1>3. ASSUME NEW p \in Callers, NEW m \in 0..MaxCall, Call(p, m) PROVE IInv'
  BY <1>3, CallKeeps
<1>4. ASSUME NEW p \in Callers, sleep(p) \/ kkill(p) PROVE IInv'
  BY <1>4, SleepKeeps, KillKeeps
<1>5. ASSUME NEW p \in Callers, Dup(p) \/ fileclose(p) \/ pipeclose(p) PROVE IInv'
  BY <1>5, DupKeeps, FilecloseKeeps, PipecloseKeeps
<1>6. CASE UNCHANGED vars
  BY <1>6 DEF vars, pipe, call, IInv, TypeOK, Used, CallInv, EndInv, WakeInv, Full, Empty
<1> QED BY <1>1, <1>2, <1>3, <1>4, <1>5, <1>6 DEF Next

\* The invariant holds for any processes, any size and any wrap-around.
THEOREM Invariance == ASSUME Parameters PROVE Spec => []IInv
BY InitIInv, StepIInv, PTL DEF Spec

\* No wakeup is lost: see NoLostWakeup for the writer that is killed.
THEOREM SleepersRight == ASSUME Parameters PROVE Spec => []NoLostWakeup
<1>1. IInv => NoLostWakeup
  BY DEF IInv, WakeInv, NoLostWakeup, Parameters, Callers
<1> QED BY <1>1, Invariance, PTL

\* kfree() of the pipe comes when no process can reach it.
THEOREM FreedLast == ASSUME Parameters PROVE Spec => []NoUseAfterFree
<1>1. IInv => NoUseAfterFree
  BY DEF IInv, EndInv, NoUseAfterFree, Callers
<1> QED BY <1>1, Invariance, PTL

-----------------------------------------------------------------------------
(* The pipe is a Fifo.                                                     *)

\* The bytes in the pipe, without the counters' wrap-around.
InOrder == /\ Queue \in Seq(Byte) /\ Len(Queue) = Used
           /\ \A k \in 1..Used : Queue[k] = data[(nread + k - 1) % PIPESIZE]

\* The queue is what data[] holds from nread on, around its end.
LEMMA QueueIs == ASSUME Parameters PROVE IInv => InOrder
<1> SUFFICES ASSUME IInv PROVE InOrder
  OBVIOUS
<1>1. nread \in Nat /\ Used \in Nat /\ data \in [0..PIPESIZE-1 -> Byte]
  BY Counts, SMTT(60) DEF IInv, TypeOK, Parameters
<1>2. ASSUME NEW k \in 1..Used PROVE Queue[k] = data[(nread + k - 1) % PIPESIZE] /\ Queue[k] \in Byte
  <2>1. nread + k - 1 \in Nat
    BY <1>1, SMTT(60)
  <2>2. Queue[k] = data[((nread + k - 1) % UINT) % PIPESIZE]
    BY DEF Queue
  <2> QED BY <1>1, <2>1, <2>2, Place
<1>3. Queue = [k \in 1..Used |-> Queue[k]]
  BY DEF Queue
<1> HIDE DEF Queue
<1>4. Queue \in [1..Used -> Byte]
  BY <1>2, <1>3
<1> QED BY <1>1, <1>2, <1>4, SMTT(60) DEF InOrder

\* So it is in the next state.
LEMMA QueueNext == ASSUME Parameters PROVE IInv' => InOrder'
BY QueueIs, PTL

\* A step that does not change the pipe's bytes does not change the queue.
LEMMA QueueSame == ASSUME UNCHANGED <<data, nread, nwrite>> PROVE Queue' = Queue
BY DEF Queue, Used

\* A byte goes to a place of data[] that no byte in the pipe has.
LEMMA QueuePut ==
  ASSUME Parameters, IInv, IInv', NEW p \in Writers, NEW ch \in Byte, write_byte(p, ch)
  PROVE  Queue' = Append(Queue, ch) /\ Len(Queue) < PIPESIZE
<1>1. /\ nread' = nread /\ nwrite' = (nwrite + 1) % UINT /\ ~ Full
      /\ data' = [data EXCEPT ![nwrite % PIPESIZE] = ch]
  BY DEF write_byte
<1>2. TypeOK /\ Used <= PIPESIZE /\ nread \in Nat /\ data \in [0..PIPESIZE-1 -> Byte] /\ PIPESIZE \in Nat \ {0}
  <2>1. TypeOK /\ Used <= PIPESIZE /\ PIPESIZE \in Nat \ {0}
    BY DEF IInv, Parameters
  <2>2. nread \in Nat /\ data \in [0..PIPESIZE-1 -> Byte]
    BY <2>1, SMTT(60) DEF TypeOK
  <2> QED BY <2>1, <2>2
<1>3. Used \in Nat /\ nwrite = (nread + Used) % UINT
  BY <1>2, Counts, SMTT(60)
<1>4. Used' = Used + 1 /\ Used < PIPESIZE
  BY <1>1, <1>2, CountsNext
<1>5. nwrite % PIPESIZE = (nread + Used) % PIPESIZE /\ nwrite % PIPESIZE \in 0..PIPESIZE-1
  <2>1. nread + Used \in Nat
    BY <1>2, <1>3, SMTT(60)
  <2> QED BY <1>3, <2>1, Place
<1>6. ASSUME NEW k \in 1..Used PROVE Queue'[k] = Queue[k]
  <2>1. /\ nread + k - 1 \in Nat /\ nread + Used \in Nat /\ nread + k - 1 < nread + Used
        /\ (nread + Used) - (nread + k - 1) < PIPESIZE /\ k \in 1..Used'
    BY <1>2, <1>3, <1>4, SMTT(60)
  <2>2. (nread + k - 1) % PIPESIZE # (nread + Used) % PIPESIZE
    BY <1>2, <2>1, Apart
  <2>3. (nread + k - 1) % PIPESIZE \in 0..PIPESIZE-1
    BY <2>1, Place
  <2>4. data'[(nread + k - 1) % PIPESIZE] = data[(nread + k - 1) % PIPESIZE]
    BY <1>1, <1>2, <1>5, <2>2, <2>3
  <2>5. Queue'[k] = data'[(nread' + k - 1) % PIPESIZE]
    BY <2>1, QueueNext DEF InOrder
  <2>6. Queue[k] = data[(nread + k - 1) % PIPESIZE]
    BY QueueIs DEF InOrder
  <2> QED BY <1>1, <2>4, <2>5, <2>6
<1>7. Queue'[Used + 1] = ch
  <2>1. Used + 1 \in 1..Used' /\ nread + (Used + 1) - 1 = nread + Used
    BY <1>2, <1>3, <1>4, SMTT(60)
  <2>2. Queue'[Used + 1] = data'[(nread + Used) % PIPESIZE]
    BY <1>1, <2>1, QueueNext DEF InOrder
  <2>3. data'[nwrite % PIPESIZE] = ch
    BY <1>1, <1>2, <1>5
  <2> QED BY <1>5, <2>2, <2>3
<1>8. Queue \in Seq(Byte) /\ Len(Queue) = Used /\ Queue' \in Seq(Byte) /\ Len(Queue') = Used + 1
  BY <1>4, QueueIs, QueueNext DEF InOrder
<1> HIDE DEF Queue
<1>9. Append(Queue, ch) \in Seq(Byte) /\ Len(Append(Queue, ch)) = Used + 1
  BY <1>8, SMTT(60)
<1>10. \A k \in 1..Used+1 : Queue'[k] = Append(Queue, ch)[k]
  BY <1>3, <1>6, <1>7, <1>8, SMTT(60)
<1>11. Queue' = Append(Queue, ch)
  BY <1>8, <1>9, <1>10, SeqEqual
<1> QED BY <1>4, <1>8, <1>11

\* A reader takes the oldest byte.
LEMMA QueueGet ==
  ASSUME Parameters, IInv, IInv', NEW p \in Readers, read_byte(p)
  PROVE  Queue # <<>> /\ Queue' = Tail(Queue) /\ last' = Head(Queue)
<1>1. /\ nwrite' = nwrite /\ nread' = (nread + 1) % UINT /\ ~ Empty
      /\ data' = data /\ last' = data[nread % PIPESIZE]
  BY DEF read_byte
<1>2. TypeOK /\ Used <= PIPESIZE /\ nread \in 0..UINT-1 /\ UINT \in Nat \ {0}
  BY SMTT(60) DEF IInv, TypeOK, Parameters
<1>3. Used' = Used - 1 /\ Used > 0
  BY <1>1, <1>2, CountsNext
<1>4. Used \in Nat
  BY <1>2, Counts, SMTT(60)
<1>5. ASSUME NEW k \in 1..Used-1 PROVE Queue'[k] = Queue[k + 1]
  <2>1. k \in 1..Used' /\ k + 1 \in 1..Used /\ nread + (k + 1) - 1 = nread + k /\ k - 1 \in Nat
    BY <1>3, <1>4, <1>2, SMTT(60)
  <2>2. nread' = IF nread + 1 < UINT THEN nread + 1 ELSE 0
    BY <1>1, <1>2, Successor
  <2>3. (nread' + k - 1) % PIPESIZE = (nread + k) % PIPESIZE
    <3>1. CASE nread + 1 < UINT
      <4>1. nread' + k - 1 = nread + k
        BY <1>2, <2>2, <3>1, SMTT(60)
      <4> QED BY <4>1
    <3>2. CASE ~ (nread + 1 < UINT)
      <4>1. nread' + k - 1 = k - 1 /\ nread + k = UINT + (k - 1)
        BY <1>2, <2>2, <3>2, SMTT(60)
      <4>2. (UINT + (k - 1)) % PIPESIZE = (k - 1) % PIPESIZE
        BY <2>1, Place
      <4> QED BY <4>1, <4>2
    <3> QED BY <3>1, <3>2
  <2>4. Queue'[k] = data'[(nread' + k - 1) % PIPESIZE]
    BY <2>1, QueueNext DEF InOrder
  <2>5. Queue[k + 1] = data[(nread + k) % PIPESIZE]
    BY <2>1, QueueIs DEF InOrder
  <2> QED BY <1>1, <2>3, <2>4, <2>5
<1>6. Queue[1] = data[nread % PIPESIZE]
  <2>1. 1 \in 1..Used /\ nread + 1 - 1 = nread
    BY <1>2, <1>3, <1>4, SMTT(60)
  <2>2. Queue[1] = data[(nread + 1 - 1) % PIPESIZE]
    BY <2>1, QueueIs DEF InOrder
  <2> QED BY <2>1, <2>2
<1>7. Queue \in Seq(Byte) /\ Len(Queue) = Used /\ Queue' \in Seq(Byte) /\ Len(Queue') = Used - 1
  BY <1>3, QueueIs, QueueNext DEF InOrder
<1> HIDE DEF Queue
<1>8. Queue # <<>>
  BY <1>3, <1>7, SMTT(60)
<1>9. Tail(Queue) \in Seq(Byte) /\ Len(Tail(Queue)) = Used - 1 /\ Head(Queue) = Queue[1]
  BY <1>7, <1>8, SMTT(60)
<1>10. \A k \in 1..Used-1 : Queue'[k] = Tail(Queue)[k]
  BY <1>4, <1>5, <1>7, <1>8, SMTT(60)
<1>11. Queue' = Tail(Queue)
  BY <1>7, <1>9, <1>10, SeqEqual
<1> QED BY <1>1, <1>6, <1>8, <1>9, <1>11

\* A process that sleeps, or is woken, is in the same call.
LEMMA ActiveSame ==
  ASSUME \A q \in Callers : Woken(q) \/ (q \in Active <=> q \in Active')
  PROVE  Active' = Active
<1>1. \A q \in Callers : q \in Active <=> q \in Active'
  BY DEF Active, Woken
<1> QED BY <1>1 DEF Active

\* A step in which no byte moves and no call begins or ends is not seen.
LEMMA QuietMaps ==
  ASSUME UNCHANGED <<data, nread, nwrite, readopen, writeopen, n, i, last, result>>, Active' = Active
  PROVE  UNCHANGED Abstract!vars
BY QueueSame DEF Abstract!vars

\* An empty queue is the test of piperead().
LEMMA QueueEmpty == ASSUME Parameters, IInv, Empty PROVE Queue = <<>>
<1>1. Queue \in Seq(Byte) /\ Len(Queue) = 0
  <2>1. Used = 0
    BY Counts DEF IInv
  <2> QED BY <2>1, QueueIs DEF InOrder
<1> QED BY <1>1, EmptySeq

\* A return with a right result.
LEMMA ReturnMaps ==
  ASSUME Parameters, IInv, NEW p \in Callers, pc[p] \notin {"user", "close"}, NEW r, Returns(p, r), pc'[p] = "user",
         \A q \in Callers \ {p} : Woken(q), UNCHANGED <<data, nread, nwrite, readopen, writeopen, last>>,
         \/ r = Error /\ (p \in Readers => i[p] = 0)
         \/ /\ r = i[p]
            /\ p \in Writers => i[p] = n[p] \/ i[p] > 0
            /\ p \in Readers => i[p] > 0 \/ n[p] = 0 \/ (Empty /\ ~ writeopen)
  PROVE  Abstract!Return(p, r)
<1>1. Active' = Active \ {p} /\ p \in Active
  <2>1. \A q \in Callers : q \in Active' <=> q \in Active /\ q # p
    BY DEF Active, Woken
  <2>2. Active \subseteq Callers /\ Active' \subseteq Callers /\ p \in Active
    BY DEF Active
  <2> QED BY <2>1, <2>2
<1>2. Queue' = Queue /\ (Empty => Queue = <<>>)
  BY QueueSame, QueueEmpty
<1> QED BY <1>1, <1>2 DEF Abstract!Return, Returns

\* The actions of a process are among Fifo's steps.
LEMMA FifoStep ==
  ASSUME NEW p \in Callers
  PROVE  /\ \A m \in 0..MaxCall : Abstract!Call(p, m) => Abstract!Next
         /\ \A ch \in Byte : Abstract!Put(p, ch) => Abstract!Next
         /\ Abstract!Get(p) => Abstract!Next
         /\ \A r \in {Error} \cup 0..MaxCall : Abstract!Return(p, r) => Abstract!Next
<1>1. p \in Abstract!Callers
  BY DEF Callers, Abstract!Callers
<1>2. ASSUME NEW m \in 0..MaxCall, Abstract!Call(p, m) PROVE Abstract!Next
  BY <1>1, <1>2 DEF Abstract!Next
<1>3. ASSUME NEW ch \in Byte, Abstract!Put(p, ch) PROVE Abstract!Next
  BY <1>1, <1>3 DEF Abstract!Next
<1>4. ASSUME Abstract!Get(p) PROVE Abstract!Next
  BY <1>1, <1>4 DEF Abstract!Next
<1>5. ASSUME NEW r \in {Error} \cup 0..MaxCall, Abstract!Return(p, r) PROVE Abstract!Next
  BY <1>1, <1>5 DEF Abstract!Next
<1> QED BY <1>2, <1>3, <1>4, <1>5

\* The steps of pipewrite().
LEMMA WriteMaps ==
  ASSUME Parameters, IInv, IInv', NEW p \in Writers, pipewrite(p)
  PROVE  [Abstract!Next]_(Abstract!vars)
<1>1. pc[p] = "write"
  BY DEF pipewrite, write_fails, write_full, write_returns, write_byte
<1>2. p \in Callers /\ p \notin Readers /\ i[p] \in 0..MaxCall /\ TypeOK
  BY <1>1, InCall DEF Callers, IInv, TypeOK
<1>3. CASE write_fails(p)
  <2>1. /\ Returns(p, Error) /\ Goto(p, "user") /\ UNCHANGED <<data, nread, nwrite, readopen, writeopen, last>>
    BY <1>3 DEF write_fails, pipe
  <2>2. pc'[p] = "user" /\ \A q \in Callers \ {p} : Woken(q)
    BY <1>2, <2>1, Moves DEF Labels
  <2>3. Abstract!Return(p, Error)
    BY <1>1, <1>2, <2>1, <2>2, ReturnMaps
  <2> QED BY <1>2, <2>3, FifoStep
<1>4. CASE write_full(p)
  <2>1. /\ wakeup("nread", p, "wprep") /\ UNCHANGED <<data, nread, nwrite, readopen, writeopen, n, i, last, result>>
    BY <1>4 DEF write_full, pipe, call
  <2>2. pc'[p] = "wprep" /\ \A q \in Callers \ {p} : Woken(q)
    BY <1>2, <2>1, Wakes DEF Labels
  <2>3. p \in Active /\ p \in Active'
    BY <1>1, <1>2, <2>2 DEF Active
  <2> QED BY <2>1, <2>2, <2>3, ActiveSame, QuietMaps
<1>5. CASE write_returns(p)
  <2>1. /\ wakeup("nread", p, "user") /\ UNCHANGED <<data, nread, nwrite, readopen, writeopen, last>>
    BY <1>5 DEF write_returns, pipe
  <2>2. pc'[p] = "user" /\ \A q \in Callers \ {p} : Woken(q)
    BY <1>2, <2>1, Wakes DEF Labels
  <2>3. PICK r \in {Error} \cup 0..MaxCall : Returns(p, r) /\ (r = Error \/ (r = i[p] /\ (i[p] = n[p] \/ i[p] > 0)))
    <3>1. CASE i[p] = n[p] /\ Returns(p, i[p])
      BY <1>2, <3>1
    <3>2. CASE i[p] = 0 /\ Returns(p, Error)
      <4> WITNESS Error \in {Error} \cup 0..MaxCall
      <4> QED BY <3>2
    <3>3. CASE i[p] # 0 /\ Returns(p, i[p])
      <4>1. i[p] > 0
        BY <1>2, <3>3, SMTT(60)
      <4> QED BY <1>2, <3>3, <4>1
    <3> QED BY <1>5, <3>1, <3>2, <3>3 DEF write_returns
  <2>4. Abstract!Return(p, r)
    BY <1>1, <1>2, <2>1, <2>2, <2>3, ReturnMaps
  <2> QED BY <1>2, <2>4, FifoStep
<1>6. ASSUME NEW ch \in Byte, write_byte(p, ch) PROVE [Abstract!Next]_(Abstract!vars)
  <2>1. /\ i[p] < n[p] /\ readopen /\ i' = [i EXCEPT ![p] = @ + 1]
        /\ UNCHANGED <<readopen, writeopen, pc, n, last, result>>
    BY <1>6 DEF write_byte
  <2>2. Active' = Active /\ p \in Active
    BY <1>1, <1>2, <2>1 DEF Active
  <2>3. Queue' = Append(Queue, ch) /\ Len(Queue) < PIPESIZE
    BY <1>6, QueuePut
  <2>4. Abstract!Put(p, ch)
    BY <2>1, <2>2, <2>3 DEF Abstract!Put
  <2> QED BY <1>2, <2>4, FifoStep
<1> QED BY <1>3, <1>4, <1>5, <1>6 DEF pipewrite

\* The steps of piperead().
LEMMA ReadMaps ==
  ASSUME Parameters, IInv, IInv', NEW p \in Readers, piperead(p)
  PROVE  [Abstract!Next]_(Abstract!vars)
<1>1. pc[p] \in {"read", "copy"}
  BY DEF piperead, read_wait, read_byte, read_returns
<1>2. /\ p \in Callers /\ p \notin Writers /\ i[p] \in 0..MaxCall /\ n[p] \in 0..MaxCall
      /\ TypeOK /\ CallInv(p) /\ p \in Active
  BY <1>1, InCall DEF Callers, IInv, TypeOK, Active
<1>3. CASE read_wait(p)
  <2>1. pc[p] = "read" /\ i[p] = 0 /\ UNCHANGED <<data, nread, nwrite, readopen, writeopen, last>>
    BY <1>2, <1>3 DEF read_wait, pipe, CallInv
  <2>2. CASE Returns(p, Error) /\ Goto(p, "user")
    <3>1. pc'[p] = "user" /\ \A q \in Callers \ {p} : Woken(q)
      BY <1>2, <2>2, Moves DEF Labels
    <3>2. Abstract!Return(p, Error)
      BY <1>1, <1>2, <2>1, <2>2, <3>1, ReturnMaps
    <3> QED BY <1>2, <3>2, FifoStep
  <2>3. ASSUME NEW l \in {"rprep", "copy"}, Goto(p, l), UNCHANGED <<n, i, result>> PROVE UNCHANGED Abstract!vars
    <3>1. pc'[p] = l /\ \A q \in Callers \ {p} : Woken(q)
      BY <1>2, <2>3, Moves DEF Labels
    <3>2. p \in Active'
      BY <1>2, <3>1 DEF Active
    <3> QED BY <1>2, <2>1, <2>3, <3>1, <3>2, ActiveSame, QuietMaps
  <2> QED BY <1>3, <2>2, <2>3 DEF read_wait
<1>4. CASE read_byte(p)
  <2>1. i[p] < n[p] /\ i' = [i EXCEPT ![p] = @ + 1] /\ UNCHANGED <<readopen, writeopen, pc, n, result>>
    BY <1>4 DEF read_byte
  <2>2. Active' = Active
    BY <2>1 DEF Active
  <2>3. Queue # <<>> /\ Queue' = Tail(Queue) /\ last' = Head(Queue)
    BY <1>4, QueueGet
  <2>4. Abstract!Get(p)
    BY <1>2, <2>1, <2>2, <2>3 DEF Abstract!Get
  <2> QED BY <1>2, <2>4, FifoStep
<1>5. CASE read_returns(p)
  <2>1. /\ pc[p] = "copy" /\ wakeup("nwrite", p, "user") /\ UNCHANGED <<data, nread, nwrite, readopen, writeopen, last>>
    BY <1>5 DEF read_returns, pipe
  <2>2. pc'[p] = "user" /\ \A q \in Callers \ {p} : Woken(q)
    BY <1>2, <2>1, Wakes DEF Labels
  <2>3. i[p] = 0 => ~ Empty \/ ~ writeopen
    BY <1>2, <2>1 DEF CallInv
  <2>4. PICK r \in {Error} \cup 0..MaxCall :
          /\ Returns(p, r)
          /\ (r = Error /\ i[p] = 0) \/ (r = i[p] /\ (i[p] > 0 \/ n[p] = 0 \/ (Empty /\ ~ writeopen)))
    <3>1. CASE i[p] # 0 /\ Returns(p, i[p])
      <4>1. i[p] > 0
        BY <1>2, <3>1, SMTT(60)
      <4> QED BY <1>2, <3>1, <4>1
    <3>2. CASE i[p] = 0 /\ Returns(p, Error)
      <4> WITNESS Error \in {Error} \cup 0..MaxCall
      <4> QED BY <3>2
    <3>3. CASE i[p] = 0 /\ (i[p] = n[p] \/ Empty) /\ Returns(p, i[p])
      BY <1>2, <2>3, <3>3
    <3> QED BY <1>5, <3>1, <3>2, <3>3 DEF read_returns
  <2>5. Abstract!Return(p, r)
    BY <1>1, <1>2, <2>1, <2>2, <2>4, ReturnMaps
  <2> QED BY <1>2, <2>5, FifoStep
<1> QED BY <1>3, <1>4, <1>5 DEF piperead

\* A call begins.
LEMMA CallMaps ==
  ASSUME IInv, NEW p \in Callers, NEW m \in 0..MaxCall, Call(p, m)
  PROVE  Abstract!Call(p, m)
<1> DEFINE l == IF p \in Writers THEN "write" ELSE "read"
<1>1. /\ pc[p] = "user" /\ Goto(p, l) /\ n' = [n EXCEPT ![p] = m]
      /\ UNCHANGED <<data, nread, nwrite, readopen, writeopen, i, last, result>>
  BY DEF Call, pipe
<1>2. l \in {"write", "read"} /\ TypeOK
  BY DEF IInv
<1> HIDE DEF l
<1>3. pc'[p] = l /\ \A q \in Callers \ {p} : pc'[q] = pc[q]
  BY <1>1, <1>2, Moves DEF Labels
<1>4. Active' = Active \cup {p} /\ p \notin Active
  <2>1. \A q \in Callers : q \in Active' <=> q \in Active \/ q = p
    BY <1>2, <1>3 DEF Active
  <2>2. Active \subseteq Callers /\ Active' \subseteq Callers /\ p \notin Active
    BY <1>1 DEF Active
  <2> QED BY <2>1, <2>2
<1> QED BY <1>1, <1>4, QueueSame DEF Abstract!Call

\* sleep(), kkill(), fork() and fileclose() are not seen.
LEMMA OthersMap ==
  ASSUME IInv, NEW p \in Callers, sleep(p) \/ kkill(p) \/ Dup(p) \/ fileclose(p)
  PROVE  UNCHANGED Abstract!vars
<1>1. UNCHANGED <<data, nread, nwrite, readopen, writeopen, n, i, last, result>>
  BY DEF sleep, kkill, Dup, fileclose, pipe, call
<1>2. \A q \in Callers : q \in Active <=> q \in Active'
  BY DEF sleep, kkill, Dup, fileclose, Goto, Active, IInv, TypeOK
<1> QED BY <1>1, <1>2, ActiveSame, QuietMaps

\* pipeclose() closes an end on which nobody is in a call.
LEMMA CloseMaps ==
  ASSUME Parameters, IInv, NEW p \in Callers, pipeclose(p)
  PROVE  Abstract!CloseWriters \/ Abstract!CloseReaders
<1>1. UNCHANGED <<data, nread, nwrite, n, i, last, result>> /\ pc[p] = "close" /\ pc'[p] = "user"
  BY Closing
<1>2. \A q \in Callers \ {p} : Woken(q)
  BY Closing
<1>3. p \notin Active /\ p \notin Active'
  BY <1>1 DEF Active
<1>4. Active' = Active /\ Queue' = Queue
  BY <1>1, <1>2, <1>3, ActiveSame, QueueSame
<1>5. CASE p \in Writers
  <2>1. writeopen /\ UNCHANGED readopen /\ \A q \in Writers : pc[q] \in {"user", "close"}
    BY <1>5, Closing
  <2>2. writeopen' = FALSE
    BY <1>5 DEF pipeclose
  <2>3. Active \cap Writers = {}
    BY <2>1 DEF Active
  <2> QED BY <1>1, <1>4, <2>1, <2>2, <2>3 DEF Abstract!CloseWriters
<1>6. CASE p \notin Writers
  <2>1. readopen /\ UNCHANGED writeopen /\ \A q \in Readers : pc[q] \in {"user", "close"}
    BY <1>6, Closing
  <2>2. readopen' = FALSE
    BY <1>6 DEF pipeclose
  <2>3. Active \cap Readers = {}
    BY <2>1 DEF Active
  <2> QED BY <1>1, <1>4, <2>1, <2>2, <2>3 DEF Abstract!CloseReaders
<1> QED BY <1>5, <1>6

\* The pipe implements Fifo, for any processes, any size and any wrap-around of the
\* counters: every byte comes out once and in order, a full pipe loses none, and a
\* read of no bytes is the end of the input.
THEOREM FifoImplemented == ASSUME Parameters PROVE Spec => IsFifo
<1>1. Init => Abstract!Init
  <2> SUFFICES ASSUME Init PROVE Abstract!Init
    OBVIOUS
  <2>1. IInv
    BY InitIInv
  <2>2. Queue = <<>>
    BY <2>1, QueueEmpty DEF Init, Empty
  <2>3. Active = {} /\ last \in Byte
    BY DEF Init, Active
  <2> QED BY <2>2, <2>3 DEF Init, Abstract!Init, Abstract!Callers, Callers
<1>2. IInv /\ [Next]_vars => [Abstract!Next]_(Abstract!vars)
  <2> SUFFICES ASSUME IInv, [Next]_vars PROVE [Abstract!Next]_(Abstract!vars)
    OBVIOUS
  <2>1. IInv'
    BY StepIInv
  <2>2. CASE UNCHANGED vars
    BY <2>2 DEF vars, pipe, call, Abstract!vars, Queue, Used, Active
  <2>3. ASSUME NEW p \in Writers, pipewrite(p) PROVE [Abstract!Next]_(Abstract!vars)
    BY <2>1, <2>3, WriteMaps
  <2>4. ASSUME NEW p \in Readers, piperead(p) PROVE [Abstract!Next]_(Abstract!vars)
    BY <2>1, <2>4, ReadMaps
  <2>5. ASSUME NEW p \in Callers, NEW m \in 0..MaxCall, Call(p, m) PROVE Abstract!Next
    BY <2>5, CallMaps, FifoStep
  <2>6. ASSUME NEW p \in Callers, sleep(p) \/ kkill(p) \/ Dup(p) \/ fileclose(p) PROVE UNCHANGED Abstract!vars
    BY <2>6, OthersMap
  <2>7. ASSUME NEW p \in Callers, pipeclose(p) PROVE Abstract!Next
    BY <2>7, CloseMaps DEF Abstract!Next
  <2> QED BY <2>2, <2>3, <2>4, <2>5, <2>6, <2>7 DEF Next
<1> QED BY <1>1, <1>2, Invariance, PTL DEF Spec, IsFifo, Abstract!Spec

=============================================================================
