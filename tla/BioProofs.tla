----------------------------- MODULE BioProofs ------------------------------
(***************************************************************************)
(* IInv is an invariant of Bio for any users, blocks, contents and number  *)
(* of buffers, and Bio implements BlockStore.                              *)
(***************************************************************************)
EXTENDS Bio, FiniteSetTheorems, WellFoundedInduction, TLAPS

\* Zenon tries every leaf; those with arithmetic or functional updates cite SMT.
USE ZenonT(60)

-----------------------------------------------------------------------------
(* Counting references.                                                    *)

\* RefersTo(i) is a finite set, and its cardinality a number.
LEMMA RefersFinite ==
  ASSUME Parameters, NEW i
  PROVE  IsFiniteSet(RefersTo(i)) /\ Cardinality(RefersTo(i)) \in Nat
<1>1. RefersTo(i) \subseteq Users /\ IsFiniteSet(Users)
  BY DEF RefersTo, Parameters
<1> QED BY <1>1, FS_Subset, FS_CardinalityType

\* A buffer with count 0 has no user and no pin.
LEMMA Unreferenced ==
  ASSUME Parameters, IInv, NEW i \in Bufs, refcnt[i] = 0
  PROVE  /\ i \notin pinned /\ \A u \in Users : pc[u] # "idle" => buf[u] # i
         /\ locked[i] = NoUser
<1>1. Cardinality(RefersTo(i)) \in Nat /\ IsFiniteSet(RefersTo(i))
  BY RefersFinite
<1>2. i \notin pinned /\ Cardinality(RefersTo(i)) = 0
  BY <1>1, SMTT(60) DEF IInv, RefcntExact
<1>3. RefersTo(i) = {}
  BY <1>1, <1>2, FS_EmptySet
<1>4. \A u \in Users : pc[u] # "idle" => buf[u] # i
  BY <1>3 DEF RefersTo
<1>5. locked[i] \in Users => buf[locked[i]] = i /\ pc[locked[i]] # "idle"
  BY SMTT(60) DEF IInv, BufInv, UserInv, TypeOK, Parameters
<1> QED BY <1>2, <1>4, <1>5 DEF IInv, TypeOK

\* A user that comes to a buffer adds one to its count and to no other's.
LEMMA Comes ==
  ASSUME Parameters, IInv, NEW u \in Users, NEW i \in Bufs, pc[u] = "idle",
         pc' = [pc EXCEPT ![u] = "lock"], buf' = [buf EXCEPT ![u] = i], pinned' = pinned,
         \A j \in Bufs : refcnt'[j] = refcnt[j] + (IF j = i THEN 1 ELSE 0)
  PROVE  RefcntExact'
<1> SUFFICES ASSUME NEW j \in Bufs
             PROVE  refcnt'[j] = Cardinality(RefersTo(j)') + (IF j \in pinned THEN 1 ELSE 0)
  BY DEF RefcntExact
<1>1. RefersTo(j)' = IF j = i THEN RefersTo(j) \cup {u} ELSE RefersTo(j)
  BY DEF RefersTo, IInv, TypeOK
<1>2. u \notin RefersTo(j)
  BY DEF RefersTo
<1>3. IsFiniteSet(RefersTo(j)) /\ Cardinality(RefersTo(j)) \in Nat
  BY RefersFinite
<1>4. Cardinality(RefersTo(j) \cup {u}) = Cardinality(RefersTo(j)) + 1
  BY <1>2, <1>3, FS_AddElement
<1>5. refcnt[j] = Cardinality(RefersTo(j)) + (IF j \in pinned THEN 1 ELSE 0)
  BY DEF IInv, RefcntExact
<1> QED BY <1>1, <1>3, <1>4, <1>5, SMTT(60)

\* A user that leaves its buffer takes one from its count and from no other's.
LEMMA Leaves ==
  ASSUME Parameters, IInv, NEW u \in Users, pc[u] # "idle",
         pc' = [pc EXCEPT ![u] = "idle"], buf' = [buf EXCEPT ![u] = 1], pinned' = pinned,
         \A j \in Bufs : refcnt'[j] = refcnt[j] - (IF j = buf[u] THEN 1 ELSE 0)
  PROVE  RefcntExact'
<1> SUFFICES ASSUME NEW j \in Bufs
             PROVE  refcnt'[j] = Cardinality(RefersTo(j)') + (IF j \in pinned THEN 1 ELSE 0)
  BY DEF RefcntExact
<1>1. RefersTo(j)' = IF j = buf[u] THEN RefersTo(j) \ {u} ELSE RefersTo(j)
  BY DEF RefersTo, IInv, TypeOK
<1>2. j = buf[u] => u \in RefersTo(j)
  BY DEF RefersTo
<1>3. IsFiniteSet(RefersTo(j)) /\ Cardinality(RefersTo(j)) \in Nat
  BY RefersFinite
<1>4. u \in RefersTo(j) => Cardinality(RefersTo(j) \ {u}) = Cardinality(RefersTo(j)) - 1
  BY <1>3, FS_RemoveElement
<1>5. refcnt[j] = Cardinality(RefersTo(j)) + (IF j \in pinned THEN 1 ELSE 0)
  BY DEF IInv, RefcntExact
<1> QED BY <1>1, <1>2, <1>3, <1>4, <1>5, SMTT(60)

\* A user that stays with its buffer changes no count.
LEMMA Remains ==
  ASSUME IInv, NEW u \in Users, NEW l \in {"read", "use", "put"}, pc[u] # "idle",
         pc' = [pc EXCEPT ![u] = l], buf' = buf, refcnt' = refcnt, pinned' = pinned
  PROVE  RefcntExact'
<1>1. \A j \in Bufs : RefersTo(j)' = RefersTo(j)
  BY DEF RefersTo, IInv, TypeOK
<1> QED BY <1>1 DEF IInv, RefcntExact

-----------------------------------------------------------------------------
(* The scans of bget().                                                    *)

\* The least element of a set of numbers.
LEMMA Least ==
  ASSUME NEW S \in SUBSET Nat, S # {}
  PROVE  \E k \in S : \A j \in S : k <= j
<1> DEFINE R == OpToRel(<, Nat)
<1>1. PICK k \in S : \A j \in S : ~ (<<j, k>> \in R)
  <2> HIDE DEF R
  <2>1. IsWellFoundedOn(R, Nat)
    BY NatLessThanWellFounded DEF R
  <2> QED BY <2>1, WFMin
<1>2. ASSUME NEW j \in S PROVE ~ (j < k)
  BY <1>1 DEF OpToRel
<1> QED BY <1>2, SMTT(60)

\* A nonempty set of positions has a nearest and a farthest one.
LEMMA Ends ==
  ASSUME Parameters, NEW S \in SUBSET Bufs, S # {}
  PROVE  Nearest(S) \in S /\ Farthest(S) \in S
<1>1. \E k \in S : \A j \in S : k <= j
  BY Least, SMTT(60) DEF Bufs
<1>2. \E k \in S : \A j \in S : j <= k
  <2> DEFINE T == {NBUF - k : k \in S}
  <2>1. T \in SUBSET Nat /\ T # {}
    <3>1. \A k \in S : NBUF - k \in Nat
      BY SMTT(60) DEF Bufs, Parameters
    <3> QED BY <3>1
  <2>2. PICK m \in T : \A n \in T : m <= n
    BY ONLY <2>1, Least, ZenonT(60)
  <2>3. PICK k \in S : m = NBUF - k
    OBVIOUS
  <2>4. ASSUME NEW j \in S PROVE j <= k
    <3>1. NBUF - k <= NBUF - j
      BY <2>2, <2>3
    <3> QED BY <3>1, SMTT(60) DEF Bufs, Parameters
  <2> QED BY <2>4
<1> QED BY <1>1, <1>2 DEF Nearest, Farthest

\* bget() looks at every buffer, and finds a block's where it has one.
LEMMA Finds ==
  ASSUME Parameters, IInv, NEW b \in Blocks
  PROVE  /\ Cached(b) # {} => /\ lru[Nearest(Cached(b))] \in Bufs
                              /\ blockno[lru[Nearest(Cached(b))]] = b
         /\ Cached(b) = {} => \A i \in Bufs : blockno[i] # b
<1>1. Cached(b) \in SUBSET Bufs
  BY DEF Cached
<1>2. Cached(b) # {} => Nearest(Cached(b)) \in Cached(b)
  BY <1>1, Ends
<1> QED BY <1>2, SMTT(60) DEF Cached, IInv, BufInv, TypeOK

\* The scan from the tail finds a buffer with count 0 if there is one.
LEMMA Takes ==
  ASSUME Parameters, IInv
  PROVE  /\ Unused # {} => /\ lru[Farthest(Unused)] \in Bufs
                           /\ refcnt[lru[Farthest(Unused)]] = 0
         /\ Unused = {} => \A i \in Bufs : refcnt[i] # 0
<1>1. Unused \in SUBSET Bufs
  BY DEF Unused
<1>2. Unused # {} => Farthest(Unused) \in Unused
  BY <1>1, Ends
<1> QED BY <1>2, SMTT(60) DEF Unused, IInv, BufInv, TypeOK

\* When bget() finds no buffer, each has a user or a pin, and a user or a pin has one.
LEMMA AllInUse ==
  ASSUME Parameters, IInv, Unused = {}
  PROVE  /\ \A i \in Bufs : blockno[i] \in Blocks /\ (i \in pinned \/ RefersTo(i) # {})
         /\ NBUF <= Cardinality(Active) + Cardinality(pinned)
<1> DEFINE B == {i \in Bufs : \E v \in Active : buf[v] = i}
           f == [v \in Active |-> buf[v]]
<1>1. ASSUME NEW i \in Bufs, i \notin pinned PROVE RefersTo(i) # {}
  <2>1. Cardinality(RefersTo(i)) # 0
    BY <1>1, Takes, RefersFinite, SMTT(60) DEF IInv, RefcntExact
  <2> QED BY <2>1, FS_EmptySet
<1>2. ASSUME NEW i \in Bufs PROVE blockno[i] \in Blocks
  <2>1. CASE i \in pinned
    BY <2>1 DEF IInv, BufInv
  <2>2. CASE i \notin pinned
    <3>1. PICK v \in Users : pc[v] # "idle" /\ buf[v] = i
      BY <1>1, <2>2 DEF RefersTo
    <3> QED BY <3>1 DEF IInv, UserInv
  <2> QED BY <2>1, <2>2
<1>3. IsFiniteSet(Active)
  BY FS_Subset DEF Active, Parameters
<1>4. f \in Surjection(Active, B)
  BY DEF Surjection, Active, IInv, TypeOK
<1>5. IsFiniteSet(B) /\ Cardinality(B) <= Cardinality(Active)
  BY <1>3, <1>4, FS_Surjection
<1>6. B \cup pinned = Bufs
  <2>1. ASSUME NEW i \in Bufs, i \notin pinned PROVE i \in B
    BY <1>1, <2>1 DEF RefersTo, Active
  <2> QED BY <2>1 DEF IInv, TypeOK
<1> HIDE DEF B, f
<1>7. Cardinality(Bufs) = NBUF
  BY FS_Interval, SMTT(60) DEF Bufs, Parameters
<1>8. /\ Cardinality(B \cup pinned) = Cardinality(B) + Cardinality(pinned) - Cardinality(B \cap pinned)
      /\ IsFiniteSet(pinned) /\ IsFiniteSet(B \cap pinned)
  BY <1>5, FS_Union, FS_Intersection DEF IInv
<1>9. /\ Cardinality(B) \in Nat /\ Cardinality(pinned) \in Nat /\ Cardinality(Active) \in Nat
      /\ Cardinality(B \cap pinned) \in Nat
  BY <1>3, <1>5, <1>8, FS_CardinalityType
<1>10. Cardinality(B) + Cardinality(pinned) - Cardinality(B \cap pinned) = NBUF
  BY <1>6, <1>7, <1>8
<1>11. NBUF <= Cardinality(Active) + Cardinality(pinned)
  BY <1>5, <1>9, <1>10, SMTT(60)
<1> QED BY <1>1, <1>2, <1>11

-----------------------------------------------------------------------------
(* Each step keeps IInv.                                                   *)

\* bget() finds the block: one more user of its buffer.
LEMMA HitKeeps == ASSUME Parameters, IInv, NEW u \in Users, NEW b \in Blocks, bget_hit(u, b) PROVE IInv'
<1>1. PICK i \in Bufs : /\ blockno[i] = b /\ refcnt' = [refcnt EXCEPT ![i] = @ + 1]
                        /\ buf' = [buf EXCEPT ![u] = i]
  BY Finds DEF bget_hit
<1>2. /\ ~ panicked /\ pc[u] = "idle" /\ pc' = [pc EXCEPT ![u] = "lock"] /\ want' = [want EXCEPT ![u] = b]
      /\ UNCHANGED <<disk, blockno, valid, data, locked, lru, pinned, panicked>>
  BY DEF bget_hit
<1>3. TypeOK'
  BY <1>1, <1>2, SMTT(60) DEF IInv, TypeOK
<1>4. OneBuffer' /\ OutOfBuffers' /\ IsFiniteSet(pinned')
  BY <1>2 DEF IInv, OneBuffer, OutOfBuffers
<1>5. RefcntExact'
  <2>1. \A j \in Bufs : refcnt'[j] = refcnt[j] + (IF j = i THEN 1 ELSE 0)
    BY <1>1, SMTT(60) DEF IInv, TypeOK
  <2> QED BY <1>1, <1>2, <2>1, Comes
<1>6. ASSUME NEW v \in Users PROVE UserInv(v)'
  <2>1. CASE v = u
    <3>1. locked[i] # u
      BY <1>2, SMTT(60) DEF IInv, BufInv, UserInv, Parameters
    <3> QED BY <1>1, <1>2, <2>1, <3>1 DEF IInv, TypeOK, UserInv
  <2>2. CASE v # u
    BY <1>1, <1>2, <2>2 DEF IInv, TypeOK, UserInv
  <2> QED BY <2>1, <2>2
<1>7. ASSUME NEW j \in Bufs PROVE BufInv(j)'
  <2>1. locked[j] # u
    BY <1>2, SMTT(60) DEF IInv, BufInv, UserInv, Parameters
  <2> QED BY <1>1, <1>2, <2>1 DEF IInv, TypeOK, BufInv
<1> QED BY <1>3, <1>4, <1>5, <1>6, <1>7 DEF IInv

\* bget() recycles a buffer, which nobody refers to, or panics.
LEMMA MissKeeps == ASSUME Parameters, IInv, NEW u \in Users, NEW b \in Blocks, bget_miss(u, b) PROVE IInv'
<1>1. CASE Unused = {}
  <2>1. panicked' = TRUE /\ UNCHANGED <<disk, bufVars, lru, pinned, userVars>>
    BY <1>1 DEF bget_miss, bufVars
  <2>2. OutOfBuffers'
    BY <1>1, <2>1, AllInUse DEF OutOfBuffers, Active, RefersTo, bufVars, userVars
  <2> QED BY <2>1, <2>2, SMTT(60) DEF bufVars, userVars, IInv, TypeOK, OneBuffer, RefcntExact, RefersTo, UserInv, BufInv
<1>2. CASE Unused # {}
  <2>1. PICK i \in Bufs : /\ refcnt[i] = 0
                          /\ blockno' = [blockno EXCEPT ![i] = b] /\ valid' = [valid EXCEPT ![i] = FALSE]
                          /\ refcnt' = [refcnt EXCEPT ![i] = 1] /\ buf' = [buf EXCEPT ![u] = i]
    BY <1>2, Takes DEF bget_miss
  <2>2. /\ pc[u] = "idle" /\ pc' = [pc EXCEPT ![u] = "lock"] /\ want' = [want EXCEPT ![u] = b]
        /\ UNCHANGED <<disk, data, locked, lru, pinned, panicked>>
        /\ \A j \in Bufs : blockno[j] # b
    BY <1>2, Finds DEF bget_miss
  <2>3. /\ i \notin pinned /\ \A v \in Users : pc[v] # "idle" => buf[v] # i
        /\ locked[i] = NoUser
    BY <2>1, Unreferenced
  <2>4. TypeOK'
    BY <2>1, <2>2 DEF IInv, TypeOK
  <2>5. OneBuffer'
    BY <2>1, <2>2 DEF IInv, OneBuffer, TypeOK
  <2>6. OutOfBuffers' /\ IsFiniteSet(pinned')
    BY <2>2 DEF bget_miss, IInv, OutOfBuffers
  <2>7. RefcntExact'
    <3>1. \A j \in Bufs : refcnt'[j] = refcnt[j] + (IF j = i THEN 1 ELSE 0)
      BY <2>1, SMTT(60) DEF IInv, TypeOK
    <3> QED BY <2>1, <2>2, <3>1, Comes
  <2>8. ASSUME NEW v \in Users PROVE UserInv(v)'
    <3>1. CASE v = u
      BY <2>1, <2>2, <2>3, <3>1, SMTT(60) DEF IInv, TypeOK, UserInv, Parameters
    <3>2. CASE v # u
      BY <2>1, <2>2, <2>3, <3>2 DEF IInv, TypeOK, UserInv
    <3> QED BY <3>1, <3>2
  <2>9. ASSUME NEW j \in Bufs PROVE BufInv(j)'
    <3>1. locked[j] # u
      BY <2>2, SMTT(60) DEF IInv, BufInv, UserInv, Parameters
    <3>2. CASE j = i
      BY <2>1, <2>2, <2>3, <3>2 DEF IInv, TypeOK, BufInv
    <3>3. CASE j # i
      BY <2>1, <2>2, <3>1, <3>3 DEF IInv, TypeOK, BufInv
    <3> QED BY <3>2, <3>3
  <2> QED BY <2>4, <2>5, <2>6, <2>7, <2>8, <2>9 DEF IInv
<1> QED BY <1>1, <1>2

\* A user that waits for a buffer's lock gets it, to read the block or to use it.
LEMMA AcquireKeeps == ASSUME Parameters, IInv, NEW u \in Users, acquiresleep(u) PROVE IInv'
<1> DEFINE i == buf[u]
<1>1. PICK l \in {"read", "use"} : /\ pc' = [pc EXCEPT ![u] = l] /\ l = IF valid[i] THEN "use" ELSE "read"
  BY DEF acquiresleep
<1>2. /\ ~ panicked /\ pc[u] = "lock" /\ i \in Bufs /\ locked[i] = NoUser /\ locked' = [locked EXCEPT ![i] = u]
      /\ UNCHANGED <<disk, blockno, valid, refcnt, data, lru, pinned, want, buf, panicked>>
  BY DEF acquiresleep, IInv, TypeOK
<1>3. TypeOK'
  BY <1>1, <1>2 DEF IInv, TypeOK
<1>4. OneBuffer' /\ OutOfBuffers' /\ IsFiniteSet(pinned')
  BY <1>2 DEF IInv, OneBuffer, OutOfBuffers
<1>5. RefcntExact'
  BY <1>1, <1>2, Remains
<1>6. ASSUME NEW v \in Users PROVE UserInv(v)'
  BY <1>1, <1>2, SMTT(60) DEF IInv, TypeOK, UserInv, Parameters
<1>7. ASSUME NEW j \in Bufs PROVE BufInv(j)'
  BY <1>1, <1>2 DEF IInv, TypeOK, BufInv, Parameters
<1> QED BY <1>3, <1>4, <1>5, <1>6, <1>7 DEF IInv

\* bread() fills the buffer from the disk.
LEMMA BreadKeeps == ASSUME Parameters, IInv, NEW u \in Users, bread(u) PROVE IInv'
<1> DEFINE i == buf[u]
<1>1. /\ ~ panicked /\ pc[u] = "read" /\ pc' = [pc EXCEPT ![u] = "use"]
      /\ data' = [data EXCEPT ![i] = disk[blockno[i]]] /\ valid' = [valid EXCEPT ![i] = TRUE]
      /\ UNCHANGED <<disk, blockno, refcnt, locked, lru, pinned, want, buf, panicked>>
  BY DEF bread
<1>2. i \in Bufs /\ locked[i] = u /\ blockno[i] \in Blocks
  BY <1>1 DEF IInv, TypeOK, UserInv
<1>3. TypeOK'
  BY <1>1, <1>2 DEF IInv, TypeOK
<1>4. OneBuffer' /\ OutOfBuffers' /\ IsFiniteSet(pinned')
  BY <1>1 DEF IInv, OneBuffer, OutOfBuffers
<1>5. RefcntExact'
  BY <1>1, Remains
<1>6. ASSUME NEW v \in Users PROVE UserInv(v)'
  BY <1>1, <1>2, SMTT(60) DEF IInv, TypeOK, UserInv
<1>7. ASSUME NEW j \in Bufs PROVE BufInv(j)'
  BY <1>1, <1>2 DEF IInv, TypeOK, BufInv
<1> QED BY <1>3, <1>4, <1>5, <1>6, <1>7 DEF IInv

\* What the user of a buffer does to its contents or to the disk.
LEMMA WriteKeeps ==
  ASSUME Parameters, IInv, NEW u \in Users, NEW d \in Data, Modify(u, d) \/ bwrite(u)
  PROVE  IInv'
<1> DEFINE i == buf[u]
<1>1. /\ ~ panicked /\ pc[u] = "use" /\ UNCHANGED <<blockno, valid, refcnt, locked, lru, pinned, userVars, panicked>>
      /\ \/ data' = [data EXCEPT ![i] = d] /\ disk' = disk
         \/ disk' = [disk EXCEPT ![blockno[i]] = data[i]] /\ data' = data
  BY DEF Modify, bwrite, bufVars
<1>2. i \in Bufs /\ locked[i] = u /\ blockno[i] \in Blocks
  BY <1>1 DEF IInv, TypeOK, UserInv
<1>3. TypeOK'
  BY <1>1, <1>2, SMTT(60) DEF IInv, TypeOK, userVars
<1>4. OneBuffer' /\ OutOfBuffers' /\ IsFiniteSet(pinned')
  BY <1>1 DEF IInv, OneBuffer, OutOfBuffers
<1>5. RefcntExact'
  BY <1>1 DEF IInv, RefcntExact, RefersTo, userVars
<1>6. ASSUME NEW v \in Users PROVE UserInv(v)'
  BY <1>1 DEF IInv, UserInv, userVars
<1>7. ASSUME NEW j \in Bufs PROVE BufInv(j)'
  <2>1. CASE j = i
    BY <1>1, <1>2, <2>1 DEF IInv, TypeOK, BufInv, userVars
  <2>2. CASE j # i
    <3>1. blockno[j] # blockno[i]
      BY <1>2, <2>2 DEF IInv, OneBuffer, Parameters
    <3>2. data'[j] = data[j] /\ (blockno[j] \in Blocks => disk'[blockno[j]] = disk[blockno[j]])
      BY <1>1, <1>2, <2>2, <3>1 DEF IInv, TypeOK
    <3> QED BY <1>1, <3>2 DEF IInv, BufInv, userVars
  <2> QED BY <2>1, <2>2
<1> QED BY <1>3, <1>4, <1>5, <1>6, <1>7 DEF IInv

\* The log pins a buffer, or lets it go once its block is on the disk.
LEMMA PinKeeps == ASSUME Parameters, IInv, NEW u \in Users, bpin(u) \/ bunpin(u) PROVE IInv'
<1> DEFINE i == buf[u]
<1>1. /\ pc[u] = "use" /\ UNCHANGED <<disk, blockno, valid, data, locked, lru, userVars, panicked>>
      /\ i \in Bufs /\ valid[i] /\ blockno[i] \in Blocks
  BY DEF bpin, bunpin, IInv, TypeOK, UserInv
<1>2. IsFiniteSet(pinned) /\ ~ panicked
  BY DEF IInv, bpin, bunpin
<1>3. CASE bpin(u)
  <2>1. /\ i \notin pinned
        /\ refcnt' = [refcnt EXCEPT ![i] = @ + 1] /\ pinned' = pinned \cup {i}
    BY <1>3 DEF bpin
  <2>2. IsFiniteSet(pinned')
    BY <1>2, <2>1, FS_AddElement
  <2>3. TypeOK'
    BY <1>1, <2>1, SMTT(60) DEF IInv, TypeOK, userVars
  <2>4. RefcntExact'
    <3>1. \A j \in Bufs : RefersTo(j)' = RefersTo(j) /\ Cardinality(RefersTo(j)) \in Nat
      BY <1>1, RefersFinite DEF RefersTo, userVars
    <3> QED BY <1>1, <2>1, <3>1, SMTT(60) DEF IInv, TypeOK, RefcntExact
  <2>5. OneBuffer' /\ OutOfBuffers' /\ \A v \in Users : UserInv(v)'
    BY <1>1, <1>2 DEF IInv, OneBuffer, OutOfBuffers, UserInv, userVars
  <2>6. \A j \in Bufs : BufInv(j)'
    BY <1>1, <2>1 DEF IInv, BufInv, userVars
  <2> QED BY <2>2, <2>3, <2>4, <2>5, <2>6 DEF IInv
<1>4. CASE bunpin(u)
  <2>1. /\ i \in pinned /\ disk[blockno[i]] = data[i]
        /\ refcnt' = [refcnt EXCEPT ![i] = @ - 1] /\ pinned' = pinned \ {i}
    BY <1>4 DEF bunpin
  <2>2. IsFiniteSet(pinned')
    BY <1>2, <2>1, FS_RemoveElement
  <2>3. /\ \A j \in Bufs : RefersTo(j)' = RefersTo(j) /\ Cardinality(RefersTo(j)) \in Nat
        /\ refcnt[i] - 1 \in Nat
    <3>1. \A j \in Bufs : RefersTo(j)' = RefersTo(j) /\ Cardinality(RefersTo(j)) \in Nat
      BY <1>1, RefersFinite DEF RefersTo, userVars
    <3> QED BY <1>1, <2>1, <3>1, SMTT(60) DEF IInv, RefcntExact
  <2>4. TypeOK'
    BY <1>1, <2>1, <2>3 DEF IInv, TypeOK, userVars
  <2>5. RefcntExact'
    BY <1>1, <2>1, <2>3, SMTT(60) DEF IInv, TypeOK, RefcntExact
  <2>6. OneBuffer' /\ OutOfBuffers' /\ \A v \in Users : UserInv(v)'
    BY <1>1, <1>2 DEF IInv, OneBuffer, OutOfBuffers, UserInv, userVars
  <2>7. \A j \in Bufs : BufInv(j)'
    BY <1>1, <2>1 DEF IInv, BufInv, userVars
  <2> QED BY <2>2, <2>4, <2>5, <2>6, <2>7 DEF IInv
<1> QED BY <1>3, <1>4

\* brelse() gives the lock back: what the user leaves is on the disk, or pinned.
LEMMA ReleaseKeeps == ASSUME Parameters, IInv, NEW u \in Users, releasesleep(u) PROVE IInv'
<1> DEFINE i == buf[u]
<1>1. /\ ~ panicked /\ pc[u] = "use" /\ pc' = [pc EXCEPT ![u] = "put"] /\ locked' = [locked EXCEPT ![i] = NoUser]
      /\ i \in pinned \/ disk[blockno[i]] = data[i]
      /\ UNCHANGED <<disk, blockno, valid, refcnt, data, lru, pinned, want, buf, panicked>>
  BY DEF releasesleep
<1>2. i \in Bufs /\ locked[i] = u
  BY <1>1 DEF IInv, TypeOK, UserInv
<1>3. TypeOK'
  BY <1>1, <1>2 DEF IInv, TypeOK
<1>4. OneBuffer' /\ OutOfBuffers' /\ IsFiniteSet(pinned')
  BY <1>1 DEF IInv, OneBuffer, OutOfBuffers
<1>5. RefcntExact'
  BY <1>1, Remains
<1>6. ASSUME NEW v \in Users PROVE UserInv(v)'
  BY <1>1, <1>2 DEF IInv, TypeOK, UserInv, Parameters
<1>7. ASSUME NEW j \in Bufs PROVE BufInv(j)'
  BY <1>1, <1>2 DEF IInv, TypeOK, BufInv, Parameters
<1> QED BY <1>3, <1>4, <1>5, <1>6, <1>7 DEF IInv

\* The list keeps all of its buffers when one is moved to the front.
LEMMA FrontKeeps ==
  ASSUME Parameters, IInv, NEW i \in Bufs
  PROVE  MoveToFront(i) \in [Bufs -> Bufs] /\ \A c \in Bufs : \E k \in Bufs : MoveToFront(i)[k] = c
<1> DEFINE k == CHOOSE j \in Bufs : lru[j] = i
           f == MoveToFront(i)
<1>1. k \in Bufs /\ lru[k] = i /\ lru \in [Bufs -> Bufs]
  BY DEF IInv, BufInv, TypeOK
<1> HIDE DEF k
<1>2. f = [j \in Bufs |-> IF j = 1 THEN i ELSE IF j <= k THEN lru[j - 1] ELSE lru[j]]
  BY DEF MoveToFront, k
<1> HIDE DEF f
<1>3. f \in [Bufs -> Bufs]
  <2> SUFFICES ASSUME NEW j \in Bufs
               PROVE  (IF j = 1 THEN i ELSE IF j <= k THEN lru[j - 1] ELSE lru[j]) \in Bufs
    BY <1>2
  <2>1. j # 1 => j - 1 \in Bufs
    BY SMTT(60) DEF Bufs, Parameters
  <2> QED BY <1>1, <2>1
<1>4. ASSUME NEW c \in Bufs PROVE \E m \in Bufs : f[m] = c
  <2>1. PICK m \in Bufs : lru[m] = c
    BY DEF IInv, BufInv
  <2>2. CASE m = k
    <3>1. 1 \in Bufs /\ f[1] = i
      BY <1>2, SMTT(60) DEF Bufs, Parameters
    <3> QED BY <1>1, <2>1, <2>2, <3>1
  <2>3. CASE m < k
    <3>1. m + 1 \in Bufs /\ m + 1 # 1 /\ m + 1 <= k /\ (m + 1) - 1 = m
      BY <1>1, <2>3, SMTT(60) DEF Bufs, Parameters
    <3>2. f[m + 1] = lru[m]
      BY <1>2, <3>1
    <3> QED BY <2>1, <3>1, <3>2
  <2>4. CASE m > k
    <3>1. m # 1 /\ ~ (m <= k)
      BY <1>1, <2>4, SMTT(60) DEF Bufs, Parameters
    <3>2. f[m] = lru[m]
      BY <1>2, <3>1
    <3> QED BY <2>1, <3>2
  <2> QED BY <1>1, <2>2, <2>3, <2>4, SMTT(60) DEF Bufs, Parameters
<1> QED BY <1>3, <1>4 DEF f

\* brelse() gives the reference back.
LEMMA BrelseKeeps == ASSUME Parameters, IInv, NEW u \in Users, brelse(u) PROVE IInv'
<1> DEFINE i == buf[u]
<1>1. /\ ~ panicked /\ pc[u] = "put" /\ pc' = [pc EXCEPT ![u] = "idle"]
      /\ refcnt' = [refcnt EXCEPT ![i] = @ - 1] /\ lru' \in {lru, MoveToFront(i)}
      /\ want' = [want EXCEPT ![u] = NoBlock] /\ buf' = [buf EXCEPT ![u] = 1]
      /\ UNCHANGED <<disk, blockno, valid, data, locked, pinned, panicked>>
  BY DEF brelse
<1>2. i \in Bufs /\ 1 \in Bufs /\ refcnt[i] - 1 \in Nat
  <2>1. i \in Bufs /\ 1 \in Bufs /\ refcnt[i] \in Nat
    BY SMTT(60) DEF IInv, TypeOK, Bufs, Parameters
  <2>2. refcnt[i] # 0
    BY <1>1, <2>1, Unreferenced
  <2> QED BY <2>1, <2>2, SMTT(60)
<1>3. lru' \in [Bufs -> Bufs] /\ \A c \in Bufs : \E k \in Bufs : lru'[k] = c
  <2>1. CASE lru' = lru
    BY <2>1 DEF IInv, TypeOK, BufInv
  <2>2. CASE lru' = MoveToFront(i)
    BY <1>2, <2>2, FrontKeeps
  <2> QED BY <1>1, <2>1, <2>2
<1>4. TypeOK'
  BY <1>1, <1>2, <1>3 DEF IInv, TypeOK
<1>5. OneBuffer' /\ OutOfBuffers' /\ IsFiniteSet(pinned')
  BY <1>1 DEF IInv, OneBuffer, OutOfBuffers
<1>6. RefcntExact'
  <2>1. \A j \in Bufs : refcnt'[j] = refcnt[j] - (IF j = i THEN 1 ELSE 0)
    BY <1>1, <1>2, SMTT(60) DEF IInv, TypeOK
  <2> QED BY <1>1, <2>1, Leaves
<1>7. \A j \in Bufs : locked[j] # u
  BY <1>1, SMTT(60) DEF IInv, BufInv, UserInv, Parameters
<1>8. ASSUME NEW v \in Users PROVE UserInv(v)'
  BY <1>1, <1>2, <1>7 DEF IInv, TypeOK, UserInv
<1>9. ASSUME NEW j \in Bufs PROVE BufInv(j)'
  BY <1>1, <1>3, <1>7 DEF IInv, TypeOK, BufInv
<1> QED BY <1>4, <1>5, <1>6, <1>8, <1>9 DEF IInv

\* binit() leaves every buffer unused.
LEMMA InitIInv == ASSUME Parameters, Init PROVE IInv
<1>1. 1 \in Bufs /\ NoUser \notin Users /\ NoBlock \notin Blocks
  BY SMTT(60) DEF Parameters, Bufs
<1>2. \A j \in Bufs : NBUF + 1 - j \in Bufs /\ NBUF + 1 - (NBUF + 1 - j) = j
  BY SMTT(60) DEF Bufs, Parameters
<1>3. TypeOK
  <2>1. lru \in [Bufs -> Bufs] /\ refcnt \in [Bufs -> Nat]
    BY <1>2 DEF Init
  <2>2. PICK d \in Data : data = [i \in Bufs |-> d]
    BY DEF Init
  <2> QED BY <1>1, <2>1, <2>2 DEF Init, TypeOK
<1>4. RefcntExact
  <2>1. \A j \in Bufs : RefersTo(j) = {}
    BY DEF Init, RefersTo
  <2> QED BY <2>1, FS_EmptySet, SMTT(60) DEF Init, RefcntExact
<1>5. OneBuffer /\ OutOfBuffers
  BY DEF Init, OneBuffer, OutOfBuffers
<1>6. IsFiniteSet(pinned)
  BY FS_EmptySet DEF Init
<1>7. \A u \in Users : UserInv(u)
  BY <1>1 DEF Init, UserInv
<1>8. ASSUME NEW i \in Bufs PROVE BufInv(i)
  <2>1. lru[NBUF + 1 - i] = i
    BY <1>2 DEF Init
  <2> QED BY <1>2, <2>1 DEF Init, BufInv
<1> QED BY <1>3, <1>4, <1>5, <1>6, <1>7, <1>8 DEF IInv

\* Every step of every user keeps IInv.
LEMMA StepIInv == ASSUME Parameters, IInv, [Next]_vars PROVE IInv'
<1>1. CASE UNCHANGED vars
  BY <1>1, SMTT(60) DEF vars, bufVars, userVars, IInv, TypeOK, OneBuffer, RefcntExact, RefersTo, OutOfBuffers, Active, UserInv, BufInv
<1>2. CASE Next
  <2>1. PICK u \in Users : \/ \E b \in Blocks : bget_hit(u, b) \/ bget_miss(u, b)
                           \/ acquiresleep(u) \/ bread(u) \/ bwrite(u) \/ bpin(u) \/ bunpin(u)
                           \/ \E d \in Data : Modify(u, d)
                           \/ releasesleep(u) \/ brelse(u)
    BY <1>2 DEF Next
  <2>2. data[buf[u]] \in Data
    BY DEF IInv, TypeOK
  <2> QED BY <2>1, <2>2, HitKeeps, MissKeeps, AcquireKeeps, BreadKeeps, WriteKeeps, PinKeeps, ReleaseKeeps, BrelseKeeps
<1> QED BY <1>1, <1>2

\* The inductive invariant holds throughout, for any users, blocks and buffers.
THEOREM Invariance == ASSUME Parameters PROVE Spec => []IInv
<1>1. Init => IInv
  BY InitIInv
<1>2. IInv /\ [Next]_vars => IInv'
  BY StepIInv
<1> QED BY <1>1, <1>2, PTL DEF Spec

\* A block never has two buffers, a count is exactly the number of those that
\* use the buffer, and a buffer stays its block's for as long as a user has it:
\* bget() may drop bcache.lock before it waits for the buffer's own lock.
THEOREM BuffersCounted == ASSUME Parameters PROVE Spec => [](OneBuffer /\ RefcntExact /\ KeepsBlock)
<1>1. IInv => OneBuffer /\ RefcntExact /\ KeepsBlock
  BY DEF IInv, UserInv, KeepsBlock
<1> QED BY <1>1, Invariance, PTL

\* "bget: no buffers", however many users, blocks, buffers and pins there are: when it
\* comes, each of the NBUF buffers is another block's, in use or pinned.
THEOREM OutOnlyInUse == ASSUME Parameters PROVE Spec => []OutOfBuffers
<1>1. IInv => OutOfBuffers
  BY DEF IInv
<1> QED BY <1>1, Invariance, PTL

-----------------------------------------------------------------------------
(* The cache implements BlockStore.                                        *)

\* What Value and Owner are, without the search for the buffer.
Seen ==
  /\ \A i \in Bufs : valid[i] => Value[blockno[i]] = data[i]
  /\ \A b \in Blocks : (\A i \in Bufs : valid[i] => blockno[i] # b) => Value[b] = disk[b]
  /\ \A u \in Users : pc[u] = "use" => Owner[want[u]] = u
  /\ \A b \in Blocks : (\A u \in Users : pc[u] = "use" => want[u] # b) => Owner[b] = NoUser

\* As a block has one buffer, BufferOf() is that buffer.
LEMMA SeenIs == ASSUME Parameters PROVE IInv => Seen
<1> SUFFICES ASSUME IInv PROVE Seen
  OBVIOUS
<1>1. ASSUME NEW i \in Bufs, valid[i]
      PROVE  blockno[i] \in Blocks /\ HasBuffer(blockno[i]) /\ BufferOf(blockno[i]) = i
  <2>1. blockno[i] \in Blocks /\ blockno[i] # NoBlock
    BY <1>1 DEF IInv, BufInv, Parameters
  <2>2. \A j \in Bufs : blockno[j] = blockno[i] => j = i
    BY <2>1 DEF IInv, OneBuffer
  <2> QED BY <1>1, <2>1, <2>2 DEF HasBuffer, BufferOf
<1>2. ASSUME NEW u \in Users, pc[u] = "use"
      PROVE  buf[u] \in Bufs /\ valid[buf[u]] /\ blockno[buf[u]] = want[u] /\ locked[buf[u]] = u /\ want[u] \in Blocks
  BY <1>2 DEF IInv, TypeOK, UserInv
<1>3. \A i \in Bufs : valid[i] => Value[blockno[i]] = data[i]
  BY <1>1 DEF Value
<1>4. \A b \in Blocks : (\A i \in Bufs : valid[i] => blockno[i] # b) => Value[b] = disk[b]
  BY DEF Value, HasBuffer
<1>5. ASSUME NEW u \in Users, pc[u] = "use" PROVE Owner[want[u]] = u
  <2>1. HasBuffer(want[u]) /\ BufferOf(want[u]) = buf[u]
    BY <1>1, <1>2, <1>5
  <2> QED BY <1>2, <1>5, <2>1 DEF Owner
<1>6. ASSUME NEW b \in Blocks, \A u \in Users : pc[u] = "use" => want[u] # b PROVE Owner[b] = NoUser
  <2> SUFFICES ASSUME HasBuffer(b), NEW u \in Users, pc[u] = "use", buf[u] = BufferOf(b) PROVE FALSE
    BY DEF Owner
  <2>1. blockno[BufferOf(b)] = b
    BY DEF HasBuffer, BufferOf
  <2> QED BY <1>2, <1>6, <2>1, SMTT(60)
<1> QED BY <1>3, <1>4, <1>5, <1>6 DEF Seen

\* The same of the next state.
LEMMA SeenNext == ASSUME Parameters PROVE IInv' => Seen'
BY SeenIs, PTL

\* Value and Owner are functions on the blocks, and are compared block by block.
LEMMA Blockwise ==
  /\ (\A b \in Blocks : Value'[b] = Value[b]) => Value' = Value
  /\ (\A b \in Blocks : Owner'[b] = Owner[b]) => Owner' = Owner
  /\ \A c \in Blocks : \A x :
       /\ Value'[c] = x /\ (\A b \in Blocks : b # c => Value'[b] = Value[b]) => Value' = [Value EXCEPT ![c] = x]
       /\ Owner'[c] = x /\ (\A b \in Blocks : b # c => Owner'[b] = Owner[b]) => Owner' = [Owner EXCEPT ![c] = x]
BY DEF Value, Owner

\* Values change only with the buffers and the disk.
LEMMA ValuesSame == ASSUME UNCHANGED <<disk, blockno, valid, data>> PROVE Value' = Value
BY DEF Value, HasBuffer, BufferOf

\* Owners change only when a user comes to "use" or leaves it.
LEMMA OwnersSame ==
  ASSUME Parameters, IInv, IInv',
         \A u \in Users : (pc'[u] = "use" <=> pc[u] = "use") /\ (pc[u] = "use" => want'[u] = want[u])
  PROVE  Owner' = Owner
<1>1. Seen /\ Seen'
  BY SeenIs, SeenNext
<1>2. ASSUME NEW b \in Blocks PROVE Owner'[b] = Owner[b]
  <2>1. CASE \E u \in Users : pc[u] = "use" /\ want[u] = b
    BY <1>1, <2>1 DEF Seen
  <2>2. CASE \A u \in Users : pc[u] = "use" => want[u] # b
    BY <1>1, <2>2 DEF Seen
  <2> QED BY <2>1, <2>2
<1> QED BY <1>2, Blockwise

\* A user that comes to "use" becomes the owner of a block that has none.
LEMMA OwnerComes ==
  ASSUME Parameters, IInv, IInv', NEW u \in Users, pc[u] \in {"lock", "read"}, pc' = [pc EXCEPT ![u] = "use"], want' = want,
         \A v \in Users \ {u} : pc[v] = "use" => want[v] # want[u]
  PROVE  Owner[want[u]] = NoUser /\ Owner' = [Owner EXCEPT ![want[u]] = u]
<1>1. Seen /\ Seen'
  BY SeenIs, SeenNext
<1>2. want[u] \in Blocks /\ pc \in [Users -> {"idle", "lock", "read", "use", "put"}]
  BY DEF IInv, TypeOK, UserInv
<1>3. Owner[want[u]] = NoUser /\ Owner'[want[u]] = u
  BY <1>1, <1>2 DEF Seen
<1>4. ASSUME NEW b \in Blocks, b # want[u] PROVE Owner'[b] = Owner[b]
  <2>1. CASE \E v \in Users : pc[v] = "use" /\ want[v] = b
    BY <1>1, <1>2, <1>4, <2>1, SMTT(60) DEF Seen
  <2>2. CASE \A v \in Users : pc[v] = "use" => want[v] # b
    BY <1>1, <1>2, <1>4, <2>2 DEF Seen
  <2> QED BY <2>1, <2>2
<1> QED BY <1>2, <1>3, <1>4, Blockwise

\* Two users of one block would hold one lock.
LEMMA OneUser ==
  ASSUME Parameters, IInv, NEW u \in Users, NEW v \in Users, u # v, pc[u] # "idle", pc[v] \in {"read", "use"}, want[u] = want[v]
  PROVE  locked[buf[u]] = v
<1>1. buf[u] = buf[v]
  BY SMTT(60) DEF IInv, TypeOK, OneBuffer, UserInv, Parameters
<1> QED BY <1>1 DEF IInv, UserInv

\* The steps that change neither: a hit, pins, and the end of brelse().
LEMMA QuietMaps ==
  ASSUME Parameters, IInv, IInv', NEW u \in Users, NEW b \in Blocks,
         bget_hit(u, b) \/ bpin(u) \/ bunpin(u) \/ brelse(u)
  PROVE  UNCHANGED Store!vars
<1>1. UNCHANGED <<disk, blockno, valid, data>>
  BY DEF bget_hit, bpin, bunpin, brelse
<1>2. \A v \in Users : (pc'[v] = "use" <=> pc[v] = "use") /\ (pc[v] = "use" => want'[v] = want[v])
  BY DEF bget_hit, bpin, bunpin, brelse, userVars, IInv, TypeOK
<1> QED BY <1>1, <1>2, ValuesSame, OwnersSame DEF Store!vars

\* A miss: the block that loses its buffer is on the disk as it was there.
LEMMA MissMaps ==
  ASSUME Parameters, IInv, IInv', NEW u \in Users, NEW b \in Blocks, bget_miss(u, b)
  PROVE  UNCHANGED Store!vars
<1>1. CASE Unused = {}
  <2>1. UNCHANGED <<disk, blockno, valid, data, pc, want>>
    BY <1>1 DEF bget_miss, userVars
  <2> QED BY <2>1, ValuesSame, OwnersSame DEF Store!vars
<1>2. CASE Unused # {}
  <2>1. PICK i \in Bufs : /\ refcnt[i] = 0 /\ blockno' = [blockno EXCEPT ![i] = b]
                          /\ valid' = [valid EXCEPT ![i] = FALSE]
    BY <1>2, Takes DEF bget_miss
  <2>2. UNCHANGED <<disk, data>> /\ \A j \in Bufs : blockno[j] # b
    BY Finds DEF bget_miss
  <2>3. i \notin pinned /\ \A v \in Users : pc[v] # "idle" => buf[v] # i
    BY <2>1, Unreferenced
  <2>4. valid[i] => blockno[i] \in Blocks /\ data[i] = disk[blockno[i]]
    BY <2>3 DEF IInv, BufInv
  <2>5. Seen /\ Seen'
    BY SeenIs, SeenNext
  <2>6. ASSUME NEW c \in Blocks PROVE Value'[c] = Value[c]
    <3>1. CASE \E j \in Bufs : j # i /\ valid[j] /\ blockno[j] = c
      BY <2>1, <2>2, <2>5, <3>1, SMTT(60) DEF Seen, IInv, TypeOK
    <3>2. CASE \A j \in Bufs : j # i => ~ (valid[j] /\ blockno[j] = c)
      <4>1. Value'[c] = disk[c]
        BY <2>1, <2>2, <2>5, <3>2 DEF Seen, IInv, TypeOK
      <4>2. Value[c] = disk[c]
        BY <2>1, <2>4, <2>5, <3>2, SMTT(60) DEF Seen
      <4> QED BY <4>1, <4>2
    <3> QED BY <3>1, <3>2
  <2>7. \A v \in Users : (pc'[v] = "use" <=> pc[v] = "use") /\ (pc[v] = "use" => want'[v] = want[v])
    BY <1>2 DEF bget_miss, IInv, TypeOK
  <2> QED BY <2>6, <2>7, Blockwise, OwnersSame DEF Store!vars
<1> QED BY <1>1, <1>2

\* The lock of a valid buffer is the block.
LEMMA AcquireMaps ==
  ASSUME Parameters, IInv, IInv', NEW u \in Users, acquiresleep(u)
  PROVE  Store!Acquire(u, want[u]) \/ UNCHANGED Store!vars
<1>1. /\ pc[u] = "lock" /\ locked[buf[u]] = NoUser
      /\ UNCHANGED <<disk, blockno, valid, data, want>>
  BY DEF acquiresleep
<1>2. Value' = Value
  BY <1>1, ValuesSame
<1>3. CASE valid[buf[u]]
  <2>1. pc' = [pc EXCEPT ![u] = "use"]
    BY <1>3 DEF acquiresleep
  <2>2. \A v \in Users \ {u} : pc[v] = "use" => want[v] # want[u]
    BY <1>1, OneUser DEF Parameters
  <2>3. Owner[want[u]] = NoUser /\ Owner' = [Owner EXCEPT ![want[u]] = u]
    BY <1>1, <2>1, <2>2, OwnerComes
  <2> QED BY <1>2, <2>3 DEF Store!Acquire
<1>4. CASE ~ valid[buf[u]]
  <2>1. pc' = [pc EXCEPT ![u] = "read"]
    BY <1>4 DEF acquiresleep
  <2>2. \A v \in Users : pc'[v] = "use" <=> pc[v] = "use"
    BY <1>1, <2>1 DEF IInv, TypeOK
  <2> QED BY <1>1, <1>2, <2>2, OwnersSame DEF Store!vars
<1> QED BY <1>3, <1>4

\* bread() of a block that is not in the cache: the buffer gets what the disk has.
LEMMA BreadMaps ==
  ASSUME Parameters, IInv, IInv', NEW u \in Users, bread(u)
  PROVE  Store!Acquire(u, want[u])
<1> DEFINE i == buf[u]
<1>1. /\ pc[u] = "read" /\ pc' = [pc EXCEPT ![u] = "use"]
      /\ data' = [data EXCEPT ![i] = disk[blockno[i]]] /\ valid' = [valid EXCEPT ![i] = TRUE]
      /\ UNCHANGED <<disk, blockno, want>>
  BY DEF bread
<1>2. /\ i \in Bufs /\ blockno[i] = want[u] /\ want[u] \in Blocks /\ ~ valid[i] /\ locked[i] = u
      /\ \A j \in Bufs : blockno[j] = want[u] => j = i
  BY <1>1, SMTT(60) DEF IInv, TypeOK, UserInv, OneBuffer, Parameters
<1>3. Seen /\ Seen'
  BY SeenIs, SeenNext
<1>4. ASSUME NEW c \in Blocks PROVE Value'[c] = Value[c]
  <2>1. CASE c = want[u]
    <3>1. Value[c] = disk[c]
      BY <1>2, <1>3, <2>1 DEF Seen
    <3>2. Value'[c] = disk[c]
      BY <1>1, <1>2, <1>3, <2>1 DEF Seen, IInv, TypeOK
    <3> QED BY <3>1, <3>2
  <2>2. CASE c # want[u]
    <3>1. \A j \in Bufs : blockno[j] = c => valid'[j] = valid[j] /\ data'[j] = data[j]
      BY <1>1, <1>2, <2>2 DEF IInv, TypeOK
    <3>2. CASE \E j \in Bufs : valid[j] /\ blockno[j] = c
      <4>1. PICK j \in Bufs : valid[j] /\ blockno[j] = c
        BY <3>2
      <4>2. Value[c] = data[j] /\ Value'[c] = data'[j]
        BY <1>1, <1>3, <3>1, <4>1 DEF Seen
      <4> QED BY <3>1, <4>1, <4>2
    <3>3. CASE \A j \in Bufs : valid[j] => blockno[j] # c
      BY <1>1, <1>3, <3>1, <3>3 DEF Seen
    <3> QED BY <3>2, <3>3
  <2> QED BY <2>1, <2>2
<1>5. \A v \in Users \ {u} : pc[v] = "use" => want[v] # want[u]
  BY <1>1, <1>2, OneUser
<1>6. Owner[want[u]] = NoUser /\ Owner' = [Owner EXCEPT ![want[u]] = u]
  BY <1>1, <1>5, OwnerComes
<1> QED BY <1>4, <1>6, Blockwise DEF Store!Acquire

\* A user changes the block it has.
LEMMA ModifyMaps ==
  ASSUME Parameters, IInv, IInv', NEW u \in Users, NEW d \in Data, Modify(u, d)
  PROVE  Store!Change(u, want[u], d)
<1> DEFINE i == buf[u]
<1>1. /\ pc[u] = "use" /\ data' = [data EXCEPT ![i] = d] /\ UNCHANGED <<disk, blockno, valid, pc, want>>
  BY DEF Modify, userVars
<1>2. i \in Bufs /\ blockno[i] = want[u] /\ want[u] \in Blocks /\ valid[i]
  BY <1>1 DEF IInv, TypeOK, UserInv
<1>3. Seen /\ Seen'
  BY SeenIs, SeenNext
<1>4. Value'[want[u]] = d
  BY <1>1, <1>2, <1>3, SMTT(60) DEF Seen, IInv, TypeOK
<1>5. ASSUME NEW c \in Blocks, c # want[u] PROVE Value'[c] = Value[c]
  <2>1. \A j \in Bufs : blockno[j] = c => data'[j] = data[j]
    BY <1>1, <1>2, <1>5 DEF IInv, TypeOK
  <2>2. CASE \E j \in Bufs : valid[j] /\ blockno[j] = c
    BY <1>1, <1>3, <2>1, <2>2, SMTT(60) DEF Seen
  <2>3. CASE \A j \in Bufs : valid[j] => blockno[j] # c
    BY <1>1, <1>3, <2>3 DEF Seen
  <2> QED BY <2>2, <2>3
<1>6. Owner[want[u]] = u /\ Owner' = Owner
  BY <1>1, <1>3, OwnersSame DEF Seen
<1> QED BY <1>2, <1>4, <1>5, <1>6, Blockwise DEF Store!Change

\* bwrite() changes the disk under a block that is in the cache.
LEMMA BwriteMaps ==
  ASSUME Parameters, IInv, IInv', NEW u \in Users, bwrite(u)
  PROVE  UNCHANGED Store!vars
<1> DEFINE i == buf[u]
<1>1. pc[u] = "use" /\ disk' = [disk EXCEPT ![blockno[i]] = data[i]] /\ UNCHANGED <<blockno, valid, data, pc, want>>
  BY DEF bwrite, bufVars, userVars
<1>2. i \in Bufs /\ blockno[i] = want[u] /\ want[u] \in Blocks /\ valid[i]
  BY <1>1 DEF IInv, TypeOK, UserInv
<1>3. Seen /\ Seen'
  BY SeenIs, SeenNext
<1>4. ASSUME NEW c \in Blocks PROVE Value'[c] = Value[c]
  <2>1. CASE \E j \in Bufs : valid[j] /\ blockno[j] = c
    BY <1>1, <1>3, <2>1, SMTT(60) DEF Seen
  <2>2. CASE \A j \in Bufs : valid[j] => blockno[j] # c
    <3>1. disk'[c] = disk[c]
      BY <1>1, <1>2, <2>2 DEF IInv, TypeOK
    <3> QED BY <1>1, <1>3, <2>2, <3>1 DEF Seen
  <2> QED BY <2>1, <2>2
<1> QED BY <1>1, <1>4, Blockwise, OwnersSame DEF Store!vars

\* The lock of the buffer is let go, and the block with it.
LEMMA ReleaseMaps ==
  ASSUME Parameters, IInv, IInv', NEW u \in Users, releasesleep(u)
  PROVE  Store!Release(u, want[u])
<1>1. /\ pc[u] = "use" /\ pc' = [pc EXCEPT ![u] = "put"] /\ UNCHANGED <<disk, blockno, valid, data, want>>
  BY DEF releasesleep
<1>2. want[u] \in Blocks /\ pc \in [Users -> {"idle", "lock", "read", "use", "put"}] /\ locked[buf[u]] = u
  BY <1>1 DEF IInv, TypeOK, UserInv
<1>3. Seen /\ Seen'
  BY SeenIs, SeenNext
<1>4. \A v \in Users \ {u} : pc[v] = "use" => want[v] # want[u]
  BY <1>1, <1>2, OneUser
<1>5. Owner[want[u]] = u /\ Owner'[want[u]] = NoUser
  BY <1>1, <1>2, <1>3, <1>4 DEF Seen
<1>6. ASSUME NEW b \in Blocks, b # want[u] PROVE Owner'[b] = Owner[b]
  <2>1. CASE \E v \in Users : pc[v] = "use" /\ want[v] = b
    BY <1>1, <1>2, <1>3, <1>6, <2>1, SMTT(60) DEF Seen
  <2>2. CASE \A v \in Users : pc[v] = "use" => want[v] # b
    BY <1>1, <1>2, <1>3, <1>6, <2>2 DEF Seen
  <2> QED BY <2>1, <2>2
<1> QED BY <1>1, <1>2, <1>5, <1>6, ValuesSame, Blockwise DEF Store!Release

\* The cache implements BlockStore, for any users, blocks and buffers: who has a
\* block sees the last value given to it, and has it alone, however many processes
\* miss on it, wait for it, or make bget() recycle its buffer.
THEOREM StoreImplemented == ASSUME Parameters PROVE Spec => IsStore
<1>1. Init => Store!Init
  <2> SUFFICES ASSUME Init PROVE Store!Init
    OBVIOUS
  <2>1. IInv /\ Seen
    BY InitIInv, SeenIs
  <2>2. \A b \in Blocks : Value[b] = disk[b] /\ Owner[b] = NoUser
    BY <2>1 DEF Init, Seen
  <2>3. Value = [b \in Blocks |-> disk[b]] /\ Owner = [b \in Blocks |-> NoUser]
    BY <2>2 DEF Value, Owner
  <2> QED BY <2>3 DEF Init, Store!Init
<1>2. IInv /\ [Next]_vars => [Store!Next]_(Store!vars)
  <2> SUFFICES ASSUME IInv, [Next]_vars PROVE [Store!Next]_(Store!vars)
    OBVIOUS
  <2>1. IInv'
    BY StepIInv
  <2>2. CASE UNCHANGED vars
    BY <2>2 DEF vars, bufVars, userVars, Store!vars, Value, Owner, HasBuffer, BufferOf
  <2>3. ASSUME NEW u \in Users, NEW b \in Blocks, bget_hit(u, b) \/ bget_miss(u, b) PROVE [Store!Next]_(Store!vars)
    BY <2>1, <2>3, QuietMaps, MissMaps
  <2>4. ASSUME NEW u \in Users, bpin(u) \/ bunpin(u) \/ brelse(u) \/ bwrite(u) PROVE [Store!Next]_(Store!vars)
    <3>1. want[u] \in Blocks
      BY <2>4 DEF bpin, bunpin, brelse, bwrite, IInv, UserInv
    <3> QED BY <2>1, <2>4, <3>1, QuietMaps, BwriteMaps
  <2>5. ASSUME NEW u \in Users, acquiresleep(u) \/ bread(u) \/ releasesleep(u) PROVE [Store!Next]_(Store!vars)
    <3>1. want[u] \in Blocks
      BY <2>5 DEF acquiresleep, bread, releasesleep, IInv, UserInv
    <3> QED BY <2>1, <2>5, <3>1, AcquireMaps, BreadMaps, ReleaseMaps DEF Store!Next
  <2>6. ASSUME NEW u \in Users, NEW d \in Data, Modify(u, d) PROVE [Store!Next]_(Store!vars)
    <3>1. want[u] \in Blocks
      BY <2>6 DEF Modify, IInv, UserInv
    <3> QED BY <2>1, <2>6, <3>1, ModifyMaps DEF Store!Next
  <2> QED BY <2>2, <2>3, <2>4, <2>5, <2>6 DEF Next
<1> QED BY <1>1, <1>2, Invariance, PTL DEF Spec, IsStore, Store!Spec

=============================================================================
