--------------------------- MODULE BlockIOProofs ----------------------------
(***************************************************************************)
(* The cache's own steps keep the invariant of BlockIOSteps, the cache     *)
(* implements Blocks, and the theorems about both.  The facts about finite *)
(* sets are an assumption of the lemmas (SetFacts) until the end, where    *)
(* they are proved from the library.                                       *)
(***************************************************************************)
EXTENDS BlockIOSteps, TLAPS

(* A buffer gains a user.                                                  *)
LEMMA UsersAdd ==
  ASSUME SetFacts, IInv, NEW p \in Proc, NEW b \in Buf, buf[p] = None, buf' = [buf EXCEPT ![p] = b]
  PROVE  /\ Cardinality(Users(b))' = Cardinality(Users(b)) + 1
         /\ \A c \in Buf : c # b => Users(c)' = Users(c)
<1> AllHold
  BY Zenon DEF IInv
<1>1. Users(b)' = Users(b) \cup {p} /\ p \notin Users(b)
  BY Names, ProcTypes, Zenon DEF Users
<1>2. IsFiniteSet(Users(b))
  BY Names, SubsetFinite, Zenon DEF Users
<1>3. \A c \in Buf : c # b => Users(c)' = Users(c)
  BY Names, Zenon DEF AllHold, Types, Users
<1> QED BY <1>1, <1>2, <1>3, AddElement, Zenon

(* A buffer loses a user.                                                  *)
LEMMA UsersDrop ==
  ASSUME SetFacts, IInv, NEW p \in Proc, NEW b \in Buf, buf[p] = b, buf' = [buf EXCEPT ![p] = None]
  PROVE  /\ Cardinality(Users(b))' = Cardinality(Users(b)) - 1
         /\ \A c \in Buf : c # b => Users(c)' = Users(c)
         /\ Cardinality(Users(b)) \in Nat \ {0}
<1>1. Users(b)' = Users(b) \ {p} /\ p \in Users(b)
  BY Names, ProcTypes, Zenon DEF Users
<1>2. IsFiniteSet(Users(b))
  BY Names, SubsetFinite, Zenon DEF Users
<1>3. \A c \in Buf : c # b => Users(c)' = Users(c)
  BY Names, ProcTypes, CacheTypes, Zenon DEF Users
<1>4. Cardinality(Users(b)) \in Nat /\ Cardinality(Users(b)) # 0
  BY <1>1, <1>2, CardinalityType, Zenon
<1> QED BY <1>1, <1>2, <1>3, <1>4, RemoveElement, Zenon

(* The count of a buffer's references.                                     *)
LEMMA RefCount ==
  ASSUME SetFacts, IInv, NEW b \in Buf
  PROVE  /\ refcnt[b] = pins[b] + Cardinality(Users(b))
         /\ pins[b] \in {0, 1} /\ Cardinality(Users(b)) \in Nat
<1> AllHold
  BY Zenon DEF IInv
<1>1. IsFiniteSet(Users(b))
  BY Names, SubsetFinite, Zenon DEF Users
<1> QED BY <1>1, CardinalityType, Zenon DEF AllHold, Types, CacheOK

(* A buffer with no references has no users and no pin.                    *)
LEMMA Unused ==
  ASSUME SetFacts, IInv, NEW b \in Buf, refcnt[b] = 0
  PROVE  pins[b] = 0 /\ Cardinality(Users(b)) = 0 /\ Users(b) = {} /\ locked[b] = None
<1> AllHold
  BY Zenon DEF IInv
<1>1. IsFiniteSet(Users(b))
  BY Names, SubsetFinite, Zenon DEF Users
<1>2. Cardinality(Users(b)) \in Nat
  BY <1>1, CardinalityType, Zenon
<1>3. pins[b] \in {0, 1} /\ 0 = pins[b] + Cardinality(Users(b))
  BY Zenon DEF AllHold, Types, CacheOK
<1>4. pins[b] = 0 /\ Cardinality(Users(b)) = 0
  BY <1>2, <1>3
<1>5. Users(b) = {}
  BY <1>1, <1>4, CardinalityType, Zenon
<1>6. locked[b] = None
  BY <1>5 DEF AllHold, Types, LocksOK, Users, Opt
<1> QED BY <1>4, <1>5, <1>6, Zenon

(* bget() of a block in the cache keeps the invariant.                     *)
LEMMA BgetHitKeeps ==
  ASSUME SetFacts, IInv, NEW p \in Proc, NEW k \in Block, BgetHit(p, k) PROVE IInv'
<1> AllHold
  BY Zenon DEF IInv
<1>1. PICK b \in Cached(k) : refcnt' = [refcnt EXCEPT ![b] = @ + 1] /\ buf' = [buf EXCEPT ![p] = b]
  BY Zenon DEF BgetHit
<1>2. /\ pc[p] = "out" /\ pc' = [pc EXCEPT ![p] = "get"]
      /\ UNCHANGED <<blockno, valid, lru, pins, data, locked, driver, device, intr, irq, idx, panicked>>
  BY Zenon DEF BgetHit, SetPc
<1>3. b \in Buf /\ blockno[b] = k /\ k # None /\ buf[p] = None /\ b # None
  BY <1>1, <1>2, Names, Zenon DEF Cached, AllHold, CacheOK
<1>4. Types'
  BY <1>1, <1>2, <1>3, SMTT(30) DEF AllHold, Types, driver, device, PC, Opt
<1>5. CacheOK'
  <2>1. \A c \in Buf : refcnt'[c] = pins'[c] + Cardinality(Users(c)')
    <3> TAKE c \in Buf
    <3>1. refcnt[c] = pins[c] + Cardinality(Users(c)) /\ pins[c] \in Nat /\ Cardinality(Users(c)) \in Nat
      BY RefCount
    <3>2. CASE c = b
      <4>1. Cardinality(Users(c))' = Cardinality(Users(c)) + 1
        BY <3>2, <1>1, <1>3, UsersAdd, Zenon
      <4>2. refcnt'[c] = refcnt[c] + 1 /\ pins'[c] = pins[c]
        BY <3>2, <1>1, <1>2, <1>3, ProcTypes, CacheTypes, Zenon
      <4> QED BY <3>1, <4>1, <4>2
    <3>3. CASE c # b
      BY <3>1, <3>3, <1>1, <1>2, <1>3, UsersAdd, ProcTypes, CacheTypes, Zenon
    <3> QED BY <3>2, <3>3, Zenon
  <2>2. \A q \in Proc : (buf'[q] = None <=> pc'[q] = "out") /\ (buf'[q] # None => blockno'[buf'[q]] # None)
    BY <1>1, <1>2, <1>3, ProcTypes, CacheTypes, Zenon DEF AllHold, CacheOK
  <2> QED BY <1>2, <2>1, <2>2, Zenon DEF AllHold, Types, CacheOK
<1>6. LocksOK'
  BY <1>1, <1>2, <1>3, CacheTypes DEF AllHold, LocksOK, InLock, Holding, Reading
<1>7. RequestsOK' /\ RingsOK' /\ DescWait'
  BY <1>1, <1>2, DriverKeeps, Zenon DEF device, Waiting, Woken, AllHold, Types
<1>8. ContentsOK'
  <2>1. \A c \in Buf : Dirty(c) => Dirty(c)'
    BY <1>1, <1>2, <1>3, Zenon DEF Dirty, Users, AllHold, Types
  <2>2. \A q \in Proc : Reported(q)' => Reported(q) /\ buf'[q] = buf[q]
    BY <1>1, <1>2, ProcTypes, CacheTypes, Zenon DEF Reported, Waiting, Woken, device, driver
  <2>3. \A q \in Proc : pc'[q] = "written" => pc[q] = "written" /\ buf'[q] = buf[q]
    BY <1>1, <1>2, Zenon DEF AllHold, Types
  <2>4. \A q \in Proc : pc'[q] \in Reading => pc[q] \in Reading /\ buf'[q] = buf[q]
    BY <1>1, <1>2, Zenon DEF AllHold, Types, Reading
  <2> QED BY <1>2, <2>1, <2>2, <2>3, <2>4, Zenon DEF AllHold, ContentsOK, Same, device
<1> QED BY <1>4, <1>5, <1>6, <1>7, <1>8, Zenon DEF IInv, AllHold

(* bget() that recycles the least recently used buffer keeps the           *)
(* invariant.                                                              *)
LEMMA BgetMissKeeps ==
  ASSUME SetFacts, IInv, NEW p \in Proc, NEW k \in Block, BgetMiss(p, k) PROVE IInv'
<1> AllHold
  BY DEF IInv
<1>0. Max(Recyclable) \in Recyclable
  <2>1. Recyclable \in SUBSET (1..NBUF) /\ Recyclable # {}
    BY Zenon DEF BgetMiss, Recyclable, Buf
  <2> QED BY <2>1, MaxIn, Names, Zenon
<1>1. PICK b \in Buf : b = lru[Max(Recyclable)] /\ refcnt[b] = 0
  BY <1>0, Zenon DEF Recyclable, AllHold, Types
<1>2. /\ pc[p] = "out" /\ pc' = [pc EXCEPT ![p] = "get"] /\ Cached(k) = {}
      /\ blockno' = [blockno EXCEPT ![b] = k] /\ valid' = [valid EXCEPT ![b] = 0]
      /\ refcnt' = [refcnt EXCEPT ![b] = 1] /\ buf' = [buf EXCEPT ![p] = b]
      /\ UNCHANGED <<lru, pins, data, locked, driver, device, intr, irq, idx, panicked>>
  BY <1>1, Zenon DEF BgetMiss, SetPc
<1>3. k # None /\ buf[p] = None /\ b # None
  BY <1>2, Names, Zenon DEF AllHold, CacheOK
<1>u. pins[b] = 0 /\ Cardinality(Users(b)) = 0 /\ Users(b) = {} /\ locked[b] = None
  BY <1>1, Unused, Zenon
<1>v. \A q \in Proc : buf[q] # b
  BY <1>u, Zenon DEF Users
<1>4. Types'
  BY <1>2, <1>3, Zenon DEF AllHold, Types, driver, device, PC, Opt
<1>5. CacheOK'
  <2>1. \A c \in Buf : refcnt'[c] = pins'[c] + Cardinality(Users(c)')
    <3> TAKE c \in Buf
    <3>1. refcnt[c] = pins[c] + Cardinality(Users(c)) /\ pins[c] \in Nat /\ Cardinality(Users(c)) \in Nat
      BY RefCount
    <3>2. CASE c = b
      <4>1. Cardinality(Users(c))' = Cardinality(Users(c)) + 1
        BY <3>2, <1>2, <1>3, UsersAdd, Zenon
      <4>2. refcnt'[c] = 1 /\ pins'[c] = 0 /\ Cardinality(Users(c)) = 0
        BY <3>2, <1>u, <1>2, Zenon DEF AllHold, Types
      <4> QED BY <4>1, <4>2
    <3>3. CASE c # b
      BY <3>1, <3>3, <1>2, <1>3, UsersAdd, Zenon DEF AllHold, Types
    <3> QED BY <3>2, <3>3, Zenon
  <2>2. \A q \in Proc : (buf'[q] = None <=> pc'[q] = "out") /\ (buf'[q] # None => blockno'[buf'[q]] # None)
    BY <1>2, <1>3, <1>v, Zenon DEF AllHold, Types, CacheOK, Opt
  <2>3. \A c, d \in Buf : blockno'[c] = blockno'[d] /\ blockno'[c] # None => c = d
    BY <1>2, ProcTypes, DriverTypes DEF AllHold, CacheOK, Cached
  <2> QED BY <1>2, <2>1, <2>2, <2>3, Zenon DEF AllHold, CacheOK
<1>6. LocksOK'
  <2>1. \A q \in Proc : pc'[q] \in InLock \cup {"lock"} => q # p /\ pc'[q] = pc[q] /\ buf'[q] = buf[q]
    BY <1>2, Zenon DEF AllHold, Types, InLock, Holding, Reading
  <2>2. \A q \in Proc : pc'[q] \in Holding => valid'[buf'[q]] = valid[buf[q]]
    BY <1>2, <1>v, <2>1 DEF AllHold, Types, InLock, CacheOK, Opt
  <2>3. \A c \in Buf : locked[c] # None => locked[c] # p
    BY <1>2, Zenon DEF AllHold, LocksOK, InLock, Holding, Reading
  <2>4. \A c \in Buf : locked[c] # None => pc'[locked[c]] = pc[locked[c]] /\ buf'[locked[c]] = buf[locked[c]]
    BY <1>2, <2>3, CacheTypes DEF Opt
  <2> QED BY <1>2, <2>1, <2>2, <2>4 DEF AllHold, LocksOK, InLock
<1>7. RequestsOK' /\ RingsOK' /\ DescWait'
  <2>1. \A q \in Proc : q # p => pc'[q] = pc[q] /\ buf'[q] = buf[q]
    BY <1>2, Zenon DEF AllHold, Types
  <2>2. \A q \in Proc : pc[q] # "out" => blockno'[buf[q]] = blockno[buf[q]]
    BY <1>2, <1>v, Zenon DEF AllHold, Types, CacheOK, Opt
  <2> QED BY <1>2, <2>1, <2>2, DriverKeeps, ProcTypes, Zenon DEF device, Waiting, Woken
<1>8. ContentsOK'
  <2>0. \A q \in Proc : q # p => pc'[q] = pc[q] /\ buf'[q] = buf[q]
    BY <1>2, Zenon DEF AllHold, Types
  <2>1. \A c \in Buf : Dirty(c) => Dirty(c)'
    BY <1>2, <1>3, <2>0, Zenon DEF Dirty, Users
  <2>a. \A c \in Buf : c # b => valid'[c] = valid[c] /\ blockno'[c] = blockno[c]
    BY <1>2, Zenon DEF AllHold, Types
  <2>b. valid'[b] = 0
    BY <1>2, Zenon DEF AllHold, Types
  <2>2. \A q \in Proc : Reported(q)' => Reported(q) /\ buf'[q] = buf[q] /\ buf[q] \in Buf \ {b}
    BY <1>2, <1>v, <2>0, ProcTypes DEF Reported, Waiting, Woken, AllHold, CacheOK, Opt, device, driver
  <2>3. \A q \in Proc : pc'[q] = "written" => pc[q] = "written" /\ buf'[q] = buf[q] /\ buf[q] \in Buf \ {b}
    BY <1>2, <1>v, <2>0 DEF AllHold, Types, CacheOK, Opt
  <2>4. \A q \in Proc : pc'[q] \in Reading => pc[q] \in Reading /\ buf'[q] = buf[q] /\ buf[q] \in Buf \ {b}
    BY <1>2, <1>v, <2>0 DEF AllHold, Types, Reading, CacheOK, Opt
  <2>c. data' = data /\ disk' = disk
    BY <1>2, Zenon DEF device
  <2>5. \A c \in Buf : valid'[c] = 1 => c # b
    BY <2>b
  <2> QED BY <2>c, <2>1, <2>2, <2>3, <2>4, <2>5, <2>a, SMTT(30) DEF AllHold, ContentsOK, Same
<1> QED BY <1>4, <1>5, <1>6, <1>7, <1>8, Zenon DEF IInv, AllHold

(* acquiresleep(), which locks or sleeps, keeps the invariant.             *)
LEMMA AcquiresleepKeeps ==
  ASSUME IInv, NEW p \in Proc, Acquiresleep(p) PROVE IInv'
<1> AllHold
  BY Zenon DEF IInv
<1>1. /\ pc[p] = "get"
      /\ UNCHANGED <<cache, data, driver, device, intr, irq, buf, idx, panicked>>
  BY Zenon DEF Acquiresleep
<1>2. PICK l \in {"lock", "held", "read"} :
        /\ pc' = [pc EXCEPT ![p] = l]
        /\ l = "lock" => locked[buf[p]] # None /\ locked' = locked
        /\ l # "lock" => locked[buf[p]] = None /\ locked' = [locked EXCEPT ![buf[p]] = p]
        /\ l = "held" => valid[buf[p]] = 1
        /\ l = "read" => valid[buf[p]] = 0
  BY DEF Acquiresleep, SetPc, AllHold, Types, CacheOK, Opt
<1>3. buf[p] \in Buf /\ buf[p] # None /\ p # None
  BY <1>1, Names, ProcTypes DEF AllHold, CacheOK, Opt
<1>4. \A q \in Proc : q # p => pc'[q] = pc[q]
  BY <1>2, Zenon DEF AllHold, Types
<1>5. pc'[p] = l
  BY <1>2, Zenon DEF AllHold, Types
<1>6. Types'
  <2>1. locked' \in [Buf -> Opt(Proc)]
    BY <1>2, <1>3, CacheTypes DEF Opt
  <2>2. pc' \in [Proc -> PC]
    BY <1>2, Zenon DEF AllHold, Types, PC, InLock, Holding, Reading
  <2> QED BY <1>1, <1>2, <2>1, <2>2, Zenon DEF AllHold, Types, cache, driver, device
<1>7. CacheOK'
  BY <1>1, <1>2, <1>4, <1>5, CacheSame, Zenon DEF cache
<1>8. LocksOK'
  <2>1. CASE l = "lock"
    BY <2>1, <1>1, <1>2, <1>4, <1>5, ProcTypes DEF cache, AllHold, LocksOK, InLock, Holding, Reading, Opt
  <2>2. CASE l # "lock"
    <3>1. \A c \in Buf : locked'[c] = IF c = buf[p] THEN p ELSE locked[c]
      BY <2>2, <1>2, Zenon DEF AllHold, Types
    <3>2. l \in InLock /\ (l \in Holding => valid[buf[p]] = 1)
      BY <2>2, <1>2, Zenon DEF InLock, Holding, Reading
    <3>3. \A c \in Buf : locked'[c] # None => pc'[locked'[c]] \in InLock /\ buf'[locked'[c]] = c
      <4>1. \A c \in Buf : locked[c] # p
        BY <1>1, <1>3, Zenon DEF AllHold, LocksOK, InLock, Holding, Reading
      <4>2. \A c \in Buf : locked[c] # None => locked[c] \in Proc /\ pc[locked[c]] \in InLock /\ buf[locked[c]] = c
        BY DEF AllHold, Types, LocksOK, Opt
      <4>3. pc'[p] \in InLock /\ buf' = buf
        BY <3>2, <1>1, <1>5, Zenon
      <4> QED BY <3>1, <4>1, <4>2, <4>3, <1>4, Zenon
    <3>4. \A q \in Proc : pc[q] # "out" => buf[q] \in Buf
      BY DEF AllHold, Types, CacheOK, Opt
    <3>5. \A q \in Proc : pc'[q] \in InLock => locked'[buf'[q]] = q
      <4> SUFFICES ASSUME NEW q \in Proc, pc'[q] \in InLock PROVE locked'[buf'[q]] = q
        BY Zenon
      <4>1. CASE q = p
        BY <4>1, <3>1, <1>1, <1>3, Zenon
      <4>2. CASE q # p
        <5>1. pc[q] \in InLock /\ buf[q] \in Buf
          BY <4>2, <1>4, <3>4, Zenon DEF InLock, Holding, Reading
        <5>2. locked[buf[q]] = q
          BY <5>1, Zenon DEF AllHold, LocksOK
        <5>3. buf[q] # buf[p]
          BY <5>2, <1>2, <2>2, Names, Zenon
        <5> QED BY <5>1, <5>2, <5>3, <3>1, <1>1, Zenon
      <4> QED BY <4>1, <4>2, Zenon
    <3>6. \A q \in Proc : pc'[q] = "lock" => locked'[buf'[q]] # None
      BY <3>1, <3>4, <2>2, <1>1, <1>3, <1>4, <1>5, Zenon DEF AllHold, LocksOK
    <3>7. \A q \in Proc : pc'[q] \in Holding => valid'[buf'[q]] = 1
      BY <3>2, <1>1, <1>4, <1>5, Zenon DEF AllHold, LocksOK, cache
    <3> QED BY <3>3, <3>5, <3>6, <3>7, Zenon DEF LocksOK
  <2> QED BY <2>1, <2>2, Zenon
<1>9. RequestsOK' /\ RingsOK' /\ DescWait'
  BY <1>1, <1>2, <1>4, <1>5, DriverKeeps, Zenon DEF cache, device, Waiting, Woken
<1>10. ContentsOK'
  <2>1. \A c \in Buf : Dirty(c) => Dirty(c)'
    BY <1>1, <1>4, Zenon DEF Dirty, Users, cache
  <2>2. \A q \in Proc : Reported(q)' => Reported(q)
    BY <1>1, <1>2, <1>4, <1>5, Zenon DEF Reported, Waiting, Woken, device, driver
  <2>3. \A q \in Proc : pc'[q] = "written" => pc[q] = "written"
    BY <1>2, <1>4, <1>5, Zenon
  <2>4. \A q \in Proc : pc'[q] \in Reading => valid[buf[q]] = 0
    BY <1>2, <1>4, <1>5, Zenon DEF Reading, AllHold, ContentsOK
  <2> QED BY <1>1, <2>1, <2>2, <2>3, <2>4, Zenon DEF AllHold, ContentsOK, Same, device, cache
<1> QED BY <1>6, <1>7, <1>8, <1>9, <1>10, Zenon DEF IInv, AllHold

(* A change of the data of a buffer that is held keeps the invariant.      *)
LEMMA ChangeKeeps ==
  ASSUME IInv, NEW p \in Proc, NEW v \in Val, Change(p, v) PROVE IInv'
<1> AllHold
  BY Zenon DEF IInv
<1>1. /\ pc[p] = "held" /\ data' = [data EXCEPT ![buf[p]] = v] /\ pc' = [pc EXCEPT ![p] = "changed"]
      /\ UNCHANGED <<cache, locked, driver, device, intr, irq, buf, idx, panicked>>
  BY Zenon DEF Change, SetPc
<1>2. buf[p] \in Buf
  BY <1>1, HasBuf, Zenon
<1>3. pc'[p] = "changed" /\ \A q \in Proc : q # p => pc'[q] = pc[q]
  BY <1>1, Zenon DEF AllHold, Types
<1>4. Types'
  BY <1>1, <1>2, Zenon DEF AllHold, Types, cache, driver, device, PC, InLock, Holding
<1>5. CacheOK'
  BY <1>1, <1>3, CacheSame, Zenon DEF cache
<1>6. LocksOK'
  BY <1>1, <1>3, LocksSame, SMTT(30) DEF cache, AllHold, LocksOK, InLock, Holding
<1>7. RequestsOK' /\ RingsOK' /\ DescWait'
  BY <1>1, <1>3, DriverKeeps, Zenon DEF cache, device, Waiting, Woken
<1>8. ContentsOK'
  <2>1. \A c \in Buf : Dirty(c) => Dirty(c)'
    BY <1>1, <1>3, Zenon DEF Dirty, Users, cache
  <2>2. Dirty(buf[p])'
    BY <1>1, <1>3, Zenon DEF Dirty, Users, cache
  <2>3. \A c \in Buf : c # buf[p] => data'[c] = data[c]
    BY <1>1, Zenon DEF AllHold, Types
  <2>4. \A q \in Proc : Reported(q)' \/ pc'[q] = "written" =>
          /\ Reported(q) \/ pc[q] = "written"
          /\ q # p /\ pc[q] \in InLock /\ buf[q] \in Buf
    BY <1>1, <1>3, HasBuf, Zenon DEF Reported, Waiting, Woken, device, driver, InLock, Holding, Reading
  <2>5. \A q \in Proc : q # p /\ pc[q] \in InLock => buf[q] # buf[p]
    BY <1>1, OneHolder, Zenon DEF InLock, Holding
  <2>6. \A q \in Proc : pc'[q] \in Reading => pc[q] \in Reading
    BY <1>3, Zenon DEF Reading
<2> QED BY <1>1, <2>1, <2>2, <2>3, <2>4, <2>5, <2>6, Zenon DEF AllHold, ContentsOK, Same, device, cache
<1> QED BY <1>4, <1>5, <1>6, <1>7, <1>8, Zenon DEF IInv, AllHold

(* bpin() keeps the invariant.                                             *)
LEMMA BpinKeeps ==
  ASSUME SetFacts, IInv, NEW p \in Proc, Bpin(p) PROVE IInv'
<1> AllHold
  BY Zenon DEF IInv
<1>1. PICK b : /\ b = buf[p] /\ pc[p] = "changed" /\ pc' = [pc EXCEPT ![p] = "held"]
               /\ refcnt' = [refcnt EXCEPT ![b] = @ + (1 - pins[b])]
               /\ pins' = [pins EXCEPT ![b] = @ + (1 - pins[b])]
               /\ UNCHANGED <<blockno, valid, lru, data, locked, driver, device, intr, irq, buf, idx,
                              panicked>>
  BY Zenon DEF Bpin, SetPc, NewPin
<1>2. b \in Buf
  BY <1>1, HasBuf, Zenon
<1>3. pc'[p] = "held" /\ \A q \in Proc : q # p => pc'[q] = pc[q]
  BY <1>1, Zenon DEF AllHold, Types
<1>a. pins[b] \in {0, 1} /\ refcnt[b] \in Nat /\ pins'[b] = 1 /\ refcnt'[b] = refcnt[b] + (1 - pins[b])
  BY <1>1, <1>2, SMTT(30) DEF AllHold, Types
<1>4. Types'
  <2>1. pins' = [pins EXCEPT ![b] = 1] /\ refcnt' = [refcnt EXCEPT ![b] = refcnt[b] + (1 - pins[b])]
    BY <1>1, <1>2, <1>a, Zenon DEF AllHold, Types
  <2>2. refcnt[b] + (1 - pins[b]) \in Nat
    BY <1>a
  <2> QED BY <1>1, <1>2, <2>1, <2>2 DEF AllHold, Types, driver, device, PC, InLock, Holding
<1>5. CacheOK'
  <2>1. \A c \in Buf : Users(c)' = Users(c)
    BY <1>1, Zenon DEF Users
  <2>2. \A c \in Buf : c # b => pins'[c] = pins[c] /\ refcnt'[c] = refcnt[c]
    BY <1>1, Zenon DEF AllHold, Types
  <2>3. refcnt'[b] = pins'[b] + Cardinality(Users(b))
    BY <1>a, <1>2, RefCount
  <2>4. \A c \in Buf : refcnt'[c] = pins'[c] + Cardinality(Users(c))
    BY <2>2, <2>3, RefCount, Zenon
  <2> QED BY <1>1, <1>3, <2>1, <2>4, ZenonT(30) DEF AllHold, CacheOK
<1>6. LocksOK'
  BY <1>1, <1>3, LocksSame DEF AllHold, LocksOK, InLock, Holding
<1>7. RequestsOK' /\ RingsOK' /\ DescWait'
  BY <1>1, <1>3, DriverKeeps, Zenon DEF device, Waiting, Woken
<1>8. ContentsOK'
  <2>1. \A c \in Buf : c # b => pins'[c] = pins[c]
    BY <1>1, Zenon DEF AllHold, Types
  <2>2. \A c \in Buf : Dirty(c) => Dirty(c)'
    BY <1>1, <1>3, <1>a, <2>1, Zenon DEF Dirty, Users
  <2>4. \A q \in Proc : Reported(q)' \/ pc'[q] = "written" => Reported(q) \/ pc[q] = "written"
    BY <1>1, <1>3, Zenon DEF Reported, Waiting, Woken, device, driver
  <2>6. \A q \in Proc : pc'[q] \in Reading => pc[q] \in Reading
    BY <1>3, Zenon DEF Reading
  <2> QED BY <1>1, <2>2, <2>4, <2>6, Zenon DEF AllHold, ContentsOK, Same, device
<1> QED BY <1>4, <1>5, <1>6, <1>7, <1>8, Zenon DEF IInv, AllHold

(* The start of bwrite() keeps the invariant.                              *)
LEMMA BwriteKeeps ==
  ASSUME IInv, NEW p \in Proc, Bwrite(p) PROVE IInv'
<1> AllHold
  BY DEF IInv
<1>1. /\ pc[p] \in {"held", "changed"} /\ pc' = [pc EXCEPT ![p] = "write"]
      /\ UNCHANGED <<cache, data, locked, driver, device, intr, irq, buf, idx, panicked>>
  BY Zenon DEF Bwrite, SetPc
<1>3. pc'[p] = "write" /\ \A q \in Proc : q # p => pc'[q] = pc[q]
  BY <1>1, Zenon DEF AllHold, Types
<1>4. Types'
  BY <1>1, Zenon DEF AllHold, Types, cache, driver, device, PC, InLock, Holding
<1>5. CacheOK'
  BY <1>1, <1>3, CacheSame, Zenon DEF cache
<1>6. LocksOK'
  BY <1>1, <1>3, LocksSame DEF cache, AllHold, LocksOK, InLock, Holding
<1>7. RequestsOK' /\ RingsOK' /\ DescWait'
  BY <1>1, <1>3, DriverKeeps, Zenon DEF cache, device, Waiting, Woken
<1>8. ContentsOK'
  <2>2. \A c \in Buf : Dirty(c) => Dirty(c)'
    BY <1>1, <1>3, Zenon DEF Dirty, Users, cache
  <2>4. \A q \in Proc : Reported(q)' \/ pc'[q] = "written" => Reported(q) \/ pc[q] = "written"
    BY <1>1, <1>3, Zenon DEF Reported, Waiting, Woken, device, driver
  <2>6. \A q \in Proc : pc'[q] \in Reading => pc[q] \in Reading
    BY <1>3, Zenon DEF Reading
  <2> QED BY <1>1, <2>2, <2>4, <2>6, Zenon DEF AllHold, ContentsOK, Same, device, cache
<1> QED BY <1>4, <1>5, <1>6, <1>7, <1>8, Zenon DEF IInv, AllHold

(* bunpin() keeps the invariant: what was pinned has been written.         *)
LEMMA BunpinKeeps ==
  ASSUME SetFacts, IInv, NEW p \in Proc, Bunpin(p) PROVE IInv'
<1> AllHold
  BY DEF IInv
<1>1. PICK b : /\ b = buf[p] /\ pc[p] = "written" /\ pc' = [pc EXCEPT ![p] = "held"]
               /\ refcnt' = [refcnt EXCEPT ![b] = @ - pins[b]]
               /\ pins' = [pins EXCEPT ![b] = 0]
               /\ UNCHANGED <<blockno, valid, lru, data, locked, driver, device, intr, irq, buf, idx,
                              panicked>>
  BY Zenon DEF Bunpin, SetPc
<1>2. b \in Buf
  BY <1>1, HasBuf, Zenon
<1>3. pc'[p] = "held" /\ \A q \in Proc : q # p => pc'[q] = pc[q]
  BY <1>1, Zenon DEF AllHold, Types
<1>a. pins[b] \in {0, 1} /\ refcnt[b] \in Nat /\ pins'[b] = 0 /\ refcnt'[b] = refcnt[b] - pins[b]
  BY <1>1, <1>2, Zenon DEF AllHold, Types
<1>b. refcnt'[b] = Cardinality(Users(b)) /\ refcnt'[b] \in Nat
  BY <1>a, <1>2, RefCount, SMTT(30)
<1>4. Types'
  <2>1. refcnt' = [refcnt EXCEPT ![b] = refcnt'[b]]
    BY <1>1, <1>2, <1>a, Zenon DEF AllHold, Types
  <2>2. refcnt' \in [Buf -> Nat]
    BY <1>b, <1>2, <2>1, ProcTypes, CacheTypes, Zenon
  <2> QED BY <1>1, <1>2, <2>2, Zenon DEF AllHold, Types, driver, device, PC, InLock, Holding
<1>5. CacheOK'
  <2>1. \A c \in Buf : Users(c)' = Users(c)
    BY <1>1, Zenon DEF Users
  <2>2. \A c \in Buf : c # b => pins'[c] = pins[c] /\ refcnt'[c] = refcnt[c]
    BY <1>1, Zenon DEF AllHold, Types
  <2>3. refcnt'[b] = pins'[b] + Cardinality(Users(b))
    BY <1>a, <1>b
  <2>4. \A c \in Buf : refcnt'[c] = pins'[c] + Cardinality(Users(c))
    BY <2>2, <2>3, RefCount, Zenon
  <2> QED BY <1>1, <1>3, <2>1, <2>4, Zenon DEF AllHold, CacheOK
<1>6. LocksOK'
  BY <1>1, <1>3, LocksSame DEF AllHold, LocksOK, InLock, Holding
<1>7. RequestsOK' /\ RingsOK' /\ DescWait'
  BY <1>1, <1>3, DriverKeeps, Zenon DEF device, Waiting, Woken
<1>8. ContentsOK'
  <2>1. \A c \in Buf : c # b => pins'[c] = pins[c]
    BY <1>1, ProcTypes, CacheTypes, Zenon
  <2>2. \A c \in Buf : c # b /\ Dirty(c) => Dirty(c)'
    BY <1>1, <1>3, <2>1, Zenon DEF Dirty, Users
  <2>3. Same(b)
    BY <1>1, Zenon DEF AllHold, ContentsOK
  <2>4. \A q \in Proc : Reported(q)' \/ pc'[q] = "written" => Reported(q) \/ pc[q] = "written"
    BY <1>1, <1>3, Zenon DEF Reported, Waiting, Woken, device, driver
  <2>6. \A q \in Proc : pc'[q] \in Reading => pc[q] \in Reading
    BY <1>3 DEF Reading
  <2> QED BY <1>1, <2>2, <2>3, <2>4, <2>6, Zenon DEF AllHold, ContentsOK, Same, device
<1> QED BY <1>4, <1>5, <1>6, <1>7, <1>8 DEF IInv, AllHold

(* releasesleep(), which wakes all who sleep for the lock, keeps the       *)
(* invariant.                                                              *)
LEMMA ReleasesleepKeeps ==
  ASSUME IInv, NEW p \in Proc, Releasesleep(p) PROVE IInv'
<1> AllHold
  BY DEF IInv
<1>1. /\ pc[p] = "held" /\ locked' = [locked EXCEPT ![buf[p]] = None]
      /\ UNCHANGED <<cache, data, driver, device, intr, irq, buf, idx, panicked>>
  BY Zenon DEF Releasesleep
<1>2. buf[p] \in Buf
  BY <1>1, HasBuf, Zenon
<1>3. /\ pc'[p] = "rel"
      /\ \A q \in Proc : q # p => pc'[q] = IF pc[q] = "lock" /\ buf[q] = buf[p] THEN "get" ELSE pc[q]
  BY Zenon DEF Releasesleep
<1>4. Types'
  <2>1. pc' \in [Proc -> PC]
    BY Zenon DEF Releasesleep, AllHold, Types, PC
  <2> QED BY <1>1, <1>2, <2>1, Zenon DEF AllHold, Types, cache, driver, device, Opt
<1>5. CacheOK'
  BY <1>1, <1>3, CacheSame, ZenonT(30) DEF cache
<1>6. LocksOK'
  <2>1. \A c \in Buf : locked'[c] = IF c = buf[p] THEN None ELSE locked[c]
    BY <1>1, Zenon DEF AllHold, Types
  <2>2. \A q \in Proc : pc'[q] \in InLock => q # p /\ pc[q] \in InLock /\ pc'[q] = pc[q]
    BY <1>3, Zenon DEF InLock, Holding, Reading
  <2>3. \A q \in Proc : pc[q] \in InLock /\ q # p => buf[q] # buf[p] /\ pc'[q] = pc[q] /\ buf[q] \in Buf
    BY <1>1, <1>3, OneHolder, HasBuf, Zenon DEF InLock, Holding, Reading
  <2>4. \A q \in Proc : pc'[q] \in InLock => locked'[buf'[q]] = q
    BY <2>1, <2>2, <2>3, <1>1 DEF AllHold, LocksOK
  <2>5. \A c \in Buf : c # buf[p] /\ locked[c] # None =>
          locked[c] \in Proc /\ pc[locked[c]] \in InLock /\ buf[locked[c]] = c /\ locked[c] # p
    BY CacheTypes DEF AllHold, LocksOK, Opt
  <2>6. \A c \in Buf : locked'[c] # None => pc'[locked'[c]] \in InLock /\ buf'[locked'[c]] = c
    BY <2>1, <2>3, <2>5, <1>1
  <2>7. \A q \in Proc : pc'[q] \in Holding => valid'[buf'[q]] = 1
    BY <2>2, <1>1, Zenon DEF AllHold, LocksOK, cache, InLock
  <2>8. \A q \in Proc : pc'[q] = "lock" => pc[q] = "lock" /\ buf[q] # buf[p] /\ buf[q] \in Buf
    BY <1>3, HasBuf, Zenon
  <2>9. \A q \in Proc : pc'[q] = "lock" => locked'[buf'[q]] # None
    BY <2>8, <2>1, <1>1, SMTT(30) DEF AllHold, LocksOK
  <2> QED BY <2>4, <2>6, <2>7, <2>9, Zenon DEF LocksOK
<1>7. RequestsOK' /\ RingsOK' /\ DescWait'
  BY <1>1, <1>3, DriverKeeps, Zenon DEF cache, device, Waiting, Woken
<1>8. ContentsOK'
  <2>2. \A c \in Buf : Dirty(c) => Dirty(c)'
    BY <1>1, <1>3, Zenon DEF Dirty, Users, cache
  <2>4. \A q \in Proc : Reported(q)' \/ pc'[q] = "written" => Reported(q) \/ pc[q] = "written"
    BY <1>1, <1>3, Zenon DEF Reported, Waiting, Woken, device, driver
  <2>6. \A q \in Proc : pc'[q] \in Reading => pc[q] \in Reading
    BY <1>3, Zenon DEF Reading
  <2> QED BY <1>1, <2>2, <2>4, <2>6, Zenon DEF AllHold, ContentsOK, Same, device, cache
<1> QED BY <1>4, <1>5, <1>6, <1>7, <1>8 DEF IInv, AllHold

(* The list still holds every buffer after one moves to the front.         *)
LEMMA MoveToFrontKeeps ==
  ASSUME IInv, NEW b \in Buf
  PROVE  /\ MoveToFront(b) \in [Buf -> Buf]
         /\ \A c \in Buf : \E j \in Buf : MoveToFront(b)[j] = c
<1> AllHold
  BY Zenon DEF IInv
<1>1. PICK at \in Buf : lru[at] = b /\ at = CHOOSE j \in Buf : lru[j] = b
  BY Zenon DEF AllHold, CacheOK
<1>2. MoveToFront(b) = [j \in Buf |-> IF j = 1 THEN b ELSE IF j <= at THEN lru[j - 1] ELSE lru[j]]
  BY <1>1, Zenon DEF MoveToFront
<1>3. \A j \in Buf : j # 1 => j - 1 \in Buf
  BY Names DEF Buf
<1>4. 1 \in Buf
  BY Names DEF Buf
<1>5. MoveToFront(b) \in [Buf -> Buf]
  BY <1>2, <1>3 DEF AllHold, Types
<1>6. ASSUME NEW c \in Buf PROVE \E j \in Buf : MoveToFront(b)[j] = c
  <2>1. PICK i \in Buf : lru[i] = c
    BY Zenon DEF AllHold, CacheOK
  <2>2. i \in Nat /\ at \in Nat /\ i >= 1 /\ at >= 1
    BY Names DEF Buf
  <2>3. CASE i < at
    <3>1. i + 1 \in Buf /\ i + 1 # 1 /\ i + 1 <= at /\ (i + 1) - 1 = i
      BY <2>2, <2>3, Names DEF Buf
    <3> QED BY <3>1, <1>2, <2>1, Zenon
  <2>4. CASE i = at
    BY <2>4, <2>1, <1>1, <1>2, <1>4, Zenon
  <2>5. CASE i > at
    <3>1. i # 1 /\ ~(i <= at)
      BY <2>2, <2>5
    <3> QED BY <3>1, <1>2, <2>1, Zenon
  <2> QED BY <2>2, <2>3, <2>4, <2>5
<1> QED BY <1>5, <1>6, Zenon

(* The end of brelse(), which moves an unused buffer to the front, keeps   *)
(* the invariant.                                                          *)
LEMMA BrelseKeeps ==
  ASSUME SetFacts, IInv, NEW p \in Proc, Brelse(p) PROVE IInv'
<1> AllHold
  BY DEF IInv
<1>1. PICK b : /\ b = buf[p] /\ pc[p] = "rel" /\ pc' = [pc EXCEPT ![p] = "out"]
               /\ refcnt' = [refcnt EXCEPT ![b] = @ - 1]
               /\ lru' \in {lru, MoveToFront(b)}
               /\ buf' = [buf EXCEPT ![p] = None]
               /\ UNCHANGED <<blockno, valid, pins, data, locked, driver, device, intr, irq, idx,
                              panicked>>
  BY Zenon DEF Brelse, SetPc, Drop
<1>2. b \in Buf /\ b # None
  BY <1>1, HasBuf, Zenon
<1>3. pc'[p] = "out" /\ buf'[p] = None /\ \A q \in Proc : q # p => pc'[q] = pc[q] /\ buf'[q] = buf[q]
  BY <1>1, ProcTypes, Zenon
<1>a. /\ refcnt'[b] = refcnt[b] - 1 /\ refcnt'[b] = pins[b] + Cardinality(Users(b))' /\ refcnt'[b] \in Nat
      /\ \A c \in Buf : c # b => Users(c)' = Users(c)
  <2>1. refcnt'[b] = refcnt[b] - 1
    BY <1>1, <1>2, Zenon DEF AllHold, Types
  <2>2. /\ Cardinality(Users(b))' = Cardinality(Users(b)) - 1 /\ Cardinality(Users(b)) \in Nat \ {0}
        /\ \A c \in Buf : c # b => Users(c)' = Users(c)
    BY <1>1, <1>2, UsersDrop, Zenon
  <2>3. refcnt[b] = pins[b] + Cardinality(Users(b)) /\ pins[b] \in {0, 1}
    BY <1>2, RefCount, Zenon
  <2> QED BY <2>1, <2>2, <2>3, SMTT(30)
<1>b. lru' \in [Buf -> Buf] /\ \A c \in Buf : \E j \in Buf : lru'[j] = c
  <2>1. CASE lru' = lru
    BY <2>1, Zenon DEF AllHold, Types, CacheOK
  <2>2. CASE lru' = MoveToFront(b)
    BY <2>2, <1>2, MoveToFrontKeeps, Zenon
  <2> QED BY <1>1, <2>1, <2>2, Zenon
<1>4. Types'
  <2>1. refcnt' \in [Buf -> Nat]
    BY <1>1, <1>2, <1>a, Zenon DEF AllHold, Types
  <2>2. lru' \in [Buf -> Buf]
    BY <1>b, Zenon
  <2> QED BY <1>1, <2>1, <2>2, Zenon DEF AllHold, Types, driver, device, PC, Opt
<1>5. CacheOK'
  <2>1. \A c \in Buf : refcnt'[c] = pins'[c] + Cardinality(Users(c)')
    <3>1. \A c \in Buf : c # b => refcnt'[c] = refcnt[c]
      BY <1>1, Zenon DEF AllHold, Types
    <3> QED BY <3>1, <1>1, <1>a, RefCount, Zenon
  <2>2. \A c \in Buf : \E j \in Buf : lru'[j] = c
    BY <1>b, Zenon
  <2> QED BY <1>1, <1>3, <2>1, <2>2, SMTT(30) DEF AllHold, CacheOK
<1>6. LocksOK'
  <2>1. \A q \in Proc : pc'[q] \in InLock \cup {"lock"} => q # p
    BY <1>3, Zenon DEF InLock, Holding, Reading
  <2>2. \A c \in Buf : locked[c] # None =>
          locked[c] \in Proc /\ pc[locked[c]] \in InLock /\ buf[locked[c]] = c /\ locked[c] # p
    BY <1>1, SMTT(30) DEF AllHold, Types, LocksOK, Opt, InLock, Holding, Reading
  <2> QED BY <1>1, <1>3, <2>1, <2>2, SMTT(30) DEF AllHold, LocksOK, InLock
<1>7. RequestsOK' /\ RingsOK' /\ DescWait'
  BY <1>1, <1>3, DriverKeeps, Zenon DEF device, Waiting, Woken
<1>8. ContentsOK'
  <2>2. \A c \in Buf : Dirty(c) => Dirty(c)'
    BY <1>1, <1>3, Zenon DEF Dirty, Users
  <2>4. \A q \in Proc : Reported(q)' \/ pc'[q] = "written" => q # p /\ (Reported(q) \/ pc[q] = "written")
    BY <1>1, <1>3, Zenon DEF Reported, Waiting, Woken, device, driver
  <2>6. \A q \in Proc : pc'[q] \in Reading => q # p /\ pc[q] \in Reading
    BY <1>3, Zenon DEF Reading
  <2>7. \A c \in Buf : valid'[c] = 1 => blockno'[c] # None
    BY <1>1, Zenon DEF AllHold, ContentsOK
  <2>8. \A c \in Buf : valid'[c] = 1 /\ ~Dirty(c)' => Same(c)'
    BY <1>1, <2>2, Zenon DEF AllHold, ContentsOK, Same, device
  <2>9. \A q \in Proc : Reported(q)' \/ pc'[q] = "written" => Same(buf[q])' /\ buf'[q] = buf[q]
    BY <1>1, <1>3, <2>4, Zenon DEF AllHold, ContentsOK, Same, device
  <2>10. \A q \in Proc : pc'[q] \in Reading => valid'[buf'[q]] = 0
    BY <1>1, <1>3, <2>6, Zenon DEF AllHold, ContentsOK
  <2> QED BY <2>7, <2>8, <2>9, <2>10, Zenon DEF ContentsOK, Same
<1> QED BY <1>4, <1>5, <1>6, <1>7, <1>8 DEF IInv, AllHold

-----------------------------------------------------------------------------

-----------------------------------------------------------------------------
(* The refinement: what a block's content and holder are in Blocks.        *)
ViewIs ==
  \A k \in Block :
    /\ \A b \in Buf : blockno[b] = k /\ valid[b] = 1 => View(k) = data[b]
    /\ (\A b \in Buf : ~(blockno[b] = k /\ valid[b] = 1)) => View(k) = disk[k]
HolderIs ==
  \A k \in Block : /\ \A p \in Holder(k) : HolderOf(k) = p
                   /\ Holder(k) = {} => HolderOf(k) = None

(* A block has one buffer, and who has a buffer has one with a block.      *)
LEMMA OneCached ==
  ASSUME IInv, NEW k \in Block, NEW b \in Buf, NEW c \in Buf, blockno[b] = k, blockno[c] = k
  PROVE  b = c
<1> AllHold
  BY Zenon DEF IInv
<1>1. blockno[b] = blockno[c] /\ blockno[b] # None
  BY Names, Zenon
<1> QED BY <1>1, Zenon DEF AllHold, CacheOK

(* The buffer of a process has a block.                                    *)
LEMMA HasBlock ==
  ASSUME IInv, NEW p \in Proc, buf[p] \in Buf PROVE blockno[buf[p]] \in Block
<1> AllHold
  BY Zenon DEF IInv
<1>1. buf[p] # None /\ blockno[buf[p]] \in Opt(Block)
  BY Names, Zenon DEF AllHold, Types
<1> QED BY <1>1, Zenon DEF AllHold, CacheOK, Opt

(* The mapping to Blocks reads what these two say.                         *)
LEMMA MappingIs == IInv => ViewIs /\ HolderIs
<1> SUFFICES ASSUME IInv, NEW k \in Block
             PROVE  /\ \A b \in Buf : blockno[b] = k /\ valid[b] = 1 => View(k) = data[b]
                    /\ (\A b \in Buf : ~(blockno[b] = k /\ valid[b] = 1)) => View(k) = disk[k]
                    /\ \A p \in Holder(k) : HolderOf(k) = p
                    /\ Holder(k) = {} => HolderOf(k) = None
  BY Zenon DEF ViewIs, HolderIs
<1>1. \A b, c \in Cached(k) : b = c
  BY OneCached, Zenon DEF Cached
<1>2. ASSUME NEW b \in Buf, blockno[b] = k, valid[b] = 1 PROVE View(k) = data[b]
  <2>1. b \in Cached(k)
    BY <1>2, Zenon DEF Cached
  <2>2. (CHOOSE c \in Cached(k) : valid[c] = 1) = b
    BY <2>1, <1>1, <1>2, Zenon
  <2> QED BY <2>1, <2>2, <1>2, Zenon DEF View
<1>3. (\A b \in Buf : ~(blockno[b] = k /\ valid[b] = 1)) => View(k) = disk[k]
  BY Zenon DEF View, Cached
<1>4. \A p, q \in Holder(k) : p = q
  <2> SUFFICES ASSUME NEW p \in Holder(k), NEW q \in Holder(k) PROVE p = q
    BY Zenon
  <2>1. /\ p \in Proc /\ q \in Proc /\ pc[p] \in Holding /\ pc[q] \in Holding
        /\ blockno[buf[p]] = k /\ blockno[buf[q]] = k
    BY Zenon DEF Holder
  <2>2. pc[p] \in InLock /\ pc[q] \in InLock /\ pc[p] # "out" /\ pc[q] # "out"
    BY <2>1, Zenon DEF InLock, Holding
  <2>3. buf[p] \in Buf /\ buf[q] \in Buf
    BY <2>1, <2>2, HasBuf, Zenon
  <2>4. buf[p] = buf[q]
    BY <2>1, <2>3, OneCached, Zenon
  <2> QED BY <2>1, <2>2, <2>4, OneHolder, Zenon
<1>5. \A p \in Holder(k) : HolderOf(k) = p
  BY <1>4, Zenon DEF HolderOf
<1> QED BY <1>2, <1>3, <1>5, Zenon DEF HolderOf

(* Steps that leave alone what the buffers and the disk hold, and steps    *)
(* that leave alone who holds a buffer.                                    *)
LEMMA CurSame ==
  ASSUME UNCHANGED <<blockno, valid, data, disk>> PROVE Cur' = Cur
BY Zenon DEF Cur, View, Cached

(* The same before and after a step.                                       *)
LEMMA MappingIsNow ==
  ASSUME IInv, IInv' PROVE ViewIs /\ HolderIs /\ ViewIs' /\ HolderIs'
<1>1. ViewIs /\ HolderIs
  BY MappingIs, Zenon
<1>2. IInv' => ViewIs' /\ HolderIs'
  BY MappingIs, PTL
<1> QED BY <1>1, <1>2, Zenon

(* A block with the same holders has the same holder.                      *)
LEMMA HolderSame ==
  ASSUME IInv, IInv', NEW k \in Block, Holder(k)' = Holder(k) PROVE HolderOf(k)' = HolderOf(k)
<1>1. HolderIs /\ HolderIs'
  BY MappingIsNow, Zenon
<1>2. CASE Holder(k) = {}
  BY <1>1, <1>2, Zenon DEF HolderIs
<1>3. ASSUME NEW p \in Holder(k) PROVE HolderOf(k)' = HolderOf(k)
  BY <1>1, Zenon DEF HolderIs
<1> QED BY <1>2, <1>3, Zenon

(* A step that keeps who holds what keeps Held.                            *)
LEMMA HeldSame ==
  ASSUME IInv, IInv',
         \A q \in Proc : pc'[q] \in Holding <=> pc[q] \in Holding,
         \A q \in Proc : pc[q] \in Holding => buf'[q] = buf[q] /\ blockno'[buf[q]] = blockno[buf[q]]
  PROVE  Held' = Held
<1>1. \A k \in Block : Holder(k)' = Holder(k)
  BY Zenon DEF Holder
<1>2. \A k \in Block : HolderOf(k)' = HolderOf(k)
  BY <1>1, HolderSame, Zenon
<1> QED BY <1>2, Zenon DEF Held

(* A process starts or stops holding the block of its buffer.              *)
LEMMA HeldBy ==
  ASSUME IInv, IInv', NEW p \in Proc, NEW k \in Block, blockno[buf[p]] = k,
         UNCHANGED <<blockno, buf>>, pc[p] \in InLock \/ pc'[p] \in InLock,
         \A q \in Proc : q # p => (pc'[q] \in Holding <=> pc[q] \in Holding)
  PROVE  /\ pc[p] \in Holding => Held[k] = p
         /\ pc'[p] \in Holding => Held'[k] = p
         /\ Holder(k) = {} => Held[k] = None
         /\ Holder(k)' = {} => Held'[k] = None
         /\ \A j \in Block : j # k => Held'[j] = Held[j]
<1>0. HolderIs /\ HolderIs'
  BY MappingIsNow, Zenon
<1>1. pc[p] \in Holding => p \in Holder(k)
  BY Zenon DEF Holder
<1>2. pc'[p] \in Holding => p \in Holder(k)'
  BY Zenon DEF Holder
<1>3. \A j \in Block : j # k => Holder(j)' = Holder(j)
  BY Zenon DEF Holder
<1>4. \A j \in Block : j # k => HolderOf(j)' = HolderOf(j)
  BY <1>3, HolderSame, Zenon
<1>5. \A j \in Block : Held[j] = HolderOf(j) /\ Held'[j] = HolderOf(j)'
  BY Zenon DEF Held
<1> QED BY <1>0, <1>1, <1>2, <1>4, <1>5, Zenon DEF HolderIs

(* Taking and giving a buffer's lock are Lock and Unlock of its block.     *)
LEMMA LockStep ==
  ASSUME IInv, IInv', NEW p \in Proc, UNCHANGED <<blockno, buf>>, Cur' = Cur,
         pc[p] \notin Holding, pc'[p] \in Holding,
         \A q \in Proc : pc[q] \in InLock /\ buf[q] = buf[p] => q = p,
         \A q \in Proc : q # p => (pc'[q] \in Holding <=> pc[q] \in Holding)
  PROVE  B!Next
<1> AllHold /\ AllHold'
  BY Zenon DEF IInv
<1>1. pc'[p] \in InLock /\ buf[p] \in Buf
  <2>1. pc'[p] \in InLock /\ pc'[p] # "out"
    BY Zenon DEF InLock, Holding
  <2>2. buf'[p] # None /\ buf' \in [Proc -> Opt(Buf)]
    BY <2>1, Zenon DEF AllHold, CacheOK, Types
  <2> QED BY <2>1, <2>2, Zenon DEF Opt
<1>2. PICK k \in Block : blockno[buf[p]] = k
  BY <1>1, HasBlock, Zenon
<1>3. Holder(k) = {}
  <2>1. ASSUME NEW q \in Holder(k) PROVE FALSE
    <3>1. q \in Proc /\ pc[q] \in InLock /\ pc[q] # "out" /\ blockno[buf[q]] = k /\ pc[q] \in Holding
      BY Zenon DEF Holder, InLock, Holding
    <3>2. buf[q] = buf[p]
      <4>1. buf[q] \in Buf
        BY <3>1, HasBuf, Zenon
      <4> QED BY <3>1, <4>1, <1>1, <1>2, OneCached, Zenon
    <3> QED BY <3>1, <3>2, Zenon
  <2> QED BY <2>1, Zenon
<1>4. Held'[k] = p /\ Held[k] = None /\ \A j \in Block : j # k => Held'[j] = Held[j]
  BY <1>1, <1>2, <1>3, HeldBy
<1>5. Held' = [Held EXCEPT ![k] = p]
  BY <1>4, Zenon DEF Held
<1> QED BY <1>4, <1>5, Zenon DEF B!Next, B!Lock

(* A step after which one process holds its block no more is a step of     *)
(* Blocks.                                                                 *)
LEMMA UnlockStep ==
  ASSUME IInv, IInv', NEW p \in Proc, UNCHANGED <<blockno, buf>>, Cur' = Cur,
         pc[p] \in Holding, pc'[p] \notin Holding,
         \A q \in Proc : q # p => (pc'[q] \in Holding <=> pc[q] \in Holding)
  PROVE  B!Next
<1>1. pc[p] \in InLock /\ buf[p] \in Buf /\ pc[p] # "out"
  BY HasBuf, Zenon DEF InLock, Holding
<1>2. PICK k \in Block : blockno[buf[p]] = k
  BY <1>1, HasBlock, Zenon
<1>3. Holder(k)' = {}
  <2>1. ASSUME NEW q \in Holder(k)' PROVE FALSE
    <3>1. q \in Proc /\ pc'[q] \in Holding /\ blockno[buf[q]] = k /\ q # p
      BY Zenon DEF Holder
    <3>2. pc[q] \in Holding /\ pc[q] \in InLock /\ pc[q] # "out"
      BY <3>1, Zenon DEF InLock, Holding
    <3>3. buf[q] = buf[p]
      <4>1. buf[q] \in Buf
        BY <3>1, <3>2, HasBuf, Zenon
      <4> QED BY <3>1, <4>1, <1>1, <1>2, OneCached, Zenon
    <3> QED BY <3>1, <3>2, <3>3, <1>1, OneHolder, Zenon
  <2> QED BY <2>1, Zenon
<1>4. Held[k] = p /\ Held'[k] = None /\ \A j \in Block : j # k => Held'[j] = Held[j]
  BY <1>1, <1>2, <1>3, HeldBy, Zenon
<1>5. Held' = [Held EXCEPT ![k] = None]
  BY <1>4, Zenon DEF Held
<1> QED BY <1>4, <1>5, Zenon DEF B!Next, B!Unlock

(* Every step of the cache and the driver is a step of Blocks or changes   *)
(* nothing there.                                                          *)
Stutters == Cur' = Cur /\ Held' = Held

(* A buffer recycled is seen by nobody: no process has it and it is as on  *)
(* the disk.                                                               *)
LEMMA BgetMissRefines ==
  ASSUME SetFacts, IInv, IInv', NEW p \in Proc, NEW k \in Block, BgetMiss(p, k) PROVE Stutters
<1> AllHold /\ AllHold'
  BY Zenon DEF IInv
<1>0. Max(Recyclable) \in Recyclable
  <2>1. Recyclable \in SUBSET (1..NBUF) /\ Recyclable # {}
    BY Zenon DEF BgetMiss, Recyclable, Buf
  <2> QED BY <2>1, MaxIn, Names, Zenon
<1>1. PICK b \in Buf : b = lru[Max(Recyclable)] /\ refcnt[b] = 0
  BY <1>0, ProcTypes, CacheTypes, Zenon DEF Recyclable
<1>2. /\ pc[p] = "out" /\ pc' = [pc EXCEPT ![p] = "get"] /\ Cached(k) = {}
      /\ blockno' = [blockno EXCEPT ![b] = k] /\ valid' = [valid EXCEPT ![b] = 0]
      /\ buf' = [buf EXCEPT ![p] = b] /\ data' = data /\ disk' = disk
  BY <1>1, Zenon DEF BgetMiss, SetPc, device
<1>3. pins[b] = 0 /\ Users(b) = {}
  BY <1>1, Unused, Zenon
<1>4. \A q \in Proc : buf[q] # b
  BY <1>3, Zenon DEF Users
<1>5. Held' = Held
  <2>1. \A q \in Proc : q # p => pc'[q] = pc[q] /\ buf'[q] = buf[q]
    BY <1>2, Zenon DEF AllHold, Types
  <2>2. \A q \in Proc : pc[q] \in Holding => q # p /\ buf[q] \in Buf /\ buf[q] # b
    BY <1>2, <1>4, HasBuf, Zenon DEF Holding
  <2>3. \A q \in Proc : pc[q] \in Holding => blockno'[buf[q]] = blockno[buf[q]]
    BY <1>2, <2>2, Zenon DEF AllHold, Types
  <2>4. pc'[p] \notin Holding /\ pc[p] \notin Holding
    BY <1>2, Zenon DEF Holding, AllHold, Types
  <2> QED BY <2>1, <2>2, <2>3, <2>4, HeldSame, Zenon
<1>6. ViewIs /\ ViewIs'
  BY MappingIsNow, Zenon
<1>7. valid[b] = 1 => data[b] = disk[blockno[b]]
  BY <1>3 DEF AllHold, ContentsOK, Dirty, Same
<1>8. \A c \in Buf : blockno'[c] = (IF c = b THEN k ELSE blockno[c]) /\ valid'[c] = (IF c = b THEN 0 ELSE valid[c])
  BY <1>2, Zenon DEF AllHold, Types
<1>9. ASSUME NEW j \in Block PROVE View(j)' = View(j)
  <2>1. CASE \E c \in Buf : blockno'[c] = j /\ valid'[c] = 1
    <3>1. PICK c \in Buf : blockno'[c] = j /\ valid'[c] = 1
      BY <2>1, Zenon
    <3>2. c # b /\ blockno[c] = j /\ valid[c] = 1
      BY <3>1, <1>8
    <3> QED BY <3>1, <3>2, <1>2, <1>6 DEF ViewIs
  <2>2. CASE \A c \in Buf : ~(blockno'[c] = j /\ valid'[c] = 1)
    <3>1. View(j)' = disk[j]
      BY <2>2, <1>2, <1>6, Zenon DEF ViewIs
    <3>2. \A c \in Buf : blockno[c] = j /\ valid[c] = 1 => c = b
      BY <2>2, <1>8, Zenon
    <3>3. CASE blockno[b] = j /\ valid[b] = 1
      BY <3>1, <3>3, <1>6, <1>7, Zenon DEF ViewIs
    <3>4. CASE ~(blockno[b] = j /\ valid[b] = 1)
      <4>1. \A c \in Buf : ~(blockno[c] = j /\ valid[c] = 1)
        BY <3>2, <3>4, Zenon
      <4> QED BY <3>1, <4>1, <1>6, Zenon DEF ViewIs
    <3> QED BY <3>3, <3>4, Zenon
  <2> QED BY <2>1, <2>2, Zenon
<1>10. Cur' = Cur
  BY <1>9, Zenon DEF Cur
<1> QED BY <1>5, <1>10, Zenon DEF Stutters

(* Who takes the lock of a valid buffer has the block; else nothing is     *)
(* seen.                                                                   *)
LEMMA AcquiresleepRefines ==
  ASSUME IInv, IInv', NEW p \in Proc, Acquiresleep(p) PROVE B!Next \/ Stutters
<1> AllHold /\ AllHold'
  BY Zenon DEF IInv
<1>1. pc[p] = "get" /\ UNCHANGED <<blockno, valid, data, disk, buf>>
  BY Zenon DEF Acquiresleep, cache, device
<1>2. PICK l \in {"lock", "held", "read"} :
        pc' = [pc EXCEPT ![p] = l] /\ (l = "held" => locked[buf[p]] = None)
  BY Zenon DEF Acquiresleep, SetPc, AllHold, Types, CacheOK, Opt
<1>3. pc'[p] = l /\ \A q \in Proc : q # p => pc'[q] = pc[q]
  BY <1>2, Zenon DEF AllHold, Types
<1>4. Cur' = Cur
  BY <1>1, CurSame, Zenon
<1>5. CASE l = "held"
  <2>1. \A q \in Proc : pc[q] \in InLock /\ buf[q] = buf[p] => q = p
    BY <1>2, <1>5, Names DEF AllHold, LocksOK
  <2>2. pc[p] \notin Holding /\ pc'[p] \in Holding
    BY <1>1, <1>3, <1>5, Zenon DEF Holding
  <2> QED BY <1>1, <1>3, <1>4, <2>1, <2>2, LockStep, Zenon
<1>6. CASE l # "held"
  <2>1. pc[p] \notin Holding /\ pc'[p] \notin Holding
    BY <1>1, <1>2, <1>3, <1>6, Zenon DEF Holding
  <2> QED BY <1>1, <1>3, <1>4, <2>1, HeldSame, Zenon DEF Stutters
<1> QED BY <1>5, <1>6, Zenon

(* A change of the data is a write of Blocks.                              *)
LEMMA ChangeRefines ==
  ASSUME IInv, IInv', NEW p \in Proc, NEW v \in Val, Change(p, v) PROVE B!Next
<1> AllHold /\ AllHold'
  BY Zenon DEF IInv
<1>1. /\ pc[p] = "held" /\ data' = [data EXCEPT ![buf[p]] = v] /\ pc' = [pc EXCEPT ![p] = "changed"]
      /\ UNCHANGED <<blockno, valid, disk, buf>>
  BY Zenon DEF Change, SetPc, cache, device
<1>2. buf[p] \in Buf /\ pc[p] \in Holding /\ pc[p] \in InLock
  BY <1>1, HasBuf, Zenon DEF Holding, InLock
<1>3. PICK k \in Block : blockno[buf[p]] = k
  BY <1>2, HasBlock, Zenon
<1>4. pc'[p] = "changed" /\ \A q \in Proc : q # p => pc'[q] = pc[q]
  BY <1>1, ProcTypes, Zenon
<1>5. Held' = Held
  BY <1>1, <1>4, HeldSame, Zenon DEF Holding
<1>6. Held[k] = p
  BY <1>1, <1>2, <1>3, <1>4, HeldBy, Zenon
<1>7. ViewIs /\ ViewIs'
  BY MappingIsNow, Zenon
<1>8. valid[buf[p]] = 1 /\ data'[buf[p]] = v /\ \A c \in Buf : c # buf[p] => data'[c] = data[c]
  BY <1>1, <1>2, ProcTypes, CacheTypes DEF AllHold, LocksOK
<1>9. View(k)' = v
  BY <1>1, <1>2, <1>3, <1>7, <1>8, Zenon DEF ViewIs
<1>10. ASSUME NEW j \in Block, j # k PROVE View(j)' = View(j)
  <2>1. CASE \E c \in Buf : blockno[c] = j /\ valid[c] = 1
    <3>1. PICK c \in Buf : blockno[c] = j /\ valid[c] = 1
      BY <2>1, Zenon
    <3>2. c # buf[p]
      BY <3>1, <1>3, <1>10, Zenon
    <3> QED BY <3>1, <3>2, <1>1, <1>7, <1>8 DEF ViewIs
  <2>2. CASE \A c \in Buf : ~(blockno[c] = j /\ valid[c] = 1)
    BY <2>2, <1>1, <1>7, Zenon DEF ViewIs
  <2> QED BY <2>1, <2>2, Zenon
<1>11. Cur' = [Cur EXCEPT ![k] = v]
  BY <1>9, <1>10, Zenon DEF Cur
<1> QED BY <1>5, <1>6, <1>11, Zenon DEF B!Next, B!Change

(* The end of a read takes the block; the end of a write is not seen.      *)
LEMMA RwDoneRefines ==
  ASSUME IInv, IInv', NEW p \in Proc, RwDone(p) PROVE B!Next \/ Stutters
<1> AllHold /\ AllHold'
  BY DEF IInv
<1>1. PICK b \in Buf, C \in SUBSET Desc : p \in Submitted /\ Finishes(p, b, C)
  BY FinishesNamed, Zenon
<1>2. /\ pc[p] \in {"rdone", "wdone"} /\ b = buf[p]
      /\ valid' = IF pc[p] = "rdone" THEN [valid EXCEPT ![b] = 1] ELSE valid
      /\ UNCHANGED <<blockno, data, disk, buf>>
  BY <1>1, Zenon DEF Finishes, Woken, device
<1>3. /\ pc'[p] = IF pc[p] = "rdone" THEN "held" ELSE "written"
      /\ \A q \in Proc : q # p =>
           pc'[q] = CASE pc[q] = "rdesc" -> "read" [] pc[q] = "wdesc" -> "write" [] OTHER -> pc[q]
  BY <1>1, Zenon DEF Finishes, WakeDesc
<1>4. \A q \in Proc : q # p => (pc'[q] \in Holding <=> pc[q] \in Holding)
  BY <1>3, Zenon DEF Holding
<1>5. CASE pc[p] = "wdone"
  <2>1. Cur' = Cur
    BY <1>2, <1>5, CurSame, Zenon
  <2>2. pc[p] \in Holding /\ pc'[p] \in Holding
    BY <1>3, <1>5, Zenon DEF Holding
  <2> QED BY <1>2, <1>4, <2>1, <2>2, HeldSame, Zenon DEF Stutters
<1>6. CASE pc[p] = "rdone"
  <2>1. ViewIs /\ ViewIs'
    BY MappingIsNow, Zenon
  <2>2. valid[b] = 0 /\ Same(b)
    BY <1>2, <1>6, Zenon DEF AllHold, ContentsOK, Reading, Reported, Woken
  <2>3. \A c \in Buf : valid'[c] = IF c = b THEN 1 ELSE valid[c]
    BY <1>2, <1>6, Zenon DEF AllHold, Types
  <2>4. ASSUME NEW j \in Block PROVE View(j)' = View(j)
    <3>1. CASE j = blockno[b]
      <4>1. View(j)' = data[b]
        BY <3>1, <2>1, <2>3, <1>2, Zenon DEF ViewIs
      <4>2. \A c \in Buf : ~(blockno[c] = j /\ valid[c] = 1)
        BY <3>1, <2>2, OneCached
      <4>3. View(j) = disk[j]
        BY <4>2, <2>1, Zenon DEF ViewIs
      <4> QED BY <4>1, <4>3, <3>1, <2>2, Zenon DEF Same
    <3>2. CASE j # blockno[b] /\ \E c \in Buf : blockno[c] = j /\ valid[c] = 1
      <4>1. PICK c \in Buf : blockno[c] = j /\ valid[c] = 1 /\ c # b
        BY <3>2, Zenon
      <4> QED BY <4>1, <2>1, <2>3, <1>2 DEF ViewIs
    <3>3. CASE j # blockno[b] /\ \A c \in Buf : ~(blockno[c] = j /\ valid[c] = 1)
      <4>1. \A c \in Buf : ~(blockno'[c] = j /\ valid'[c] = 1)
        BY <3>3, <2>3, <1>2, Zenon
      <4> QED BY <4>1, <3>3, <2>1, <1>2 DEF ViewIs
    <3> QED BY <3>1, <3>2, <3>3, Zenon
  <2>5. Cur' = Cur
    BY <2>4, Zenon DEF Cur
  <2>6. pc[p] \notin Holding /\ pc'[p] \in Holding /\ pc[p] \in InLock
    BY <1>3, <1>6, Zenon DEF Holding, InLock, Reading
  <2>7. \A q \in Proc : pc[q] \in InLock /\ buf[q] = buf[p] => q = p
    BY <2>6, OneHolder, Zenon
  <2> QED BY <1>2, <1>4, <2>5, <2>6, <2>7, LockStep, Zenon
<1> QED BY <1>2, <1>5, <1>6, Zenon

(* What the device transfers is not seen.                                  *)
LEMMA DevDoneRefines ==
  ASSUME IInv, IInv', NEW h \in Desc, NEW status \in {0, 1}, DevDone(h, status) PROVE Stutters
<1> AllHold /\ AllHold'
  BY Zenon DEF IInv
<1>0. h \in inflight
  BY Zenon DEF DevDone
<1>1. PICK p \in Submitted, b \in Buf :
           /\ b = buf[p] /\ h = idx[p] /\ pc[p] \in Waiting /\ blockno[b] \in Block
           /\ disk' = IF pc[p] = "wio" /\ status = 0 THEN [disk EXCEPT ![blockno[b]] = data[b]] ELSE disk
           /\ data' = IF pc[p] = "rio" /\ status = 0 THEN [data EXCEPT ![b] = disk[blockno[b]]] ELSE data
  BY <1>0, DevFinds, Zenon
<1>2. UNCHANGED <<blockno, valid, pc, buf>> /\ p \in Proc
  BY MineIs, Zenon DEF DevDone, cache
<1>3. Held' = Held
  BY <1>2, HeldSame, Zenon
<1>4. ViewIs /\ ViewIs'
  BY MappingIsNow, Zenon
<1>5. /\ pc[p] = "wio" => valid[b] = 1 /\ data' = data
      /\ pc[p] = "rio" => valid[b] = 0 /\ disk' = disk
  BY <1>1, <1>2, Zenon DEF AllHold, LocksOK, ContentsOK, Holding, Reading
<1>6. ASSUME NEW j \in Block PROVE View(j)' = View(j)
  <2>1. CASE \E c \in Buf : blockno[c] = j /\ valid[c] = 1
    <3>1. PICK c \in Buf : blockno[c] = j /\ valid[c] = 1
      BY <2>1, Zenon
    <3>2. data'[c] = data[c]
      BY <3>1, <1>1, <1>5, CacheTypes DEF Waiting
    <3> QED BY <3>1, <3>2, <1>2, <1>4 DEF ViewIs
  <2>2. CASE \A c \in Buf : ~(blockno[c] = j /\ valid[c] = 1)
    <3>1. disk'[j] = disk[j]
      BY <2>2, <1>1, <1>5, ProcTypes, CacheTypes, Zenon DEF Waiting
    <3> QED BY <3>1, <2>2, <1>2, <1>4, Zenon DEF ViewIs
  <2> QED BY <2>1, <2>2, Zenon
<1>7. Cur' = Cur
  BY <1>6, Zenon DEF Cur
<1> QED BY <1>3, <1>7, Zenon DEF Stutters

(* The other steps of a process are not seen.                              *)
LEMMA OtherStepsRefine ==
  ASSUME IInv, IInv', NEW p \in Proc,
         \/ \E k \in Block : BgetHit(p, k) \/ BgetNone(p, k)
         \/ Bpin(p) \/ Bwrite(p) \/ Bunpin(p) \/ Brelse(p) \/ RwSleep(p) \/ RwSubmit(p)
  PROVE  Stutters
<1> AllHold /\ AllHold'
  BY Zenon DEF IInv
<1>1. UNCHANGED <<blockno, valid, data, disk>>
  BY Zenon DEF BgetHit, BgetNone, Bpin, Bwrite, Bunpin, Brelse, RwSleep, RwSubmit, cache, device
<1>2. \A q \in Proc : q # p => buf'[q] = buf[q]
  BY Zenon DEF BgetHit, BgetNone, Bpin, Bwrite, Bunpin, Brelse, RwSleep, RwSubmit, AllHold, Types
<1>3. \A q \in Proc : pc'[q] \in Holding <=> pc[q] \in Holding
  <2>1. CASE \E k \in Block : BgetHit(p, k) \/ BgetNone(p, k)
    <3>1. CASE \E k \in Block : BgetNone(p, k)
      BY <3>1, Zenon DEF BgetNone
    <3>2. CASE \E k \in Block : BgetHit(p, k)
      <4>1. pc[p] = "out" /\ pc' = [pc EXCEPT ![p] = "get"]
        BY <3>2, Zenon DEF BgetHit, SetPc
      <4> QED BY <4>1, Zenon DEF Holding, AllHold, Types
    <3> QED BY <2>1, <3>1, <3>2, Zenon
  <2>2. CASE Bpin(p) \/ Bwrite(p) \/ Bunpin(p)
    BY <2>2, ProcTypes, Zenon DEF Bpin, Bwrite, Bunpin, SetPc, Holding
  <2>3. CASE Brelse(p)
    BY <2>3, ProcTypes, Zenon DEF Brelse, SetPc, Holding
  <2>4. CASE RwSubmit(p)
    <3>1. pc[p] \in {"read", "write"} /\ pc' = [pc EXCEPT ![p] = IF pc[p] = "read" THEN "rio" ELSE "wio"]
      BY <2>4, Zenon DEF RwSubmit, SetPc
    <3>2. pc'[p] \in {"rio", "wio"} /\ \A q \in Proc : q # p => pc'[q] = pc[q]
      BY <3>1, ProcTypes, Zenon
    <3> QED BY <3>1, <3>2, SMT DEF Holding
  <2>5. CASE RwSleep(p)
    <3>1. CASE FreeDesc = {}
      BY <2>5, <3>1, CacheTypes DEF RwSleep, Holding
    <3>2. CASE FreeDesc # {}
      BY <2>5, <3>2, Zenon DEF RwSleep, WakeDesc, Holding
    <3> QED BY <3>1, <3>2, Zenon
  <2> QED BY <2>1, <2>2, <2>3, <2>4, <2>5, Zenon
<1>4. pc[p] \in Holding => buf'[p] = buf[p]
  BY Zenon DEF BgetHit, BgetNone, Bpin, Bwrite, Bunpin, Brelse, RwSleep, RwSubmit, Holding
<1> QED BY <1>1, <1>2, <1>3, <1>4, CurSame, HeldSame, Zenon DEF Stutters

(* releasesleep() gives the block back.                                    *)
LEMMA ReleasesleepRefines ==
  ASSUME IInv, IInv', NEW p \in Proc, Releasesleep(p) PROVE B!Next
<1>1. pc[p] = "held" /\ UNCHANGED <<blockno, valid, data, disk, buf>>
  BY Zenon DEF Releasesleep, cache, device
<1>2. /\ pc'[p] = "rel"
      /\ \A q \in Proc : q # p => pc'[q] = IF pc[q] = "lock" /\ buf[q] = buf[p] THEN "get" ELSE pc[q]
  BY Zenon DEF Releasesleep
<1>3. pc[p] \in Holding /\ pc'[p] \notin Holding
  BY <1>1, <1>2, Zenon DEF Holding
<1>4. \A q \in Proc : q # p => (pc'[q] \in Holding <=> pc[q] \in Holding)
  BY <1>2, Zenon DEF Holding
<1> QED BY <1>1, <1>3, <1>4, CurSame, UnlockStep, Zenon

(* The steps of the ring and of the interrupt handler are not seen.        *)
LEMMA DriverStepsRefine ==
  ASSUME IInv, IInv', DevFetch \/ IntrStep PROVE Stutters
<1>1. UNCHANGED <<blockno, valid, data, disk, buf>>
  BY Zenon DEF DevFetch, IntrStep, IntrAck, IntrEntry, IntrLoopEnds, IntrReturn, cache, device
<1>2. \A q \in Proc : pc'[q] \in Holding <=> pc[q] \in Holding
  <2>1. CASE DevFetch \/ IntrAck \/ IntrLoopEnds \/ IntrReturn
    BY <2>1, Zenon DEF DevFetch, IntrAck, IntrLoopEnds, IntrReturn
  <2>2. CASE IntrEntry
    <3>1. CASE pc' = pc
      BY <3>1, Zenon
    <3>2. CASE pc' # pc
      BY <2>2, <3>2, Zenon DEF IntrEntry, Holding
    <3> QED BY <3>1, <3>2, Zenon
  <2> QED BY <2>1, <2>2, Zenon DEF IntrStep
<1> QED BY <1>1, <1>2, CurSame, HeldSame, Zenon DEF Stutters

(* The invariant holds at first.                                           *)
LEMMA InitIInv ==
  ASSUME SetFacts, Init PROVE IInv
<1>1. \A b \in Buf : Users(b) = {} /\ Cardinality(Users(b)) = 0
  <2> TAKE b \in Buf
  <2>1. Users(b) = {}
    BY Names, Zenon DEF Init, Users
  <2> QED BY <2>1, EmptyCount, Zenon
<1>2. FreeDesc = Desc /\ Submitted = {} /\ Cardinality(Desc \ FreeDesc) = 0 /\ Cardinality(Submitted) = 0
  <2>1. FreeDesc = Desc /\ Submitted = {}
    BY Zenon DEF Init, FreeDesc, Submitted
  <2>2. Desc \ FreeDesc = {}
    BY <2>1, Zenon
  <2> QED BY <2>1, <2>2, EmptyCount, Zenon
<1>3. Types
  <2>1. lru \in [Buf -> Buf]
    BY Names DEF Init, Buf
  <2>2. avail \in Seq(Desc) /\ used \in Seq(Desc)
    BY DEF Init
  <2>3. DOMAIN desc = Desc /\ info \in [Desc -> [b : Opt(Buf), status : {0, 1}]]
    BY Zenon DEF Init, Opt, NoInfo, NoDesc
  <2> QED BY <2>1, <2>2, <2>3, Zenon DEF Init, Types, Opt, PC
<1>4. CacheOK
  <2>1. \A b \in Buf : \E j \in Buf : lru[j] = b
    <3> TAKE b \in Buf
    <3>1. NBUF + 1 - b \in Buf /\ NBUF + 1 - (NBUF + 1 - b) = b
      BY Names DEF Buf
    <3>2. lru[NBUF + 1 - b] = b
      BY <3>1, Zenon DEF Init
    <3> QED BY <3>1, <3>2, Zenon
  <2>2. \A b \in Buf : refcnt[b] = pins[b] + Cardinality(Users(b))
    BY <1>1 DEF Init
  <2> QED BY <2>1, <2>2, Zenon DEF Init, CacheOK
<1>5. LocksOK
  BY Zenon DEF Init, LocksOK, InLock, Holding, Reading
<1>6. RequestsOK
  <2>1. \A p \in Proc : idx[p] = None /\ pc[p] = "out"
    BY Zenon DEF Init
  <2>2. \A d \in Desc : free[d] = 1
    BY Zenon DEF Init
  <2> QED BY <1>2, <2>1, <2>2 DEF RequestsOK, Waiting, Woken
<1>7. RingsOK
  BY DEF Init, RingsOK, WaitingFor, Somewhere, Waiting
<1>8. ContentsOK /\ DescWait
  BY DEF Init, ContentsOK, DescWait, Reported, Waiting, Woken, Reading
<1> QED BY <1>3, <1>4, <1>5, <1>6, <1>7, <1>8, Zenon DEF IInv, AllHold

(* What BgetNone, the panic of bget(), changes.                            *)
LEMMA BgetNoneKeeps ==
  ASSUME IInv, NEW p \in Proc, NEW k \in Block, BgetNone(p, k) PROVE IInv'
BY PanicKeeps, Zenon DEF BgetNone

(* Every step keeps the invariant.                                         *)
LEMMA IInvStep ==
  ASSUME SetFacts, IInv, [Next]_vars PROVE IInv'
<1> AllHold
  BY Zenon DEF IInv
<1>1. CASE UNCHANGED vars
  <2>1. UNCHANGED <<cache, data, locked, driver, device, intr, irq, pc, buf, idx, panicked>>
    BY <1>1, Zenon DEF vars
  <2>2. Types'
    BY <2>1, Zenon DEF AllHold, Types, cache, driver, device
  <2>3. CacheOK'
    BY <2>1, CacheSame, Zenon DEF cache
  <2>4. LocksOK'
    BY <2>1, LocksSame, Zenon DEF cache, AllHold, LocksOK, InLock
  <2>5. RequestsOK' /\ RingsOK' /\ DescWait'
    BY <2>1, DriverKeeps, Zenon DEF cache, device
  <2>6. ContentsOK'
    BY <2>1, Zenon DEF AllHold, ContentsOK, Same, device, cache, Dirty, Users, Reported, driver
  <2> QED BY <2>2, <2>3, <2>4, <2>5, <2>6, Zenon DEF IInv, AllHold
<1>2. ASSUME NEW p \in Proc, CacheStep(p) PROVE IInv'
  BY <1>2, BgetHitKeeps, BgetMissKeeps, BgetNoneKeeps, AcquiresleepKeeps, ChangeKeeps, BpinKeeps,
     BwriteKeeps, BunpinKeeps, ReleasesleepKeeps, BrelseKeeps, Zenon DEF CacheStep
<1>3. ASSUME NEW p \in Proc, RwStep(p) PROVE IInv'
  BY <1>3, RwSleepKeeps, RwSubmitKeeps, RwDoneKeeps, Zenon DEF RwStep
<1>4. CASE DevStep
  BY <1>4, DevFetchKeeps, DevDoneKeeps, Zenon DEF DevStep
<1>5. CASE IntrStep
  BY <1>5, IntrEntryKeeps, IntrMovesKeep, Zenon DEF IntrStep
<1> QED BY <1>1, <1>2, <1>3, <1>4, <1>5, Zenon DEF Next

(* In a state of the invariant, the descriptors in use are the requests'.  *)
LEMMA OwnedNow ==
  ASSUME IInv PROVE DescOwned
<1> AllHold
  BY Zenon DEF IInv
<1>1. \A p \in Submitted : Chain(idx[p]) = Mine(p)
  BY Zenon DEF Chain, Mine, Next1, Next2
<1>2. Desc \ FreeDesc = UNION {Chain(idx[p]) : p \in Submitted}
  <2>1. ASSUME NEW d \in Desc \ FreeDesc PROVE d \in UNION {Chain(idx[p]) : p \in Submitted}
    <3>1. free[d] = 0
      BY Zenon DEF FreeDesc, AllHold, Types
    <3>2. PICK p \in Submitted : d \in Mine(p)
      BY <3>1, Zenon DEF AllHold, RequestsOK
    <3> QED BY <3>2, <1>1, Zenon
  <2>2. ASSUME NEW d \in UNION {Chain(idx[p]) : p \in Submitted} PROVE d \in Desc \ FreeDesc
    <3>1. PICK p \in Submitted : d \in Mine(p)
      BY <1>1, Zenon
    <3>2. d \in Desc /\ free[d] = 0
      BY <3>1, MineIs, Zenon
    <3> QED BY <3>2 DEF FreeDesc
  <2> QED BY <2>1, <2>2, Zenon
<1>3. \A p \in Submitted : /\ desc[desc[idx[p]].next].addr = buf[p]
                           /\ desc[idx[p]].addr.sector = blockno[buf[p]]
  BY Zenon DEF AllHold, RequestsOK, RequestOf, Next1
<1>4. ASSUME NEW h \in inflight PROVE h \in {idx[p] : p \in {q \in Submitted : busy[buf[q]] = 1}}
  <2>1. h \in Desc /\ Somewhere(h)
    BY Zenon DEF AllHold, Types, Somewhere
  <2>2. PICK p \in Submitted : pc[p] \in Waiting /\ idx[p] = h
    BY <2>1, RingOwner, Zenon
  <2>3. busy[buf[p]] = 1
    BY <2>2, Zenon DEF AllHold, RequestsOK, Submitted
  <2> QED BY <2>2, <2>3, Zenon
<1>5. Cardinality(Desc \ FreeDesc) = 3 * Cardinality(Submitted)
  BY Zenon DEF AllHold, RequestsOK
<1> QED BY <1>2, <1>3, <1>4, <1>5, Zenon DEF DescOwned, Submitted

(* In a state of the invariant, no request and no completion is lost.      *)
LEMMA RequestsNow ==
  ASSUME SetFacts, IInv PROVE NoLostRequest
<1> AllHold
  BY Zenon DEF IInv
<1> SUFFICES ASSUME NEW p \in Proc, pc[p] \in {"rio", "wio"}
             PROVE  Cardinality({j \in DOMAIN avail : avail[j] = idx[p]})
                    + Cardinality({j \in DOMAIN used : used[j] = idx[p]})
                    + Cardinality(inflight \cap {idx[p]}) = 1
  BY Zenon DEF NoLostRequest, AllHold, RingsOK
<1>1. idx[p] \in Desc /\ WaitingFor(idx[p])
  BY ProcTypes, DriverTypes, Zenon DEF AllHold, RequestsOK, Opt, WaitingFor, Waiting
<1>2. Somewhere(idx[p])
  BY <1>1, Zenon DEF AllHold, RingsOK
<1>3. PICK A, U, F : /\ A = {j \in DOMAIN avail : avail[j] = idx[p]}
                     /\ U = {j \in DOMAIN used : used[j] = idx[p]}
                     /\ F = inflight \cap {idx[p]}
  BY Zenon
<1>4. /\ \A i, j \in A : i = j
      /\ \A i, j \in U : i = j
      /\ A = {} \/ U = {}
      /\ A = {} \/ F = {}
      /\ U = {} \/ F = {}
  BY <1>3 DEF AllHold, RingsOK
<1>5. A # {} \/ U # {} \/ F # {}
  BY <1>2, <1>3, Zenon DEF Somewhere
<1>6. (\E x : A = {x}) \/ A = {}
  BY <1>4
<1>7. (\E x : U = {x}) \/ U = {}
  BY <1>4
<1>8. (\E x : F = {x}) \/ F = {}
  BY <1>3, Zenon
<1>9. Cardinality(A) = (IF A = {} THEN 0 ELSE 1)
  BY <1>6, EmptyCount, OneCount, Zenon
<1>10. Cardinality(U) = (IF U = {} THEN 0 ELSE 1)
  BY <1>7, EmptyCount, OneCount, Zenon
<1>11. Cardinality(F) = (IF F = {} THEN 0 ELSE 1)
  BY <1>8, EmptyCount, OneCount, Zenon
<1>12. Cardinality(A) + Cardinality(U) + Cardinality(F) = 1
  BY <1>4, <1>5, <1>9, <1>10, <1>11
<1> QED BY <1>3, <1>12, Zenon

(* The first states and the steps are those of Blocks.                     *)
LEMMA InitRefines ==
  ASSUME SetFacts, Init PROVE B!Init
<1>1. ViewIs /\ HolderIs
  BY InitIInv, MappingIs, Zenon
<1>2. \A k \in Block : View(k) = disk[k]
  BY <1>1 DEF ViewIs, Init
<1>3. \A k \in Block : Holder(k) = {}
  BY Zenon DEF Holder, Holding, Init
<1>4. Cur \in [Block -> Val]
  BY <1>2, Zenon DEF Cur, Init
<1>5. Held = [k \in Block |-> None]
  BY <1>1, <1>3, Zenon DEF Held, HolderIs
<1> QED BY <1>4, <1>5, Zenon DEF B!Init

(* Every step is one of Blocks or is not seen there.                       *)
LEMMA StepRefines ==
  ASSUME SetFacts, IInv, IInv', [Next]_vars PROVE B!Next \/ Stutters
<1>1. CASE UNCHANGED vars
  <2>1. UNCHANGED <<blockno, valid, data, disk, buf, pc>>
    BY <1>1, Zenon DEF vars, cache, device
  <2> QED BY <2>1, CurSame, HeldSame, Zenon DEF Stutters
<1>2. ASSUME NEW p \in Proc, CacheStep(p) PROVE B!Next \/ Stutters
  BY <1>2, BgetMissRefines, AcquiresleepRefines, ChangeRefines, OtherStepsRefine, ReleasesleepRefines,
     Zenon DEF CacheStep
<1>3. ASSUME NEW p \in Proc, RwStep(p) PROVE B!Next \/ Stutters
  BY <1>3, RwDoneRefines, OtherStepsRefine, Zenon DEF RwStep
<1>4. CASE DevStep \/ IntrStep
  BY <1>4, DevDoneRefines, DriverStepsRefine, Zenon DEF DevStep
<1> QED BY <1>1, <1>2, <1>3, <1>4, Zenon DEF Next

-----------------------------------------------------------------------------
(* The facts about sets hold.                                              *)
INSTANCE FiniteSetTheorems

(* A nonempty set of numbers has a least, and below a bound a greatest.    *)
LEMMA LeastIn ==
  ASSUME NEW S \in SUBSET Nat, S # {} PROVE \E x \in S : \A y \in S : x <= y
<1>1. PICK T : T = {0..x : x \in S}
  BY Zenon
<1>2. \A x \in Nat : 0..x \subseteq Nat /\ IsFiniteSet(0..x)
  BY FS_Interval
<1>3. T \subseteq FiniteSubsetsOf(Nat) /\ T # {}
  BY <1>1, <1>2, Zenon DEF FiniteSubsetsOf
<1>4. PICK U \in T : \A V \in T : ~(<<V, U>> \in StrictSubsetOrdering(Nat))
  BY <1>3, FS_StrictSubsetOrderingWellFounded, WFMin, Zenon
<1>5. PICK x \in S : U = 0..x
  BY <1>1, Zenon
<1>6. ASSUME NEW y \in S, y < x PROVE FALSE
  <2>1. 0..y \in T /\ 0..y \subseteq U /\ x \in U /\ x \notin 0..y
    BY <1>1, <1>5, <1>6
  <2>2. U \subseteq Nat
    BY <1>5
  <2> QED BY <2>1, <2>2, <1>4, Zenon DEF StrictSubsetOrdering
<1> QED BY <1>6

(* Min, as a least element, is in the set.                                 *)
LEMMA LeastMin ==
  ASSUME NEW S \in SUBSET Nat, S # {} PROVE Min(S) \in S
BY LeastIn, Zenon DEF Min

(* Max, as a greatest element, is in the set.                              *)
LEMMA GreatestMax ==
  ASSUME NEW n \in Nat, NEW S \in SUBSET (1..n), S # {} PROVE Max(S) \in S
<1>1. PICK T : T = {n - x : x \in S}
  BY Zenon
<1>2. \A x \in S : n - x \in Nat
  OBVIOUS
<1>3. T \in SUBSET Nat /\ T # {}
  BY <1>1, <1>2, Zenon
<1>4. PICK z \in T : \A y \in T : z <= y
  BY <1>3, LeastIn, Zenon
<1>5. PICK u \in S : z = n - u
  BY <1>1, Zenon
<1>6. \A y \in S : n - u <= n - y
  BY <1>1, <1>4, <1>5, Zenon
<1>7. \A y \in S : u >= y
  BY <1>6
<1> QED BY <1>7, Zenon DEF Max

(* The facts about sets the lemmas of BlockIOSteps ask for.                *)
LEMMA SetFactsHold == SetFacts
<1>1. \A S : IsFiniteSet(S) => Cardinality(S) \in Nat /\ (Cardinality(S) = 0 <=> S = {})
  BY FS_CardinalityType, FS_EmptySet, Zenon
<1>2. ASSUME NEW S, NEW x, IsFiniteSet(S)
      PROVE  /\ IsFiniteSet(S \cup {x})
             /\ Cardinality(S \cup {x}) = IF x \in S THEN Cardinality(S) ELSE Cardinality(S) + 1
  BY <1>2, FS_AddElement, Zenon
<1>3. ASSUME NEW S, NEW x, IsFiniteSet(S)
      PROVE  /\ IsFiniteSet(S \ {x})
             /\ Cardinality(S \ {x}) = IF x \in S THEN Cardinality(S) - 1 ELSE Cardinality(S)
  BY <1>3, FS_RemoveElement, Zenon
<1>4. ASSUME NEW S, NEW T \in SUBSET S, IsFiniteSet(S)
      PROVE  IsFiniteSet(T) /\ Cardinality(T) <= Cardinality(S)
  BY <1>4, FS_Subset, Zenon
<1>5. IsFiniteSet(Desc)
  BY BlockIOAssumption, FS_Interval DEF Desc
<1>6. \A n \in Nat : \A S \in SUBSET (1..n) : S # {} => Max(S) \in S
  BY GreatestMax, Zenon
<1>7. \A S \in SUBSET Nat : S # {} => Min(S) \in S
  BY LeastMin, Zenon
<1>8. IsFiniteSet({}) /\ \A x : Cardinality({x}) = 1
  BY FS_EmptySet, FS_Singleton, Zenon
<1> QED BY <1>1, <1>2, <1>3, <1>4, <1>5, <1>6, <1>7, <1>8, Zenon DEF SetFacts

-----------------------------------------------------------------------------

(* The invariant holds always.                                             *)
LEMMA InvHolds == Spec => []IInv
<1>1. Init => IInv
  BY InitIInv, SetFactsHold, Zenon
<1>2. IInv /\ [Next]_vars => IInv'
  BY IInvStep, SetFactsHold, Zenon
<1> QED BY <1>1, <1>2, PTL DEF Spec

(* Nobody sleeps for a sleep lock that is free (releasesleep() wakes all   *)
(* who sleep for it) or for descriptors that are there (free_desc() wakes).*)
THEOREM BlockIOWakeups == Spec => []NoLostWakeup
<1>1. IInv => NoLostWakeup
  BY Zenon DEF IInv, AllHold, LocksOK, DescWait, NoLostWakeup
<1> QED BY <1>1, InvHolds, PTL

(* The descriptors in use are those of the requests submitted, three each, *)
(* and the device finds the buffer and the block of a process that waits.  *)
THEOREM DescriptorsOwned == Spec => []DescOwned
<1>1. IInv => DescOwned
  BY OwnedNow, Zenon
<1> QED BY <1>1, InvHolds, PTL

(* The request of who sleeps for the device is in one place, and while a   *)
(* completion is in the used ring an interrupt is raised or handled.       *)
THEOREM CompletionsArrive == Spec => []NoLostRequest
<1>1. IInv => NoLostRequest
  BY RequestsNow, SetFactsHold, Zenon
<1> QED BY <1>1, InvHolds, PTL

(* The cache implements Blocks: whatever is recycled, written back and     *)
(* read again, and in whatever order the device works, a process that has  *)
(* a block reads what was last put into it and is alone with it.           *)
THEOREM CacheImplementsBlocks == Spec => CachesBlocks
<1>1. Init => B!Init
  BY InitRefines, SetFactsHold
<1>2. IInv /\ [Next]_vars /\ IInv' => [B!Next]_<<Cur, Held>>
  BY StepRefines, SetFactsHold, Zenon DEF Stutters
<1>3. Spec => [][B!Next]_<<Cur, Held>>
  BY <1>2, InvHolds, PTL DEF Spec
<1>4. Spec => B!Init
  BY <1>1, Zenon DEF Spec
<1> QED BY <1>3, <1>4, PTL DEF CachesBlocks, B!Spec
=============================================================================
