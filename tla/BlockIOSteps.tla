--------------------------- MODULE BlockIOSteps ------------------------------
(***************************************************************************)
(* The buffer cache and the disk driver, for any number of processes,      *)
(* buffers, blocks and descriptors: the inductive invariant, and that the  *)
(* steps of the driver, the device and the interrupt handler keep it.      *)
(***************************************************************************)
EXTENDS BlockIO, TLAPS

(* Waiting for the device, or woken by it.                                 *)
Waiting == {"rio", "wio"}
Woken == {"rdone", "wdone"}
(* Where a process holds its buffer's sleep lock.                          *)
InLock == Holding \cup Reading
PC == InLock \cup {"out", "get", "lock", "rel"}

(* One of S or none.                                                       *)
Opt(S) == S \cup {None}

(* The types.                                                              *)
Types ==
  /\ blockno \in [Buf -> Opt(Block)] /\ valid \in [Buf -> {0, 1}]
  /\ refcnt \in [Buf -> Nat] /\ pins \in [Buf -> {0, 1}]
  /\ lru \in [Buf -> Buf]
  /\ locked \in [Buf -> Opt(Proc)] /\ busy \in [Buf -> {0, 1}]
  /\ data \in [Buf -> Val] /\ disk \in [Block -> Val]
  /\ free \in [Desc -> {0, 1}]
  /\ DOMAIN desc = Desc
  /\ info \in [Desc -> [b : Opt(Buf), status : {0, 1}]]
  /\ avail \in Seq(Desc) /\ used \in Seq(Desc) /\ inflight \subseteq Desc
  /\ irq \in {0, 1} /\ intr \in {0, 1, 2} /\ panicked \in {0, 1}
  /\ pc \in [Proc -> PC] /\ buf \in [Proc -> Opt(Buf)] /\ idx \in [Proc -> Opt(Desc)]

(* The cache: a block is in one buffer, and a buffer's count is that of    *)
(* its users and its pin.                                                  *)
Users(b) == {p \in Proc : buf[p] = b}
CacheOK ==
  /\ \A b \in Buf : \E j \in Buf : lru[j] = b
  /\ \A b, c \in Buf : blockno[b] = blockno[c] /\ blockno[b] # None => b = c
  /\ \A p \in Proc : buf[p] = None <=> pc[p] = "out"
  /\ \A p \in Proc : buf[p] # None => blockno[buf[p]] # None
  /\ \A b \in Buf : refcnt[b] = pins[b] + Cardinality(Users(b))

(* The sleep locks, and who sleeps for one.                                *)
LocksOK ==
  /\ \A p \in Proc : pc[p] \in InLock => locked[buf[p]] = p
  /\ \A b \in Buf : locked[b] # None => pc[locked[b]] \in InLock /\ buf[locked[b]] = b
  /\ \A p \in Proc : pc[p] \in Holding => valid[buf[p]] = 1
  /\ \A p \in Proc : pc[p] = "lock" => locked[buf[p]] # None

(* The requests: who has which descriptors, and what is in them.           *)
Next1(p) == desc[idx[p]].next
Next2(p) == desc[Next1(p)].next
Mine(p) == {idx[p], Next1(p), Next2(p)}
Submitted == {p \in Proc : idx[p] # None}
RequestOf(p) ==
  /\ Next1(p) \in Desc /\ Next2(p) \in Desc
  /\ idx[p] # Next1(p) /\ idx[p] # Next2(p) /\ Next1(p) # Next2(p)
  /\ desc[idx[p]].addr.write <=> pc[p] \in {"wio", "wdone"}
  /\ desc[idx[p]].addr.sector = blockno[buf[p]]
  /\ desc[Next1(p)].addr = buf[p]
  /\ info[idx[p]].b = buf[p]
  /\ \A d \in Mine(p) : free[d] = 0
RequestsOK ==
  /\ \A p \in Proc : idx[p] # None <=> pc[p] \in Waiting \cup Woken
  /\ \A p \in Submitted : RequestOf(p)
  /\ \A p, q \in Submitted : p # q => Mine(p) \cap Mine(q) = {}
  /\ \A d \in Desc : free[d] = 0 => \E p \in Submitted : d \in Mine(p)
  /\ Cardinality(Desc \ FreeDesc) = 3 * Cardinality(Submitted)
  /\ \A p \in Proc : pc[p] \in Waiting => busy[buf[p]] = 1
  /\ \A p \in Proc : pc[p] \in Woken => busy[buf[p]] = 0

(* The rings: each request that waits is in one place of one of them.      *)
WaitingFor(d) == \E p \in Proc : pc[p] \in Waiting /\ idx[p] = d
Somewhere(d) == \/ \E j \in DOMAIN avail : avail[j] = d
                \/ \E j \in DOMAIN used : used[j] = d
                \/ d \in inflight
RingsOK ==
  /\ \A i, j \in DOMAIN avail : avail[i] = avail[j] => i = j
  /\ \A i, j \in DOMAIN used : used[i] = used[j] => i = j
  /\ \A i \in DOMAIN avail, j \in DOMAIN used : avail[i] # used[j]
  /\ \A i \in DOMAIN avail : avail[i] \notin inflight
  /\ \A i \in DOMAIN used : used[i] \notin inflight
  /\ \A d \in Desc : WaitingFor(d) <=> Somewhere(d)
  /\ used # <<>> => irq = 1 \/ intr = 1

(* The contents: a buffer that is not pinned, and that nobody has changed  *)
(* and not written yet, is as on the disk; so is one whose transfer the    *)
(* device has reported.                                                    *)
Reported(p) == pc[p] \in Woken \/ (pc[p] \in Waiting /\ \E j \in DOMAIN used :
                                    used[j] = idx[p] /\ info[used[j]].status = 0)
Dirty(b) == pins[b] = 1 \/ \E p \in Users(b) : pc[p] \in {"changed", "write", "wdesc", "wio"}
Same(b) == data[b] = disk[blockno[b]]
ContentsOK ==
  /\ \A b \in Buf : valid[b] = 1 => blockno[b] # None
  /\ \A b \in Buf : valid[b] = 1 /\ ~Dirty(b) => Same(b)
  /\ \A p \in Proc : Reported(p) \/ pc[p] = "written" => Same(buf[p])
  /\ \A p \in Proc : pc[p] \in Reading => valid[buf[p]] = 0

(* Who sleeps for descriptors has too few.                                 *)
DescWait == \A p \in Proc : pc[p] \in {"rdesc", "wdesc"} => Cardinality(FreeDesc) < 3

(* The inductive invariant.  IInv is what the lemmas assume and conclude;  *)
(* AllHold is where a proof looks inside.                                  *)
AllHold == Types /\ CacheOK /\ LocksOK /\ RequestsOK /\ RingsOK /\ ContentsOK /\ DescWait
IInv == AllHold

-----------------------------------------------------------------------------
(* What the proofs use of the theory of finite sets and of numbers.        *)
SetFacts ==
  /\ \A S : IsFiniteSet(S) => Cardinality(S) \in Nat /\ (Cardinality(S) = 0 <=> S = {})
  /\ \A S, x : IsFiniteSet(S) =>
       /\ IsFiniteSet(S \cup {x})
       /\ Cardinality(S \cup {x}) = IF x \in S THEN Cardinality(S) ELSE Cardinality(S) + 1
  /\ \A S, x : IsFiniteSet(S) =>
       /\ IsFiniteSet(S \ {x})
       /\ Cardinality(S \ {x}) = IF x \in S THEN Cardinality(S) - 1 ELSE Cardinality(S)
  /\ \A S : \A T \in SUBSET S : IsFiniteSet(S) => IsFiniteSet(T) /\ Cardinality(T) <= Cardinality(S)
  /\ \A S \in SUBSET Nat : S # {} => Min(S) \in S
  /\ \A n \in Nat : \A S \in SUBSET (1..n) : S # {} => Max(S) \in S
  /\ IsFiniteSet(Desc)
  /\ IsFiniteSet({}) /\ \A x : Cardinality({x}) = 1

(* The empty set and a set of one element.                                 *)
LEMMA EmptyCount ==
  ASSUME SetFacts PROVE Cardinality({}) = 0 /\ IsFiniteSet({})
BY Zenon DEF SetFacts

(* A set of one element.                                                   *)
LEMMA OneCount ==
  ASSUME SetFacts PROVE \A x : Cardinality({x}) = 1
BY Zenon DEF SetFacts

(* The size of a finite set is a number, 0 for the empty set only.         *)
LEMMA CardinalityType ==
  ASSUME SetFacts, NEW S, IsFiniteSet(S) PROVE Cardinality(S) \in Nat /\ (Cardinality(S) = 0 <=> S = {})
BY Zenon DEF SetFacts

(* A new element adds one to the size.                                     *)
LEMMA AddElement ==
  ASSUME SetFacts, NEW S, NEW x, IsFiniteSet(S)
  PROVE  /\ IsFiniteSet(S \cup {x})
         /\ Cardinality(S \cup {x}) = IF x \in S THEN Cardinality(S) ELSE Cardinality(S) + 1
BY Zenon DEF SetFacts

(* An element taken away takes one from the size.                          *)
LEMMA RemoveElement ==
  ASSUME SetFacts, NEW S, NEW x, IsFiniteSet(S)
  PROVE  /\ IsFiniteSet(S \ {x})
         /\ Cardinality(S \ {x}) = IF x \in S THEN Cardinality(S) - 1 ELSE Cardinality(S)
BY Zenon DEF SetFacts

(* A subset of a finite set is finite and not larger.                      *)
LEMMA SubsetFinite ==
  ASSUME SetFacts, NEW S, IsFiniteSet(S), NEW T \in SUBSET S
  PROVE  IsFiniteSet(T) /\ Cardinality(T) <= Cardinality(S)
BY Zenon DEF SetFacts

(* A nonempty set of numbers has a least element.                          *)
LEMMA MinIn ==
  ASSUME SetFacts, NEW S \in SUBSET Nat, S # {} PROVE Min(S) \in S
BY Zenon DEF SetFacts

(* A nonempty set of numbers below a bound has a greatest element.         *)
LEMMA MaxIn ==
  ASSUME SetFacts, NEW n \in Nat, NEW S \in SUBSET (1..n), S # {} PROVE Max(S) \in S
BY Zenon DEF SetFacts

(* Where the elements of a ring are after one is taken out or put in.      *)
LEMMA TailIs ==
  ASSUME NEW S, NEW s \in Seq(S), s # <<>>
  PROVE  \E n \in Nat :
           /\ DOMAIN s = 1..(n + 1) /\ DOMAIN Tail(s) = 1..n
           /\ Head(s) = s[1] /\ \A i \in 1..n : Tail(s)[i] = s[i + 1]
           /\ Tail(s) \in Seq(S) /\ Head(s) \in S
<1>1. PICK m \in Nat : m = Len(s) /\ DOMAIN s = 1..m /\ m # 0
  OBVIOUS
<1>2. Head(s) = s[1] /\ Head(s) \in S
  BY <1>1
<1>3. Tail(s) \in Seq(S) /\ Len(Tail(s)) = m - 1
  BY <1>1
<1>4. \A i \in 1..(m - 1) : Tail(s)[i] = s[i + 1]
  BY <1>1
<1>5. PICK n \in Nat : n = m - 1 /\ n + 1 = m
  BY <1>1
<1>6. DOMAIN Tail(s) = 1..n
  BY <1>3, <1>5
<1>8. DOMAIN s = 1..(n + 1) /\ DOMAIN Tail(s) = 1..n /\ \A i \in 1..n : Tail(s)[i] = s[i + 1]
  BY <1>1, <1>4, <1>6, <1>5, Zenon
<1> QED BY <1>2, <1>3, <1>8, Zenon

(* The elements of a sequence with one more at its end.                    *)
LEMMA AppendIs ==
  ASSUME NEW S, NEW s \in Seq(S), NEW e \in S
  PROVE  \E n \in Nat :
           /\ DOMAIN s = 1..n /\ DOMAIN Append(s, e) = 1..(n + 1)
           /\ Append(s, e)[n + 1] = e /\ \A i \in 1..n : Append(s, e)[i] = s[i]
           /\ Append(s, e) \in Seq(S)
<1>1. PICK n \in Nat : n = Len(s) /\ DOMAIN s = 1..n
  OBVIOUS
<1>2. /\ Append(s, e) \in Seq(S) /\ Len(Append(s, e)) = n + 1
      /\ Append(s, e)[n + 1] = e /\ \A i \in 1..n : Append(s, e)[i] = s[i]
  BY <1>1
<1>3. DOMAIN Append(s, e) = 1..(n + 1)
  BY <1>2
<1> QED BY <1>1, <1>2, <1>3, Zenon

(* What the names of the model stand for.                                  *)
LEMMA Names ==
  /\ NBUF \in Nat \ {0} /\ NUM \in Nat /\ IsFiniteSet(Proc)
  /\ Buf \subseteq Nat /\ Desc \subseteq Nat
  /\ None \notin Proc /\ None \notin Block /\ None \notin Buf /\ None \notin Desc
<1>1. Buf \subseteq 0..(NUM + NBUF) /\ Desc \subseteq 0..(NUM + NBUF)
  BY BlockIOAssumption DEF Buf, Desc
<1> QED BY <1>1, BlockIOAssumption DEF Buf, Desc

-----------------------------------------------------------------------------

(* The types of the processes', the cache's and the driver's variables.    *)
LEMMA ProcTypes ==
  ASSUME IInv PROVE pc \in [Proc -> PC] /\ buf \in [Proc -> Opt(Buf)] /\ idx \in [Proc -> Opt(Desc)]
BY Zenon DEF IInv, AllHold, Types

(* The types of the fields of the buffers.                                 *)
LEMMA CacheTypes ==
  ASSUME IInv
  PROVE  /\ blockno \in [Buf -> Opt(Block)] /\ valid \in [Buf -> {0, 1}]
         /\ refcnt \in [Buf -> Nat] /\ pins \in [Buf -> {0, 1}] /\ lru \in [Buf -> Buf]
         /\ locked \in [Buf -> Opt(Proc)] /\ data \in [Buf -> Val] /\ disk \in [Block -> Val]
BY Zenon DEF IInv, AllHold, Types

(* The types of the fields of the driver.                                  *)
LEMMA DriverTypes ==
  ASSUME IInv
  PROVE  /\ busy \in [Buf -> {0, 1}] /\ free \in [Desc -> {0, 1}] /\ DOMAIN desc = Desc
         /\ info \in [Desc -> [b : Opt(Buf), status : {0, 1}]]
         /\ avail \in Seq(Desc) /\ used \in Seq(Desc) /\ inflight \subseteq Desc
BY Zenon DEF IInv, AllHold, Types

(* There are finitely many descriptors.                                    *)
LEMMA DescFinite == ASSUME SetFacts PROVE IsFiniteSet(Desc)
BY Zenon DEF SetFacts

(* The steps of the cache.  Those that touch no request leave the driver's *)
(* part of the invariant as it is.                                         *)
LEMMA DriverKeeps ==
  ASSUME IInv, UNCHANGED <<driver, inflight, used, intr, irq, idx>>,
         \A q \in Proc : pc[q] \in Waiting \cup Woken \/ pc'[q] \in Waiting \cup Woken =>
           pc'[q] = pc[q] /\ buf'[q] = buf[q] /\ blockno'[buf[q]] = blockno[buf[q]],
         \A q \in Proc : pc'[q] \in {"rdesc", "wdesc"} =>
           pc[q] \in {"rdesc", "wdesc"} \/ Cardinality(FreeDesc) < 3
  PROVE  RequestsOK' /\ RingsOK' /\ DescWait'
<1> AllHold
  BY Zenon DEF IInv
<1>1. /\ free' = free /\ desc' = desc /\ info' = info /\ busy' = busy /\ avail' = avail
      /\ inflight' = inflight /\ used' = used /\ intr' = intr /\ irq' = irq /\ idx' = idx
  BY Zenon DEF driver
<1>2. Submitted' = Submitted /\ FreeDesc' = FreeDesc
  BY <1>1, Zenon DEF Submitted, FreeDesc
<1>3. \A q \in Proc : Mine(q)' = Mine(q)
  BY <1>1, Zenon DEF Mine, Next1, Next2
<1>4. \A q \in Submitted : pc[q] \in Waiting \cup Woken
  BY Zenon DEF AllHold, RequestsOK, Submitted
<1>5. \A q \in Submitted : RequestOf(q)'
  <2> TAKE q \in Submitted
  <2>1. RequestOf(q)
    BY Zenon DEF AllHold, RequestsOK
  <2>2. pc'[q] = pc[q] /\ buf'[q] = buf[q] /\ blockno'[buf[q]] = blockno[buf[q]]
    BY <1>4, Zenon DEF Submitted
  <2>3. idx'[q] = idx[q] /\ Next1(q)' = Next1(q) /\ Next2(q)' = Next2(q) /\ Mine(q)' = Mine(q)
    BY <1>1, Zenon DEF Mine, Next1, Next2
  <2> QED BY <1>1, <2>1, <2>2, <2>3, Zenon DEF RequestOf
<1>6. RequestsOK'
  <2>1. \A q \in Proc : idx'[q] # None <=> pc'[q] \in Waiting \cup Woken
    BY <1>1, Zenon DEF AllHold, RequestsOK, Waiting, Woken
  <2>2. \A q \in Proc : pc'[q] \in Waiting => busy'[buf'[q]] = 1
    BY <1>1, Zenon DEF AllHold, RequestsOK
  <2>3. \A q \in Proc : pc'[q] \in Woken => busy'[buf'[q]] = 0
    BY <1>1, Zenon DEF AllHold, RequestsOK
  <2>4. (\A a, b \in Submitted : a # b => Mine(a) \cap Mine(b) = {})'
    BY <1>2, <1>3 DEF AllHold, RequestsOK, Submitted
  <2>5. (\A d \in Desc : free[d] = 0 => \E q \in Submitted : d \in Mine(q))'
    BY <1>1, <1>2, <1>3 DEF AllHold, RequestsOK, Submitted
  <2>6. (Cardinality(Desc \ FreeDesc) = 3 * Cardinality(Submitted))'
    BY <1>2, Zenon DEF AllHold, RequestsOK
  <2> QED BY <1>2, <1>5, <2>1, <2>2, <2>3, <2>4, <2>5, <2>6, Zenon DEF RequestsOK
<1>7. RingsOK'
  <2>1. \A d \in Desc : WaitingFor(d)' <=> WaitingFor(d)
    BY <1>1, Zenon DEF WaitingFor
  <2>2. \A d \in Desc : Somewhere(d)' <=> Somewhere(d)
    BY <1>1, Zenon DEF Somewhere
  <2> QED BY <1>1, <2>1, <2>2 DEF AllHold, RingsOK
<1>8. DescWait'
  BY <1>2, Zenon DEF AllHold, DescWait
<1> QED BY <1>6, <1>7, <1>8, Zenon

(* Steps that change neither the references nor what is cached.            *)
LEMMA CacheSame ==
  ASSUME IInv, UNCHANGED <<blockno, refcnt, lru, pins, buf>>,
         \A q \in Proc : pc'[q] = "out" <=> pc[q] = "out"
  PROVE  CacheOK'
<1> AllHold
  BY Zenon DEF IInv
<1>1. \A b \in Buf : Users(b)' = Users(b)
  BY Zenon DEF Users
<1> QED BY <1>1, Zenon DEF AllHold, CacheOK

(* Steps that take and give no sleep lock.                                 *)
LEMMA LocksSame ==
  ASSUME IInv, UNCHANGED <<locked, buf>>,
         \A q \in Proc : pc'[q] \in InLock <=> pc[q] \in InLock,
         \A q \in Proc : pc'[q] = "lock" => pc[q] = "lock",
         \A q \in Proc : pc'[q] \in Holding => valid'[buf[q]] = 1
  PROVE  LocksOK'
BY DEF IInv, AllHold, Types, LocksOK, Opt

(* A sleep lock has one holder.                                            *)
LEMMA OneHolder ==
  ASSUME IInv, NEW p \in Proc, NEW q \in Proc, pc[p] \in InLock, pc[q] \in InLock, buf[p] = buf[q]
  PROVE  p = q
BY DEF IInv, AllHold, LocksOK

(* Who is past bget() has a buffer.                                        *)
LEMMA HasBuf ==
  ASSUME IInv, NEW q \in Proc, pc[q] # "out" PROVE buf[q] \in Buf /\ buf[q] # None
BY Names, Zenon DEF IInv, AllHold, Types, CacheOK, Opt

(* The steps of virtio_disk_rw().                                          *)
LEMMA RwSleepKeeps ==
  ASSUME IInv, NEW p \in Proc, RwSleep(p) PROVE IInv'
<1> AllHold
  BY Zenon DEF IInv
<1>1. /\ pc[p] \in {"read", "write"} /\ Cardinality(FreeDesc) < 3
      /\ UNCHANGED <<cache, data, locked, driver, device, intr, irq, buf, idx, panicked>>
  BY Zenon DEF RwSleep
<1>2. pc'[p] = IF pc[p] = "read" THEN "rdesc" ELSE "wdesc"
  <2>1. CASE FreeDesc = {}
    BY <2>1, Zenon DEF RwSleep, AllHold, Types
  <2>2. CASE FreeDesc # {}
    BY <2>2, Zenon DEF RwSleep, WakeDesc
  <2> QED BY <2>1, <2>2, Zenon
<1>3. \A q \in Proc : q # p => \/ pc'[q] = pc[q]
                               \/ pc[q] = "rdesc" /\ pc'[q] = "read"
                               \/ pc[q] = "wdesc" /\ pc'[q] = "write"
  <2>1. CASE FreeDesc = {}
    BY <2>1, Zenon DEF RwSleep, AllHold, Types
  <2>2. CASE FreeDesc # {}
    BY <2>2, Zenon DEF RwSleep, WakeDesc
  <2> QED BY <2>1, <2>2, Zenon
<1>4. Types'
  <2>1. DOMAIN pc' = Proc /\ pc' = [q \in Proc |-> pc'[q]]
    <3>1. CASE FreeDesc = {}
      BY <3>1, Zenon DEF RwSleep, AllHold, Types
    <3>2. CASE FreeDesc # {}
      BY <3>2, Zenon DEF RwSleep, WakeDesc
    <3> QED BY <3>1, <3>2, Zenon
  <2>2. \A q \in Proc : pc'[q] \in PC
    BY <1>2, <1>3, Zenon DEF AllHold, Types, PC, InLock, Holding, Reading
  <2>3. pc' \in [Proc -> PC]
    BY <2>1, <2>2, Zenon
  <2> QED BY <1>1, <2>3, Zenon DEF AllHold, Types, cache, driver, device
<1>5. CacheOK'
  BY <1>1, <1>2, <1>3, CacheSame, Zenon DEF cache
<1>6. LocksOK'
  <2>1. \A q \in Proc : /\ pc'[q] \in InLock <=> pc[q] \in InLock
                        /\ pc'[q] = "lock" => pc[q] = "lock"
                        /\ pc'[q] \in Holding => pc[q] \in Holding
    BY <1>1, <1>2, <1>3, Zenon DEF InLock, Holding, Reading
  <2> QED BY <1>1, <2>1, LocksSame, Zenon DEF cache, AllHold, LocksOK
<1>7. RequestsOK' /\ RingsOK' /\ DescWait'
  BY <1>1, <1>2, <1>3, DriverKeeps, ZenonT(30) DEF cache, device, Waiting, Woken
<1>8. ContentsOK'
  <2>2. \A c \in Buf : Dirty(c) => Dirty(c)'
    BY <1>1, <1>2, <1>3, Zenon DEF Dirty, Users, cache
  <2>4. \A q \in Proc : Reported(q)' \/ pc'[q] = "written" => Reported(q) \/ pc[q] = "written"
    BY <1>1, <1>2, <1>3, Zenon DEF Reported, Waiting, Woken, device, driver
  <2>6. \A q \in Proc : pc'[q] \in Reading => pc[q] \in Reading
    BY <1>1, <1>2, <1>3, Zenon DEF Reading
  <2> QED BY <1>1, <2>2, <2>4, <2>6, Zenon DEF AllHold, ContentsOK, Same, device, cache
<1> QED BY <1>4, <1>5, <1>6, <1>7, <1>8, Zenon DEF IInv, AllHold

(* The three descriptors alloc3_desc() takes were free and are different.  *)
LEMMA ThreeFree ==
  ASSUME SetFacts, Cardinality(FreeDesc) >= 3
  PROVE  \E d0, d1, d2 \in FreeDesc :
           /\ d0 = Min(FreeDesc) /\ d1 = Min(FreeDesc \ {d0}) /\ d2 = Min(FreeDesc \ {d0, d1})
           /\ d0 # d1 /\ d0 # d2 /\ d1 # d2
<1>1. IsFiniteSet(FreeDesc) /\ FreeDesc \in SUBSET Nat /\ Cardinality(FreeDesc) \in Nat
  <2>1. FreeDesc \in SUBSET Desc /\ FreeDesc \in SUBSET Nat
    BY BlockIOAssumption DEF FreeDesc, Desc
  <2> QED BY <2>1, DescFinite, SubsetFinite, CardinalityType, Zenon
<1>2. FreeDesc # {}
  BY <1>1, CardinalityType
<1>3. PICK d0 \in FreeDesc : d0 = Min(FreeDesc)
  BY <1>1, <1>2, MinIn, Zenon
<1>4. IsFiniteSet(FreeDesc \ {d0}) /\ Cardinality(FreeDesc \ {d0}) = Cardinality(FreeDesc) - 1
  BY <1>1, <1>3, RemoveElement, Zenon
<1>5. FreeDesc \ {d0} # {}
  BY <1>1, <1>4, CardinalityType
<1>6. PICK d1 \in FreeDesc \ {d0} : d1 = Min(FreeDesc \ {d0})
  BY <1>1, <1>5, MinIn, Zenon
<1>7. /\ (FreeDesc \ {d0}) \ {d1} = FreeDesc \ {d0, d1}
      /\ IsFiniteSet((FreeDesc \ {d0}) \ {d1})
      /\ Cardinality((FreeDesc \ {d0}) \ {d1}) = Cardinality(FreeDesc) - 2
  <2>1. PICK F : F = FreeDesc \ {d0}
    BY Zenon
  <2>2. IsFiniteSet(F \ {d1}) /\ Cardinality(F \ {d1}) = Cardinality(F) - 1
    BY <2>1, <1>4, <1>6, RemoveElement, Zenon
  <2> QED BY <2>1, <2>2, <1>1, <1>4
<1>8. FreeDesc \ {d0, d1} # {}
  BY <1>1, <1>7, CardinalityType
<1>9. PICK d2 \in FreeDesc \ {d0, d1} : d2 = Min(FreeDesc \ {d0, d1})
  BY <1>1, <1>8, MinIn, Zenon
<1> QED BY <1>3, <1>6, <1>9, Zenon

(* Every request in a ring or in the device's hands is submitted; a free   *)
(* descriptor is in none.                                                  *)
LEMMA RingOwner ==
  ASSUME IInv, NEW d \in Desc, Somewhere(d)
  PROVE  \E q \in Submitted : pc[q] \in Waiting /\ idx[q] = d /\ free[d] = 0
<1> AllHold
  BY Zenon DEF IInv
<1>1. PICK q \in Proc : pc[q] \in Waiting /\ idx[q] = d
  BY Zenon DEF AllHold, RingsOK, WaitingFor
<1>2. q \in Submitted
  BY <1>1, Names, Zenon DEF Submitted
<1>3. free[d] = 0
  BY <1>1, <1>2, Zenon DEF AllHold, RequestsOK, RequestOf, Mine
<1> QED BY <1>1, <1>2, <1>3, Zenon

(* A chain is not free, and its heads are descriptors.                     *)
LEMMA MineIs ==
  ASSUME IInv, NEW q \in Submitted
  PROVE  /\ q \in Proc /\ idx[q] \in Desc /\ Next1(q) \in Desc /\ Next2(q) \in Desc
         /\ \A d \in Mine(q) : d \in Desc /\ free[d] = 0
         /\ pc[q] \in Waiting \cup Woken /\ pc[q] \in InLock /\ pc[q] # "out" /\ buf[q] \in Buf
<1> AllHold
  BY Zenon DEF IInv
<1>1. q \in Proc /\ idx[q] \in Desc /\ pc[q] \in Waiting \cup Woken
  BY Zenon DEF AllHold, Types, Opt, Submitted, RequestsOK
<1>2. RequestOf(q)
  BY Zenon DEF AllHold, RequestsOK
<1>3. pc[q] # "out" /\ pc[q] \in InLock
  BY <1>1, Zenon DEF Waiting, Woken, InLock, Holding, Reading
<1>4. buf[q] \in Buf
  BY <1>1, <1>3, HasBuf, Zenon
<1> QED BY <1>1, <1>2, <1>3, <1>4, Zenon DEF RequestOf, Mine

(* What submitting a request does, with the descriptors named.             *)
Submits(p, b, d0, d1, d2) ==
  /\ pc[p] \in {"read", "write"} /\ b = buf[p]
  /\ free' = [free EXCEPT ![d0] = 0, ![d1] = 0, ![d2] = 0]
  /\ desc' = [desc EXCEPT ![d0] = [addr |-> [write |-> pc[p] = "write", sector |-> blockno[b]],
                                  next |-> d1],
                          ![d1] = [addr |-> b, next |-> d2],
                          ![d2] = [addr |-> d0, next |-> None]]
  /\ info' = [info EXCEPT ![d0] = [b |-> b, status |-> 1]]
  /\ busy' = [busy EXCEPT ![b] = 1]
  /\ avail' = Append(avail, d0)
  /\ idx' = [idx EXCEPT ![p] = d0]
  /\ pc' = [pc EXCEPT ![p] = IF pc[p] = "read" THEN "rio" ELSE "wio"]
  /\ UNCHANGED <<cache, data, locked, device, intr, irq, buf, panicked>>

(* virtio_disk_rw() with its buffer and its three descriptors named.       *)
LEMMA SubmitsNamed ==
  ASSUME SetFacts, IInv, NEW p \in Proc, RwSubmit(p)
  PROVE  \E b \in Buf, d0, d1, d2 \in FreeDesc :
           d0 # d1 /\ d0 # d2 /\ d1 # d2 /\ Submits(p, b, d0, d1, d2)
<1>1. PICK d0, d1, d2 \in FreeDesc :
           /\ d0 = Min(FreeDesc) /\ d1 = Min(FreeDesc \ {d0}) /\ d2 = Min(FreeDesc \ {d0, d1})
           /\ d0 # d1 /\ d0 # d2 /\ d1 # d2
  BY ThreeFree, Zenon DEF RwSubmit
<1>2. buf[p] \in Buf
  BY HasBuf, Zenon DEF RwSubmit
<1>3. Submits(p, buf[p], d0, d1, d2)
  BY <1>1, Zenon DEF RwSubmit, Submits, SetPc
<1> QED BY <1>1, <1>2, <1>3, Zenon

(* A request submitted is its own, and those of the others are as before.  *)
LEMMA SubmitFacts ==
  ASSUME IInv, NEW p \in Proc, NEW b \in Buf, NEW d0 \in FreeDesc, NEW d1 \in FreeDesc, NEW d2 \in FreeDesc,
         d0 # d1, d0 # d2, d1 # d2, Submits(p, b, d0, d1, d2)
  PROVE  /\ p \notin Submitted /\ Submitted' = Submitted \cup {p}
         /\ FreeDesc' = FreeDesc \ {d0, d1, d2}
         /\ Mine(p)' = {d0, d1, d2}
         /\ \A q \in Submitted : Mine(q)' = Mine(q) /\ Mine(q) \cap {d0, d1, d2} = {}
         /\ RequestOf(p)'
         /\ \A q \in Submitted : RequestOf(q)'
<1> AllHold
  BY Zenon DEF IInv
<1>1. d0 \in Desc /\ d1 \in Desc /\ d2 \in Desc /\ free[d0] = 1 /\ free[d1] = 1 /\ free[d2] = 1
  BY Zenon DEF FreeDesc
<1>2. /\ pc[p] \in {"read", "write"} /\ b = buf[p]
      /\ pc' = [pc EXCEPT ![p] = IF pc[p] = "read" THEN "rio" ELSE "wio"]
      /\ idx' = [idx EXCEPT ![p] = d0] /\ buf' = buf /\ blockno' = blockno
  BY Zenon DEF Submits, cache
<1>3. p \notin Submitted
  BY <1>2, Zenon DEF AllHold, RequestsOK, Submitted, Waiting, Woken
<1>4. Submitted' = Submitted \cup {p}
  BY <1>1, <1>2, Names DEF AllHold, Types, Submitted
<1>5. \A d \in Desc : free'[d] = IF d \in {d0, d1, d2} THEN 0 ELSE free[d]
  BY <1>1, Zenon DEF Submits, AllHold, Types
<1>6. FreeDesc' = FreeDesc \ {d0, d1, d2}
  BY <1>5, SMTT(30) DEF FreeDesc
<1>7. \A d \in Desc : d \notin {d0, d1, d2} => desc'[d] = desc[d]
  BY <1>1, Zenon DEF Submits, AllHold, Types
<1>8. \A d \in Desc : d # d0 => info'[d] = info[d]
  BY <1>1, Zenon DEF Submits, AllHold, Types
<1>9. /\ desc'[d0].next = d1 /\ desc'[d1].next = d2 /\ desc'[d1].addr = b
      /\ desc'[d0].addr.sector = blockno[b] /\ (desc'[d0].addr.write <=> pc[p] = "write")
      /\ info'[d0].b = b
  BY <1>1, Zenon DEF Submits, AllHold, Types
<1>10. idx'[p] = d0 /\ Next1(p)' = d1 /\ Next2(p)' = d2
  BY <1>2, <1>9, Zenon DEF Next1, Next2, AllHold, Types
<1>11. Mine(p)' = {d0, d1, d2}
  BY <1>10, Zenon DEF Mine
<1>12. pc'[p] = (IF pc[p] = "read" THEN "rio" ELSE "wio") /\ \A q \in Proc : q # p => pc'[q] = pc[q] /\ idx'[q] = idx[q]
  BY <1>2, Zenon DEF AllHold, Types
<1>13. RequestOf(p)'
  <2>1. \A d \in {d0, d1, d2} : free'[d] = 0
    BY <1>1, <1>5, Zenon
  <2> QED BY <1>1, <1>2, <1>9, <1>10, <1>11, <1>12, <2>1, SMTT(30) DEF RequestOf
<1>14. ASSUME NEW q \in Submitted
       PROVE  Mine(q)' = Mine(q) /\ Mine(q) \cap {d0, d1, d2} = {} /\ RequestOf(q)'
  <2>1. /\ q \in Proc /\ idx[q] \in Desc /\ Next1(q) \in Desc /\ Next2(q) \in Desc /\ q # p
        /\ \A d \in Mine(q) : d \in Desc /\ free[d] = 0
    BY MineIs, <1>3, Zenon
  <2>2. Mine(q) \cap {d0, d1, d2} = {}
    BY <2>1, <1>1
  <2>3. idx'[q] = idx[q] /\ Next1(q)' = Next1(q) /\ Next2(q)' = Next2(q)
    <3>1. idx'[q] = idx[q] /\ desc'[idx[q]] = desc[idx[q]] /\ desc'[Next1(q)] = desc[Next1(q)]
      BY <2>1, <2>2, <1>7, <1>12, Zenon DEF Mine
    <3>2. Next1(q)' = Next1(q)
      BY <3>1, Zenon DEF Next1
    <3> QED BY <3>1, <3>2, Zenon DEF Next2
  <2>4. Mine(q)' = Mine(q)
    BY <2>3, ZenonT(30) DEF Mine
  <2>5. RequestOf(q)
    BY Zenon DEF AllHold, RequestsOK
  <2>6. desc'[idx[q]] = desc[idx[q]] /\ desc'[Next1(q)] = desc[Next1(q)] /\ info'[idx[q]] = info[idx[q]]
    BY <2>1, <2>2, <1>7, <1>8, Zenon DEF Mine
  <2>7. \A d \in Mine(q) : free'[d] = 0
    BY <2>1, <2>2, <1>5, Zenon
  <2>8. pc'[q] = pc[q] /\ buf'[q] = buf[q] /\ blockno' = blockno
    BY <2>1, <1>2, <1>12, Zenon
  <2> QED BY <2>1, <2>2, <2>3, <2>4, <2>5, <2>6, <2>7, <2>8, ZenonT(30) DEF RequestOf
<1> QED BY <1>3, <1>4, <1>6, <1>11, <1>13, <1>14, Zenon

(* The submission of a request keeps the invariant.                        *)
LEMMA RwSubmitKeeps ==
  ASSUME SetFacts, IInv, NEW p \in Proc, RwSubmit(p) PROVE IInv'
<1> AllHold
  BY Zenon DEF IInv
<1>1. PICK b \in Buf, d0, d1, d2 \in FreeDesc :
           d0 # d1 /\ d0 # d2 /\ d1 # d2 /\ Submits(p, b, d0, d1, d2)
  BY SubmitsNamed, Zenon
<1>2. /\ p \notin Submitted /\ Submitted' = Submitted \cup {p}
      /\ FreeDesc' = FreeDesc \ {d0, d1, d2}
      /\ Mine(p)' = {d0, d1, d2}
      /\ \A q \in Submitted : Mine(q)' = Mine(q) /\ Mine(q) \cap {d0, d1, d2} = {}
      /\ RequestOf(p)'
      /\ \A q \in Submitted : RequestOf(q)'
  BY <1>1, SubmitFacts, Zenon
<1>3. d0 \in Desc /\ d1 \in Desc /\ d2 \in Desc /\ free[d0] = 1 /\ free[d1] = 1 /\ free[d2] = 1
  BY Zenon DEF FreeDesc
<1>4. /\ pc[p] \in {"read", "write"} /\ b = buf[p]
      /\ pc' = [pc EXCEPT ![p] = IF pc[p] = "read" THEN "rio" ELSE "wio"]
      /\ idx' = [idx EXCEPT ![p] = d0] /\ info' = [info EXCEPT ![d0] = [b |-> b, status |-> 1]]
      /\ busy' = [busy EXCEPT ![b] = 1] /\ avail' = Append(avail, d0)
      /\ free' = [free EXCEPT ![d0] = 0, ![d1] = 0, ![d2] = 0] /\ DOMAIN desc' = DOMAIN desc
      /\ UNCHANGED <<cache, data, locked, device, intr, irq, buf, panicked>>
  BY <1>1, Zenon DEF Submits
<1>5. /\ pc'[p] = (IF pc[p] = "read" THEN "rio" ELSE "wio") /\ idx'[p] = d0
      /\ \A q \in Proc : q # p => pc'[q] = pc[q] /\ idx'[q] = idx[q]
  BY <1>4, Zenon DEF AllHold, Types
<1>6. Types'
  <2>1. info' \in [Desc -> [b : Opt(Buf), status : {0, 1}]]
    BY <1>3, <1>4, Zenon DEF AllHold, Types, Opt
  <2>2. avail' \in Seq(Desc)
    BY <1>3, <1>4, SMTT(30) DEF AllHold, Types
  <2>3. free' \in [Desc -> {0, 1}] /\ busy' \in [Buf -> {0, 1}]
    BY <1>3, <1>4, Zenon DEF AllHold, Types
  <2>4. pc' \in [Proc -> PC] /\ idx' \in [Proc -> Opt(Desc)]
    BY <1>3, <1>4, Zenon DEF AllHold, Types, PC, InLock, Holding, Reading, Opt
  <2> QED BY <1>4, <2>1, <2>2, <2>3, <2>4, ZenonT(30) DEF AllHold, Types, cache, device
<1>7. CacheOK'
  BY <1>4, <1>5, CacheSame DEF cache
<1>8. LocksOK'
  <2>1. \A q \in Proc : /\ pc'[q] \in InLock <=> pc[q] \in InLock
                        /\ pc'[q] = "lock" => pc[q] = "lock"
                        /\ pc'[q] \in Holding => pc[q] \in Holding
    BY <1>4, <1>5 DEF InLock, Holding, Reading
  <2> QED BY <1>4, <2>1, LocksSame, ZenonT(30) DEF cache, AllHold, LocksOK
<1>9. RequestsOK'
  <2>1. \A q \in Proc : idx'[q] # None <=> pc'[q] \in Waiting \cup Woken
    BY <1>3, <1>5, Names, Zenon DEF AllHold, RequestsOK, Waiting, Woken
  <2>2. \A q \in Submitted' : RequestOf(q)'
    BY <1>2, Zenon
  <2>3. \A q, w \in Submitted' : q # w => Mine(q)' \cap Mine(w)' = {}
    BY <1>2, SMTT(30) DEF AllHold, RequestsOK
  <2>4. \A d \in Desc : free'[d] = 0 => \E q \in Submitted' : d \in Mine(q)'
    <3> SUFFICES ASSUME NEW d \in Desc, free'[d] = 0 PROVE \E q \in Submitted' : d \in Mine(q)'
      BY Zenon
    <3>1. CASE d \in {d0, d1, d2}
      BY <3>1, <1>2, Zenon
    <3>2. CASE d \notin {d0, d1, d2}
      <4>1. free[d] = 0
        BY <3>2, <1>3, <1>4, Zenon DEF AllHold, Types
      <4>2. PICK q \in Submitted : d \in Mine(q)
        BY <4>1, Zenon DEF AllHold, RequestsOK
      <4> QED BY <4>2, <1>2, Zenon
    <3> QED BY <3>1, <3>2, Zenon
  <2>5. (Cardinality(Desc \ FreeDesc) = 3 * Cardinality(Submitted))'
    <3>1. PICK A : A = Desc \ FreeDesc
      BY Zenon
    <3>2. IsFiniteSet(A) /\ Cardinality(A) \in Nat /\ d0 \notin A /\ d1 \notin A /\ d2 \notin A
      BY <3>1, DescFinite, SubsetFinite, CardinalityType, Zenon
    <3>3. IsFiniteSet(A \cup {d0}) /\ Cardinality(A \cup {d0}) = Cardinality(A) + 1
      BY <3>2, AddElement, Zenon
    <3>4. PICK A1 : A1 = A \cup {d0}
      BY Zenon
    <3>5. IsFiniteSet(A1 \cup {d1}) /\ Cardinality(A1 \cup {d1}) = Cardinality(A1) + 1
      BY <3>2, <3>3, <3>4, <1>1, AddElement, Zenon
    <3>6. PICK A2 : A2 = A1 \cup {d1}
      BY Zenon
    <3>7. IsFiniteSet(A2 \cup {d2}) /\ Cardinality(A2 \cup {d2}) = Cardinality(A2) + 1
      BY <3>2, <3>4, <3>5, <3>6, <1>1, AddElement, Zenon
    <3>8. Desc \ FreeDesc' = A2 \cup {d2}
      BY <3>1, <3>4, <3>6, <1>2, <1>3, Zenon
    <3>9. Cardinality(Desc \ FreeDesc') = Cardinality(A) + 3
      <4>1. Cardinality(A1) = Cardinality(A) + 1
        BY <3>3, <3>4, Zenon
      <4>2. Cardinality(A2) = Cardinality(A1) + 1
        BY <3>5, <3>6, Zenon
      <4>3. Cardinality(Desc \ FreeDesc') = Cardinality(A2) + 1
        BY <3>7, <3>8, Zenon
      <4> QED BY <3>2, <4>1, <4>2, <4>3
    <3>10. IsFiniteSet(Submitted) /\ Cardinality(Submitted) \in Nat
      BY Names, SubsetFinite, CardinalityType, Zenon DEF Submitted
    <3>11. Cardinality(Submitted') = Cardinality(Submitted) + 1
      BY <3>10, <1>2, AddElement, Zenon
    <3>12. Cardinality(A) = 3 * Cardinality(Submitted)
      BY <3>1, Zenon DEF AllHold, RequestsOK
    <3> QED BY <3>9, <3>10, <3>11, <3>12
  <2>6. \A q \in Proc : q # p /\ pc'[q] \in Waiting \cup Woken => buf[q] \in Buf \ {b} /\ busy'[buf[q]] = busy[buf[q]]
    <3> SUFFICES ASSUME NEW q \in Proc, q # p, pc'[q] \in Waiting \cup Woken
                 PROVE  buf[q] \in Buf \ {b} /\ busy'[buf[q]] = busy[buf[q]]
      BY ZenonT(30)
    <3>1. pc[q] \in InLock /\ pc[q] # "out" /\ pc[p] \in InLock
      BY <1>4, <1>5, Zenon DEF Waiting, Woken, InLock, Holding, Reading
    <3>2. buf[q] \in Buf \ {b}
      BY <3>1, <1>4, OneHolder, HasBuf, Zenon
    <3> QED BY <3>2, <1>4, Zenon DEF AllHold, Types
  <2>7. busy'[buf[p]] = 1 /\ pc'[p] \in Waiting /\ pc'[p] \notin Woken
    BY <1>4, <1>5, Zenon DEF AllHold, Types, Waiting, Woken
  <2>8. \A q \in Proc : (pc'[q] \in Waiting => busy'[buf'[q]] = 1) /\ (pc'[q] \in Woken => busy'[buf'[q]] = 0)
    BY <1>4, <1>5, <2>6, <2>7, Zenon DEF AllHold, RequestsOK
  <2> QED BY <2>1, <2>2, <2>3, <2>4, <2>5, <2>8, ZenonT(30) DEF RequestsOK
<1>a. ~Somewhere(d0)
  BY <1>3, RingOwner, SMTT(30)
<1>10. RingsOK'
  <2>1. used' = used /\ inflight' = inflight /\ irq' = irq /\ intr' = intr
    BY <1>4, Zenon DEF device
  <2>2. PICK n \in Nat : n = Len(avail) /\ DOMAIN avail = 1..n
    BY DEF AllHold, Types
  <2>3. DOMAIN avail' = 1..(n + 1) /\ avail'[n + 1] = d0 /\ \A j \in 1..n : avail'[j] = avail[j]
    BY <2>2, <1>3, <1>4, SMTT(30) DEF AllHold, Types
  <2>4. \A j \in 1..(n + 1) : j = n + 1 \/ j \in 1..n
    BY <2>2
  <2>5. /\ \A j \in DOMAIN avail : avail[j] # d0
        /\ \A j \in DOMAIN used : used[j] # d0
        /\ d0 \notin inflight
    BY <1>a, Zenon DEF Somewhere
  <2>6. \A d \in Desc : WaitingFor(d)' <=> WaitingFor(d) \/ d = d0
    BY <1>4, <1>5, Zenon DEF WaitingFor, Waiting
  <2>7. \A d \in Desc : Somewhere(d)' <=> Somewhere(d) \/ d = d0
    BY <2>1, <2>2, <2>3, <2>4, SMTT(30) DEF Somewhere
  <2>8. \A i, j \in DOMAIN avail' : avail'[i] = avail'[j] => i = j
    BY <2>2, <2>3, <2>4, <2>5, Zenon DEF AllHold, RingsOK
  <2>9. \A i \in DOMAIN avail' : avail'[i] \notin inflight' /\ \A j \in DOMAIN used' : avail'[i] # used'[j]
    BY <2>1, <2>2, <2>3, <2>4, <2>5 DEF AllHold, RingsOK
  <2> QED BY <2>1, <2>6, <2>7, <2>8, <2>9, Zenon DEF AllHold, RingsOK
<1>11. ContentsOK'
  <2>1. \A c \in Buf : Dirty(c) => Dirty(c)'
    BY <1>4, <1>5, Zenon DEF Dirty, Users, cache
  <2>2. \A q \in Proc : Reported(q)' => q # p /\ Reported(q)
    <3> SUFFICES ASSUME NEW q \in Proc, Reported(q)' PROVE q # p /\ Reported(q)
      BY Zenon
    <3>1. used' = used /\ \A j \in DOMAIN used : used[j] # d0 /\ used[j] \in Desc
      BY <1>4, <1>a, SMTT(30) DEF device, Somewhere, AllHold, Types
    <3>2. \A j \in DOMAIN used : info'[used[j]] = info[used[j]]
      BY <3>1, <1>3, <1>4, Zenon DEF AllHold, Types
    <3>3. q # p
      BY <3>1, <1>5, Zenon DEF Reported, Waiting, Woken
    <3> QED BY <3>1, <3>2, <3>3, <1>5, Zenon DEF Reported
  <2>3. \A q \in Proc : pc'[q] = "written" => pc[q] = "written"
    BY <1>5, Zenon
  <2>4. \A q \in Proc : pc'[q] \in Reading => pc[q] \in Reading
    BY <1>4, <1>5, SMTT(30) DEF Reading
  <2> QED BY <1>4, <2>1, <2>2, <2>3, <2>4, Zenon DEF AllHold, ContentsOK, Same, device, cache
<1>12. DescWait'
  <2>1. \A q \in Proc : pc'[q] \in {"rdesc", "wdesc"} => pc[q] \in {"rdesc", "wdesc"}
    BY <1>5, Zenon
  <2>2. Cardinality(FreeDesc') <= Cardinality(FreeDesc)
    BY <1>2, DescFinite, SubsetFinite, Zenon DEF FreeDesc
  <2>3. Cardinality(FreeDesc') \in Nat /\ Cardinality(FreeDesc) \in Nat
    BY <1>2, DescFinite, SubsetFinite, CardinalityType, Zenon DEF FreeDesc
  <2> QED BY <2>1, <2>2, <2>3, SMTT(30) DEF AllHold, DescWait
<1> QED BY <1>6, <1>7, <1>8, <1>9, <1>10, <1>11, <1>12, Zenon DEF IInv, AllHold

(* What finishing a request does: the interrupt handler cleared b->disk    *)
(* before it woke the process, so its loop ends, and no descriptor of the  *)
(* chain is free already.                                                  *)
Finishes(p, b, C) ==
  /\ pc[p] \in Woken /\ b = buf[p] /\ C = Mine(p)
  /\ info' = [info EXCEPT ![idx[p]].b = None]
  /\ desc' = [d \in Desc |-> IF d \in C THEN NoDesc ELSE desc[d]]
  /\ free' = [d \in Desc |-> IF d \in C THEN 1 ELSE free[d]]
  /\ panicked' = 0
  /\ pc' = [WakeDesc(pc) EXCEPT ![p] = IF pc[p] = "rdone" THEN "held" ELSE "written"]
  /\ valid' = IF pc[p] = "rdone" THEN [valid EXCEPT ![b] = 1] ELSE valid
  /\ idx' = [idx EXCEPT ![p] = None]
  /\ UNCHANGED <<blockno, refcnt, lru, pins, data, locked, busy, avail, device, intr, irq, buf>>

(* The end of virtio_disk_rw() with its buffer and its chain named.        *)
LEMMA FinishesNamed ==
  ASSUME IInv, NEW p \in Proc, RwDone(p)
  PROVE  p \in Submitted /\ \E b \in Buf, C \in SUBSET Desc : Finishes(p, b, C)
<1> AllHold
  BY DEF IInv
<1>1. pc[p] \in Woken /\ p \in Submitted
  BY Zenon DEF RwDone, Woken, AllHold, RequestsOK, Submitted
<1>2. busy[buf[p]] = 0 /\ buf[p] \in Buf
  BY <1>1, HasBuf, Zenon DEF AllHold, RequestsOK, Woken
<1>3. Chain(idx[p]) = Mine(p) /\ Mine(p) \subseteq Desc /\ Mine(p) \cap FreeDesc = {}
  BY <1>1, MineIs, SMTT(30) DEF Chain, Mine, Next1, Next2, FreeDesc
<1>4. Finishes(p, buf[p], Mine(p))
  BY <1>1, <1>2, <1>3 DEF RwDone, Finishes
<1> QED BY <1>1, <1>2, <1>3, <1>4, Zenon

(* A chain freed is that of its request; those of the others are as        *)
(* before.                                                                 *)
LEMMA FinishFacts ==
  ASSUME IInv, NEW p \in Submitted, NEW b \in Buf, NEW C \in SUBSET Desc, Finishes(p, b, C)
  PROVE  /\ Submitted' = Submitted \ {p}
         /\ FreeDesc' = FreeDesc \cup C
         /\ \A q \in Submitted : q # p => Mine(q)' = Mine(q) /\ Mine(q) \cap C = {} /\ RequestOf(q)'
<1> AllHold
  BY Zenon DEF IInv
<1>1. p \in Proc /\ idx[p] \in Desc
  BY MineIs, Zenon
<1>2. Submitted' = Submitted \ {p}
  BY <1>1, Names, Zenon DEF Finishes, Submitted, AllHold, Types
<1>3. \A d \in Desc : free'[d] = IF d \in C THEN 1 ELSE free[d]
  BY Zenon DEF Finishes
<1>4. FreeDesc' = FreeDesc \cup C
  BY <1>3, Zenon DEF FreeDesc
<1>5. \A d \in Desc : d \notin C => desc'[d] = desc[d]
  BY Zenon DEF Finishes
<1>6. \A d \in Desc : d # idx[p] => info'[d] = info[d]
  BY <1>1, Zenon DEF Finishes, AllHold, Types
<1>7. \A q \in Proc : q # p => idx'[q] = idx[q]
  BY Zenon DEF Finishes, AllHold, Types
<1>8. \A q \in Submitted : q # p => pc'[q] = pc[q]
  BY MineIs, Zenon DEF Finishes, WakeDesc, Waiting, Woken
<1>9. ASSUME NEW q \in Submitted, q # p
      PROVE  Mine(q)' = Mine(q) /\ Mine(q) \cap C = {} /\ RequestOf(q)'
  <2>1. /\ q \in Proc /\ idx[q] \in Desc /\ Next1(q) \in Desc /\ Next2(q) \in Desc
        /\ \A d \in Mine(q) : d \in Desc /\ free[d] = 0
    BY MineIs, Zenon
  <2>2. Mine(q) \cap C = {}
    BY <1>9, Zenon DEF AllHold, RequestsOK, Finishes
  <2>3. idx[p] \in C
    BY Zenon DEF Finishes, Mine
  <2>4. idx'[q] = idx[q] /\ desc'[idx[q]] = desc[idx[q]] /\ desc'[Next1(q)] = desc[Next1(q)]
    BY <2>1, <2>2, <1>5, <1>7, <1>9, Zenon DEF Mine
  <2>5. Next1(q)' = Next1(q)
    BY <2>4, Zenon DEF Next1
  <2>6. Next2(q)' = Next2(q)
    BY <2>4, <2>5, Zenon DEF Next2
  <2>7. Mine(q)' = Mine(q)
    BY <2>4, <2>5, <2>6, Zenon DEF Mine
  <2>8. RequestOf(q)
    BY Zenon DEF AllHold, RequestsOK
  <2>9. info'[idx[q]] = info[idx[q]]
    BY <2>1, <2>2, <2>3, <1>6, Zenon DEF Mine
  <2>10. \A d \in Mine(q) : free'[d] = 0
    BY <2>1, <2>2, <1>3, Zenon
  <2>11. pc'[q] = pc[q] /\ buf'[q] = buf[q] /\ blockno' = blockno
    BY <1>8, <1>9, Zenon DEF Finishes
  <2> QED BY <2>1, <2>2, <2>4, <2>5, <2>6, <2>7, <2>8, <2>9, <2>10, <2>11, Zenon DEF RequestOf
<1> QED BY <1>2, <1>4, <1>9, Zenon

(* The end of virtio_disk_rw(), which frees the chain and wakes, keeps the *)
(* invariant.                                                              *)
LEMMA RwDoneKeeps ==
  ASSUME SetFacts, IInv, NEW p \in Proc, RwDone(p) PROVE IInv'
<1> AllHold
  BY DEF IInv
<1>1. PICK b \in Buf, C \in SUBSET Desc : p \in Submitted /\ Finishes(p, b, C)
  BY FinishesNamed, Zenon
<1>2. /\ Submitted' = Submitted \ {p}
      /\ FreeDesc' = FreeDesc \cup C
      /\ \A q \in Submitted : q # p => Mine(q)' = Mine(q) /\ Mine(q) \cap C = {} /\ RequestOf(q)'
  BY <1>1, FinishFacts, Zenon
<1>3. /\ pc[p] \in {"rdone", "wdone"} /\ b = buf[p] /\ C = Mine(p)
      /\ valid' = IF pc[p] = "rdone" THEN [valid EXCEPT ![b] = 1] ELSE valid
      /\ UNCHANGED <<blockno, refcnt, lru, pins, data, locked, busy, avail, device, intr, irq, buf>>
  BY <1>1, Zenon DEF Finishes, Woken
<1>4. idx'[p] = None /\ \A q \in Proc : q # p => idx'[q] = idx[q]
  BY <1>1, Zenon DEF Finishes, AllHold, Types
<1>5. /\ pc'[p] = IF pc[p] = "rdone" THEN "held" ELSE "written"
      /\ \A q \in Proc : q # p =>
           pc'[q] = CASE pc[q] = "rdesc" -> "read" [] pc[q] = "wdesc" -> "write" [] OTHER -> pc[q]
  BY <1>1, Zenon DEF Finishes, WakeDesc
<1>6. Types'
  <2>1. info' \in [Desc -> [b : Opt(Buf), status : {0, 1}]]
    <3>1. info'= [info EXCEPT ![idx[p]] = [info[idx[p]] EXCEPT !.b = None]] /\ idx[p] \in Desc
      BY <1>1, MineIs, Zenon DEF Finishes
    <3>2. [info[idx[p]] EXCEPT !.b = None] \in [b : Opt(Buf), status : {0, 1}]
      <4>1. PICK r \in [b : Opt(Buf), status : {0, 1}] : r = info[idx[p]]
        BY <3>1, Zenon DEF AllHold, Types
      <4>2. [r EXCEPT !.b = None] \in [b : Opt(Buf), status : {0, 1}]
        BY Zenon DEF Opt
      <4> QED BY <4>1, <4>2, Zenon
    <3> QED BY <3>1, <3>2, Zenon DEF AllHold, Types
  <2>2. free' \in [Desc -> {0, 1}] /\ DOMAIN desc' = Desc /\ valid' \in [Buf -> {0, 1}] /\ panicked' \in {0, 1}
    BY <1>1, <1>3, Zenon DEF Finishes, AllHold, Types
  <2>3. pc' = [q \in Proc |-> pc'[q]]
    BY <1>1, Zenon DEF Finishes, WakeDesc
  <2>4. \A q \in Proc : pc'[q] \in PC
    BY <1>5, ProcTypes, Zenon DEF PC, InLock, Holding, Reading
  <2>5. pc' \in [Proc -> PC] /\ idx' \in [Proc -> Opt(Desc)]
    BY <1>1, <2>3, <2>4, Zenon DEF Finishes, AllHold, Types, Opt
  <2> QED BY <1>3, <2>1, <2>2, <2>5, Zenon DEF AllHold, Types, device
<1>7. CacheOK'
  BY <1>3, <1>5, CacheSame, Zenon
<1>8. LocksOK'
  <2>1. \A q \in Proc : /\ pc'[q] \in InLock <=> pc[q] \in InLock
                        /\ pc'[q] = "lock" => pc[q] = "lock"
                        /\ pc'[q] \in Holding /\ q # p => pc[q] \in Holding
    BY <1>3, <1>5, Zenon DEF InLock, Holding, Reading
  <2>2. \A c \in Buf : valid[c] = 1 => valid'[c] = 1
    BY <1>3, Zenon DEF AllHold, Types
  <2>3. valid'[b] = 1
    BY <1>3, Zenon DEF AllHold, Types, LocksOK, Holding
  <2>4. \A q \in Proc : pc[q] \in Holding => buf[q] \in Buf
    BY HasBuf, Zenon DEF Holding
  <2> QED BY <1>3, <2>1, <2>2, <2>3, <2>4, LocksSame, Zenon DEF AllHold, LocksOK
<1>9. RequestsOK'
  <2>1. \A q \in Proc : idx'[q] # None <=> pc'[q] \in Waiting \cup Woken
    BY <1>4, <1>5, Zenon DEF AllHold, RequestsOK, Waiting, Woken
  <2>2. \A q \in Submitted' : RequestOf(q)'
    BY <1>2, Zenon
  <2>3. \A q, w \in Submitted' : q # w => Mine(q)' \cap Mine(w)' = {}
    BY <1>2, Zenon DEF AllHold, RequestsOK
  <2>4. \A d \in Desc : free'[d] = 0 => \E q \in Submitted' : d \in Mine(q)'
    <3> SUFFICES ASSUME NEW d \in Desc, free'[d] = 0 PROVE \E q \in Submitted' : d \in Mine(q)'
      BY Zenon
    <3>1. d \notin C /\ free[d] = 0
      BY <1>1, SMTT(30) DEF Finishes
    <3>2. PICK q \in Submitted : d \in Mine(q)
      BY <3>1, Zenon DEF AllHold, RequestsOK
    <3> QED BY <3>1, <3>2, <1>2, <1>3, Zenon
  <2>5. (Cardinality(Desc \ FreeDesc) = 3 * Cardinality(Submitted))'
    <3>1. PICK d0, d1, d2 \in Desc : C = {d0, d1, d2} /\ d0 # d1 /\ d0 # d2 /\ d1 # d2 /\ C \cap FreeDesc = {}
      <4>1. RequestOf(p) /\ idx[p] \in Desc /\ \A d \in Mine(p) : free[d] = 0
        BY <1>1, MineIs, Zenon DEF AllHold, RequestsOK
      <4> QED BY <4>1, <1>3, SMTT(30) DEF RequestOf, Mine, FreeDesc
    <3>2. PICK A : A = Desc \ FreeDesc
      BY Zenon
    <3>3. IsFiniteSet(A) /\ Cardinality(A) \in Nat /\ d0 \in A /\ d1 \in A /\ d2 \in A
      BY <3>1, <3>2, DescFinite, SubsetFinite, CardinalityType, Zenon
    <3>4. PICK A1 : A1 = A \ {d0}
      BY Zenon
    <3>5. IsFiniteSet(A1) /\ Cardinality(A1) = Cardinality(A) - 1 /\ d1 \in A1 /\ d2 \in A1
      BY <3>1, <3>3, <3>4, RemoveElement, Zenon
    <3>6. PICK A2 : A2 = A1 \ {d1}
      BY Zenon
    <3>7. IsFiniteSet(A2) /\ Cardinality(A2) = Cardinality(A1) - 1 /\ d2 \in A2
      BY <3>1, <3>5, <3>6, RemoveElement, Zenon
    <3>8. Cardinality(A2 \ {d2}) = Cardinality(A2) - 1
      BY <3>7, RemoveElement, Zenon
    <3>9. Desc \ FreeDesc' = A2 \ {d2}
      BY <3>1, <3>2, <3>4, <3>6, <1>2, Zenon
    <3>10. Cardinality(Desc \ FreeDesc') = Cardinality(A) - 3
      <4>1. Cardinality(A2 \ {d2}) = Cardinality(A) - 3
        BY <3>3, <3>5, <3>7, <3>8
      <4> QED BY <4>1, <3>9, Zenon
    <3>11. IsFiniteSet(Submitted) /\ Cardinality(Submitted) \in Nat
      BY Names, SubsetFinite, CardinalityType, Zenon DEF Submitted
    <3>12. Cardinality(Submitted') = Cardinality(Submitted) - 1
      BY <3>11, <1>1, <1>2, RemoveElement, ZenonT(30)
    <3>13. Cardinality(A) = 3 * Cardinality(Submitted)
      BY <3>2, Zenon DEF AllHold, RequestsOK
    <3> QED BY <3>10, <3>11, <3>12, <3>13
  <2>8. \A q \in Proc : (pc'[q] \in Waiting => busy'[buf'[q]] = 1) /\ (pc'[q] \in Woken => busy'[buf'[q]] = 0)
    BY <1>3, <1>5, Zenon DEF AllHold, RequestsOK, Waiting, Woken
  <2> QED BY <2>1, <2>2, <2>3, <2>4, <2>5, <2>8, Zenon DEF RequestsOK
<1>10. RingsOK'
  <2>1. avail' = avail /\ used' = used /\ inflight' = inflight /\ irq' = irq /\ intr' = intr
    BY <1>3, Zenon DEF device
  <2>2. \A d \in Desc : WaitingFor(d)' <=> WaitingFor(d)
    BY <1>3, <1>4, <1>5, Zenon DEF WaitingFor, Waiting
  <2>3. \A d \in Desc : Somewhere(d)' <=> Somewhere(d)
    BY <2>1, Zenon DEF Somewhere
  <2> QED BY <2>1, <2>2, <2>3, Zenon DEF AllHold, RingsOK
<1>11. ContentsOK'
  <2>0. Same(b) /\ data' = data /\ disk' = disk /\ blockno' = blockno /\ buf' = buf /\ blockno[b] # None
    BY <1>3, Zenon DEF AllHold, ContentsOK, Reported, Woken, device, CacheOK, Types, Opt
  <2>1. \A c \in Buf : Dirty(c) => Dirty(c)'
    BY <1>3, <1>5, Zenon DEF Dirty, Users
  <2>2. \A q \in Proc : Reported(q)' => Reported(q)
    <3> SUFFICES ASSUME NEW q \in Proc, Reported(q)' PROVE Reported(q)
      BY Zenon
    <3>0. q # p /\ (pc'[q] \in Woken => pc[q] \in Woken) /\ (pc'[q] \in Waiting => pc[q] \in Waiting)
      BY <1>3, <1>5, Zenon DEF Reported, Waiting, Woken
    <3>1. used' = used /\ \A j \in DOMAIN used : used[j] \in Desc
      BY <1>3, SMTT(30) DEF device, AllHold, Types
    <3>2. \A d \in Desc : info'[d].status = info[d].status
      BY <1>1, Zenon DEF AllHold, Types, Finishes
    <3> QED BY <3>0, <3>1, <3>2, <1>4, Zenon DEF Reported
  <2>3. \A q \in Proc : pc'[q] = "written" => pc[q] = "written" \/ q = p
    BY <1>5, Zenon
  <2>4. \A q \in Proc : pc'[q] \in Reading => q # p /\ pc[q] \in Reading /\ pc[q] \in InLock /\ buf[q] \in Buf
    BY <1>3, <1>5, HasBuf, Zenon DEF Reading, InLock
  <2>5. \A q \in Proc : pc[q] \in InLock /\ q # p => buf[q] # b
    BY <1>3, OneHolder, Zenon DEF InLock, Holding, Reading
  <2>6. \A c \in Buf : c # b => valid'[c] = valid[c]
    BY <1>3, Zenon DEF AllHold, Types
  <2> QED BY <1>3, <2>0, <2>1, <2>2, <2>3, <2>4, <2>5, <2>6, SMTT(30) DEF AllHold, ContentsOK, Same
<1>12. DescWait'
  BY <1>3, <1>5, Zenon DEF DescWait
<1> QED BY <1>6, <1>7, <1>8, <1>9, <1>10, <1>11, <1>12, Zenon DEF IInv, AllHold

-----------------------------------------------------------------------------

(* The steps of the device and of virtio_disk_intr().                      *)
LEMMA DevFetchKeeps ==
  ASSUME IInv, DevFetch PROVE IInv'
<1> AllHold
  BY Zenon DEF IInv
<1>1. /\ avail # <<>> /\ inflight' = inflight \cup {Head(avail)} /\ avail' = Tail(avail)
      /\ UNCHANGED <<cache, data, locked, free, desc, info, busy, disk, used, intr, irq, pc, buf, idx, panicked>>
  BY Zenon DEF DevFetch
<1>2. PICK n \in Nat :
           /\ DOMAIN avail = 1..(n + 1) /\ DOMAIN avail' = 1..n
           /\ Head(avail) = avail[1] /\ \A i \in 1..n : avail'[i] = avail[i + 1]
           /\ avail' \in Seq(Desc) /\ Head(avail) \in Desc
  BY <1>1, TailIs, SMTT(30) DEF AllHold, Types
<1>3. Types'
  BY <1>1, <1>2, Zenon DEF AllHold, Types, cache
<1>4. CacheOK'
  BY <1>1, CacheSame, Zenon DEF cache
<1>5. LocksOK'
  BY <1>1, LocksSame, Zenon DEF cache, AllHold, LocksOK, InLock
<1>6. RequestsOK' /\ DescWait'
  <2>1. \A q \in Proc : RequestOf(q)' <=> RequestOf(q)
    BY <1>1, Zenon DEF RequestOf, Mine, Next1, Next2, cache
  <2>2. \A q \in Proc : Mine(q)' = Mine(q)
    BY <1>1, Zenon DEF Mine, Next1, Next2
  <2>3. Submitted' = Submitted /\ FreeDesc' = FreeDesc /\ \A q \in Submitted : q \in Proc
    BY <1>1, Zenon DEF Submitted, FreeDesc
  <2> QED BY <1>1, <2>1, <2>2, <2>3, SMTT(30) DEF AllHold, RequestsOK, DescWait
<1>7. RingsOK'
  <2>1. used' = used /\ irq' = irq /\ intr' = intr /\ \A d \in Desc : WaitingFor(d)' <=> WaitingFor(d)
    BY <1>1, Zenon DEF WaitingFor
  <2>2. \A i \in 1..n : i + 1 \in 1..(n + 1) /\ i + 1 # 1
    OBVIOUS
  <2>3. \A j \in 1..(n + 1) : j = 1 \/ (j - 1 \in 1..n /\ j = (j - 1) + 1)
    OBVIOUS
  <2>4. \A d \in Desc : Somewhere(d)' <=> Somewhere(d)
    <3> TAKE d \in Desc
    <3>1. (\E j \in DOMAIN avail : avail[j] = d) <=> (d = Head(avail) \/ \E j \in DOMAIN avail' : avail'[j] = d)
      <4>1. ASSUME NEW j \in DOMAIN avail, avail[j] = d, d # Head(avail)
            PROVE  \E i \in DOMAIN avail' : avail'[i] = d
        <5>1. j - 1 \in 1..n /\ j = (j - 1) + 1
          BY <4>1, <1>2, <2>3, Zenon
        <5>2. avail'[j - 1] = d
          BY <4>1, <5>1, <1>2, Zenon
        <5> QED BY <5>1, <5>2, <1>2, Zenon
      <4>2. 1 \in DOMAIN avail
        BY <1>2
      <4>3. \A j \in DOMAIN avail' : j + 1 \in DOMAIN avail /\ avail'[j] = avail[j + 1]
        BY <1>2, <2>2, Zenon
      <4> QED BY <4>1, <4>2, <4>3, <1>2, Zenon
    <3> QED BY <3>1, <2>1, <1>1, Zenon DEF Somewhere
  <2>5. ASSUME NEW i \in DOMAIN avail', NEW j \in DOMAIN avail', avail'[i] = avail'[j] PROVE i = j
    <3>1. i + 1 \in DOMAIN avail /\ j + 1 \in DOMAIN avail /\ avail[i + 1] = avail[j + 1] /\ i \in Int /\ j \in Int
      BY <1>2, <2>2, <2>5
    <3>2. i + 1 = j + 1
      BY <3>1, Zenon DEF AllHold, RingsOK
    <3> QED BY <3>1, <3>2
  <2>6. 1 \in DOMAIN avail
    BY <1>2, SMTT(30)
  <2>7. \A i \in DOMAIN avail' : avail'[i] \notin inflight' /\ \A j \in DOMAIN used' : avail'[i] # used'[j]
    BY <1>1, <1>2, <2>1, <2>2, <2>6, SMTT(30) DEF AllHold, RingsOK
  <2>8. \A i \in DOMAIN used' : used'[i] \notin inflight'
    BY <1>1, <1>2, <2>1, <2>6, Zenon DEF AllHold, RingsOK
  <2> QED BY <2>1, <2>4, <2>5, <2>7, <2>8, Zenon DEF AllHold, RingsOK
<1>8. ContentsOK'
  BY <1>1, Zenon DEF AllHold, ContentsOK, Same, cache, Dirty, Users, Reported
<1> QED BY <1>3, <1>4, <1>5, <1>6, <1>7, <1>8, Zenon DEF IInv, AllHold

(* What the device finds in the chain whose head it was given.             *)
LEMMA DevFinds ==
  ASSUME IInv, NEW h \in inflight, NEW status \in {0, 1}, DevDone(h, status)
  PROVE  \E p \in Submitted, b \in Buf :
           /\ b = buf[p] /\ h = idx[p] /\ pc[p] \in Waiting /\ blockno[b] \in Block
           /\ disk' = IF pc[p] = "wio" /\ status = 0 THEN [disk EXCEPT ![blockno[b]] = data[b]] ELSE disk
           /\ data' = IF pc[p] = "rio" /\ status = 0 THEN [data EXCEPT ![b] = disk[blockno[b]]] ELSE data
<1> AllHold
  BY Zenon DEF IInv
<1>1. h \in Desc /\ Somewhere(h)
  BY Zenon DEF AllHold, Types, Somewhere
<1>2. PICK p \in Submitted : pc[p] \in Waiting /\ idx[p] = h
  BY <1>1, RingOwner, Zenon
<1>3. buf[p] \in Buf /\ p \in Proc
  BY <1>2, MineIs, Zenon
<1>4. blockno[buf[p]] \in Block
  <2>1. buf[p] # None /\ blockno[buf[p]] \in Opt(Block)
    BY <1>3, Names, Zenon DEF AllHold, Types
  <2> QED BY <2>1, <1>3, Zenon DEF AllHold, CacheOK, Opt
<1>5. RequestOf(p)
  BY Zenon DEF AllHold, RequestsOK
<1>6. /\ desc[desc[h].next].addr = buf[p] /\ desc[h].addr.sector = blockno[buf[p]]
      /\ (desc[h].addr.write <=> pc[p] = "wio") /\ (pc[p] = "rio" <=> ~(pc[p] = "wio"))
  BY <1>2, <1>5, Zenon DEF RequestOf, Next1, Next2, Waiting
<1>7. /\ disk' = IF pc[p] = "wio" /\ status = 0 THEN [disk EXCEPT ![blockno[buf[p]]] = data[buf[p]]] ELSE disk
      /\ data' = IF pc[p] = "rio" /\ status = 0 THEN [data EXCEPT ![buf[p]] = disk[blockno[buf[p]]]] ELSE data
  BY <1>6, Zenon DEF DevDone
<1> QED BY <1>2, <1>3, <1>4, <1>7, Zenon

(* A completion of the device, with or without the transfer, keeps the     *)
(* invariant.                                                              *)
LEMMA DevDoneKeeps ==
  ASSUME IInv, NEW h \in Desc, NEW status \in {0, 1}, DevDone(h, status) PROVE IInv'
<1> AllHold
  BY Zenon DEF IInv
<1>0. h \in inflight
  BY Zenon DEF DevDone
<1>1. PICK p \in Submitted, b \in Buf :
           /\ b = buf[p] /\ h = idx[p] /\ pc[p] \in Waiting /\ blockno[b] \in Block
           /\ disk' = IF pc[p] = "wio" /\ status = 0 THEN [disk EXCEPT ![blockno[b]] = data[b]] ELSE disk
           /\ data' = IF pc[p] = "rio" /\ status = 0 THEN [data EXCEPT ![b] = disk[blockno[b]]] ELSE data
  BY <1>0, DevFinds, Zenon
<1>2. /\ info' = [info EXCEPT ![h].status = status]
      /\ inflight' = inflight \ {h} /\ used' = Append(used, h) /\ irq' = 1
      /\ UNCHANGED <<cache, locked, free, desc, busy, avail, intr, pc, buf, idx, panicked>>
  BY Zenon DEF DevDone
<1>3. PICK n \in Nat :
           /\ DOMAIN used = 1..n /\ DOMAIN used' = 1..(n + 1)
           /\ used'[n + 1] = h /\ \A i \in 1..n : used'[i] = used[i]
           /\ used' \in Seq(Desc)
  <2>1. used \in Seq(Desc)
    BY Zenon DEF AllHold, Types
  <2> QED BY <1>2, <2>1, AppendIs, SMTT(30)
<1>4. \A d \in Desc : /\ info'[d].b = info[d].b
                      /\ info'[d].status = IF d = h THEN status ELSE info[d].status
  BY <1>2, Zenon DEF AllHold, Types
<1>5. Types'
  <2>1. info' \in [Desc -> [b : Opt(Buf), status : {0, 1}]]
    <3>1. PICK r \in [b : Opt(Buf), status : {0, 1}] : r = info[h]
      BY Zenon DEF AllHold, Types
    <3>2. [r EXCEPT !.status = status] \in [b : Opt(Buf), status : {0, 1}]
      BY Zenon
    <3> QED BY <1>2, <3>1, <3>2, Zenon DEF AllHold, Types
  <2>2. disk' \in [Block -> Val] /\ data' \in [Buf -> Val]
    BY <1>1, Zenon DEF AllHold, Types
  <2> QED BY <1>2, <1>3, <2>1, <2>2, Zenon DEF AllHold, Types, cache
<1>6. CacheOK'
  BY <1>2, CacheSame, Zenon DEF cache
<1>7. LocksOK'
  BY <1>2, LocksSame, Zenon DEF cache, AllHold, LocksOK, InLock
<1>8. RequestsOK' /\ DescWait'
  <2>1. \A q \in Submitted : RequestOf(q)'
    <3> TAKE q \in Submitted
    <3>1. RequestOf(q) /\ idx[q] \in Desc
      BY MineIs, Zenon DEF AllHold, RequestsOK
    <3> QED BY <3>1, <1>2, <1>4, Zenon DEF RequestOf, Mine, Next1, Next2, cache
  <2>2. \A q \in Proc : Mine(q)' = Mine(q)
    BY <1>2, Zenon DEF Mine, Next1, Next2
  <2>3. Submitted' = Submitted /\ FreeDesc' = FreeDesc /\ \A q \in Submitted : q \in Proc
    BY <1>2, Zenon DEF Submitted, FreeDesc
  <2> QED BY <1>2, <2>1, <2>2, <2>3 DEF AllHold, RequestsOK, DescWait
<1>9. RingsOK'
  <2>1. avail' = avail /\ \A d \in Desc : WaitingFor(d)' <=> WaitingFor(d)
    BY <1>2, Zenon DEF WaitingFor
  <2>2. \A j \in 1..(n + 1) : j = n + 1 \/ j \in 1..n
    OBVIOUS
  <2>3. \A d \in Desc : Somewhere(d)' <=> Somewhere(d)
    <3> TAKE d \in Desc
    <3>1. (\E j \in DOMAIN used' : used'[j] = d) <=> (d = h \/ \E j \in DOMAIN used : used[j] = d)
      BY <1>3, <2>2, SMTT(30)
    <3> QED BY <3>1, <2>1, <1>0, <1>2, Zenon DEF Somewhere
  <2>4. \A i \in DOMAIN used : used[i] # h
    BY <1>0, Zenon DEF AllHold, RingsOK
  <2>5. \A i, j \in DOMAIN used' : used'[i] = used'[j] => i = j
    BY <1>3, <2>2, <2>4, Zenon DEF AllHold, RingsOK
  <2>6. \A i \in DOMAIN avail : avail[i] \notin inflight' /\ \A j \in DOMAIN used' : avail[i] # used'[j]
    BY <1>0, <1>2, <1>3, <2>2 DEF AllHold, RingsOK
  <2>7. \A i \in DOMAIN used' : used'[i] \notin inflight'
    BY <1>2, <1>3, <2>2, Zenon DEF AllHold, RingsOK
  <2> QED BY <1>2, <2>1, <2>3, <2>5, <2>6, <2>7 DEF AllHold, RingsOK
<1>10. ContentsOK'
  <2>0. p \in Proc /\ pc[p] \in InLock
    BY MineIs, Zenon
  <2>1. \A c \in Buf : Dirty(c)' <=> Dirty(c)
    BY <1>2, Zenon DEF Dirty, Users, cache
  <2>2. ASSUME NEW c \in Buf, c # b, blockno[c] # None, Same(c) PROVE Same(c)'
    <3>1. blockno[c] \in Block /\ blockno[c] # blockno[b]
      BY <2>2, CacheTypes DEF AllHold, CacheOK, Opt
    <3> QED BY <3>1, <2>2, <1>1, <1>2, ProcTypes, CacheTypes, Zenon DEF Same, cache
  <2>3. status = 0 => Same(b)'
    BY <1>1, <1>2, Zenon DEF Same, AllHold, Types, cache, Waiting
  <2>4. valid[b] = 1 => Dirty(b)
    BY <1>1, <2>0, SMTT(30) DEF AllHold, ContentsOK, Dirty, Users, Waiting, Reading
  <2>5. ASSUME NEW q \in Proc, Reported(q)' \/ pc[q] = "written" PROVE Same(buf[q])'
    <3>1. CASE q = p
      <4>1. Reported(p)' /\ pc[p] \notin Woken /\ pc'[p] = pc[p] /\ idx'[p] = h
        BY <3>1, <2>5, <1>1, <1>2, Zenon DEF Waiting, Woken
      <4>2. PICK j \in DOMAIN used' : used'[j] = h /\ info'[used'[j]].status = 0
        BY <4>1, Zenon DEF Reported
      <4>3. status = 0
        BY <4>2, <1>4, Zenon
      <4>4. buf'[q] = b
        BY <3>1, <1>1, <1>2, Zenon
      <4> QED BY <4>3, <4>4, <2>3, Zenon DEF Same
    <3>2. CASE q # p
      <4>1. Reported(q) \/ pc[q] = "written"
        <5>1. CASE Reported(q)' /\ pc[q] \in Waiting
          <6>1. pc[q] \notin Woken
            BY <5>1, Zenon DEF Waiting, Woken
          <6>2. PICK j \in DOMAIN used' : used'[j] = idx[q] /\ info'[used'[j]].status = 0
            BY <5>1, <6>1, <1>2, Zenon DEF Reported
          <6>3. q \in Submitted
            BY <5>1, Zenon DEF AllHold, RequestsOK, Submitted
          <6>4. idx[q] # h
            BY <6>3, <3>2, <1>1, Zenon DEF AllHold, RequestsOK, Mine
          <6>5. j \in DOMAIN used /\ used[j] = idx[q] /\ idx[q] \in Desc
            BY <6>2, <6>3, <6>4, <1>3, MineIs, SMTT(30)
          <6> QED BY <5>1, <6>2, <6>4, <6>5, <1>3, <1>4, Zenon DEF Reported
        <5> QED BY <5>1, <2>5, <1>2, Zenon DEF Reported
      <4>2. pc[q] \in InLock /\ pc[q] # "out"
        BY <4>1, Zenon DEF Reported, Waiting, Woken, InLock, Holding, Reading
      <4>3. buf[q] \in Buf /\ buf[q] # b /\ blockno[buf[q]] # None
        BY <4>2, <3>2, <2>0, <1>1, HasBuf, OneHolder, Zenon DEF AllHold, CacheOK
      <4>4. Same(buf[q])
        BY <4>1, Zenon DEF AllHold, ContentsOK
      <4>5. Same(buf[q])'
        BY <4>3, <4>4, <2>2, <1>2, Zenon DEF Same
      <4> QED BY <4>5, Zenon
    <3> QED BY <3>1, <3>2, Zenon
  <2>6. \A c \in Buf : valid'[c] = 1 => blockno'[c] # None
    BY <1>2, Zenon DEF cache, AllHold, ContentsOK
  <2>7. \A c \in Buf : valid'[c] = 1 /\ ~Dirty(c)' => Same(c)'
    BY <1>2, <2>1, <2>2, <2>4, Zenon DEF cache, AllHold, ContentsOK
  <2>8. \A q \in Proc : Reported(q)' \/ pc'[q] = "written" => Same(buf[q])'
    BY <1>2, <2>5, Zenon
  <2>9. \A q \in Proc : pc'[q] \in Reading => valid'[buf'[q]] = 0
    BY <1>2, Zenon DEF cache, AllHold, ContentsOK
  <2> QED BY <2>6, <2>7, <2>8, <2>9, ZenonT(30) DEF ContentsOK
<1> QED BY <1>5, <1>6, <1>7, <1>8, <1>9, <1>10, Zenon DEF IInv, AllHold

(* A panic changes nothing else.                                           *)
LEMMA PanicKeeps ==
  ASSUME IInv, panicked' = 1,
         UNCHANGED <<cache, data, locked, driver, device, intr, irq, pc, buf, idx>>
  PROVE  IInv'
<1> AllHold
  BY Zenon DEF IInv
<1>4. Types'
  BY Zenon DEF AllHold, Types, cache, driver, device
<1>5. CacheOK'
  BY CacheSame, Zenon DEF cache
<1>6. LocksOK'
  BY LocksSame, Zenon DEF cache, AllHold, LocksOK, InLock
<1>7. RequestsOK' /\ RingsOK' /\ DescWait'
  BY DriverKeeps, Zenon DEF cache, device
<1>8. ContentsOK'
  BY Zenon DEF AllHold, ContentsOK, Same, device, cache, Dirty, Users, Reported, driver
<1> QED BY <1>4, <1>5, <1>6, <1>7, <1>8, Zenon DEF IInv, AllHold

(* IntrAck, IntrLoopEnds and IntrReturn move only the interrupt.           *)
LEMMA IntrMovesKeep ==
  ASSUME IInv, IntrAck \/ IntrLoopEnds \/ IntrReturn PROVE IInv'
<1> AllHold
  BY Zenon DEF IInv
<1>1. UNCHANGED <<cache, data, locked, driver, device, pc, buf, idx, panicked>>
  BY Zenon DEF IntrAck, IntrLoopEnds, IntrReturn
<1>2. irq' \in {0, 1} /\ intr' \in {0, 1, 2} /\ (used # <<>> => irq' = 1 \/ intr' = 1)
  BY SMTT(30) DEF IntrAck, IntrLoopEnds, IntrReturn, IrqAfter, AllHold, Types, RingsOK
<1>3. Types'
  BY <1>1, <1>2, Zenon DEF AllHold, Types, cache, driver, device
<1>4. CacheOK'
  BY <1>1, CacheSame, Zenon DEF cache
<1>5. LocksOK'
  BY <1>1, LocksSame, Zenon DEF cache, AllHold, LocksOK, InLock
<1>6. /\ free' = free /\ desc' = desc /\ info' = info /\ busy' = busy /\ avail' = avail
      /\ inflight' = inflight /\ used' = used /\ idx' = idx /\ pc' = pc /\ buf' = buf /\ blockno' = blockno
  BY <1>1, Zenon DEF cache, driver, device
<1>7. RequestsOK' /\ DescWait'
  <2>1. \A q \in Proc : (RequestOf(q)' <=> RequestOf(q)) /\ Mine(q)' = Mine(q)
    BY <1>6, Zenon DEF RequestOf, Mine, Next1, Next2
  <2>2. Submitted' = Submitted /\ FreeDesc' = FreeDesc /\ \A q \in Submitted : q \in Proc
    BY <1>6, Zenon DEF Submitted, FreeDesc
  <2>3. DescWait'
    BY <1>6, <2>2, Zenon DEF AllHold, DescWait
  <2>4. \A q \in Submitted : RequestOf(q)'
    BY <2>1, <2>2, Zenon DEF AllHold, RequestsOK
  <2>5. \A q, w \in Submitted : q # w => Mine(q)' \cap Mine(w)' = {}
    BY <2>1, <2>2, Zenon DEF AllHold, RequestsOK
  <2>6. \A d \in Desc : free'[d] = 0 => \E q \in Submitted : d \in Mine(q)'
    <3> SUFFICES ASSUME NEW d \in Desc, free'[d] = 0 PROVE \E q \in Submitted : d \in Mine(q)'
      BY Zenon
    <3>1. PICK q \in Submitted : d \in Mine(q)
      BY <1>6, Zenon DEF AllHold, RequestsOK
    <3> QED BY <3>1, <2>1, <2>2, Zenon
  <2>7. (Cardinality(Desc \ FreeDesc) = 3 * Cardinality(Submitted))'
    BY <2>2, Zenon DEF AllHold, RequestsOK
  <2>8. \A q \in Proc : /\ idx'[q] # None <=> pc'[q] \in Waiting \cup Woken
                        /\ pc'[q] \in Waiting => busy'[buf'[q]] = 1
                        /\ pc'[q] \in Woken => busy'[buf'[q]] = 0
    BY <1>6, Zenon DEF AllHold, RequestsOK
  <2> QED BY <2>2, <2>3, <2>4, <2>5, <2>6, <2>7, <2>8, Zenon DEF RequestsOK
<1>8. RingsOK'
  BY <1>2, <1>6, SMTT(30) DEF AllHold, RingsOK, WaitingFor, Somewhere
<1>9. ContentsOK'
  BY <1>1, Zenon DEF AllHold, ContentsOK, Same, device, cache, Dirty, Users, Reported, driver
<1> QED BY <1>3, <1>4, <1>5, <1>7, <1>8, <1>9, Zenon DEF IInv, AllHold

(* A turn of the loop of virtio_disk_intr() keeps the invariant.           *)
LEMMA IntrEntryKeeps ==
  ASSUME IInv, IntrEntry PROVE IInv'
<1> AllHold
  BY DEF IInv
<1>1. PICK id : id = Head(used)
  BY Zenon
<1>2. /\ intr = 1 /\ used # <<>>
      /\ UNCHANGED <<cache, data, locked, free, desc, info, avail, disk, inflight, intr, irq, buf, idx>>
  BY Zenon DEF IntrEntry
<1>3. CASE info[id].status # 0
  BY <1>1, <1>2, <1>3, PanicKeeps, Zenon DEF IntrEntry, driver, device
<1>4. CASE info[id].status = 0
  <2>1. PICK n \in Nat :
           /\ DOMAIN used = 1..(n + 1) /\ DOMAIN used' = 1..n
           /\ id = used[1] /\ \A i \in 1..n : used'[i] = used[i + 1]
           /\ used' \in Seq(Desc) /\ id \in Desc
    <3>1. used \in Seq(Desc) /\ used' = Tail(used)
      BY <1>1, <1>4, ProcTypes, DriverTypes, Zenon DEF IntrEntry
    <3> QED BY <3>1, <1>1, <1>2, TailIs, Zenon
  <2>2. 1 \in DOMAIN used /\ Somewhere(id)
    BY <2>1 DEF Somewhere
  <2>3. PICK p \in Submitted : pc[p] \in Waiting /\ idx[p] = id
    BY <2>1, <2>2, RingOwner, Zenon
  <2>4. p \in Proc /\ buf[p] \in Buf /\ pc[p] \in InLock /\ info[id].b = buf[p]
    BY <2>3, MineIs, Zenon DEF AllHold, RequestsOK, RequestOf
  <2>5. PICK b \in Buf : b = buf[p] /\ b = info[id].b
    BY <2>4, Zenon
  <2>6. /\ busy' = [busy EXCEPT ![b] = 0] /\ panicked' = panicked
        /\ pc' = [q \in Proc |-> CASE pc[q] = "rio" /\ buf[q] = b -> "rdone"
                                   [] pc[q] = "wio" /\ buf[q] = b -> "wdone"
                                   [] OTHER -> pc[q]]
    BY <1>1, <1>4, <2>5, Zenon DEF IntrEntry
  <2>7. \A q \in Proc : q # p /\ pc[q] \in InLock => buf[q] # b
    BY <2>4, <2>5, OneHolder, Zenon
  <2>8. pc'[p] = (IF pc[p] = "rio" THEN "rdone" ELSE "wdone") /\ \A q \in Proc : q # p => pc'[q] = pc[q]
    BY <2>3, <2>4, <2>5, <2>6, <2>7, Zenon DEF Waiting, InLock, Holding, Reading
  <2>9. Types'
    <3>1. pc' \in [Proc -> PC]
      BY <2>6, Zenon DEF AllHold, Types, PC, InLock, Holding, Reading
    <3>2. busy' \in [Buf -> {0, 1}]
      BY <2>6, Zenon DEF AllHold, Types
    <3> QED BY <1>2, <2>1, <2>6, <3>1, <3>2, Zenon DEF AllHold, Types, cache
  <2>10. CacheOK'
    BY <1>2, <2>3, <2>8, CacheSame, Zenon DEF cache, Waiting
  <2>11. LocksOK'
    <3>1. \A q \in Proc : /\ pc'[q] \in InLock <=> pc[q] \in InLock
                          /\ pc'[q] = "lock" => pc[q] = "lock"
                          /\ pc'[q] \in Holding => pc[q] \in Holding
      BY <2>3, <2>8, Zenon DEF InLock, Holding, Reading, Waiting
    <3> QED BY <1>2, <3>1, LocksSame, Zenon DEF cache, AllHold, LocksOK
  <2>12. RequestsOK'
    <3>1. Submitted' = Submitted /\ FreeDesc' = FreeDesc
      BY <1>2, Zenon DEF Submitted, FreeDesc
    <3>2. \A q \in Proc : Mine(q)' = Mine(q)
      BY <1>2, Zenon DEF Mine, Next1, Next2
    <3>3. \A q \in Proc : pc'[q] \in Waiting \cup Woken <=> pc[q] \in Waiting \cup Woken
      BY <2>3, <2>8, Zenon DEF Waiting, Woken
    <3>4. \A q \in Proc : pc'[q] \in {"wio", "wdone"} <=> pc[q] \in {"wio", "wdone"}
      BY <2>3, <2>8, Zenon DEF Waiting
    <3>5. \A q \in Submitted : RequestOf(q)'
      <4> TAKE q \in Submitted
      <4>1. RequestOf(q) /\ q \in Proc
        BY Zenon DEF AllHold, RequestsOK, Submitted
      <4>2. pc'[q] \in {"wio", "wdone"} <=> pc[q] \in {"wio", "wdone"}
        BY <4>1, <3>4, Zenon
      <4>3. Next1(q)' = Next1(q) /\ Next2(q)' = Next2(q)
        BY <1>2, Zenon DEF Next1, Next2
      <4> QED BY <1>2, <3>2, <4>1, <4>2, <4>3, Zenon DEF RequestOf, cache
    <3>6. \A q \in Proc : q # p /\ pc'[q] \in Waiting \cup Woken => pc[q] = pc'[q] /\ buf[q] \in Buf \ {b}
      BY <2>7, <2>8, HasBuf, Zenon DEF Waiting, Woken, InLock, Holding, Reading
    <3>7. \A c \in Buf : busy'[c] = IF c = b THEN 0 ELSE busy[c]
      BY <2>6, Zenon DEF AllHold, Types
    <3>8. pc'[p] \notin Waiting
      BY <2>8, Zenon DEF Waiting
    <3>9. \A q \in Proc : (pc'[q] \in Waiting => busy'[buf'[q]] = 1) /\ (pc'[q] \in Woken => busy'[buf'[q]] = 0)
      <4> TAKE q \in Proc
      <4>1. CASE q = p
        BY <4>1, <1>2, <2>5, <3>7, <3>8, Zenon
      <4>2. CASE q # p
        BY <4>2, <1>2, <3>6, <3>7, Zenon DEF AllHold, RequestsOK
      <4> QED BY <4>1, <4>2, Zenon
    <3>10. \A q \in Submitted : q \in Proc
      BY Zenon DEF Submitted
    <3>11. \A q \in Proc : idx'[q] # None <=> pc'[q] \in Waiting \cup Woken
      BY <1>2, <3>3, Zenon DEF AllHold, RequestsOK
    <3>12. \A q, w \in Submitted : q # w => Mine(q)' \cap Mine(w)' = {}
      BY <3>2, <3>10, Zenon DEF AllHold, RequestsOK
    <3>13. \A d \in Desc : free'[d] = 0 => \E q \in Submitted : d \in Mine(q)'
      <4> SUFFICES ASSUME NEW d \in Desc, free'[d] = 0 PROVE \E q \in Submitted : d \in Mine(q)'
        BY Zenon
      <4>1. PICK q \in Submitted : d \in Mine(q)
        BY <1>2, Zenon DEF AllHold, RequestsOK
      <4> QED BY <4>1, <3>2, <3>10, Zenon
    <3>14. Cardinality(Desc \ FreeDesc') = 3 * Cardinality(Submitted')
      BY <3>1, ZenonT(30) DEF AllHold, RequestsOK
    <3> QED BY <3>1, <3>5, <3>9, <3>11, <3>12, <3>13, <3>14, Zenon DEF RequestsOK
  <2>13. RingsOK'
    <3>1. \A i \in 1..n : i + 1 \in 1..(n + 1) /\ i + 1 # 1
      BY <2>1
    <3>2. \A j \in 1..(n + 1) : j = 1 \/ (j - 1 \in 1..n /\ j = (j - 1) + 1)
      BY <2>1, SMTT(30)
    <3>3. \A j \in DOMAIN used' : used'[j] # id /\ j + 1 \in DOMAIN used /\ used'[j] = used[j + 1]
      BY <2>1, <2>2, <3>1 DEF AllHold, RingsOK
    <3>4. \A d \in Desc : d # id => (Somewhere(d)' <=> Somewhere(d))
      <4> TAKE d \in Desc
      <4>0. HAVE d # id
      <4>1. ASSUME NEW j \in DOMAIN used, used[j] = d PROVE \E i \in DOMAIN used' : used'[i] = d
        <5>1. j - 1 \in 1..n /\ j = (j - 1) + 1
          BY <4>0, <4>1, <2>1, <3>2, Zenon
        <5>2. used'[j - 1] = d
          BY <4>1, <5>1, <2>1, Zenon
        <5> QED BY <5>1, <5>2, <2>1, Zenon
      <4>2. (\E j \in DOMAIN used' : used'[j] = d) <=> (\E j \in DOMAIN used : used[j] = d)
        BY <3>3, <4>1, Zenon
      <4> QED BY <4>2, <1>2, Zenon DEF Somewhere
    <3>5. ~Somewhere(id)'
      <4>1. id \notin inflight /\ \A j \in DOMAIN avail : avail[j] # id
        BY <2>1, <2>2, Zenon DEF AllHold, RingsOK
      <4> QED BY <4>1, <1>2, <3>3, Zenon DEF Somewhere
    <3>6. \A q \in Submitted : q # p => idx[q] # id
      BY <2>3, ZenonT(30) DEF AllHold, RequestsOK, Mine
    <3>7. ~WaitingFor(id)'
      <4>1. ASSUME NEW q \in Proc, pc'[q] \in Waiting, idx[q] = id PROVE FALSE
        <5>1. q \in Submitted
          BY <4>1, <2>1, Names, Zenon DEF Submitted
        <5>2. q = p
          BY <4>1, <5>1, <3>6, Zenon
        <5> QED BY <4>1, <5>2, <2>8, Zenon DEF Waiting
      <4> QED BY <4>1, <1>2, Zenon DEF WaitingFor
    <3>8. \A d \in Desc : d # id => (WaitingFor(d)' <=> WaitingFor(d))
      BY <1>2, <2>3, <2>8, Zenon DEF WaitingFor
    <3>9. \A d \in Desc : WaitingFor(d)' <=> Somewhere(d)'
      BY <3>4, <3>5, <3>7, <3>8, Zenon DEF AllHold, RingsOK
    <3>10. \A i, j \in DOMAIN used' : used'[i] = used'[j] => i = j
      BY <2>1, <3>3, SMTT(30) DEF AllHold, RingsOK
    <3>11. \A i \in DOMAIN used' : used'[i] \notin inflight' /\ \A j \in DOMAIN avail' : avail'[j] # used'[i]
      BY <1>2, <3>3 DEF AllHold, RingsOK
    <3> QED BY <1>2, <3>9, <3>10, <3>11, Zenon DEF AllHold, RingsOK
  <2>14. ContentsOK'
    <3>0. Same(b)
      <4>1. Reported(p)
        BY <1>4, <2>1, <2>2, <2>3, Zenon DEF Reported
      <4> QED BY <4>1, <2>4, <2>5, Zenon DEF AllHold, ContentsOK
    <3>1. \A c \in Buf : c # b /\ Dirty(c) => Dirty(c)'
      BY <1>2, <2>5, <2>8, ZenonT(30) DEF Dirty, Users, cache
    <3>2. \A q \in Proc : Reported(q)' => q = p \/ Reported(q)
      <4> SUFFICES ASSUME NEW q \in Proc, Reported(q)', q # p PROVE Reported(q)
        BY Zenon
      <4>1. \A j \in DOMAIN used' : j + 1 \in DOMAIN used /\ used'[j] = used[j + 1]
        BY <2>1, SMTT(30)
      <4> QED BY <4>1, <1>2, <2>8, Zenon DEF Reported
    <3>3. \A q \in Proc : pc'[q] = "written" => pc[q] = "written"
      BY <2>8, Zenon
    <3>4. \A q \in Proc : pc'[q] \in Reading => pc[q] \in Reading
      BY <2>3, <2>8, Zenon DEF Reading, Waiting
    <3> QED BY <1>2, <2>5, <3>0, <3>1, <3>2, <3>3, <3>4, Zenon DEF AllHold, ContentsOK, Same, cache
  <2>15. DescWait'
    <3>1. FreeDesc' = FreeDesc
      BY <1>2, Zenon DEF FreeDesc
    <3> QED BY <2>8, <3>1, Zenon DEF AllHold, DescWait
  <2> QED BY <2>9, <2>10, <2>11, <2>12, <2>13, <2>14, <2>15, Zenon DEF IInv, AllHold
<1> QED BY <1>3, <1>4, Zenon
=============================================================================
