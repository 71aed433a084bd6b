------------------------------ MODULE BlockIO -------------------------------
(***************************************************************************)
(* The buffer cache (kernel/bio.c, with kernel/sleeplock.c) over the disk  *)
(* driver (kernel/virtio_disk.c) and the device.                           *)
(*                                                                         *)
(* bcache.lock, a sleep lock's own spinlock and vdisk_lock each cover one  *)
(* step; virtio_disk_intr() is cut at each pass of its loop, because the   *)
(* device does not take the lock.  A descriptor's addr is what it points   *)
(* to: the command header of ops[], the buffer, the head whose status      *)
(* byte the device writes.  A request has three of the NUM descriptors, so *)
(* the rings of NUM entries never fill; they are the queues of what the    *)
(* other side has not looked at.                                           *)
(***************************************************************************)
EXTENDS Integers, Sequences, FiniteSets, FiniteSetsExt

CONSTANTS
  Proc, Block, Val,
  NBUF,   \* buffers
  NUM,    \* descriptors
  None

ASSUME BlockIOAssumption ==
  /\ NBUF \in Nat \ {0} /\ NUM \in Nat /\ NUM >= 3 /\ IsFiniteSet(Proc)
  /\ None \notin Proc \cup Block \cup Val \cup (0..(NUM + NBUF))

Buf == 1..NBUF
Desc == 0..(NUM - 1)

VARIABLES
  \* the cache
  blockno, valid, refcnt, data,
  lru,        \* the list, most recently used first
  locked,     \* the holder of each buffer's sleep lock
  pins,       \* (history) references of bpin()
  \* the driver
  free, desc, info,
  busy,       \* b->disk
  avail,      \* ring entries the device has not seen, up to avail->idx
  used,       \* ring entries from used_idx up to used->idx
  intr,       \* virtio_disk_intr() has vdisk_lock: 1 in its loop, 2 after it
  \* the device
  disk,
  inflight,   \* heads it is working on, in any order
  irq,        \* the interrupt it has raised
  \* the processes
  pc, buf, idx,
  panicked

cache == <<blockno, valid, refcnt, lru, pins>>
driver == <<free, desc, info, busy, avail>>
device == <<disk, inflight, used>>
vars == <<cache, data, locked, driver, device, intr, irq, pc, buf, idx, panicked>>

\* pc: "out": holds nothing; "get": has a reference, in acquiresleep(); "lock":
\* asleep there; "read", "write": in virtio_disk_rw(); "rdesc", "wdesc": asleep
\* for descriptors; "rio", "wio": asleep for the device; "rdone", "wdone": woken;
\* "held": bread() has returned; "changed": the content differs and is neither
\* logged nor written yet; "written": bwrite() has returned; "rel": in brelse()
\* after releasesleep().

SetPc(p, l) == pc' = [pc EXCEPT ![p] = l]
FreeDesc == {d \in Desc : free[d] = 1}
NoDesc == [addr |-> None, next |-> None]
NoInfo == [b |-> None, status |-> 1]

Init ==
  /\ blockno = [b \in Buf |-> None] /\ valid = [b \in Buf |-> 0]
  /\ refcnt = [b \in Buf |-> 0] /\ pins = [b \in Buf |-> 0]
  /\ lru = [j \in Buf |-> NBUF + 1 - j]
  /\ locked = [b \in Buf |-> None] /\ busy = [b \in Buf |-> 0]
  /\ disk \in [Block -> Val]
  /\ \E v \in Val : data = [b \in Buf |-> v]
  /\ free = [d \in Desc |-> 1] /\ desc = [d \in Desc |-> NoDesc]
  /\ info = [d \in Desc |-> NoInfo]
  /\ avail = <<>> /\ used = <<>> /\ inflight = {} /\ irq = 0 /\ intr = 0
  /\ pc = [p \in Proc |-> "out"] /\ buf = [p \in Proc |-> None]
  /\ idx = [p \in Proc |-> None]
  /\ panicked = 0

-----------------------------------------------------------------------------
(* bget(), brelse(), bpin(), bunpin() *)

Cached(k) == {b \in Buf : blockno[b] = k}
(* Mutant: a buffer with references is recycled.                           *)
RecyclableAny == {j \in Buf : locked[lru[j]] = None}
(* Positions of the list that bget() may recycle.                          *)
Recyclable == {j \in Buf : refcnt[lru[j]] = 0}

BgetHit(p, k) ==
  /\ pc[p] = "out"
  /\ \E b \in Cached(k) :
       /\ refcnt' = [refcnt EXCEPT ![b] = @ + 1]
       /\ buf' = [buf EXCEPT ![p] = b]
  /\ SetPc(p, "get")
  /\ UNCHANGED <<blockno, valid, lru, pins, data, locked, driver, device, intr, irq,
                 idx, panicked>>

BgetMiss(p, k) ==
  /\ pc[p] = "out" /\ Cached(k) = {}
  /\ Recyclable # {}
  /\ LET b == lru[Max(Recyclable)] IN
       /\ blockno' = [blockno EXCEPT ![b] = k]
       /\ valid' = [valid EXCEPT ![b] = 0]
       /\ refcnt' = [refcnt EXCEPT ![b] = 1]
       /\ buf' = [buf EXCEPT ![p] = b]
  /\ SetPc(p, "get")
  /\ UNCHANGED <<lru, pins, data, locked, driver, device, intr, irq, idx, panicked>>

BgetNone(p, k) ==
  /\ pc[p] = "out" /\ Cached(k) = {} /\ Recyclable = {}
  /\ panicked' = 1
  /\ UNCHANGED <<cache, data, locked, driver, device, intr, irq, pc, buf, idx>>

(* acquiresleep(), then the test of b->valid in bread().                   *)
Acquiresleep(p) ==
  /\ pc[p] = "get"
  /\ IF locked[buf[p]] # None
     THEN SetPc(p, "lock") /\ UNCHANGED locked
     ELSE /\ locked' = [locked EXCEPT ![buf[p]] = p]
          /\ SetPc(p, IF valid[buf[p]] = 1 THEN "held" ELSE "read")
  /\ UNCHANGED <<cache, data, driver, device, intr, irq, buf, idx, panicked>>

(* The caller changes the content, and logs or writes the block before it  *)
(* releases it, as bzero() does.  This is an assumption about the callers: *)
(* writei() releases a block whose copy from user memory failed halfway    *)
(* without log_write(), and such a change is lost when the buffer is       *)
(* recycled.                                                               *)
Change(p, v) ==
  /\ pc[p] = "held" /\ v # data[buf[p]]
  /\ data' = [data EXCEPT ![buf[p]] = v]
  /\ SetPc(p, "changed")
  /\ UNCHANGED <<cache, locked, driver, device, intr, irq, buf, idx, panicked>>

(* log_write() calls bpin() unless the block is in the log already.        *)
NewPin(b) == 1 - pins[b]

Bpin(p) ==
  /\ pc[p] = "changed"
  /\ LET b == buf[p] IN
       /\ refcnt' = [refcnt EXCEPT ![b] = @ + NewPin(b)]
       /\ pins' = [pins EXCEPT ![b] = @ + NewPin(b)]
  /\ SetPc(p, "held")
  /\ UNCHANGED <<blockno, valid, lru, data, locked, driver, device, intr, irq, buf, idx,
                 panicked>>

Bwrite(p) ==
  /\ pc[p] \in {"held", "changed"}
  /\ SetPc(p, "write")
  /\ UNCHANGED <<cache, data, locked, driver, device, intr, irq, buf, idx, panicked>>

(* install_trans() unpins a buffer it has written.                         *)
Bunpin(p) ==
  /\ pc[p] = "written"
  /\ LET b == buf[p] IN
       /\ refcnt' = [refcnt EXCEPT ![b] = @ - pins[b]]
       /\ pins' = [pins EXCEPT ![b] = 0]
  /\ SetPc(p, "held")
  /\ UNCHANGED <<blockno, valid, lru, data, locked, driver, device, intr, irq, buf, idx,
                 panicked>>

Releasesleep(p) ==
  /\ pc[p] = "held"
  /\ locked' = [locked EXCEPT ![buf[p]] = None]
  /\ pc' = [q \in Proc |-> CASE q = p -> "rel"
                             [] pc[q] = "lock" /\ buf[q] = buf[p] -> "get"
                             [] OTHER -> pc[q]]
  /\ UNCHANGED <<cache, data, driver, device, intr, irq, buf, idx, panicked>>

Drop(b) == [refcnt EXCEPT ![b] = @ - 1]

(* The list with b taken out and put in front.                             *)
MoveToFront(b) ==
  LET at == CHOOSE j \in Buf : lru[j] = b IN
  [j \in Buf |-> IF j = 1 THEN b ELSE IF j <= at THEN lru[j - 1] ELSE lru[j]]

Brelse(p) ==
  /\ pc[p] = "rel"
  /\ LET b == buf[p] IN
       /\ refcnt' = Drop(b)
       /\ lru' = IF refcnt'[b] = 0 THEN MoveToFront(b) ELSE lru
  /\ SetPc(p, "out")
  /\ buf' = [buf EXCEPT ![p] = None]
  /\ UNCHANGED <<blockno, valid, pins, data, locked, driver, device, intr, irq, idx,
                 panicked>>

-----------------------------------------------------------------------------
(* virtio_disk_rw() *)

(* Mutant: free_desc() wakes nobody.                                       *)
WakeDescNot(f) == f
(* wakeup(&disk.free[0])                                                   *)
WakeDesc(f) == [q \in Proc |-> CASE f[q] = "rdesc" -> "read"
                                 [] f[q] = "wdesc" -> "write"
                                 [] OTHER -> f[q]]

(* alloc3_desc() fails: what it took it frees again, with a wakeup for     *)
(* the others that wait, and the process sleeps.                           *)
RwSleep(p) ==
  /\ pc[p] \in {"read", "write"} /\ intr = 0
  /\ Cardinality(FreeDesc) < 3
  /\ pc' = [(IF FreeDesc # {} THEN WakeDesc(pc) ELSE pc)
              EXCEPT ![p] = IF pc[p] = "read" THEN "rdesc" ELSE "wdesc"]
  /\ UNCHANGED <<cache, data, locked, driver, device, intr, irq, buf, idx, panicked>>

(* The chain is filled in and given to the device; the process sleeps on b. *)
RwSubmit(p) ==
  /\ pc[p] \in {"read", "write"} /\ intr = 0
  /\ Cardinality(FreeDesc) >= 3
  /\ LET b == buf[p]
         d0 == Min(FreeDesc)
         d1 == Min(FreeDesc \ {d0})
         d2 == Min(FreeDesc \ {d0, d1})
     IN  /\ free' = [free EXCEPT ![d0] = 0, ![d1] = 0, ![d2] = 0]
         /\ desc' = [desc EXCEPT ![d0] = [addr |-> [write |-> pc[p] = "write", sector |-> blockno[b]],
                                         next |-> d1],
                                 ![d1] = [addr |-> b, next |-> d2],
                                 ![d2] = [addr |-> d0, next |-> None]]
         /\ info' = [info EXCEPT ![d0] = [b |-> b, status |-> 1]]
         /\ busy' = [busy EXCEPT ![b] = 1]
         /\ avail' = Append(avail, d0)
         /\ idx' = [idx EXCEPT ![p] = d0]
  /\ SetPc(p, IF pc[p] = "read" THEN "rio" ELSE "wio")
  /\ UNCHANGED <<cache, data, locked, device, intr, irq, buf, panicked>>

(* Mutant: free_chain() stops one descriptor early.                        *)
ChainShort(h) == {h, desc[h].next}
(* The descriptors free_chain() follows.                                   *)
Chain(h) == {h, desc[h].next, desc[desc[h].next].next}

(* The woken process frees the chain and returns: bread() sets b->valid.   *)
RwDone(p) ==
  /\ pc[p] \in {"rdone", "wdone"} /\ intr = 0
  /\ LET b == buf[p]
         C == Chain(idx[p])
     IN  IF busy[b] = 1
         THEN /\ SetPc(p, IF pc[p] = "rdone" THEN "rio" ELSE "wio")
              /\ UNCHANGED <<valid, info, desc, free, idx, panicked>>
         ELSE /\ info' = [info EXCEPT ![idx[p]].b = None]
              /\ desc' = [d \in Desc |-> IF d \in C THEN NoDesc ELSE desc[d]]
              /\ free' = [d \in Desc |-> IF d \in C THEN 1 ELSE free[d]]
              /\ panicked' = IF C \cap FreeDesc # {} THEN 1 ELSE 0
              /\ pc' = [WakeDesc(pc) EXCEPT ![p] = IF pc[p] = "rdone" THEN "held" ELSE "written"]
              /\ valid' = IF pc[p] = "rdone" THEN [valid EXCEPT ![b] = 1] ELSE valid
              /\ idx' = [idx EXCEPT ![p] = None]
  /\ UNCHANGED <<blockno, refcnt, lru, pins, data, locked, busy, avail,
                 device, intr, irq, buf>>

-----------------------------------------------------------------------------
(* The device (external) and virtio_disk_intr() *)

DevFetch ==
  /\ avail # <<>>
  /\ inflight' = inflight \cup {Head(avail)}
  /\ avail' = Tail(avail)
  /\ UNCHANGED <<cache, data, locked, free, desc, info, busy, disk, used, intr, irq, pc, buf, idx, panicked>>

(* A request is carried out (status 0) or fails (status 1).                *)
DevDone(h, status) ==
  /\ h \in inflight
  /\ LET b == desc[desc[h].next].addr
         op == desc[h].addr
     IN  /\ disk' = IF op.write /\ status = 0 THEN [disk EXCEPT ![op.sector] = data[b]] ELSE disk
         /\ data' = IF ~op.write /\ status = 0 THEN [data EXCEPT ![b] = disk[op.sector]] ELSE data
  /\ info' = [info EXCEPT ![h].status = status]
  /\ inflight' = inflight \ {h}
  /\ used' = Append(used, h)
  /\ irq' = 1
  /\ UNCHANGED <<cache, locked, free, desc, busy, avail, intr, pc, buf,
                 idx, panicked>>

(* The interrupt is acknowledged before the loop.                          *)
IntrAck ==
  /\ irq = 1 /\ intr = 0
  /\ irq' = 0 /\ intr' = 1
  /\ UNCHANGED <<cache, data, locked, driver, device, pc, buf, idx, panicked>>

IntrEntry ==
  /\ intr = 1 /\ used # <<>>
  /\ LET id == Head(used)
         b == info[id].b
     IN  IF info[id].status # 0
         THEN panicked' = 1 /\ UNCHANGED <<busy, used, pc>>
         ELSE /\ busy' = [busy EXCEPT ![b] = 0]
              /\ pc' = [q \in Proc |-> CASE pc[q] = "rio" /\ buf[q] = b -> "rdone"
                                         [] pc[q] = "wio" /\ buf[q] = b -> "wdone"
                                         [] OTHER -> pc[q]]
              /\ used' = Tail(used)
              /\ UNCHANGED panicked
  /\ UNCHANGED <<cache, data, locked, free, desc, info, avail, disk, inflight, intr, irq,
                 buf, idx>>

IntrLoopEnds ==
  /\ intr = 1 /\ used = <<>>
  /\ intr' = 2
  /\ UNCHANGED <<cache, data, locked, driver, device, irq, pc, buf, idx, panicked>>

(* Mutant: the interrupt is acknowledged after the loop.                   *)
IrqAfterAcked == 0
IrqAfter == irq

IntrReturn ==
  /\ intr = 2
  /\ intr' = 0 /\ irq' = IrqAfter
  /\ UNCHANGED <<cache, data, locked, driver, device, pc, buf, idx, panicked>>

-----------------------------------------------------------------------------
CacheStep(p) ==
  \/ \E k \in Block : BgetHit(p, k) \/ BgetMiss(p, k) \/ BgetNone(p, k)
  \/ Acquiresleep(p) \/ \E v \in Val : Change(p, v)
  \/ Bpin(p) \/ Bwrite(p) \/ Bunpin(p) \/ Releasesleep(p) \/ Brelse(p)
RwStep(p) == RwSleep(p) \/ RwSubmit(p) \/ RwDone(p)
DevStep == DevFetch \/ \E h \in Desc, status \in {0, 1} : DevDone(h, status)
IntrStep == IntrAck \/ IntrEntry \/ IntrLoopEnds \/ IntrReturn

Next ==
  \/ panicked = 0 /\ (DevStep \/ IntrStep \/ \E p \in Proc : CacheStep(p) \/ RwStep(p))
  \/ panicked = 1 /\ UNCHANGED vars
Spec == Init /\ [][Next]_vars

-----------------------------------------------------------------------------
Holding == {"held", "changed", "written", "write", "wdesc", "wio", "wdone"}
Reading == {"read", "rdesc", "rio", "rdone"}

(* Each request that is submitted has three descriptors of its own, all    *)
(* others are free, and while the device works it finds there the buffer   *)
(* that waits for it, still with the block that was asked for.             *)
DescOwned ==
  LET Sub == {p \in Proc : idx[p] # None} IN
  panicked = 0 =>
    /\ Desc \ FreeDesc = UNION {Chain(idx[p]) : p \in Sub}
    /\ Cardinality(Desc \ FreeDesc) = 3 * Cardinality(Sub)
    /\ \A p \in Sub : /\ desc[desc[idx[p]].next].addr = buf[p]
                       /\ desc[idx[p]].addr.sector = blockno[buf[p]]
    /\ inflight \subseteq {idx[p] : p \in {q \in Sub : busy[buf[q]] = 1}}

(* Nobody sleeps for a lock that is free or for descriptors that are there. *)
NoLostWakeup ==
  \A p \in Proc :
    /\ pc[p] = "lock" => locked[buf[p]] # None
    /\ pc[p] \in {"rdesc", "wdesc"} => Cardinality(FreeDesc) < 3

(* Who sleeps for the device has its request in one place: not yet seen by *)
(* the device, being worked on, or in the used ring, and then an interrupt *)
(* is raised or being handled.  A completion that races with the loop of   *)
(* virtio_disk_intr() is not forgotten.                                    *)
NoLostRequest ==
  /\ \A p \in Proc : pc[p] \in {"rio", "wio"} =>
       Cardinality({j \in DOMAIN avail : avail[j] = idx[p]})
       + Cardinality({j \in DOMAIN used : used[j] = idx[p]})
       + Cardinality(inflight \cap {idx[p]}) = 1
  /\ used # <<>> => irq = 1 \/ intr = 1

(* The cache implements Blocks: bread() returns what was last written to   *)
(* the block's buffer, though buffers are recycled and the device moves    *)
(* the data, and one process at a time has it.                             *)
View(k) == IF \E b \in Cached(k) : valid[b] = 1 THEN data[CHOOSE b \in Cached(k) : valid[b] = 1]
           ELSE disk[k]
Holder(k) == {p \in Proc : pc[p] \in Holding /\ blockno[buf[p]] = k}
HolderOf(k) == IF Holder(k) = {} THEN None ELSE CHOOSE p \in Holder(k) : TRUE
Cur == [k \in Block |-> View(k)]
Held == [k \in Block |-> HolderOf(k)]
B == INSTANCE Blocks WITH cur <- Cur, held <- Held
CachesBlocks == B!Spec
=============================================================================
