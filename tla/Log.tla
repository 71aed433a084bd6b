-------------------------------- MODULE Log ---------------------------------
(***************************************************************************)
(* The write-ahead redo log of kernel/log.c, with the part of the buffer   *)
(* cache (kernel/bio.c) it depends on, crashes and recovery.               *)
(*                                                                         *)
(* log.lock is held for the whole of each critical section below and no    *)
(* section sleeps with it, so a section is one step.  commit() runs        *)
(* without the lock: each iteration of its loops, and each write of the    *)
(* header block, is a step of its own, and a crash may fall between any    *)
(* two.  The disk writes one block atomically (external).  A block's       *)
(* content is an element of Val.                                           *)
(***************************************************************************)
EXTENDS Integers, Sequences, FiniteSets

CONSTANTS
  Proc,         \* processes making file-system calls
  Block,        \* home blocks of the file system
  Val,          \* block contents
  NoBuf,        \* no cached content; no buffer locked
  MAXOPBLOCKS,  \* log space begin_op() reserves for one call
  OPBLOCKS,     \* different blocks one call really logs, at most
  LOGSIZE,      \* capacity of the header's block[] array
  NLOG          \* sb.nlog: blocks of the on-disk log, header included

ASSUME NoBufAssumption == NoBuf \notin Val \cup Block
ASSUME ProcAssumption == IsFiniteSet(Proc)
ASSUME SizeAssumption ==
  /\ MAXOPBLOCKS \in Nat \ {0}
  /\ LOGSIZE \in Nat /\ MAXOPBLOCKS <= LOGSIZE
  /\ OPBLOCKS \in Nat /\ OPBLOCKS <= MAXOPBLOCKS
  /\ NLOG \in Nat

VARIABLES
  disk,         \* durable: home blocks
  logblk,       \* durable: data blocks of the on-disk log
  head,         \* durable: header block, block[0..n-1] as a sequence
  cache,        \* buffer contents, NoBuf where the block is not cached
  pins,         \* references that bpin() added to each buffer
  lh,           \* log.lh: block numbers logged so far
  outstanding,  \* log.outstanding
  committing,   \* log.committing
  phase,        \* where commit() or recover_from_log() is
  tail,         \* the loop variable of write_log() and install_trans()
  pc,           \* where each process is in its system call
  buf,          \* the block whose buffer the process has locked, if any
  wrote         \* blocks logged by the process's current call

durable == <<disk, logblk, head>>
logvars == <<lh, outstanding, committing>>
vars == <<disk, logblk, head, cache, pins, lh, outstanding, committing,
          phase, tail, pc, buf, wrote>>

RecoveryPhase == {"read_head", "recover", "recover_clear"}
CommitPhase == {"write_log", "write_head", "install", "clear", "finish"}
\* "panic": panic() was called and the kernel has stopped.
Phase == {"normal", "panic"} \cup RecoveryPhase \cup CommitPhase
\* "out": outside any call; "asleep", "woken": in begin_op()'s loop; "in":
\* between begin_op() and end_op(); "locked": also holds a buffer; "commit":
\* inside commit(), called from end_op().
PC == {"out", "asleep", "woken", "in", "locked", "commit"}

Panicked == phase = "panic"
InOp(p) == pc[p] \in {"in", "locked"}
Logged == {lh[i] : i \in DOMAIN lh}
Held(b) == \E p \in Proc : buf[p] = b
SetPc(p, l) == pc' = [pc EXCEPT ![p] = l]
(* Mutant: the wakeup is left out.                                         *)
WakeupLost(f) == f
(* wakeup(&log): every process sleeping on the log becomes runnable.       *)
Wakeup(f) == [p \in Proc |-> IF f[p] = "asleep" THEN "woken" ELSE f[p]]

(* What bread(b) finds in the buffer: the cached content, or the disk's.   *)
View(b) == IF cache[b] = NoBuf THEN disk[b] ELSE cache[b]

-----------------------------------------------------------------------------
(* Power-on: mkfs left an empty log; memory is clear.                      *)
Init ==
  /\ disk \in [Block -> Val]
  /\ logblk \in [1..LOGSIZE -> Val]
  /\ head = <<>>
  /\ cache = [b \in Block |-> NoBuf]
  /\ pins = [b \in Block |-> 0]
  /\ lh = <<>>
  /\ outstanding = 0
  /\ committing = 0
  /\ phase = "read_head"
  /\ tail = 0
  /\ pc = [p \in Proc |-> "out"]
  /\ buf = [p \in Proc |-> NoBuf]
  /\ wrote = [p \in Proc |-> {}]

(* begin_op()'s test: would one more call possibly exhaust the log?        *)
NoSpace == Len(lh) + (outstanding + 1) * MAXOPBLOCKS > LOGSIZE

MustWait == committing = 1 \/ NoSpace

(* begin_op(): one pass of the loop, atomic under log.lock.                *)
BeginOp(p) ==
  /\ phase \notin RecoveryPhase
  /\ pc[p] \in {"out", "woken"}
  /\ IF MustWait
     THEN SetPc(p, "asleep") /\ UNCHANGED outstanding
     ELSE /\ SetPc(p, "in")
          /\ outstanding' = outstanding + 1
  /\ UNCHANGED <<durable, cache, pins, lh, committing, phase, tail, buf, wrote>>

(* bread() inside a call: lock the buffer, reading it in if needed.        *)
Bread(p, b) ==
  /\ pc[p] = "in"
  /\ ~Held(b)
  /\ SetPc(p, "locked")
  /\ buf' = [buf EXCEPT ![p] = b]
  /\ cache' = [cache EXCEPT ![b] = View(b)]
  /\ UNCHANGED <<durable, pins, logvars, phase, tail, wrote>>

(* A call logs at most OPBLOCKS different blocks: its callers' promise     *)
(* (param.h, MAXOPBLOCKS: "max # of blocks any FS op writes").             *)
WithinBudget(p) == Cardinality(wrote[p] \cup {buf[p]}) <= OPBLOCKS

TooBig == Len(lh) >= LOGSIZE \/ Len(lh) >= NLOG - 1

(* Log absorption: is the block already in the transaction?                *)
Absorbed(b) == b \in Logged

(* The caller's change of b->data and log_write(b): absorb a block that is *)
(* already in the transaction, else pin its buffer and append it.          *)
LogWrite(p, v) ==
  /\ pc[p] = "locked"
  /\ WithinBudget(p)
  /\ LET b == buf[p] IN
     /\ cache' = [cache EXCEPT ![b] = v]
     /\ wrote' = [wrote EXCEPT ![p] = @ \cup {b}]
     /\ IF TooBig \/ outstanding < 1
        THEN phase' = "panic" /\ UNCHANGED <<lh, pins>>
        ELSE /\ UNCHANGED phase
             /\ IF Absorbed(b)
                THEN UNCHANGED <<lh, pins>>
                ELSE /\ lh' = Append(lh, b)
                     /\ pins' = [pins EXCEPT ![b] = @ + 1]
  /\ UNCHANGED <<durable, outstanding, committing, tail, pc, buf>>

Brelse(p) ==
  /\ pc[p] = "locked"
  /\ SetPc(p, "in")
  /\ buf' = [buf EXCEPT ![p] = NoBuf]
  /\ UNCHANGED <<durable, cache, pins, logvars, phase, tail, wrote>>

(* Mutant: write_log() is not called.                                      *)
CommitStartUnlogged == IF lh = <<>> THEN "finish" ELSE "write_head"
(* commit() does nothing for an empty transaction.                         *)
CommitStart == IF lh = <<>> THEN "finish" ELSE "write_log"

(* end_op() up to its first release: the last call out starts the commit.  *)
EndOp(p) ==
  /\ pc[p] = "in"
  /\ outstanding' = outstanding - 1
  /\ wrote' = [wrote EXCEPT ![p] = {}]
  /\ IF committing = 1
     THEN phase' = "panic" /\ UNCHANGED <<committing, pc>>
     ELSE IF outstanding = 1
     THEN /\ committing' = 1
          /\ SetPc(p, "commit")
          /\ phase' = CommitStart
     ELSE /\ pc' = [Wakeup(pc) EXCEPT ![p] = "out"]
          /\ UNCHANGED <<committing, phase>>
  /\ UNCHANGED <<durable, cache, pins, lh, tail, buf>>

-----------------------------------------------------------------------------
(* commit(), one step per block write; a reader never holds a buffer       *)
(* across steps, so the buffers' sleep locks do not delay it.              *)

(* write_log(): copy the next modified block from the cache to the log.    *)
WriteLog ==
  /\ phase = "write_log"
  /\ logblk' = [logblk EXCEPT ![tail + 1] = View(lh[tail + 1])]
  /\ cache' = [cache EXCEPT ![lh[tail + 1]] = View(lh[tail + 1])]
  /\ IF tail + 1 = Len(lh)
     THEN phase' = "write_head" /\ tail' = 0
     ELSE UNCHANGED phase /\ tail' = tail + 1
  /\ UNCHANGED <<disk, head, pins, logvars, pc, buf, wrote>>

(* write_head() with n > 0: the commit point.                              *)
WriteHead ==
  /\ phase = "write_head"
  /\ head' = lh
  /\ phase' = "install"
  /\ UNCHANGED <<disk, logblk, cache, pins, logvars, tail, pc, buf, wrote>>

(* One iteration of install_trans(): log block to home block, and unpin    *)
(* unless recovering.                                                      *)
InstallTrans(recovering) ==
  LET b == lh[tail + 1] IN
  /\ cache' = [cache EXCEPT ![b] = logblk[tail + 1]]
  /\ disk' = [disk EXCEPT ![b] = logblk[tail + 1]]
  /\ pins' = IF recovering THEN pins ELSE [pins EXCEPT ![b] = @ - 1]
  /\ tail' = tail + 1
  /\ UNCHANGED <<logblk, head, logvars, pc, buf, wrote>>

Install ==
  /\ phase = "install"
  /\ InstallTrans(FALSE)
  /\ phase' = IF tail + 1 = Len(lh) THEN "clear" ELSE phase

(* Mutant: the header is cleared in memory only.                           *)
ClearHeadInMemory ==
  /\ lh' = <<>>
  /\ tail' = 0
  /\ UNCHANGED <<durable, cache, pins, outstanding, committing,
                 pc, buf, wrote>>

(* log.lh.n = 0; write_head(): erase the transaction.                      *)
ClearHead ==
  /\ lh' = <<>>
  /\ head' = <<>>
  /\ tail' = 0
  /\ UNCHANGED <<disk, logblk, cache, pins, outstanding, committing,
                 pc, buf, wrote>>

Clear ==
  /\ phase = "clear"
  /\ ClearHead
  /\ phase' = "finish"

(* The tail of end_op(): committing = 0, wakeup(&log).                     *)
Finish(p) ==
  /\ phase = "finish"
  /\ pc[p] = "commit"
  /\ committing' = 0
  /\ phase' = "normal"
  /\ pc' = [Wakeup(pc) EXCEPT ![p] = "out"]
  /\ UNCHANGED <<durable, cache, pins, lh, outstanding, tail, buf, wrote>>

-----------------------------------------------------------------------------
(* The rest of the buffer cache: a read outside any call fills a buffer,   *)
(* and bget() recycles a buffer nobody refers to.                          *)
Read(b) ==
  /\ phase \notin RecoveryPhase
  /\ cache[b] = NoBuf
  /\ cache' = [cache EXCEPT ![b] = View(b)]
  /\ UNCHANGED <<durable, pins, logvars, phase, tail, pc, buf, wrote>>

Recycle(b) ==
  /\ cache[b] # NoBuf
  /\ pins[b] = 0
  /\ ~Held(b)
  /\ cache' = [cache EXCEPT ![b] = NoBuf]
  /\ UNCHANGED <<durable, pins, logvars, phase, tail, pc, buf, wrote>>

-----------------------------------------------------------------------------
(* Power failure at any moment: memory is lost, the disk stays.            *)
Crash ==
  /\ cache' = [b \in Block |-> NoBuf]
  /\ pins' = [b \in Block |-> 0]
  /\ lh' = <<>>
  /\ outstanding' = 0
  /\ committing' = 0
  /\ phase' = "read_head"
  /\ tail' = 0
  /\ pc' = [p \in Proc |-> "out"]
  /\ wrote' = [p \in Proc |-> {}]
  /\ buf' = [p \in Proc |-> NoBuf]
  /\ UNCHANGED durable

(* recover_from_log(), before any process runs: read_head(), then          *)
(* install_trans(1), then the cleared header.                              *)
ReadHead ==
  /\ phase = "read_head"
  /\ lh' = head
  /\ phase' = IF head = <<>> THEN "recover_clear" ELSE "recover"
  /\ UNCHANGED <<durable, cache, pins, outstanding, committing, tail, pc,
                 buf, wrote>>

Recover ==
  /\ phase = "recover"
  /\ InstallTrans(TRUE)
  /\ phase' = IF tail + 1 = Len(lh) THEN "recover_clear" ELSE phase

RecoverClear ==
  /\ phase = "recover_clear"
  /\ ClearHead
  /\ phase' = "normal"

-----------------------------------------------------------------------------
OpStep(p) ==
  \/ BeginOp(p)
  \/ \E b \in Block : Bread(p, b)
  \/ \E v \in Val : LogWrite(p, v)
  \/ Brelse(p)
  \/ EndOp(p)

CommitStep == WriteLog \/ WriteHead \/ Install \/ Clear \/ \E p \in Proc : Finish(p)
RecoveryStep == ReadHead \/ Recover \/ RecoverClear
CacheStep == \E b \in Block : Read(b) \/ Recycle(b)

(* A panicked kernel stops: only a power cycle follows.                    *)
Next ==
  \/ ~Panicked /\ \/ \E p \in Proc : OpStep(p)
                   \/ CommitStep
                   \/ RecoveryStep
                   \/ CacheStep
  \/ Crash

Spec == Init /\ [][Next]_vars

-----------------------------------------------------------------------------
(* Types of the state: struct log, the header block, the buffers.          *)
TypeOK ==
  /\ disk \in [Block -> Val]
  /\ logblk \in [1..LOGSIZE -> Val]
  /\ head \in Seq(Block) /\ Len(head) <= LOGSIZE
  /\ cache \in [Block -> Val \cup {NoBuf}]
  /\ pins \in [Block -> Nat]
  /\ lh \in Seq(Block) /\ Len(lh) <= LOGSIZE
  /\ outstanding \in 0..Cardinality(Proc)
  /\ committing \in {0, 1}
  /\ phase \in Phase
  /\ tail \in 0..LOGSIZE
  /\ pc \in [Proc -> PC]
  /\ buf \in [Proc -> Block \cup {NoBuf}]
  /\ wrote \in [Proc -> SUBSET Block]

(* What log_write()'s size test takes away of LOGSIZE: one block, since    *)
(* mkfs makes the on-disk log LOGSIZE blocks with the header.              *)
Lacking == IF NLOG - 1 < LOGSIZE THEN LOGSIZE - (NLOG - 1) ELSE 0

(* The only panic of log.c is "too big a transaction" (not "log_write      *)
(* outside of trans" nor "log.committing"), and by then every call in      *)
(* progress has spent its reservation but for Lacking blocks: a call never *)
(* pays for what another one takes.                                        *)
PanicsOnlySpent ==
  [][~Panicked /\ Panicked' =>
       /\ TooBig /\ outstanding > 0 /\ committing = 0
       /\ \A p \in Proc : InOp(p) => Cardinality(wrote[p]) + Lacking >= MAXOPBLOCKS]_vars

(* A commit runs alone: while commit() works without log.lock no call is   *)
(* in progress, "thus there is never any reasoning required about whether  *)
(* a commit might write an uncommitted system call's updates to disk".     *)
CommitAlone ==
  phase \in CommitPhase => /\ committing = 1
                           /\ \A p \in Proc : ~InOp(p)

(* No lost wakeup: a process asleep in begin_op() still has its reason to  *)
(* wait, and someone (a commit or a call in progress) will wake it.        *)
NoLostWakeup ==
  \A p \in Proc : pc[p] = "asleep" =>
    \/ committing = 1
    \/ NoSpace /\ outstanding > 0

(* Pinning is exact: a buffer carries one pin from the moment its block    *)
(* enters the transaction until install_trans() has written it home, so it *)
(* is never recycled with its only copy and never stays pinned.            *)
Uninstalled ==
  IF phase \in RecoveryPhase THEN {}
  ELSE {lh[i] : i \in {j \in DOMAIN lh :
                        phase \in {"install", "clear"} => j > tail}}

PinExact ==
  \A b \in Block : /\ pins[b] = IF b \in Uninstalled THEN 1 ELSE 0
                   /\ b \in Uninstalled => cache[b] # NoBuf

(* When no call is in progress and no commit runs, everything written is   *)
(* home: the log is empty and each buffer agrees with the disk.  So a call *)
(* whose end_op() committed is durable when end_op() returns.              *)
QuiescentIsDurable ==
  phase = "normal" /\ outstanding = 0 =>
    /\ lh = <<>> /\ head = <<>>
    /\ \A b \in Block : View(b) = disk[b]

(* The disk as recover_from_log() will leave it after a crash now: the     *)
(* home blocks overwritten by the blocks of the header, in order.          *)
Recovered ==
  [b \in Block |->
     LET at == {i \in DOMAIN head : head[i] = b}
     IN  IF at = {} THEN disk[b]
         ELSE logblk[CHOOSE i \in at : \A j \in at : j <= i]]

(* What a reader sees, and the calls in progress.                          *)
Current == IF phase \in RecoveryPhase THEN Recovered ELSE [b \in Block |-> View(b)]
Active == {p \in Proc : InOp(p)}

(* Crash atomicity: through the mapping below every step of the log is a   *)
(* step of the atomic disk or invisible to it; only the write of the       *)
(* header changes what survives a crash, recovery restores it whatever the *)
(* step the crash interrupted, and recycling a buffer changes no content.  *)
AD == INSTANCE AtomicDisk WITH
  stable <- Recovered, current <- Current, active <- Active

CrashAtomic == AD!Spec
=============================================================================
