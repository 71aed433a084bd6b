-------------------------------- MODULE Pipe --------------------------------
(***************************************************************************)
(* A pipe (kernel/pipe.c) between writing and reading processes that share *)
(* the two struct files, with the sleep(), wakeup() and kill() of          *)
(* kernel/proc.c it is built on, and fileclose() (kernel/file.c) down to   *)
(* pipeclose().                                                            *)
(*                                                                         *)
(* Everything but kill() and fileclose()'s reference count happens with    *)
(* pi->lock held, one loop iteration a step, but that kill() may come      *)
(* between the look at killed() and sleep().  sleep() releases the lock    *)
(* and sleeps in one step, as p->lock makes it.                            *)
(***************************************************************************)
EXTENDS Naturals, Sequences

CONSTANTS
  Writer, Reader,  \* processes holding the write end and the read end
  Byte,
  PIPESIZE,
  WORD,            \* nread and nwrite count modulo this, 2^32 in the code
  Chunk,           \* lengths asked for in read() and write()
  Killable,        \* processes that may be killed
  None             \* the lock is free

ASSUME PipeAssumption ==
  /\ PIPESIZE \in Nat \ {0} /\ WORD \in Nat /\ WORD > PIPESIZE
  /\ WORD % PIPESIZE = 0
  /\ Chunk \subseteq Nat
  /\ Writer \cap Reader = {} /\ None \notin Writer \cup Reader

VARIABLES
  data, nread, nwrite, readopen, writeopen,
  freed,   \* the page was given to kfree()
  lock,    \* holder of pi->lock
  pc,      \* where each process is
  n, i,    \* the call's length and loop variable
  open,    \* the process still holds its reference to the file
  killed,
  cut      \* a killed writer has left bytes without waking the readers

Proc == Writer \cup Reader
pipe == <<data, nread, nwrite, readopen, writeopen, freed>>
vars == <<pipe, lock, pc, n, i, open, killed, cut>>

\* "out": outside the call; "want": about to acquire pi->lock, at the start
\* or after sleep(); "loop": in the main loop, holding it; "sleep": about to
\* call sleep(), holding it; "copy": in the reader's second loop; "asleep";
\* "closing": in pipeclose().
PC == {"out", "want", "loop", "sleep", "copy", "asleep", "closing"}

Empty == nread = nwrite
(* Mutant: the comparison forgets that the counters wrap.                  *)
FullNoWrap == nwrite = nread + PIPESIZE
Full == nwrite = (nread + PIPESIZE) % WORD
SetPc(p, l) == pc' = [pc EXCEPT ![p] = l]
(* wakeup() of the processes of S that sleep, and p moves on to l.         *)
WakeAnd(S, p, l) ==
  pc' = [q \in Proc |-> IF q = p THEN l
                        ELSE IF q \in S /\ pc[q] = "asleep" THEN "want" ELSE pc[q]]

(* Return from the call: its variables are gone.                           *)
Return(p) ==
  /\ n' = [n EXCEPT ![p] = 0] /\ i' = [i EXCEPT ![p] = 0]
  /\ lock' = None
  /\ UNCHANGED <<open, killed>>

-----------------------------------------------------------------------------
(* pipealloc(), with both ends given to their processes.                   *)
Init ==
  /\ data \in [0..(PIPESIZE - 1) -> Byte]
  /\ nread = 0 /\ nwrite = 0
  /\ readopen = 1 /\ writeopen = 1
  /\ freed = 0
  /\ lock = None
  /\ pc = [p \in Proc |-> "out"]
  /\ n = [p \in Proc |-> 0] /\ i = [p \in Proc |-> 0]
  /\ open = [p \in Proc |-> 1]
  /\ killed = [p \in Proc |-> 0]
  /\ cut = 0

(* read() or write() through a descriptor that is open.  A killed process  *)
(* makes no more calls: usertrap() makes it exit.                          *)
Call(p, k) ==
  /\ pc[p] = "out" /\ open[p] = 1 /\ killed[p] = 0
  /\ SetPc(p, "want")
  /\ n' = [n EXCEPT ![p] = k]
  /\ i' = [i EXCEPT ![p] = 0]
  /\ UNCHANGED <<pipe, lock, open, killed, cut>>

(* acquire(&pi->lock), on entry and at the end of sleep().                 *)
Acquire(p) ==
  /\ pc[p] = "want" /\ lock = None
  /\ lock' = p
  /\ SetPc(p, "loop")
  /\ UNCHANGED <<pipe, n, i, open, killed, cut>>

(* pipewrite(): the end of the loop, or a copyin() that fails.             *)
WriteDone(p) ==
  /\ WakeAnd(Reader, p, "out")
  /\ Return(p) /\ cut' = 0
  /\ UNCHANGED pipe

(* The reader has gone or the writer was killed: return -1, which wakes no *)
(* reader.                                                                 *)
WriteFails(p) ==
  /\ readopen = 0 \/ killed[p] = 1
  /\ SetPc(p, "out")
  /\ Return(p)
  /\ cut' = IF i[p] > 0 THEN 1 ELSE cut
  /\ UNCHANGED pipe

(* Mutant: a full pipe does not wake the readers before it sleeps.         *)
WriteFullQuiet(p) ==
  /\ Full
  /\ SetPc(p, "sleep")
  /\ UNCHANGED <<pipe, lock, n, i, open, killed, cut>>
WriteFull(p) ==
  /\ Full
  /\ WakeAnd(Reader, p, "sleep")
  /\ cut' = 0
  /\ UNCHANGED <<pipe, lock, n, i, open, killed>>

(* A byte is stored and counted.                                           *)
WriteByte(p, b) ==
  /\ ~Full
  /\ data' = [data EXCEPT ![nwrite % PIPESIZE] = b]
  /\ nwrite' = (nwrite + 1) % WORD
  /\ i' = [i EXCEPT ![p] = @ + 1]
  /\ UNCHANGED <<nread, readopen, writeopen, freed, lock, pc, n, open, killed, cut>>

(* One iteration of pipewrite()'s loop.                                    *)
Pipewrite(p) ==
  /\ pc[p] = "loop" /\ lock = p
  /\ \/ i[p] >= n[p] /\ WriteDone(p)
     \/ i[p] < n[p] /\ WriteFails(p)
     \/ /\ i[p] < n[p] /\ readopen = 1 /\ killed[p] = 0
        /\ \/ WriteFull(p)
           \/ \E b \in Byte : WriteByte(p, b)
           \/ ~Full /\ WriteDone(p)

(* sleep(), also of a process killed since it looked: it sleeps until the  *)
(* other side wakes it.                                                    *)
Sleep(p) ==
  /\ pc[p] = "sleep" /\ lock = p
  /\ SetPc(p, "asleep")
  /\ lock' = None
  /\ UNCHANGED <<pipe, n, i, open, killed, cut>>

(* piperead()'s first loop: wait while the pipe is empty and has a writer. *)
ReadWait(p) ==
  /\ pc[p] = "loop" /\ lock = p
  /\ IF ~(Empty /\ writeopen = 1)
     THEN SetPc(p, "copy") /\ UNCHANGED <<lock, n, i, open, killed>>
     ELSE IF killed[p] = 1
     THEN SetPc(p, "out") /\ Return(p)
     ELSE SetPc(p, "sleep") /\ UNCHANGED <<lock, n, i, open, killed>>
  /\ UNCHANGED <<pipe, cut>>

ReadDone(p) ==
  /\ WakeAnd(Writer, p, "out")
  /\ Return(p)
  /\ UNCHANGED cut

(* piperead()'s second loop: a byte is taken before copyout() can fail.    *)
ReadCopy(p) ==
  /\ pc[p] = "copy" /\ lock = p
  /\ IF i[p] >= n[p] \/ Empty
     THEN ReadDone(p) /\ UNCHANGED pipe
     ELSE /\ nread' = (nread + 1) % WORD
          /\ UNCHANGED <<data, nwrite, readopen, writeopen, freed>>
          /\ \/ /\ i' = [i EXCEPT ![p] = @ + 1]
                /\ UNCHANGED <<lock, pc, n, open, killed, cut>>
             \/ ReadDone(p)

-----------------------------------------------------------------------------
End(p) == IF p \in Writer THEN Writer ELSE Reader

(* fileclose(): drop the process's reference; the last one goes on to      *)
(* pipeclose().                                                            *)
Close(p) ==
  /\ pc[p] = "out" /\ open[p] = 1
  /\ open' = [open EXCEPT ![p] = 0]
  /\ IF \E q \in End(p) \ {p} : open[q] = 1 THEN UNCHANGED pc ELSE SetPc(p, "closing")
  /\ UNCHANGED <<pipe, lock, n, i, killed, cut>>

(* Mutant: the page is freed when one end closes.                          *)
BothClosedEither(r, w) == r = 0 \/ w = 0
BothClosed(r, w) == r = 0 /\ w = 0

(* Mutant: each end wakes its own side.                                    *)
CloseWakesOwn(p) == End(p)
(* Whom the closing of p's end wakes.                                      *)
CloseWakes(p) == IF p \in Writer THEN Reader ELSE Writer

(* pipeclose(), one critical section.                                      *)
Pipeclose(p) ==
  /\ pc[p] = "closing" /\ lock = None
  /\ writeopen' = IF p \in Writer THEN 0 ELSE writeopen
  /\ readopen' = IF p \in Reader THEN 0 ELSE readopen
  /\ WakeAnd(CloseWakes(p), p, "out")
  /\ freed' = IF BothClosed(readopen', writeopen') THEN 1 ELSE 0
  /\ UNCHANGED <<data, nread, nwrite, lock, n, i, open, killed, cut>>

(* kill(): also wakes the process from its sleep.                          *)
Kill(p) ==
  /\ p \in Killable /\ killed[p] = 0
  /\ killed' = [killed EXCEPT ![p] = 1]
  /\ IF pc[p] = "asleep" THEN SetPc(p, "want") ELSE UNCHANGED pc
  /\ UNCHANGED <<pipe, lock, n, i, open, cut>>

-----------------------------------------------------------------------------
(* A step of a process inside read(), write() or close().                  *)
InCall(p) ==
  \/ Acquire(p) \/ Sleep(p)
  \/ p \in Writer /\ Pipewrite(p)
  \/ p \in Reader /\ (ReadWait(p) \/ ReadCopy(p))
  \/ Pipeclose(p)

NewCall(p) == \E k \in Chunk : Call(p, k)

Next == \E p \in Proc : NewCall(p) \/ InCall(p) \/ Close(p) \/ Kill(p)
Spec == Init /\ [][Next]_vars

(* The scheduler runs every runnable process, and a process that tries to  *)
(* acquire the lock gets it at last.  The readers read on until they close *)
(* their end; nobody need ever close it.                                   *)
Fairness ==
  /\ \A p \in Proc : WF_vars(InCall(p)) /\ SF_vars(Acquire(p))
  /\ \A p \in Reader : WF_vars(NewCall(p) \/ Close(p))
LiveSpec == Spec /\ Fairness

-----------------------------------------------------------------------------
(* The pipe is a bounded queue: however the counters wrap, and whoever     *)
(* sleeps in between, bytes leave in the order they entered, once each,    *)
(* and never more than PIPESIZE wait.                                      *)
Fifo == INSTANCE Fifo WITH
  Capacity <- PIPESIZE,
  q <- [k \in 1..((nwrite + WORD - nread) % WORD) |-> data[(nread + k - 1) % PIPESIZE]]
IsFifo == Fifo!Spec

(* No lost wakeup: with the lock free, a sleeping writer has a full pipe   *)
(* and someone who may read it, a sleeping reader an empty one and someone *)
(* who may write; but a killed writer may have left bytes unannounced      *)
(* (pipewrite() returns -1 before its wakeup()).                           *)
NoLostWakeup ==
  lock = None => /\ \A w \in Writer : pc[w] = "asleep" => Full /\ readopen = 1
                 /\ \A r \in Reader : pc[r] = "asleep" => (Empty \/ cut = 1) /\ writeopen = 1

(* The page is freed only when no process is in a call on the pipe or can  *)
(* start one.                                                              *)
NoUseAfterFree == freed = 1 => \A p \in Proc : open[p] = 0 /\ pc[p] = "out"

(* End of file reaches every reader: no read() outlives the last writer.   *)
EofReaches == \A r \in Reader : writeopen = 0 /\ pc[r] # "out" ~> pc[r] = "out"
=============================================================================
