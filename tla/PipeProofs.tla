----------------------------- MODULE PipeProofs -----------------------------
(***************************************************************************)
(* No lost wakeup and no use after free in the pipe, and its refinement of *)
(* Fifo, for any processes, lengths and sizes.                             *)
(***************************************************************************)
EXTENDS Pipe, SequenceTheorems, TLAPS

(* Who holds the lock, and what a sleeping process may rely on: the holder *)
(* of the lock will wake it before it lets go, or its reason to sleep      *)
(* still holds.                                                            *)
Sleepers ==
  /\ \A p \in Proc : lock = p <=> pc[p] \in {"loop", "copy", "sleep"}
  /\ \A p \in Writer : pc[p] # "copy"
  /\ \A w \in Writer : pc[w] = "sleep" => readopen = 1 /\ Full
  /\ \A r \in Reader : pc[r] = "sleep" => writeopen = 1 /\ Empty
  /\ \A w \in Writer : pc[w] = "asleep" =>
       readopen = 1 /\ (Full \/ \E r \in Reader : pc[r] = "copy")
  /\ \A r \in Reader : pc[r] = "asleep" =>
       writeopen = 1 /\ (Empty \/ cut = 1 \/ \E w \in Writer : pc[w] = "loop" /\ i[w] > 0)

(* The life of the two ends: a process in a call holds its end open; the   *)
(* process that closes an end is the last one, and alone.                  *)
Flag(p) == IF p \in Writer THEN writeopen ELSE readopen
Ends ==
  /\ \A p \in Proc : pc[p] \in {"want", "loop", "copy", "sleep", "asleep"} => open[p] = 1
  /\ \A p \in Proc : open[p] = 1 \/ pc[p] = "closing" => Flag(p) = 1
  /\ \A p \in Proc : pc[p] = "closing" =>
       /\ \A q \in End(p) : open[q] = 0
       /\ \A q \in End(p) : q # p => pc[q] # "closing"
  /\ freed = 1 => readopen = 0 /\ writeopen = 0

Types ==
  /\ readopen \in {0, 1} /\ writeopen \in {0, 1} /\ freed \in {0, 1}
  /\ lock \in Proc \cup {None}
  /\ pc \in [Proc -> PC]
  /\ n \in [Proc -> Nat] /\ i \in [Proc -> Nat]
  /\ open \in [Proc -> {0, 1}] /\ killed \in [Proc -> {0, 1}] /\ cut \in {0, 1}

Inv == Types /\ Sleepers /\ Ends

-----------------------------------------------------------------------------
USE DEF SetPc, Proc, pipe

(* The processes and the lock's "free" value are what they should be.      *)
LEMMA Apart == Writer \cap Reader = {} /\ None \notin Proc /\ Chunk \subseteq Nat
BY PipeAssumption

(* At most one process is inside a critical section of the pipe.           *)
LEMMA Alone ==
  ASSUME Inv, NEW p \in Proc, lock = p \/ lock = None
  PROVE  \A q \in Proc : q # p => pc[q] \notin {"loop", "copy", "sleep"}
BY Apart DEF Inv, Sleepers

(* A new read() or write() keeps the invariant.                            *)
LEMMA CallInv ==
  ASSUME Inv, NEW p \in Proc, NEW k \in Chunk, Call(p, k) PROVE Inv'
<1>1. Types'
  BY Apart DEF Inv, Types, Call, PC
<1>2. \A q \in Proc : pc'[q] = IF q = p THEN "want" ELSE pc[q]
  BY DEF Inv, Types, Call
<1>3. pc[p] = "out" /\ open[p] = 1 /\ UNCHANGED <<nread, nwrite, readopen, writeopen, lock, open, cut, freed>>
      /\ \A q \in Proc : q # p => i'[q] = i[q]
  BY DEF Inv, Types, Call
<1>4. Sleepers'
  BY <1>2, <1>3, Apart DEF Inv, Sleepers, Full, Empty
<1>5. Ends'
  BY <1>2, <1>3 DEF Inv, Ends, Flag, End
<1> QED BY <1>1, <1>4, <1>5 DEF Inv

(* Acquiring pi->lock, on entry or after sleep(), keeps the invariant.     *)
LEMMA AcquireInv ==
  ASSUME Inv, NEW p \in Proc, Acquire(p) PROVE Inv'
<1>1. Types'
  BY DEF Inv, Types, Acquire, PC
<1>2. \A q \in Proc : pc'[q] = IF q = p THEN "loop" ELSE pc[q]
  BY DEF Inv, Types, Acquire
<1>3. pc[p] = "want" /\ lock = None /\ lock' = p
      /\ UNCHANGED <<nread, nwrite, readopen, writeopen, open, cut, freed, i>>
  BY DEF Acquire
<1>4. \A q \in Proc : pc[q] \notin {"loop", "copy", "sleep"}
  BY <1>3, Apart DEF Inv, Sleepers
<1>5. Sleepers'
  BY <1>2, <1>3, <1>4, Apart DEF Inv, Sleepers, Full, Empty
<1>6. Ends'
  BY <1>2, <1>3 DEF Inv, Ends, Flag, End
<1> QED BY <1>1, <1>5, <1>6 DEF Inv

(* A step that ends the critical section of a writer or a reader p: p      *)
(* moves to l, and the processes of S that sleep wake up.                  *)
LEMMA WakeIs ==
  ASSUME Types, NEW p \in Proc, NEW S, NEW l, WakeAnd(S, p, l), l \in PC
  PROVE  /\ pc' \in [Proc -> PC] /\ pc'[p] = l
         /\ \A q \in Proc : q # p => pc'[q] = IF q \in S /\ pc[q] = "asleep" THEN "want" ELSE pc[q]
BY DEF WakeAnd, Types, PC

(* Every iteration of pipewrite() keeps the invariant: before it releases  *)
(* the lock it has woken the readers, or wrote nothing, or was killed.     *)
LEMMA WriteInv ==
  ASSUME Inv, NEW p \in Writer, Pipewrite(p) PROVE Inv'
<1>0. pc[p] = "loop" /\ lock = p /\ p \in Proc /\ p \notin Reader /\ None # p /\ open[p] = 1
  BY Apart DEF Pipewrite, Inv, Ends
<1>00. \A q \in Proc : q # p => pc[q] \notin {"loop", "copy", "sleep"}
  BY <1>0, Alone
<1>1. CASE WriteDone(p)
  <2>1. /\ pc' \in [Proc -> PC] /\ pc'[p] = "out"
        /\ \A q \in Proc : q # p => pc'[q] = IF q \in Reader /\ pc[q] = "asleep" THEN "want" ELSE pc[q]
    BY <1>0, <1>1, WakeIs, Zenon DEF WriteDone, Inv, PC
  <2>2. lock' = None /\ UNCHANGED <<nread, nwrite, readopen, writeopen, open, freed, killed>>
    BY <1>1 DEF WriteDone, Return
  <2>3. Types'
    BY <1>1, <2>1 DEF Inv, Types, WriteDone, Return
  <2>4. Sleepers'
    BY <1>0, <1>00, <2>1, <2>2, Apart DEF Inv, Sleepers, Full, Empty
  <2>5. Ends'
    BY <1>0, <2>1, <2>2, Apart DEF Inv, Ends, Flag, End
  <2> QED BY <2>3, <2>4, <2>5 DEF Inv
<1>2. CASE WriteFails(p)
  <2>1. pc' = [pc EXCEPT ![p] = "out"] /\ pc' \in [Proc -> PC]
    BY <1>2 DEF WriteFails, Inv, Types, PC
  <2>2. /\ lock' = None /\ UNCHANGED <<nread, nwrite, readopen, writeopen, open, freed, killed>>
        /\ i[p] > 0 => cut' = 1
        /\ cut = 1 => cut' = 1
    BY <1>2 DEF WriteFails, Return
  <2>3. Types'
    BY <1>2, <2>1 DEF Inv, Types, WriteFails, Return
  <2>4. Sleepers'
    <3>1. \A w \in Writer : pc'[w] = "asleep" => readopen' = 1 /\ Full'
      BY <1>0, <1>00, <2>1, <2>2, Apart DEF Inv, Sleepers, Full, Types
    <3>2. \A r \in Reader : pc'[r] = "asleep" => writeopen' = 1 /\ (Empty' \/ cut' = 1)
      BY <1>0, <1>00, <2>1, <2>2, Apart DEF Inv, Sleepers, Empty, Types
    <3>3. \A q \in Proc : pc'[q] \notin {"loop", "copy", "sleep"}
      BY <1>0, <1>00, <2>1 DEF Inv, Types
    <3> QED BY <2>2, <3>1, <3>2, <3>3, Apart DEF Sleepers
  <2>5. Ends'
    BY <1>0, <2>1, <2>2, Apart DEF Inv, Ends, Flag, End, Types
  <2> QED BY <2>3, <2>4, <2>5 DEF Inv
<1>3. CASE WriteFull(p) /\ readopen = 1
  <2>1. /\ pc' \in [Proc -> PC] /\ pc'[p] = "sleep"
        /\ \A q \in Proc : q # p => pc'[q] = IF q \in Reader /\ pc[q] = "asleep" THEN "want" ELSE pc[q]
    BY <1>0, <1>3, WakeIs, Zenon DEF WriteFull, Inv, PC
  <2>2. UNCHANGED <<nread, nwrite, readopen, writeopen, open, freed, killed, i, n, lock>> /\ Full /\ cut' = 0
    BY <1>3 DEF WriteFull
  <2>3. Types'
    BY <2>1, <2>2 DEF Inv, Types
  <2>4. Sleepers'
    BY <1>0, <1>00, <1>3, <2>1, <2>2, Apart DEF Inv, Sleepers, Full, Empty
  <2>5. Ends'
    BY <1>0, <2>1, <2>2, Apart DEF Inv, Ends, Flag, End
  <2> QED BY <2>3, <2>4, <2>5 DEF Inv
<1>4. ASSUME NEW b \in Byte, WriteByte(p, b) PROVE Inv'
  <2>1. /\ ~Full /\ i'[p] > 0 /\ i' \in [Proc -> Nat]
        /\ UNCHANGED <<readopen, writeopen, lock, pc, n, open, freed, killed, cut>>
    BY <1>0, <1>4 DEF WriteByte, Inv, Types
  <2>2. Types'
    BY <2>1 DEF Inv, Types
  <2>3. \A w \in Writer : pc[w] # "asleep"
    BY <1>0, <1>00, <2>1, Apart DEF Inv, Sleepers
  <2>4. Sleepers'
    BY <1>0, <2>1, <2>3, Apart DEF Inv, Sleepers
  <2>5. Ends'
    BY <2>1 DEF Inv, Ends, Flag, End
  <2> QED BY <2>2, <2>4, <2>5 DEF Inv
<1> QED BY <1>1, <1>2, <1>3, <1>4 DEF Pipewrite

(* sleep() keeps the invariant: the lock was not let go since the test.    *)
LEMMA SleepInv ==
  ASSUME Inv, NEW p \in Proc, Sleep(p) PROVE Inv'
<1>1. /\ pc[p] = "sleep" /\ lock = p /\ lock' = None /\ None # p /\ open[p] = 1
      /\ UNCHANGED <<nread, nwrite, readopen, writeopen, open, freed, killed, i, n, cut>>
  BY Apart DEF Sleep, Inv, Ends
<1>2. \A q \in Proc : pc'[q] = IF q = p THEN "asleep" ELSE pc[q]
  BY DEF Inv, Types, Sleep
<1>3. \A q \in Proc : q # p => pc[q] \notin {"loop", "copy", "sleep"}
  BY <1>1, Alone
<1>4. Types'
  BY <1>1 DEF Inv, Types, Sleep, PC
<1>5. Sleepers'
  BY <1>1, <1>2, <1>3, Apart DEF Inv, Sleepers, Full, Empty
<1>6. Ends'
  BY <1>1, <1>2 DEF Inv, Ends, Flag, End
<1> QED BY <1>4, <1>5, <1>6 DEF Inv

(* Every step of piperead() keeps the invariant: it wakes the writers      *)
(* before it releases the lock if it took bytes.                           *)
LEMMA ReadInv ==
  ASSUME Inv, NEW p \in Reader, ReadWait(p) \/ ReadCopy(p) PROVE Inv'
<1>0. /\ pc[p] \in {"loop", "copy", "sleep"} /\ lock = p /\ p \in Proc /\ p \notin Writer
      /\ None # p /\ open[p] = 1
  BY Apart DEF ReadWait, ReadCopy, Inv, Ends
<1>00. \A q \in Proc : q # p => pc[q] \notin {"loop", "copy", "sleep"}
  BY <1>0, Alone
<1>1. CASE ReadWait(p) /\ ~(Empty /\ writeopen = 1)
  <2>1. pc' = [pc EXCEPT ![p] = "copy"] /\ UNCHANGED <<pipe, lock, n, i, open, killed, cut>>
    BY <1>1 DEF ReadWait
  <2>2. Types'
    BY <2>1 DEF Inv, Types, PC
  <2>3. Sleepers'
    BY <1>0, <1>00, <2>1, Apart DEF Inv, Sleepers, Full, Empty, Types
  <2>4. Ends'
    BY <1>0, <2>1 DEF Inv, Ends, Flag, End, Types
  <2> QED BY <2>2, <2>3, <2>4 DEF Inv
<1>2. CASE ReadWait(p) /\ Empty /\ writeopen = 1 /\ killed[p] = 1
  <2>1. /\ pc' = [pc EXCEPT ![p] = "out"] /\ pc[p] = "loop"
        /\ lock' = None /\ UNCHANGED <<pipe, open, killed, cut>>
        /\ n' \in [Proc -> Nat] /\ i' \in [Proc -> Nat]
    BY <1>2 DEF ReadWait, Return, Inv, Types
  <2>2. Types'
    BY <2>1 DEF Inv, Types, PC
  <2>3. Sleepers'
    <3>1. \A q \in Proc : pc'[q] \notin {"loop", "copy", "sleep"}
      BY <1>0, <1>00, <2>1 DEF Inv, Types
    <3>2. \A w \in Writer : pc'[w] = "asleep" => readopen' = 1 /\ Full'
      BY <1>0, <1>00, <2>1 DEF Inv, Types, Sleepers, Full
    <3>3. \A r \in Reader : pc'[r] = "asleep" => writeopen' = 1 /\ Empty'
      BY <1>2, <2>1 DEF Empty
    <3> QED BY <2>1, <3>1, <3>2, <3>3, Apart DEF Sleepers
  <2>4. Ends'
    BY <1>0, <2>1 DEF Inv, Ends, Flag, End, Types
  <2> QED BY <2>2, <2>3, <2>4 DEF Inv
<1>5. CASE ReadWait(p) /\ Empty /\ writeopen = 1 /\ killed[p] # 1
  <2>1. pc' = [pc EXCEPT ![p] = "sleep"] /\ pc[p] = "loop" /\ UNCHANGED <<pipe, lock, n, i, open, killed, cut>>
    BY <1>5 DEF ReadWait
  <2>2. Types'
    BY <2>1 DEF Inv, Types, PC
  <2>3. Sleepers'
    BY <1>0, <1>00, <1>5, <2>1, Apart DEF Inv, Sleepers, Full, Empty, Types
  <2>4. Ends'
    BY <1>0, <2>1 DEF Inv, Ends, Flag, End, Types
  <2> QED BY <2>2, <2>3, <2>4 DEF Inv
<1>3. CASE ReadCopy(p) /\ ReadDone(p)
  <2>1. /\ pc' \in [Proc -> PC] /\ pc'[p] = "out"
        /\ \A q \in Proc : q # p => pc'[q] = IF q \in Writer /\ pc[q] = "asleep" THEN "want" ELSE pc[q]
    BY <1>0, <1>3, WakeIs, Zenon DEF ReadDone, Inv, PC
  <2>2. /\ lock' = None /\ UNCHANGED <<nwrite, readopen, writeopen, open, freed, killed, cut>>
        /\ nread' = nread \/ ~Empty
    BY <1>3 DEF ReadCopy, ReadDone, Return
  <2>3. Types'
    BY <1>3, <2>1, <2>2 DEF Inv, Types, ReadDone, Return
  <2>4. Sleepers'
    BY <1>0, <1>00, <2>1, <2>2, Apart DEF Inv, Sleepers, Empty
  <2>5. Ends'
    BY <1>0, <2>1, <2>2, Apart DEF Inv, Ends, Flag, End
  <2> QED BY <2>3, <2>4, <2>5 DEF Inv
<1>4. CASE ReadCopy(p) /\ ~ReadDone(p)
  <2>1. /\ i' = [i EXCEPT ![p] = @ + 1] /\ ~Empty /\ pc[p] = "copy"
        /\ UNCHANGED <<data, nwrite, readopen, writeopen, freed, lock, pc, n, open, killed, cut>>
    BY <1>4 DEF ReadCopy
  <2>2. Types'
    BY <2>1 DEF Inv, Types
  <2>3. Sleepers'
    BY <1>0, <1>00, <2>1, Apart DEF Inv, Sleepers, Types
  <2>4. Ends'
    BY <2>1 DEF Inv, Ends, Flag, End
  <2> QED BY <2>2, <2>3, <2>4 DEF Inv
<1> QED BY <1>1, <1>2, <1>3, <1>4, <1>5

(* fileclose() keeps the invariant: only the last holder of an end goes on *)
(* to pipeclose().                                                         *)
LEMMA CloseInv ==
  ASSUME Inv, NEW p \in Proc, Close(p) PROVE Inv'
<1>1. /\ pc[p] = "out" /\ open[p] = 1 /\ open' = [open EXCEPT ![p] = 0]
      /\ UNCHANGED <<pipe, lock, n, i, killed, cut>>
  BY DEF Close
<1>2. \/ pc' = pc /\ \E q \in End(p) \ {p} : open[q] = 1
      \/ pc' = [pc EXCEPT ![p] = "closing"] /\ \A q \in End(p) \ {p} : open[q] # 1
  BY DEF Close
<1>3. Types'
  BY <1>1, <1>2 DEF Inv, Types, PC
<1>4. Sleepers'
  BY <1>1, <1>2, Apart DEF Inv, Sleepers, Types, Full, Empty
<1>5. Ends'
  <2>1. \A q \in Proc : q # p => pc'[q] = pc[q] /\ open'[q] = open[q]
    BY <1>1, <1>2 DEF Inv, Types
  <2>2. open'[p] = 0 /\ pc'[p] \in {"out", "closing"}
    BY <1>1, <1>2 DEF Inv, Types
  <2>3. \A q \in Proc : pc'[q] \in {"want", "loop", "copy", "sleep", "asleep"} => open'[q] = 1
    BY <2>1, <2>2 DEF Inv, Ends
  <2>4. \A q \in Proc : open'[q] = 1 \/ pc'[q] = "closing" => Flag(q)' = 1
    BY <1>1, <2>1, <2>2 DEF Inv, Ends, Flag
  <2>5. ASSUME NEW q \in Proc, pc'[q] = "closing"
        PROVE  \A r \in End(q) : open'[r] = 0 /\ (r # q => pc'[r] # "closing")
    <3>1. CASE q = p
      <4>1. \A r \in End(p) \ {p} : open[r] = 0 /\ r \in Proc
        BY <1>2, <2>5, <3>1, <1>1 DEF Inv, Types, End
      <4>2. \A r \in End(p) \ {p} : pc[r] # "closing"
        <5> SUFFICES ASSUME NEW r \in End(p) \ {p}, pc[r] = "closing" PROVE FALSE
          OBVIOUS
        <5>1. p \in End(r) /\ r \in Proc
          BY Apart DEF End
        <5> QED BY <1>1, <5>1 DEF Inv, Ends
      <4> QED BY <2>1, <2>2, <3>1, <4>1, <4>2
    <3>2. CASE q # p
      <4>1. pc[q] = "closing"
        BY <2>1, <2>5, <3>2
      <4>2. p \notin End(q)
        BY <1>1, <4>1 DEF Inv, Ends
      <4>3. \A r \in End(q) : r \in Proc /\ r # p
        BY <4>2 DEF End
      <4> QED BY <2>1, <4>1, <4>3 DEF Inv, Ends
    <3> QED BY <3>1, <3>2
  <2>6. End(p)' = End(p)
    BY DEF End
  <2> QED BY <1>1, <2>3, <2>4, <2>5 DEF Inv, Ends, End
<1> QED BY <1>3, <1>4, <1>5 DEF Inv

(* pipeclose() keeps the invariant: it wakes the other side, and frees the *)
(* page when both ends are closed.                                         *)
LEMMA PipecloseInv ==
  ASSUME Inv, NEW p \in Proc, Pipeclose(p) PROVE Inv'
<1>1. /\ pc[p] = "closing" /\ lock = None
      /\ writeopen' = (IF p \in Writer THEN 0 ELSE writeopen)
      /\ readopen' = (IF p \in Reader THEN 0 ELSE readopen)
      /\ freed' = 1 => readopen' = 0 /\ writeopen' = 0
      /\ freed' \in {0, 1}
      /\ UNCHANGED <<nread, nwrite, lock, n, i, open, killed, cut>>
  BY DEF Pipeclose, BothClosed
<1>2. /\ pc' \in [Proc -> PC] /\ pc'[p] = "out"
      /\ \A q \in Proc : q # p => pc'[q] = IF q \in CloseWakes(p) /\ pc[q] = "asleep" THEN "want" ELSE pc[q]
  BY WakeIs, Zenon DEF Pipeclose, Inv, PC
<1>3. Types'
  BY <1>1, <1>2 DEF Inv, Types
<1>4. Sleepers'
  <2>1. \A q \in Proc : pc'[q] \notin {"loop", "copy", "sleep"} /\ pc[q] \notin {"loop", "copy", "sleep"}
    BY <1>1, <1>2, Apart DEF Inv, Sleepers
  <2>2. \A w \in Writer : pc'[w] = "asleep" => p \notin Reader /\ pc[w] = "asleep"
    BY <1>2, Apart DEF CloseWakes
  <2>3. \A r \in Reader : pc'[r] = "asleep" => p \notin Writer /\ pc[r] = "asleep"
    BY <1>2, Apart DEF CloseWakes
  <2>4. \A w \in Writer : pc'[w] = "asleep" => readopen' = 1 /\ Full'
    BY <1>1, <2>1, <2>2 DEF Inv, Sleepers, Full
  <2>5. \A r \in Reader : pc'[r] = "asleep" => writeopen' = 1 /\ (Empty' \/ cut' = 1)
    BY <1>1, <2>1, <2>3 DEF Inv, Sleepers, Empty
  <2> QED BY <1>1, <2>1, <2>4, <2>5, Apart DEF Sleepers
<1>5. Ends'
  <2>1. \A q \in End(p) : q \in Proc /\ open[q] = 0 /\ (q # p => pc[q] # "closing")
    BY <1>1 DEF Inv, Ends, End
  <2>2. \A q \in Proc : pc'[q] = "closing" => pc[q] = "closing" /\ q # p
    BY <1>2
  <2>3. \A q \in Proc : pc'[q] \in {"want", "loop", "copy", "sleep", "asleep"} => open'[q] = 1
    BY <1>1, <1>2 DEF Inv, Ends
  <2>4. \A q \in Proc \ End(p) : Flag(q)' = Flag(q)
    BY <1>1, Apart DEF Flag, End
  <2>5. \A q \in Proc : open'[q] = 1 \/ pc'[q] = "closing" => Flag(q)' = 1
    BY <1>1, <2>1, <2>2, <2>4 DEF Inv, Ends
  <2>6. \A q \in Proc : pc'[q] = "closing" =>
          \A r \in End(q) : open'[r] = 0 /\ (r # q => pc'[r] # "closing")
    BY <1>1, <2>2 DEF Inv, Ends, End
  <2> QED BY <1>1, <2>3, <2>5, <2>6 DEF Ends, End
<1> QED BY <1>3, <1>4, <1>5 DEF Inv

(* kill() keeps the invariant.                                             *)
LEMMA KillInv ==
  ASSUME Inv, NEW p \in Proc, Kill(p) PROVE Inv'
<1>1. /\ pc' = pc \/ (pc[p] = "asleep" /\ pc' = [pc EXCEPT ![p] = "want"])
      /\ killed' = [killed EXCEPT ![p] = 1]
      /\ UNCHANGED <<pipe, lock, n, i, open, cut>>
  BY DEF Kill
<1>2. Types'
  BY <1>1 DEF Inv, Types, PC
<1>3. Sleepers'
  BY <1>1, Apart DEF Inv, Sleepers, Types, Full, Empty
<1>4. Ends'
  BY <1>1 DEF Inv, Ends, Types, Flag, End
<1> QED BY <1>2, <1>3, <1>4 DEF Inv

(* The inductive invariant holds in every reachable state.                 *)
LEMMA Invariant == Spec => []Inv
<1>1. Init => Inv
  BY Apart DEF Init, Inv, Types, Sleepers, Ends, Flag, End, PC
<1>2. Inv /\ [Next]_vars => Inv'
  <2> SUFFICES ASSUME Inv, [Next]_vars PROVE Inv'
    OBVIOUS
  <2>1. CASE UNCHANGED vars
    BY <2>1 DEF vars, Inv, Types, Sleepers, Ends, Flag, End, Full, Empty
  <2>2. ASSUME NEW p \in Proc, NewCall(p) \/ InCall(p) \/ Close(p) \/ Kill(p) PROVE Inv'
    BY <2>2, CallInv, AcquireInv, SleepInv, WriteInv, ReadInv, CloseInv, PipecloseInv, KillInv
       DEF NewCall, InCall
  <2> QED BY <2>1, <2>2 DEF Next
<1> QED BY <1>1, <1>2, PTL DEF Spec

(* No wakeup of the pipe is lost, but those of a killed writer: for any    *)
(* number of readers and writers that come, wait, are killed and go.       *)
THEOREM PipeWakeups == Spec => []NoLostWakeup
<1>1. Inv => NoLostWakeup
  BY Apart DEF Inv, Sleepers, NoLostWakeup
<1> QED BY <1>1, Invariant, PTL

(* The pipe's page is freed when the last process has left, never before.  *)
THEOREM PipeMemorySafe == Spec => []NoUseAfterFree
<1>1. Inv => NoUseAfterFree
  <2> SUFFICES ASSUME Inv, freed = 1, NEW p \in Proc PROVE open[p] = 0 /\ pc[p] = "out"
    BY DEF NoUseAfterFree
  <2>1. Flag(p) = 0
    BY DEF Inv, Ends, Flag
  <2>2. open[p] = 0 /\ pc[p] # "closing"
    BY <2>1 DEF Inv, Ends, Types
  <2> QED BY <2>2 DEF Inv, Ends, Types, PC
<1> QED BY <1>1, Invariant, PTL

-----------------------------------------------------------------------------
(* The queue in data[], and how its counters wrap.                         *)

Count == (nwrite + WORD - nread) % WORD
Queue == [k \in 1..Count |-> data[(nread + k - 1) % PIPESIZE]]

(* The counters stay in their words, and at most PIPESIZE bytes wait.      *)
Ring ==
  /\ nread \in 0..(WORD - 1) /\ nwrite \in 0..(WORD - 1)
  /\ data \in [0..(PIPESIZE - 1) -> Byte]
  /\ Count <= PIPESIZE

(* The remainder is what is left below the divisor.                        *)
LEMMA ModIs ==
  ASSUME NEW m \in Nat \ {0}, NEW q \in Int, NEW r \in 0..(m - 1), NEW a \in Nat, a = m * q + r
  PROVE  a % m = r
OBVIOUS

(* Two positions less than m apart are different modulo m.                 *)
LEMMA ModApart ==
  ASSUME NEW m \in Nat \ {0}, NEW a \in Nat, NEW b \in Nat, a < b, b < a + m
  PROVE  a % m # b % m
<1>1. a = m * (a \div m) + (a % m) /\ a \div m \in Int /\ a % m \in 0..(m - 1)
  OBVIOUS
<1>2. b = m * (b \div m) + (b % m) /\ b \div m \in Int /\ b % m \in 0..(m - 1)
  OBVIOUS
<1>3. ASSUME a % m = b % m PROVE FALSE
  <2>c. PICK c \in Int : a = m * c + (a % m)
    BY <1>1
  <2>d. PICK d \in Int : b = m * d + (b % m)
    BY <1>2
  <2>1. b - a = m * d - m * c
    BY <1>1, <1>2, <1>3, <2>c, <2>d
  <2>2. b - a = m * (d - c) /\ d - c \in Int
    BY <2>1
  <2>3. CASE d - c <= 0
    BY <2>2, <2>3
  <2>4. CASE d - c >= 1
    <3>1. m * (d - c) >= m
      BY <2>4
    <3> QED BY <2>2, <3>1
  <2> QED BY <2>1, <2>3, <2>4
<1> QED BY <1>3

(* A sequence is known by its length and its elements.                     *)
LEMMA AppendIs ==
  ASSUME NEW S, NEW s \in Seq(S), NEW e \in S, NEW f \in [1..(Len(s) + 1) -> S],
         \A j \in 1..Len(s) : f[j] = s[j], f[Len(s) + 1] = e
  PROVE  f = Append(s, e)
<1>1. f \in Seq(S) /\ Len(f) = Len(s) + 1
  OBVIOUS
<1>2. Append(s, e) \in Seq(S) /\ Len(Append(s, e)) = Len(s) + 1
  OBVIOUS
<1>3. \A j \in 1..Len(f) : f[j] = Append(s, e)[j]
  BY <1>1, AppendProperties
<1> QED BY <1>1, <1>2, <1>3, SeqEqual

(* The same for a sequence without its first element.                      *)
LEMMA TailIs ==
  ASSUME NEW S, NEW s \in Seq(S), s # <<>>, NEW f \in [1..(Len(s) - 1) -> S],
         \A j \in 1..(Len(s) - 1) : f[j] = s[j + 1]
  PROVE  f = Tail(s)
<1>0. Len(s) \in Nat \ {0}
  BY EmptySeq
<1>1. f \in Seq(S) /\ Len(f) = Len(s) - 1
  BY <1>0
<1>2. Tail(s) \in Seq(S) /\ Len(Tail(s)) = Len(s) - 1
  BY HeadTailProperties
<1>3. \A j \in 1..Len(f) : f[j] = Tail(s)[j]
  BY <1>1, <1>2, HeadTailProperties
<1> QED BY <1>1, <1>2, <1>3, SeqEqual

(* A counter that wraps at WORD, a multiple of PIPESIZE, still points to   *)
(* the same place of the buffer.                                           *)
LEMMA SamePlace ==
  ASSUME NEW x \in 0..(2 * WORD - 1) PROVE (x % WORD) % PIPESIZE = x % PIPESIZE
<1>0. WORD \in Nat \ {0} /\ PIPESIZE \in Nat \ {0} /\ WORD % PIPESIZE = 0
  BY PipeAssumption
<1>1. CASE x < WORD
  BY <1>0, <1>1
<1>2. CASE x >= WORD
  <2>1. x % WORD = x - WORD
    BY <1>0, <1>2
  <2>2. PICK c \in Int : WORD = PIPESIZE * c
    <3>1. WORD = PIPESIZE * (WORD \div PIPESIZE) + (WORD % PIPESIZE) /\ WORD \div PIPESIZE \in Int
      BY <1>0
    <3> QED BY <1>0, <3>1
  <2>3. x = PIPESIZE * (x \div PIPESIZE) + (x % PIPESIZE) /\ x \div PIPESIZE \in Int
        /\ x % PIPESIZE \in 0..(PIPESIZE - 1)
    BY <1>0
  <2>4. PICK d \in Int, r \in 0..(PIPESIZE - 1) : x = PIPESIZE * d + r /\ r = x % PIPESIZE
    BY <2>3
  <2>5. x - WORD = PIPESIZE * (d - c) + r /\ d - c \in Int /\ x - WORD \in Nat
    <3>1. PIPESIZE * (d - c) = PIPESIZE * d - PIPESIZE * c
      BY <1>0
    <3>2. x - WORD = PIPESIZE * d - PIPESIZE * c + r
      BY <1>0, <2>2, <2>4
    <3> QED BY <1>0, <1>2, <3>1, <3>2
  <2>6. (x - WORD) % PIPESIZE = r
    BY <1>0, <2>5, ModIs
  <2> QED BY <2>1, <2>4, <2>6
<1> QED BY <1>0, <1>1, <1>2

(* The number of bytes that wait, without the wrap of the counters.        *)
LEMMA CountIs ==
  ASSUME Ring
  PROVE  /\ Count = (IF nwrite >= nread THEN nwrite - nread ELSE nwrite + WORD - nread)
         /\ Count \in 0..PIPESIZE
         /\ Full <=> Count = PIPESIZE
         /\ Empty <=> Count = 0
<1>0. WORD \in Nat \ {0} /\ PIPESIZE \in Nat \ {0} /\ PIPESIZE < WORD
  BY PipeAssumption
<1>1. Count = (IF nwrite + WORD - nread < WORD THEN nwrite + WORD - nread ELSE nwrite - nread)
  BY <1>0 DEF Ring, Count
<1>2. (nread + PIPESIZE) % WORD
        = (IF nread + PIPESIZE < WORD THEN nread + PIPESIZE ELSE nread + PIPESIZE - WORD)
  BY <1>0 DEF Ring
<1>3. nread \in 0..(WORD - 1) /\ nwrite \in 0..(WORD - 1) /\ Count <= PIPESIZE
  BY DEF Ring
<1> QED BY <1>0, <1>1, <1>2, <1>3 DEF Full, Empty

(* Storing a byte appends it to the queue, which had room.                 *)
LEMMA WriteAppends ==
  ASSUME Ring, NEW p, NEW b \in Byte, WriteByte(p, b)
  PROVE  Ring' /\ Len(Queue) < PIPESIZE /\ Queue' = Append(Queue, b)
<1>0. WORD \in Nat \ {0} /\ PIPESIZE \in Nat \ {0} /\ PIPESIZE < WORD
  BY PipeAssumption
<1>1. nread \in 0..(WORD - 1) /\ nwrite \in 0..(WORD - 1) /\ data \in [0..(PIPESIZE - 1) -> Byte]
  BY DEF Ring
<1>2. ~Full /\ nread' = nread /\ nwrite' = (nwrite + 1) % WORD
      /\ data' = [data EXCEPT ![nwrite % PIPESIZE] = b]
  BY DEF WriteByte
<1>3. /\ Count = (IF nwrite >= nread THEN nwrite - nread ELSE nwrite + WORD - nread)
      /\ Count \in 0..(PIPESIZE - 1)
  BY <1>0, <1>2, CountIs
<1>4. nwrite' = IF nwrite + 1 < WORD THEN nwrite + 1 ELSE 0
  BY <1>0, <1>1, <1>2
<1>5. Count' = Count + 1
  <2>1. nwrite' + WORD - nread' \in 0..(2 * WORD - 1)
    BY <1>0, <1>1, <1>2, <1>4
  <2>2. PICK y \in 0..(2 * WORD - 1) : y = nwrite' + WORD - nread' /\ Count' = y % WORD
    BY <2>1 DEF Count
  <2>3. y % WORD = IF y < WORD THEN y ELSE y - WORD
    BY <1>0
  <2> QED BY <1>0, <1>1, <1>2, <1>3, <1>4, <2>2, <2>3
<1>6. data' \in [0..(PIPESIZE - 1) -> Byte]
  BY <1>1, <1>2
<1>7. Ring'
  BY <1>0, <1>1, <1>2, <1>3, <1>4, <1>5, <1>6 DEF Ring
<1>8. nwrite % PIPESIZE = (nread + Count) % PIPESIZE
  <2>1. nwrite = (nread + Count) % WORD
    BY <1>0, <1>1, <1>3
  <2>2. nread + Count \in 0..(2 * WORD - 1)
    BY <1>0, <1>1, <1>3
  <2> QED BY <2>1, <2>2, SamePlace
<1>9. ASSUME NEW k \in 1..(Count + 1)
      PROVE  data'[(nread + k - 1) % PIPESIZE]
               = IF k = Count + 1 THEN b ELSE data[(nread + k - 1) % PIPESIZE]
  <2>1. (nread + k - 1) % PIPESIZE \in 0..(PIPESIZE - 1) /\ nwrite % PIPESIZE \in 0..(PIPESIZE - 1)
    BY <1>0, <1>1, <1>3
  <2>2. CASE k = Count + 1
    BY <1>1, <1>2, <1>3, <1>8, <2>1, <2>2
  <2>3. CASE k # Count + 1
    <3>1. PICK x \in Nat, y \in Nat : x = nread + k - 1 /\ y = nread + Count /\ x < y /\ y < x + PIPESIZE
      BY <1>0, <1>1, <1>3, <2>3
    <3>2. (nread + k - 1) % PIPESIZE # nwrite % PIPESIZE
      BY <1>0, <1>8, <3>1, ModApart
    <3> QED BY <1>1, <1>2, <2>1, <2>3, <3>2
  <2> QED BY <2>2, <2>3
<1>10. Queue \in Seq(Byte) /\ Len(Queue) = Count
  <2>1. \A k \in 1..Count : (nread + k - 1) % PIPESIZE \in 0..(PIPESIZE - 1)
    BY <1>0, <1>1, <1>3
  <2> QED BY <1>1, <1>3, <2>1 DEF Queue
<1>11. Queue' = [k \in 1..(Count + 1) |-> data'[(nread + k - 1) % PIPESIZE]]
  BY <1>2, <1>5 DEF Queue
<1>12. \A k \in 1..Count : Queue[k] = data[(nread + k - 1) % PIPESIZE]
  BY DEF Queue
<1>13. \A k \in 1..(Count + 1) : Queue'[k] = IF k = Count + 1 THEN b ELSE Queue[k]
  BY <1>3, <1>9, <1>11, <1>12
<1>14. Queue' \in [1..(Len(Queue) + 1) -> Byte]
  <2>1. \A k \in 1..(Count + 1) : Queue'[k] \in Byte
    BY <1>3, <1>10, <1>13
  <2> QED BY <1>10, <1>11, <2>1
<1>15. Queue' = Append(Queue, b)
  BY <1>3, <1>10, <1>13, <1>14, AppendIs
<1> QED BY <1>0, <1>3, <1>7, <1>10, <1>15

(* Taking a byte takes the first of the queue, which was not empty.        *)
LEMMA ReadTakes ==
  ASSUME Ring, ~Empty, nread' = (nread + 1) % WORD, UNCHANGED <<nwrite, data>>
  PROVE  Ring' /\ Queue # <<>> /\ Queue' = Tail(Queue)
<1>0. WORD \in Nat \ {0} /\ PIPESIZE \in Nat \ {0} /\ PIPESIZE < WORD
  BY PipeAssumption
<1>1. nread \in 0..(WORD - 1) /\ nwrite \in 0..(WORD - 1) /\ data \in [0..(PIPESIZE - 1) -> Byte]
  BY DEF Ring
<1>3. /\ Count = (IF nwrite >= nread THEN nwrite - nread ELSE nwrite + WORD - nread)
      /\ Count \in 1..PIPESIZE
  BY <1>0, CountIs
<1>4. nread' = IF nread + 1 < WORD THEN nread + 1 ELSE 0
  BY <1>0, <1>1
<1>5. Count' = Count - 1
  <2>1. nwrite' + WORD - nread' \in 0..(2 * WORD - 1)
    BY <1>0, <1>1, <1>4
  <2>2. Count' = IF nwrite' + WORD - nread' < WORD THEN nwrite' + WORD - nread'
                 ELSE nwrite' - nread'
    BY <1>0, <1>1, <1>4, <2>1 DEF Count
  <2> QED BY <1>0, <1>1, <1>3, <1>4, <2>2
<1>6. Ring'
  BY <1>0, <1>1, <1>3, <1>4, <1>5 DEF Ring
<1>7. ASSUME NEW k \in 1..(Count - 1)
      PROVE  (nread' + k - 1) % PIPESIZE = (nread + k) % PIPESIZE
  <2>1. nread + k \in 0..(2 * WORD - 1) /\ nread' + k - 1 \in 0..(2 * WORD - 1)
    BY <1>0, <1>1, <1>3, <1>4
  <2>2. (nread' + k - 1) % WORD = (nread + k) % WORD
    BY <1>0, <1>1, <1>3, <1>4, <2>1
  <2> QED BY <2>1, <2>2, SamePlace
<1>8. Queue \in Seq(Byte) /\ Len(Queue) = Count
  <2>1. \A k \in 1..Count : (nread + k - 1) % PIPESIZE \in 0..(PIPESIZE - 1)
    BY <1>0, <1>1, <1>3
  <2> QED BY <1>1, <1>3, <2>1 DEF Queue
<1>9. \A k \in 1..(Count - 1) : Queue[k + 1] = data[(nread + k) % PIPESIZE]
  <2>1. \A k \in 1..(Count - 1) : k + 1 \in 1..Count /\ nread + (k + 1) - 1 = nread + k
    BY <1>1, <1>3
  <2> QED BY <2>1 DEF Queue
<1>10. Queue' = [k \in 1..(Count - 1) |-> data[(nread' + k - 1) % PIPESIZE]]
  BY <1>5 DEF Queue
<1>11. \A k \in 1..(Count - 1) : Queue'[k] = Queue[k + 1]
  BY <1>7, <1>9, <1>10
<1>12. Queue' \in [1..(Len(Queue) - 1) -> Byte]
  <2>1. \A k \in 1..(Count - 1) : Queue'[k] \in Byte
    BY <1>3, <1>8, <1>11
  <2> QED BY <1>8, <1>10, <2>1
<1>13. Queue # <<>>
  BY <1>3, <1>8
<1>14. Queue' = Tail(Queue)
  BY <1>8, <1>11, <1>12, <1>13, TailIs
<1> QED BY <1>6, <1>13, <1>14

(* Every step leaves the queue alone, appends a byte to it or takes its    *)
(* first.                                                                  *)
LEMMA QueueStep ==
  ASSUME Ring, [Next]_vars
  PROVE  Ring' /\ [Fifo!Next]_Queue
<1>1. CASE UNCHANGED <<data, nread, nwrite>>
  BY <1>1 DEF Ring, Count, Queue
<1>2. ASSUME NEW p, NEW b \in Byte, WriteByte(p, b) PROVE Ring' /\ [Fifo!Next]_Queue
  BY <1>2, WriteAppends, Zenon DEF Fifo!Next, Fifo!Put, Queue, Count
<1>3. CASE ~Empty /\ nread' = (nread + 1) % WORD /\ UNCHANGED <<nwrite, data>>
  <2>1. Ring' /\ Queue # <<>> /\ Queue' = Tail(Queue)
    BY <1>3, ReadTakes, Zenon
  <2> QED BY <2>1, Zenon DEF Fifo!Next, Fifo!Get, Queue, Count
<1>4. ASSUME NEW p \in Proc, NewCall(p) \/ InCall(p) \/ Close(p) \/ Kill(p)
      PROVE  \/ UNCHANGED <<data, nread, nwrite>>
             \/ \E b \in Byte : WriteByte(p, b)
             \/ ~Empty /\ nread' = (nread + 1) % WORD /\ UNCHANGED <<nwrite, data>>
  <2>1. CASE Pipewrite(p)
    BY <2>1 DEF Pipewrite, WriteDone, WriteFails, WriteFull
  <2>2. CASE ReadWait(p) \/ ReadCopy(p)
    BY <2>2 DEF ReadWait, ReadCopy
  <2>3. CASE NewCall(p) \/ Acquire(p) \/ Sleep(p) \/ Pipeclose(p) \/ Close(p) \/ Kill(p)
    BY <2>3 DEF NewCall, Call, Acquire, Sleep, Pipeclose, Close, Kill
  <2> QED BY <1>4, <2>1, <2>2, <2>3 DEF InCall
<1> QED BY <1>1, <1>2, <1>3, <1>4 DEF Next, vars

(* The pipe implements Fifo: for any buffer size and word that is a        *)
(* multiple of it, bytes leave in the order they entered, once each.       *)
THEOREM PipeIsFifo == Spec => IsFifo
<1>1. Init => Ring /\ Fifo!Init
  <2> SUFFICES ASSUME Init PROVE Ring /\ Fifo!Init
    OBVIOUS
  <2>0. WORD \in Nat \ {0} /\ PIPESIZE \in Nat \ {0} /\ PIPESIZE < WORD
    BY PipeAssumption
  <2>1. nread = 0 /\ nwrite = 0 /\ data \in [0..(PIPESIZE - 1) -> Byte]
    BY DEF Init
  <2>2. (nwrite + WORD - nread) % WORD = 0
    BY <2>0, <2>1
  <2> QED BY <2>0, <2>1, <2>2 DEF Ring, Count, Fifo!Init
<1>2. Ring /\ [Next]_vars => Ring' /\ [Fifo!Next]_Queue
  BY QueueStep
<1>3. Spec => [][Fifo!Next]_Queue
  BY <1>1, <1>2, PTL DEF Spec
<1>4. Spec => Fifo!Init
  BY <1>1 DEF Spec
<1> QED BY <1>3, <1>4, PTL DEF IsFifo, Fifo!Spec, Queue, Count
=============================================================================
