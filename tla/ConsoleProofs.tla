--------------------------- MODULE ConsoleProofs ---------------------------
(***************************************************************************)
(* Proofs about Console.tla for any number of CPUs and any sizes: the spin *)
(* locks' interrupt bookkeeping never panics, output neither stalls nor    *)
(* overruns the UART, and no reader or writer sleeps past its wakeup.      *)
(* First the inductive invariant IInv, and what a step of one context has  *)
(* to show to keep it: that noff, intena and SIE of its CPU count the      *)
(* push_off()s its label stands for, and that the locks are held by those  *)
(* who are in their critical sections.  Then the steps: those processes    *)
(* and handlers share, then consoleintr(), consoleread(), the UART driver  *)
(* and interrupts.                                                         *)
(***************************************************************************)
EXTENDS Console, TLAPS

\* Labels at which a context has interrupts as they were when it began.
Rest == {"out", "more", "rasleep", "wasleep", "rwoke", "wwoke", "idle", "uart"}
ProcLabel == {"out", "more", "rasleep", "wasleep", "rwoke", "wwoke", "rwant", "read", "rsleep",
              "wwant", "put", "start", "thr", "pwant", "sync", "sthr"}
IntrLabel == {"idle", "uart", "kwant", "key", "pwant", "sync", "sthr", "listed", "twant",
              "start", "thr"}

\* A handler between the start and the end of the printf() of procdump().
Dumping(x) == InIntr(x) /\ key[CpuOf(x)] = "P" /\ pc[x] \in {"pwant", "sync", "sthr"}

\* How many push_off()s of the context await their pop_off().
Depth(x) ==
  IF pc[x] \in Rest THEN 0
  ELSE 1 + (IF pc[x] = "sthr" THEN 1 ELSE 0) + (IF Dumping(x) THEN 1 ELSE 0)

\* Whether the context is in a critical section of the lock.
Holds(x, l) ==
  \/ l = "cons" /\ pc[x] \in {"read", "rsleep"}
  \/ l = "cons" /\ InIntr(x) /\ pc[x] \in {"key", "pwant", "sync", "sthr", "listed"}
  \/ l = "tx" /\ pc[x] \in {"put", "start", "thr"}
  \/ l = "pr" /\ pc[x] \in {"sync", "sthr"} /\ (InIntr(x) => key[CpuOf(x)] = "P")

Types ==
  /\ cpu \in [CPU -> [noff : Nat, intena : BOOLEAN, sie : BOOLEAN]]
  /\ lock \in [Lock -> CPU \cup {None}]
  /\ pc \in [Ctx -> ProcLabel \cup IntrLabel]
  /\ key = [c \in CPU |-> key[c]]
  /\ tx \in Nat /\ fifo \in Nat /\ thre \in BOOLEAN

\* A handler runs only while its CPU's process has interrupts on; noff counts
\* the push_off()s of both, and the process finds interrupts on again.
CpuOK(c) ==
  /\ pc[P(c)] \in ProcLabel /\ pc[I(c)] \in IntrLabel
  /\ pc[I(c)] # "idle" => Depth(P(c)) = 0
  /\ cpu[c].noff = Depth(P(c)) + Depth(I(c))
  /\ cpu[c].intena <=> pc[I(c)] = "idle" /\ Depth(P(c)) > 0
  /\ cpu[c].sie <=> pc[I(c)] = "idle" /\ Depth(P(c)) = 0
  /\ pc[I(c)] = "pwant" => key[c] = "P"

CpusOK == \A c \in CPU : CpuOK(c)
Locks == \A c \in CPU, l \in Lock : lock[l] = c <=> Holds(P(c), l) \/ Holds(I(c), l)

\* With bytes buffered, the UART will interrupt or somebody is in uartstart().
Kick == tx > 0 => fifo > 0 \/ thre \/ Writing # {} \/ \E x \in Ctx : pc[x] = "start"
\* Sleepers, and a reader about to sleep.
Sleeps == \A x \in Ctx : /\ pc[x] = "wasleep" => tx = UART_TX_BUF_SIZE
                         /\ pc[x] \in {"rasleep", "rsleep"} => Empty

IInv == Types /\ CpusOK /\ Locks /\ NoPanic /\ Kick /\ FifoFits /\ Sleeps

-----------------------------------------------------------------------------
\* A context is the process or the handler of its CPU.
LEMMA Contexts ==
  /\ \A c \in CPU : /\ P(c) \in Ctx /\ I(c) \in Ctx /\ CpuOf(P(c)) = c /\ CpuOf(I(c)) = c
                    /\ ~InIntr(P(c)) /\ InIntr(I(c))
  /\ \A c, d \in CPU : P(c) # I(d) /\ (c # d => P(c) # P(d) /\ I(c) # I(d))
  /\ \A x \in Ctx : CpuOf(x) \in CPU /\ x = IF InIntr(x) THEN I(CpuOf(x)) ELSE P(CpuOf(x))
BY DEF P, I, Ctx, CpuOf, InIntr

(* What the proofs use of finite sets; SetFactsHold below proves it.       *)
SetFacts ==
  /\ Cardinality(CPU) \in Nat /\ Cardinality({}) = 0
  /\ \A S \in SUBSET Ctx :
       /\ Cardinality(S) \in Nat
       /\ \A x \in S : Cardinality(S \ {x}) = Cardinality(S) - 1
       /\ (\A x, y \in S : CpuOf(x) = CpuOf(y) => x = y) => Cardinality(S) <= Cardinality(CPU)

\* The contexts that are about to write THR can be counted.
LEMMA Counted == ASSUME SetFacts PROVE Writing \in SUBSET Ctx /\ Cardinality(Writing) \in Nat /\ Cardinality(CPU) \in Nat
<1>1. Writing \in SUBSET Ctx
  BY Zenon DEF Writing
<1> QED BY <1>1, Zenon DEF SetFacts

\* Another CPU: at most its sleeping process is woken.
Same(y) ==
  \/ pc'[y] = pc[y]
  \/ pc[y] = "rasleep" /\ pc'[y] = "rwoke"
  \/ pc[y] = "wasleep" /\ pc'[y] = "wwoke"
Bystander(d) == cpu'[d] = cpu[d] /\ key'[d] = key[d] /\ Same(P(d)) /\ Same(I(d))

\* A bystander's part of the invariant is as before.
LEMMA BystanderKeeps ==
  ASSUME NEW d \in CPU, CpuOK(d), Bystander(d)
  PROVE  /\ CpuOK(d)'
         /\ \A l \in Lock : /\ Holds(P(d), l)' <=> Holds(P(d), l)
                            /\ Holds(I(d), l)' <=> Holds(I(d), l)
<1>1. \A y \in {P(d), I(d)} : /\ (pc'[y] \in Rest <=> pc[y] \in Rest)
                              /\ (pc[y] \notin Rest => pc'[y] = pc[y])
  BY Zenon DEF Bystander, Same, Rest
<1>2. Depth(P(d))' = Depth(P(d)) /\ Depth(I(d))' = Depth(I(d))
  BY <1>1, Contexts, Zenon DEF Bystander, Depth, Dumping
<1>3. CpuOK(d)'
  BY <1>1, <1>2, Contexts, Zenon DEF Bystander, Same, CpuOK, ProcLabel, IntrLabel
<1>4. \A l \in Lock : /\ Holds(P(d), l)' <=> Holds(P(d), l)
                      /\ Holds(I(d), l)' <=> Holds(I(d), l)
  BY <1>1, Contexts, Zenon DEF Bystander, Holds, Same, Rest
<1> QED BY <1>3, <1>4, Zenon

\* So is everybody's, when no CPU acts.
LEMMA BystandersKeep ==
  ASSUME IInv, \A d \in CPU : Bystander(d), UNCHANGED lock
  PROVE  CpusOK' /\ Locks'
<1>1. \A d \in CPU : /\ CpuOK(d)'
                     /\ \A l \in Lock : /\ Holds(P(d), l)' <=> Holds(P(d), l)
                                        /\ Holds(I(d), l)' <=> Holds(I(d), l)
  BY BystanderKeeps, Zenon DEF IInv, CpusOK
<1> QED BY <1>1, Zenon DEF IInv, CpusOK, Locks

\* A step of CPU c: what has to be shown of it.
Acts(c) ==
  /\ \A d \in CPU \ {c} : Bystander(d)
  /\ CpuOK(c)'
  /\ \A l \in Lock : /\ lock'[l] = c <=> Holds(P(c), l)' \/ Holds(I(c), l)'
                     /\ lock'[l] = lock[l] \/ {lock[l], lock'[l]} \subseteq {c, None}

\* From the acting CPU's part to the whole.
LEMMA ActsKeep ==
  ASSUME NEW c \in CPU, IInv, Acts(c)
  PROVE  CpusOK' /\ Locks'
<1>1. ASSUME NEW d \in CPU \ {c}
      PROVE  /\ CpuOK(d)'
             /\ \A l \in Lock : /\ Holds(P(d), l)' <=> Holds(P(d), l)
                                /\ Holds(I(d), l)' <=> Holds(I(d), l)
  BY <1>1, BystanderKeeps, Zenon DEF Acts, IInv, CpusOK
<1>2. CpusOK'
  BY <1>1, Zenon DEF Acts, CpusOK
<1>3. ASSUME NEW d \in CPU, NEW l \in Lock
      PROVE  (lock'[l] = d <=> Holds(P(d), l)' \/ Holds(I(d), l)')
  <2>1. CASE d = c
    BY <2>1, Zenon DEF Acts
  <2>2. CASE d # c
    BY <1>1, <2>2, ConsoleAssumption DEF Acts, IInv, Locks
  <2> QED BY <2>1, <2>2, Zenon
<1> QED BY <1>2, <1>3, Zenon DEF Locks

\* A step that leaves the output and the lines alone, and puts nobody to sleep.
LEMMA QuietKeeps ==
  ASSUME IInv, UNCHANGED <<tx, fifo, thre, r, w>>,
         \A x \in Ctx : /\ pc'[x] \in {"thr", "sthr"} <=> pc[x] \in {"thr", "sthr"}
                        /\ pc[x] = "start" => pc'[x] = "start"
                        /\ pc'[x] \in {"wasleep", "rasleep", "rsleep"} => pc'[x] = pc[x]
  PROVE  Kick' /\ FifoFits' /\ Sleeps'
<1>1. Writing' = Writing
  BY Zenon DEF Writing
<1>2. Kick'
  BY <1>1, Zenon DEF IInv, Kick
<1>3. FifoFits'
  BY <1>1, Zenon DEF IInv, FifoFits
<1>4. Sleeps'
  BY Zenon DEF IInv, Sleeps, Empty
<1> QED BY <1>2, <1>3, <1>4, Zenon
-----------------------------------------------------------------------------
\* The context x of a CPU that runs goes from one label to another.
Turn(x) ==
  /\ \A y \in Ctx \ {x} : Same(y)
  /\ key' = [d \in CPU |-> key'[d]] /\ \A d \in CPU \ {CpuOf(x)} : key'[d] = key[d]
  /\ IF InIntr(x)
     THEN /\ pc'[x] \in IntrLabel \ {"idle"}
          /\ pc'[x] = "pwant" => key'[CpuOf(x)] = "P"
     ELSE pc'[x] \in ProcLabel

\* It leaves noff as it is, or pushes or pops once, as its label says.
Counts(x) ==
  \/ cpu' = cpu /\ Depth(x)' = Depth(x)
  \/ cpu' = [cpu EXCEPT ![CpuOf(x)] = PushOff(@)] /\ Depth(x)' = Depth(x) + 1
  \/ cpu' = [cpu EXCEPT ![CpuOf(x)] = PopOff(@)] /\ Depth(x)' = Depth(x) - 1 /\ Depth(x) > 0

\* It holds the locks that its label says.
Keeps(x) ==
  \A l \in Lock : /\ lock'[l] = CpuOf(x) <=> Holds(x, l)'
                  /\ lock'[l] = lock[l] \/ {lock[l], lock'[l]} \subseteq {CpuOf(x), None}

\* A context at rest has no push_off() to undo and holds no lock.
LEMMA AtRest ==
  \A y \in Ctx : /\ Depth(y) \in Nat
                 /\ Depth(y) = 0 <=> pc[y] \in Rest
                 /\ pc[y] \in Rest => \A l \in Lock : ~Holds(y, l)
BY DEF Depth, Rest, Holds

\* What is known before a turn: the other context of the CPU is at rest, and
\* noff, intena and SIE are those of x alone.
LEMMA Alone ==
  ASSUME IInv, NEW x \in Ctx, Runs(x)
  PROVE  /\ cpu[CpuOf(x)].noff = Depth(x)
         /\ Depth(x) \in Nat
         /\ IF InIntr(x) THEN ~cpu[CpuOf(x)].intena /\ ~cpu[CpuOf(x)].sie
            ELSE (cpu[CpuOf(x)].intena <=> Depth(x) > 0) /\ (cpu[CpuOf(x)].sie <=> Depth(x) = 0)
         /\ \A l \in Lock : lock[l] = CpuOf(x) <=> Holds(x, l)
         /\ \A y \in Ctx \ {x} : CpuOf(y) = CpuOf(x) =>
              pc[y] \in Rest /\ Depth(y) = 0 /\ \A l \in Lock : ~Holds(y, l)
         /\ InIntr(x) => pc[x] \in IntrLabel \ {"idle"}
         /\ ~InIntr(x) => pc[x] \in ProcLabel /\ pc[I(CpuOf(x))] = "idle"
<1> DEFINE c == CpuOf(x)
<1>0. c \in CPU /\ (~InIntr(x) => x = P(c)) /\ (InIntr(x) => x = I(c)) /\ CpuOK(c)
  BY Contexts, Zenon DEF IInv, CpusOK
<1>1. \A y \in Ctx \ {x} : CpuOf(y) = c => y = IF InIntr(x) THEN P(c) ELSE I(c)
  BY Contexts, Zenon
<1>2. \A y \in Ctx : /\ Depth(y) \in Nat
                     /\ Depth(y) = 0 <=> pc[y] \in Rest
                     /\ pc[y] \in Rest => \A l \in Lock : ~Holds(y, l)
  BY AtRest, Zenon
<1>3. \A y \in Ctx \ {x} : CpuOf(y) = c => pc[y] \in Rest
  BY <1>0, <1>1, <1>2, Contexts, Zenon DEF Runs, CpuOK, Rest
<1>4. /\ cpu[c].noff = Depth(x)
      /\ IF InIntr(x) THEN ~cpu[c].intena /\ ~cpu[c].sie
         ELSE (cpu[c].intena <=> Depth(x) > 0) /\ (cpu[c].sie <=> Depth(x) = 0)
  <2>1. CASE InIntr(x)
    <3>1. pc[I(c)] # "idle" /\ Depth(P(c)) = 0
      BY <1>0, <2>1, Zenon DEF Runs, CpuOK
    <3> QED BY <1>0, <1>2, <2>1, <3>1, Contexts DEF CpuOK
  <2>2. CASE ~InIntr(x)
    <3>1. pc[I(c)] = "idle" /\ Depth(I(c)) = 0
      BY <1>0, <2>2, Zenon DEF Runs, CpuOK, Depth, Rest
    <3> QED BY <1>0, <1>2, <2>2, <3>1, Contexts DEF CpuOK
  <2> QED BY <2>1, <2>2, Zenon
<1>5. \A l \in Lock : lock[l] = c <=> Holds(x, l)
  BY <1>0, <1>2, <1>3, Contexts DEF IInv, Locks
<1>6. /\ InIntr(x) => pc[x] \in IntrLabel \ {"idle"}
      /\ ~InIntr(x) => pc[x] \in ProcLabel /\ pc[I(c)] = "idle"
  BY <1>0, Zenon DEF CpuOK, Runs
<1> QED BY <1>2, <1>3, <1>4, <1>5, <1>6, Zenon

\* pop_off() after a push_off() does not panic.
LEMMA NoPopPanic ==
  ASSUME IInv, NEW x \in Ctx, Runs(x), Depth(x) > 0
  PROVE  ~PopOffPanics(cpu[CpuOf(x)])
<1>1. cpu[CpuOf(x)].noff >= 1 /\ ~(cpu[CpuOf(x)].noff < 1)
  BY Alone
<1>2. ~cpu[CpuOf(x)].sie
  <2>1. CASE InIntr(x)
    BY <2>1, Alone, Zenon
  <2>2. CASE ~InIntr(x)
    <3>1. Depth(x) # 0
      BY Alone
    <3> QED BY <2>2, <3>1, Alone, Zenon
  <2> QED BY <2>1, <2>2, Zenon
<1> QED BY <1>1, <1>2, Zenon DEF PopOffPanics

\* A step that neither acquires nor releases.
LEMMA KeepsSame ==
  ASSUME IInv, NEW x \in Ctx, Runs(x), UNCHANGED lock, \A l \in Lock : Holds(x, l)' <=> Holds(x, l)
  PROVE  Keeps(x)
<1>1. \A l \in Lock : lock[l] = CpuOf(x) <=> Holds(x, l)
  BY Alone, Zenon
<1> QED BY <1>1, Zenon DEF Keeps

\* The three facts about x's turn give the invariant of every CPU and lock.
LEMMA TurnKeeps ==
  ASSUME IInv, NEW x \in Ctx, Runs(x), Turn(x), Counts(x), Keeps(x)
  PROVE  /\ CpusOK' /\ Locks'
         /\ cpu' \in [CPU -> [noff : Nat, intena : BOOLEAN, sie : BOOLEAN]]
<1> DEFINE c == CpuOf(x)
<1>0. c \in CPU /\ (~InIntr(x) => x = P(c)) /\ (InIntr(x) => x = I(c)) /\ CpuOK(c)
  BY Contexts, Zenon DEF IInv, CpusOK
<1>1. cpu[c].noff \in Nat /\ cpu[c].noff = Depth(x)
  BY <1>0, Alone, Zenon DEF IInv, Types
<1>2. cpu' \in [CPU -> [noff : Nat, intena : BOOLEAN, sie : BOOLEAN]]
  <2>1. cpu \in [CPU -> [noff : Nat, intena : BOOLEAN, sie : BOOLEAN]]
    BY Zenon DEF IInv, Types
  <2>2. PushOff(cpu[c]) \in [noff : Nat, intena : BOOLEAN, sie : BOOLEAN]
    BY <1>0, <2>1 DEF PushOff
  <2>3. Depth(x) > 0 => PopOff(cpu[c]) \in [noff : Nat, intena : BOOLEAN, sie : BOOLEAN]
    BY <1>0, <1>1, <2>1 DEF PopOff
  <2> QED BY <1>0, <2>1, <2>2, <2>3, Zenon DEF Counts
<1>3. \A d \in CPU \ {c} : cpu'[d] = cpu[d]
  BY Zenon DEF Counts, IInv, Types
<1>4. \A d \in CPU \ {c} : Bystander(d)
  BY <1>0, <1>3, Contexts, Zenon DEF Turn, Bystander
<1>5. Depth(x)' \in Nat
  BY <1>1 DEF Counts
<1>6. /\ cpu'[c].noff = Depth(x)'
      /\ IF InIntr(x) THEN ~cpu'[c].intena /\ ~cpu'[c].sie
         ELSE (cpu'[c].intena <=> Depth(x)' > 0) /\ (cpu'[c].sie <=> Depth(x)' = 0)
  <2>1. CASE cpu' = cpu /\ Depth(x)' = Depth(x)
    BY <2>1, Alone, Zenon
  <2>2. CASE cpu' = [cpu EXCEPT ![c] = PushOff(@)] /\ Depth(x)' = Depth(x) + 1
    BY <1>0, <1>1, <2>2, Alone DEF IInv, Types, PushOff
  <2>3. CASE cpu' = [cpu EXCEPT ![c] = PopOff(@)] /\ Depth(x)' = Depth(x) - 1 /\ Depth(x) > 0
    BY <1>0, <1>1, <2>3, Alone DEF IInv, Types, PopOff
  <2> QED BY <2>1, <2>2, <2>3, Zenon DEF Counts
<1>7. \A y \in Ctx \ {x} : CpuOf(y) = c =>
         pc'[y] \in Rest /\ Depth(y)' = 0 /\ \A l \in Lock : ~Holds(y, l)'
  BY Alone DEF Turn, Same, Rest, Depth, Holds
<1>8. CpuOK(c)'
  <2>1. CASE InIntr(x)
    <3>1. x = I(c) /\ P(c) \in Ctx \ {x} /\ CpuOf(P(c)) = c
      BY <1>0, <2>1, Contexts, Zenon
    <3>2. pc'[I(c)] \in IntrLabel \ {"idle"} /\ (pc'[I(c)] = "pwant" => key'[c] = "P")
      BY <2>1, <3>1, Zenon DEF Turn
    <3>3. pc'[P(c)] \in ProcLabel /\ Depth(P(c))' = 0
      BY <1>0, <1>7, <3>1, Zenon DEF Turn, Same, CpuOK, ProcLabel
    <3> QED BY <1>5, <1>6, <2>1, <3>1, <3>2, <3>3 DEF CpuOK
  <2>2. CASE ~InIntr(x)
    <3>1. x = P(c) /\ I(c) \in Ctx \ {x} /\ CpuOf(I(c)) = c
      BY <1>0, <2>2, Contexts, Zenon
    <3>2. pc'[P(c)] \in ProcLabel
      BY <2>2, <3>1, Zenon DEF Turn
    <3>3. pc'[I(c)] = "idle" /\ Depth(I(c))' = 0
      BY <1>0, <1>7, <2>2, <3>1, Alone DEF Turn, Same
    <3> QED BY <1>5, <1>6, <2>2, <3>1, <3>2, <3>3 DEF CpuOK, IntrLabel
  <2> QED BY <2>1, <2>2, Zenon
<1>9. \A l \in Lock : lock'[l] = c <=> Holds(P(c), l)' \/ Holds(I(c), l)'
  BY <1>0, <1>7, Contexts DEF Keeps
<1>10. Acts(c)
  BY <1>4, <1>8, <1>9, Zenon DEF Acts, Keeps
<1> QED BY <1>0, <1>2, <1>10, ActsKeep, Zenon
-----------------------------------------------------------------------------
\* Nobody else is in a critical section of a lock that x holds.
LEMMA Exclusive ==
  ASSUME IInv, NEW x \in Ctx, Runs(x), NEW l \in Lock, Holds(x, l), NEW y \in Ctx \ {x}
  PROVE  ~Holds(y, l)
<1>1. lock[l] = CpuOf(x)
  BY Alone, Zenon
<1>2. CASE CpuOf(y) = CpuOf(x)
  BY <1>2, Alone, Zenon
<1>3. CASE CpuOf(y) # CpuOf(x)
  BY <1>1, <1>3, Contexts DEF IInv, Locks
<1> QED BY <1>2, <1>3, Zenon

\* Every CPU has at most one context between its look at LSR and its write of
\* THR, and there is room for one more that found the UART idle.
LEMMA WriterFits ==
  ASSUME SetFacts, IInv, NEW x \in Ctx, Runs(x), fifo = 0, UNCHANGED fifo,
         Writing' = Writing \cup {x}
  PROVE  FifoFits'
<1>0. PICK S : S = Writing \cup {x}
  BY Zenon
<1>1. S \in SUBSET Ctx /\ \A y \in S : CpuOf(y) \in CPU
  BY <1>0, Contexts, Zenon DEF Writing
<1>2. \A y \in Writing : pc[y] \notin Rest /\ Depth(y) > 0 /\ pc[y] # "idle"
  BY DEF Writing, Rest, Depth
<1>3. \A y \in S \ {x} : CpuOf(y) # CpuOf(x)
  BY <1>0, <1>1, <1>2, Alone, Zenon
<1>4. \A y, z \in Writing : CpuOf(y) = CpuOf(z) => y = z
  BY <1>0, <1>1, <1>2, Contexts DEF IInv, CpusOK, CpuOK
<1>5. \A y, z \in S : CpuOf(y) = CpuOf(z) => y = z
  BY <1>0, <1>3, <1>4, Zenon
<1>6. Cardinality(S) <= Cardinality(CPU) /\ Cardinality(S) \in Nat
  BY <1>1, <1>5, Zenon DEF SetFacts
<1> QED BY <1>0, <1>6 DEF FifoFits

\* A byte written to THR.
LEMMA WriterDone ==
  ASSUME SetFacts, IInv, NEW x \in Writing, fifo' = fifo + 1, Writing' = Writing \ {x}
  PROVE  FifoFits'
<1>1. Cardinality(Writing') = Cardinality(Writing) - 1
  BY Counted, Zenon DEF SetFacts
<1> QED BY <1>1, Counted DEF IInv, Types, FifoFits

-----------------------------------------------------------------------------
USE DEF Go, Panic, call, cons, uart, plan

\* The tables of labels, entry by entry.
LEMMA LockNames ==
  /\ Want = {"rwant", "kwant", "wwant", "twant", "pwant"}
  /\ LockOf["rwant"] = "cons" /\ LockOf["kwant"] = "cons" /\ LockOf["wwant"] = "tx"
  /\ LockOf["twant"] = "tx" /\ LockOf["pwant"] = "pr"
  /\ Inside["rwant"] = "read" /\ Inside["kwant"] = "key" /\ Inside["wwant"] = "put"
  /\ Inside["twant"] = "start" /\ Inside["pwant"] = "sync"
BY Zenon DEF Want, LockOf, Inside

\* The first half of acquire(): interrupts go off, and the lock is not already
\* this CPU's.
LEMMA Begins ==
  ASSUME IInv, NEW x \in Ctx, Runs(x), NEW l \in Want, StartAcquire(x, l),
         IF InIntr(x)
         THEN \/ pc[x] = "uart" /\ l \in {"kwant", "twant"}
              \/ pc[x] = "key" /\ l = "pwant" /\ key[CpuOf(x)] = "P" /\ key' = key
         ELSE pc[x] \in {"out", "more", "rwoke", "wwoke"} /\ l \in {"rwant", "wwant", "pwant"},
         key' = [c \in CPU |-> key'[c]], \A c \in CPU \ {CpuOf(x)} : key'[c] = key[c],
         UNCHANGED <<lock, tx, fifo, thre, r, w>>
  PROVE  IInv'
<1>1. /\ pc' = [pc EXCEPT ![x] = l]
      /\ cpu' = [cpu EXCEPT ![CpuOf(x)] = PushOff(@)]
      /\ pc' \in [Ctx -> ProcLabel \cup IntrLabel]
  BY Zenon DEF StartAcquire, IInv, Types, ProcLabel, IntrLabel
<1>2. pc'[x] = l /\ \A y \in Ctx \ {x} : pc'[y] = pc[y]
  BY <1>1, Zenon DEF IInv, Types
<1>3. Turn(x)
  BY <1>2, Zenon DEF Turn, Same, ProcLabel, IntrLabel
<1>4. Depth(x)' = Depth(x) + 1
  BY <1>2 DEF Depth, Rest, Dumping
<1>5. \A m \in Lock : Holds(x, m)' <=> Holds(x, m)
  BY <1>2, Zenon DEF Holds
<1>6. CpusOK' /\ Locks' /\ Types'
  BY <1>1, <1>3, <1>4, <1>5, Alone, TurnKeeps, ZenonT(30) DEF Counts, Keeps, IInv, Types
<1>7. NoPanic'
  <2>1. LockOf[l] \in Lock /\ ~Holds(x, LockOf[l])
    BY LockNames, Zenon DEF Lock, Holds
  <2> QED BY <2>1, Alone, Zenon DEF StartAcquire, Holding, NoPanic
<1>8. Kick' /\ FifoFits' /\ Sleeps'
  BY <1>2, QuietKeeps, Zenon DEF IInv, Types
<1> QED BY <1>6, <1>7, <1>8, Zenon DEF IInv

\* The second half: the lock was free.
LEMMA AcquireKeeps ==
  ASSUME IInv, NEW x \in Ctx, Acquire(x)
  PROVE  IInv'
<1> DEFINE m == LockOf[pc[x]]
<1>1. /\ Runs(x) /\ pc[x] \in Want /\ m \in Lock /\ lock[m] = None
      /\ lock' = [lock EXCEPT ![m] = CpuOf(x)]
      /\ pc' = [pc EXCEPT ![x] = Inside[pc[x]]]
      /\ UNCHANGED <<cpu, key, panicked, tx, fifo, thre, r, w>>
  BY LockNames, Zenon DEF Acquire, Lock
<1>2. /\ pc'[x] = Inside[pc[x]] /\ \A y \in Ctx \ {x} : pc'[y] = pc[y]
      /\ lock'[m] = CpuOf(x) /\ \A l \in Lock \ {m} : lock'[l] = lock[l]
  BY <1>1, Zenon DEF IInv, Types
<1>3. Turn(x) /\ Types'
  BY <1>1, <1>2, LockNames, Alone, Contexts DEF Turn, Same, ProcLabel, IntrLabel, IInv, Types
<1>4. Depth(x)' = Depth(x)
  <2>1. pc[x] \notin Rest /\ pc'[x] \notin Rest /\ pc[x] # "sthr" /\ pc'[x] # "sthr"
    BY <1>1, <1>2, LockNames, Zenon DEF Rest
  <2>2. Dumping(x)' <=> Dumping(x)
    BY <1>1, <1>2, LockNames DEF Dumping
  <2> QED BY <2>1, <2>2, Zenon DEF Depth
<1>5. \A l \in Lock : Holds(x, l)' <=> Holds(x, l) \/ l = m
  <2>1. InIntr(x) /\ pc[x] = "pwant" => key[CpuOf(x)] = "P"
    BY Contexts, Zenon DEF IInv, CpusOK, CpuOK
  <2>2. IF InIntr(x) THEN pc[x] \in {"kwant", "twant", "pwant"} ELSE pc[x] \in {"rwant", "wwant", "pwant"}
    BY <1>1, LockNames, Alone, Zenon DEF ProcLabel, IntrLabel
  <2>3. CASE pc[x] \in {"rwant", "kwant"}
    BY <1>1, <1>2, <2>2, <2>3, LockNames, Zenon DEF Holds, Lock
  <2>4. CASE pc[x] \in {"wwant", "twant"}
    BY <1>1, <1>2, <2>4, LockNames, Zenon DEF Holds, Lock
  <2>5. CASE pc[x] = "pwant"
    BY <1>1, <1>2, <2>1, <2>5, LockNames DEF Holds, Lock
  <2> QED BY <2>2, <2>3, <2>4, <2>5, Zenon
<1>6. Keeps(x)
  <2>1. \A l \in Lock : lock[l] = CpuOf(x) <=> Holds(x, l)
    BY <1>1, Alone, Zenon
  <2> QED BY <1>1, <1>2, <1>5, <2>1 DEF Keeps
<1>7. CpusOK' /\ Locks'
  BY <1>1, <1>3, <1>4, <1>6, TurnKeeps, Zenon DEF Counts
<1>8. Kick' /\ FifoFits' /\ Sleeps'
  BY <1>1, <1>2, LockNames, QuietKeeps
<1> QED BY <1>1, <1>3, <1>7, <1>8, Zenon DEF IInv, NoPanic

\* release(): x gives up l, which it holds, and pops once.
LEMMA Releases ==
  ASSUME IInv, NEW x \in Ctx, Runs(x), NEW l \in Lock, Holds(x, l), Release(x, l), Turn(x),
         Depth(x)' = Depth(x) - 1, \A m \in Lock : Holds(x, m)' <=> Holds(x, m) /\ m # l
  PROVE  /\ CpusOK' /\ Locks' /\ NoPanic'
         /\ cpu' \in [CPU -> [noff : Nat, intena : BOOLEAN, sie : BOOLEAN]]
         /\ lock' \in [Lock -> CPU \cup {None}]
<1>1. /\ lock' = [lock EXCEPT ![l] = None]
      /\ cpu' = [cpu EXCEPT ![CpuOf(x)] = PopOff(@)]
  BY Zenon DEF Release
<1>2. Depth(x) > 0
  BY DEF Holds, Depth, Rest
<1>3. lock[l] = CpuOf(x)
  BY Alone, Zenon
<1>4. ~PopOffPanics(cpu[CpuOf(x)])
  BY <1>2, NoPopPanic, Zenon
<1>5. NoPanic'
  BY <1>3, <1>4, Zenon DEF Release, Holding, NoPanic
<1>6. lock' \in [Lock -> CPU \cup {None}] /\ lock'[l] = None /\ \A m \in Lock \ {l} : lock'[m] = lock[m]
  BY <1>1, Zenon DEF IInv, Types
<1>7. Keeps(x)
  <2>1. \A m \in Lock : lock[m] = CpuOf(x) <=> Holds(x, m)
    BY Alone, Zenon
  <2>2. CpuOf(x) # None
    BY Contexts, ConsoleAssumption, Zenon
  <2> QED BY <1>3, <1>6, <2>1, <2>2, Zenon DEF Keeps
<1> QED BY <1>1, <1>2, <1>5, <1>6, <1>7, TurnKeeps, ZenonT(30) DEF Counts

\* The beginnings of calls and of uartintr()'s work, and the end of sleep().
LEMMA BeginKeeps ==
  ASSUME IInv, NEW c \in CPU,
         \/ \E n : Read(c, n) \/ Write(c, n) \/ Printf(c, n)
         \/ Woken(c) \/ Uartintr(c)
  PROVE  IInv'
<1>1. key' = [d \in CPU |-> key'[d]] /\ \A d \in CPU \ {c} : key'[d] = key[d]
  BY Zenon DEF Read, Write, Printf, Woken, Uartintr, IInv, Types
<1>2. CASE \E n : Read(c, n) \/ Write(c, n) \/ Printf(c, n)
  BY <1>1, <1>2, Contexts, Begins, LockNames, Zenon DEF Read, Write, Printf
<1>3. CASE Woken(c)
  BY <1>1, <1>3, Contexts, Begins, LockNames, Zenon DEF Woken
<1>4. CASE Uartintr(c)
  BY <1>1, <1>4, Contexts, Begins, LockNames, Zenon DEF Uartintr
<1> QED BY <1>2, <1>3, <1>4, Zenon

\* consolewrite() goes on or returns.
LEMMA WriteMoreKeeps ==
  ASSUME IInv, NEW c \in CPU, WriteMore(c)
  PROVE  IInv'
<1>1. CASE StartAcquire(P(c), "wwant")
  BY <1>1, Contexts, Begins, LockNames, ZenonT(30) DEF WriteMore, IInv, Types
<1>2. CASE Go(P(c), "out") /\ UNCHANGED <<cpu, panicked>>
  <2>1. /\ pc'[P(c)] = "out" /\ pc[P(c)] = "more" /\ \A y \in Ctx \ {P(c)} : pc'[y] = pc[y]
        /\ Runs(P(c)) /\ UNCHANGED <<lock, key, tx, fifo, thre, r, w>>
    BY <1>2, Contexts, Zenon DEF WriteMore, IInv, Types
  <2>2. Turn(P(c)) /\ Types'
    BY <1>2, <2>1, Contexts, Zenon DEF Turn, Same, ProcLabel, IInv, Types
  <2>3. Counts(P(c)) /\ Keeps(P(c))
    <3>1. Depth(P(c))' = 0 /\ Depth(P(c)) = 0
      BY <2>1, Zenon DEF Depth, Rest
    <3>2. \A l \in Lock : Holds(P(c), l)' <=> Holds(P(c), l)
      BY <2>1, Zenon DEF Holds
    <3>3. Keeps(P(c))
      BY <2>1, <3>2, Contexts, KeepsSame, Zenon
    <3> QED BY <1>2, <3>1, <3>3, Zenon DEF Counts
  <2>4. Kick' /\ FifoFits' /\ Sleeps'
    BY <2>1, QuietKeeps, Zenon
  <2> QED BY <1>2, <2>1, <2>2, <2>3, <2>4, Contexts, TurnKeeps, Zenon DEF IInv, NoPanic
<1> QED BY <1>1, <1>2, Zenon DEF WriteMore

\* kill() wakes a reader.
LEMMA KillKeeps ==
  ASSUME IInv, NEW c \in CPU, Kill(c)
  PROVE  IInv'
<1>1. /\ \A y \in Ctx : pc'[y] = pc[y] \/ (pc[y] = "rasleep" /\ pc'[y] = "rwoke")
      /\ UNCHANGED <<cpu, lock, key, tx, fifo, thre, r, w, panicked>>
  BY Zenon DEF Kill, IInv, Types
<1>2. \A d \in CPU : Bystander(d)
  BY <1>1, Contexts, Zenon DEF Bystander, Same
<1>4. CpusOK' /\ Locks'
  BY <1>1, <1>2, BystandersKeep, Zenon
<1>5. Types'
  BY <1>1, ZenonT(30) DEF Kill, IInv, Types, ProcLabel
<1>6. Kick' /\ FifoFits' /\ Sleeps'
  BY <1>1, QuietKeeps, Zenon
<1> QED BY <1>1, <1>4, <1>5, <1>6, Zenon DEF IInv, NoPanic

\* The UART: a byte is sent, a key is pressed.
LEMMA DeviceKeeps ==
  ASSUME SetFacts, IInv, Send \/ Press
  PROVE  IInv'
<1>1. /\ UNCHANGED <<cpu, lock, pc, key, tx, r, w, panicked>>
      /\ (fifo > 0 /\ fifo' = fifo - 1) \/ fifo' = fifo
      /\ thre' \in BOOLEAN /\ (thre => thre') /\ (fifo = 1 => thre' \/ fifo' = fifo)
  BY ZenonT(30) DEF Send, Press, IInv, Types
<1>2. Types'
  BY <1>1 DEF IInv, Types
<1>3. Sleeps' /\ NoPanic' /\ CpusOK' /\ Locks'
  <2>1. \A d \in CPU : Bystander(d)
    BY <1>1, Zenon DEF Bystander, Same
  <2>2. CpusOK' /\ Locks'
    BY <1>1, <2>1, BystandersKeep, Zenon
  <2> QED BY <1>1, <2>2, Zenon DEF IInv, Sleeps, Empty, NoPanic
<1>4. Writing' = Writing
  BY <1>1, Zenon DEF Writing
<1>5. Kick'
  BY <1>1, <1>4 DEF IInv, Types, Kick
<1>6. FifoFits'
  BY <1>1, <1>4, Counted DEF IInv, Types, FifoFits
<1> QED BY <1>2, <1>3, <1>5, <1>6, Zenon DEF IInv
-----------------------------------------------------------------------------
\* uartstart() writes THR.
LEMMA StartTHRKeeps ==
  ASSUME SetFacts, IInv, NEW x \in Ctx, StartTHR(x)
  PROVE  IInv'
<1>1. /\ Runs(x) /\ pc[x] = "thr" /\ pc'[x] = "start" /\ \A y \in Ctx \ {x} : pc'[y] = pc[y]
      /\ fifo' = fifo + 1 /\ thre' \in BOOLEAN /\ UNCHANGED <<cpu, lock, key, tx, r, w, panicked>>
  BY ZenonT(30) DEF StartTHR, IInv, Types
<1>2. Types'
  BY <1>1 DEF StartTHR, IInv, Types, ProcLabel
<1>3. Turn(x)
  BY <1>1, <1>2, Zenon DEF Turn, Same, ProcLabel, IntrLabel, IInv, Types
<1>4. Counts(x)
  <2>1. Depth(x)' = Depth(x)
    BY <1>1, Zenon DEF Depth, Dumping, Rest
  <2> QED BY <1>1, <2>1, Zenon DEF Counts
<1>5. Keeps(x)
  <2>1. \A l \in Lock : Holds(x, l)' <=> Holds(x, l)
    BY <1>1, Zenon DEF Holds
  <2> QED BY <1>1, <2>1, KeepsSame, Zenon
<1>6. CpusOK' /\ Locks'
  BY <1>1, <1>3, <1>4, <1>5, TurnKeeps, Zenon
<1>7. x \in Writing /\ Writing' = Writing \ {x}
  BY <1>1, Zenon DEF Writing
<1>8. Kick' /\ FifoFits' /\ Sleeps'
  BY <1>1, <1>7, WriterDone, Zenon DEF IInv, Types, Kick, Sleeps, Empty
<1> QED BY <1>1, <1>2, <1>6, <1>8, Zenon DEF IInv, NoPanic

\* uartputc_sync() turns interrupts off and finds the UART idle.
LEMMA SyncWaitKeeps ==
  ASSUME SetFacts, IInv, NEW x \in Ctx, SyncWait(x)
  PROVE  IInv'
<1>1. /\ Runs(x) /\ pc[x] = "sync" /\ pc'[x] = "sthr" /\ \A y \in Ctx \ {x} : pc'[y] = pc[y]
      /\ cpu' = [cpu EXCEPT ![CpuOf(x)] = PushOff(@)]
      /\ fifo = 0 /\ UNCHANGED <<lock, key, tx, fifo, thre, r, w, panicked>>
  BY Zenon DEF SyncWait, TxIdle, IInv, Types
<1>2. pc' \in [Ctx -> ProcLabel \cup IntrLabel]
  BY Zenon DEF SyncWait, IInv, Types, ProcLabel
<1>3. Turn(x)
  BY <1>1, Zenon DEF Turn, Same, ProcLabel, IntrLabel, IInv, Types
<1>4. Counts(x)
  <2>1. Depth(x)' = Depth(x) + 1
    BY <1>1 DEF Depth, Dumping, Rest
  <2> QED BY <1>1, <2>1, Zenon DEF Counts
<1>5. Keeps(x)
  <2>1. \A l \in Lock : Holds(x, l)' <=> Holds(x, l)
    BY <1>1, Zenon DEF Holds
  <2> QED BY <1>1, <2>1, KeepsSame, Zenon
<1>6. CpusOK' /\ Locks' /\ Types'
  BY <1>1, <1>2, <1>3, <1>4, <1>5, TurnKeeps, Zenon DEF IInv, Types
<1>7. Writing' = Writing \cup {x}
  BY <1>1, Zenon DEF Writing
<1>8. Kick' /\ FifoFits' /\ Sleeps'
  BY <1>1, <1>7, WriterFits, Zenon DEF IInv, Kick, Sleeps, Empty
<1> QED BY <1>1, <1>6, <1>8, Zenon DEF IInv, NoPanic

\* uartputc_sync() writes THR and turns interrupts on.
LEMMA SyncTHRKeeps ==
  ASSUME SetFacts, IInv, NEW x \in Ctx, SyncTHR(x)
  PROVE  IInv'
<1>1. /\ Runs(x) /\ pc[x] = "sthr" /\ pc'[x] = "sync" /\ \A y \in Ctx \ {x} : pc'[y] = pc[y]
      /\ cpu' = [cpu EXCEPT ![CpuOf(x)] = PopOff(@)]
      /\ fifo' = fifo + 1 /\ thre' \in BOOLEAN /\ UNCHANGED <<lock, key, tx, r, w>>
  BY ZenonT(30) DEF SyncTHR, IInv, Types
<1>2. pc' \in [Ctx -> ProcLabel \cup IntrLabel]
  BY Zenon DEF SyncTHR, IInv, Types, ProcLabel
<1>3. Turn(x)
  BY <1>1, Zenon DEF Turn, Same, ProcLabel, IntrLabel, IInv, Types
<1>4. Depth(x) > 0 /\ Counts(x)
  <2>1. Depth(x)' = Depth(x) - 1 /\ Depth(x) > 0
    BY <1>1 DEF Depth, Dumping, Rest
  <2> QED BY <1>1, <2>1, Zenon DEF Counts
<1>5. Keeps(x)
  <2>1. \A l \in Lock : Holds(x, l)' <=> Holds(x, l)
    BY <1>1, Zenon DEF Holds
  <2> QED BY <1>1, <2>1, KeepsSame, Zenon
<1>6. CpusOK' /\ Locks' /\ Types'
  BY <1>1, <1>2, <1>3, <1>4, <1>5, TurnKeeps DEF IInv, Types
<1>7. x \in Writing /\ Writing' = Writing \ {x}
  BY <1>1, Zenon DEF Writing
<1>8. Kick' /\ FifoFits' /\ Sleeps'
  BY <1>1, <1>7, WriterDone DEF IInv, Types, Kick, Sleeps, Empty
<1>9. NoPanic'
  <2>1. ~PopOffPanics(cpu[CpuOf(x)])
    BY <1>1, <1>4, NoPopPanic, Zenon
  <2> QED BY <2>1, Zenon DEF SyncTHR, NoPanic
<1> QED BY <1>6, <1>8, <1>9, Zenon DEF IInv

\* printf() releases pr.lock.
LEMMA PrintDoneKeeps ==
  ASSUME IInv, NEW x \in Ctx, PrintDone(x)
  PROVE  IInv'
<1>1. /\ Runs(x) /\ pc[x] = "sync" /\ pc'[x] = (IF InIntr(x) THEN "listed" ELSE "out")
      /\ \A y \in Ctx \ {x} : pc'[y] = pc[y]
      /\ InIntr(x) => key[CpuOf(x)] = "P"
      /\ Release(x, "pr") /\ UNCHANGED <<key, tx, fifo, thre, r, w>>
  BY Zenon DEF PrintDone, IInv, Types
<1>2. pc' \in [Ctx -> ProcLabel \cup IntrLabel]
  BY Zenon DEF PrintDone, IInv, Types, ProcLabel, IntrLabel
<1>3. Turn(x)
  BY <1>1, Zenon DEF Turn, Same, ProcLabel, IntrLabel, IInv, Types
<1>4. Depth(x)' = Depth(x) - 1
  BY <1>1 DEF Depth, Dumping, Rest
<1>5. "pr" \in Lock /\ Holds(x, "pr") /\ \A l \in Lock : Holds(x, l)' <=> Holds(x, l) /\ l # "pr"
  BY <1>1, Zenon DEF Holds, Lock
<1>6. CpusOK' /\ Locks' /\ NoPanic' /\ Types'
  BY <1>1, <1>2, <1>3, <1>4, <1>5, Releases, Zenon DEF IInv, Types
<1>7. Kick' /\ FifoFits' /\ Sleeps'
  BY <1>1, QuietKeeps, Zenon
<1> QED BY <1>6, <1>7, Zenon DEF IInv

-----------------------------------------------------------------------------
\* consoleintr().
LEMMA EchoKeeps ==
  ASSUME IInv, NEW c \in CPU, ConsoleintrEcho(c)
  PROVE  IInv'
<1>0. PICK x \in Ctx : x = I(c) /\ CpuOf(x) = c /\ InIntr(x)
  BY Contexts, Zenon
<1>1. CASE key[c] = "P" /\ StartAcquire(I(c), "pwant")
  BY <1>0, <1>1, Begins, LockNames, ZenonT(30) DEF ConsoleintrEcho, IInv, Types
<1>2. CASE key[c] # "P" /\ Go(I(c), "sync") /\ UNCHANGED <<cpu, panicked>>
  <2>1. /\ pc'[x] = "sync" /\ pc[x] = "key" /\ \A y \in Ctx \ {x} : pc'[y] = pc[y]
        /\ Runs(x) /\ UNCHANGED <<lock, key, tx, fifo, thre, r, w>>
    BY <1>0, <1>2, Zenon DEF ConsoleintrEcho, IInv, Types
  <2>2. Turn(x) /\ Types'
    BY <1>0, <1>2, <2>1, Zenon DEF Turn, Same, IntrLabel, IInv, Types
  <2>3. Depth(x)' = Depth(x)
    BY <1>0, <1>2, <2>1, Zenon DEF Depth, Dumping, Rest
  <2>4. \A l \in Lock : Holds(x, l)' <=> Holds(x, l)
    BY <1>0, <1>2, <2>1, Zenon DEF Holds
  <2>5. Counts(x) /\ Keeps(x)
    BY <1>2, <2>1, <2>3, <2>4, KeepsSame, Zenon DEF Counts
  <2>6. Kick' /\ FifoFits' /\ Sleeps'
    BY <2>1, QuietKeeps, Zenon
  <2> QED BY <1>0, <1>2, <2>1, <2>2, <2>5, <2>6, TurnKeeps, Zenon DEF IInv, NoPanic
<1> QED BY <1>1, <1>2, Zenon DEF ConsoleintrEcho, Procdump

\* consoleintr() changes the line and wakes the readers; none is about to sleep.
LEMMA StoreKeeps ==
  ASSUME IInv, NEW c \in CPU, ConsoleintrStore(c)
  PROVE  IInv'
<1>0. PICK x \in Ctx : x = I(c) /\ CpuOf(x) = c /\ InIntr(x)
  BY Contexts
<1>1. /\ Runs(x)
      /\ pc[x] = "listed" \/ (pc[x] = "sync" /\ key[c] # "P")
      /\ Release(x, "cons") /\ key' = [key EXCEPT ![c] = None]
      /\ UNCHANGED <<r, tx, fifo, thre>>
  BY <1>0, Zenon DEF ConsoleintrStore
<1>2. \/ WakeAnd("rasleep", "rwoke", x, "uart")
      \/ Go(x, "uart") /\ w' = w
  BY <1>0, Zenon DEF ConsoleintrStore
<1>3. /\ pc'[x] = "uart" /\ pc' \in [Ctx -> ProcLabel \cup IntrLabel]
      /\ \/ \A y \in Ctx \ {x} : pc'[y] = IF pc[y] = "rasleep" THEN "rwoke" ELSE pc[y]
         \/ w' = w /\ \A y \in Ctx \ {x} : pc'[y] = pc[y]
  BY <1>0, <1>2 DEF WakeAnd, ProcLabel, IntrLabel, IInv, Types
<1>4. \A y \in Ctx \ {x} : Same(y)
  BY <1>3, Zenon DEF Same
<1>5. key' = [d \in CPU |-> key'[d]] /\ \A d \in CPU \ {c} : key'[d] = key[d]
  BY <1>1, ZenonT(30) DEF IInv, Types
<1>6. Turn(x)
  BY <1>0, <1>3, <1>4, <1>5, Zenon DEF Turn, IntrLabel
<1>7. Depth(x)' = Depth(x) - 1
  BY <1>0, <1>1, <1>3 DEF Depth, Dumping, Rest
<1>8. "cons" \in Lock /\ Holds(x, "cons") /\ \A l \in Lock : Holds(x, l)' <=> Holds(x, l) /\ l # "cons"
  BY <1>0, <1>1, <1>3, Zenon DEF Holds, Lock
<1>9. /\ CpusOK' /\ Locks' /\ NoPanic' /\ lock' \in [Lock -> CPU \cup {None}]
      /\ cpu' \in [CPU -> [noff : Nat, intena : BOOLEAN, sie : BOOLEAN]]
  BY <1>1, <1>6, <1>7, <1>8, Releases, Zenon
<1>10. \A y \in Ctx \ {x} : pc[y] # "rsleep"
  <2>1. \A y \in Ctx \ {x} : ~Holds(y, "cons")
    BY <1>1, <1>8, Exclusive, Zenon
  <2> QED BY <2>1, Zenon DEF Holds
<1>11. Sleeps'
  BY <1>0, <1>1, <1>3, <1>10, Zenon DEF IInv, Sleeps, Empty
<1>12. Writing' = Writing /\ \A y \in Ctx : pc[y] = "start" => pc'[y] = "start"
  BY <1>0, <1>1, <1>3, Zenon DEF Writing
<1>13. Kick' /\ FifoFits'
  BY <1>1, <1>12, Zenon DEF IInv, Kick, FifoFits
<1>14. Types'
  BY <1>1, <1>3, <1>5, <1>9, Zenon DEF IInv, Types
<1> QED BY <1>9, <1>11, <1>13, <1>14, Zenon DEF IInv
-----------------------------------------------------------------------------
\* sleep() with one lock held.
LEMMA SleepKeeps ==
  ASSUME IInv, NEW x \in Ctx, ~InIntr(x), Runs(x), NEW l \in Lock, NEW lab \in {"rasleep", "wasleep"},
         Sleep(x, l, lab), Depth(x) = 1, \A m \in Lock : Holds(x, m) <=> m = l,
         UNCHANGED <<key, tx, fifo, thre>>
  PROVE  CpusOK' /\ Locks' /\ NoPanic' /\ Types'
<1> DEFINE c == CpuOf(x)
<1>0. c \in CPU
  BY Contexts, Zenon
<1>1. cpu[c].noff = 1 /\ cpu[c].intena /\ lock[l] = c
  <2>1. Depth(x) > 0 /\ cpu[c].noff = Depth(x) /\ (cpu[c].intena <=> Depth(x) > 0)
    BY Alone
  <2>2. Holds(x, l) /\ (lock[l] = c <=> Holds(x, l))
    BY Alone, Zenon
  <2> QED BY <2>1, <2>2, Zenon
<1>2. cpu' = [cpu EXCEPT ![c] = PopOff(@)]
  <2>1. PopOff(cpu[c]) = [noff |-> 0, intena |-> FALSE, sie |-> TRUE]
    <3>1. cpu[c].noff - 1 = 0 /\ ~(cpu[c].noff > 1) /\ cpu[c].noff = 1
      BY <1>1
    <3>2. (cpu[c].noff > 1 /\ cpu[c].intena) = FALSE /\ (cpu[c].noff = 1 /\ cpu[c].intena) = TRUE
      BY <1>1, <3>1, Zenon
    <3> QED BY <3>1, <3>2, Zenon DEF PopOff
  <2> QED BY <1>0, <2>1, Zenon DEF Sleep
<1>3. /\ lock' \in [Lock -> CPU \cup {None}] /\ lock'[l] = None
      /\ \A m \in Lock \ {l} : lock'[m] = lock[m]
      /\ pc' \in [Ctx -> ProcLabel \cup IntrLabel]
      /\ pc'[x] = lab /\ \A y \in Ctx \ {x} : pc'[y] = pc[y]
  BY <1>0, Zenon DEF Sleep, IInv, Types, ProcLabel
<1>4. Turn(x)
  BY <1>0, <1>3, Zenon DEF Turn, Same, ProcLabel, IInv, Types
<1>5. Counts(x)
  <2>1. Depth(x)' = 0
    BY <1>3, Zenon DEF Depth, Rest
  <2> QED BY <1>2, <2>1 DEF Counts
<1>6. Keeps(x)
  <2>1. \A m \in Lock : ~Holds(x, m)'
    BY <1>0, <1>3, ZenonT(30) DEF Holds
  <2>2. \A m \in Lock : lock[m] = c <=> m = l
    BY Alone, Zenon
  <2>3. c # None
    BY <1>0, ConsoleAssumption, Zenon
  <2> QED BY <1>3, <2>1, <2>2, <2>3, Zenon DEF Keeps
<1>7. CpusOK' /\ Locks' /\ Types'
  BY <1>0, <1>3, <1>4, <1>5, <1>6, TurnKeeps, Zenon DEF IInv, Types
<1>8. NoPanic'
  BY <1>0, <1>1, Zenon DEF Sleep, Holding, NoPanic
<1> QED BY <1>7, <1>8, Zenon
\* consoleread(): it takes a character only when one is ready, so nobody
\* sleeps then; and it goes to sleep only when none is.
LEMMA ReadLoopKeeps ==
  ASSUME IInv, NEW c \in CPU, ReadLoop(c)
  PROVE  IInv'
<1>0. PICK x \in Ctx : x = P(c) /\ CpuOf(x) = c /\ ~InIntr(x)
  BY Contexts, Zenon
<1>1. Runs(x) /\ pc[x] = "read" /\ UNCHANGED <<key, tx, fifo, thre>>
  BY <1>0, Zenon DEF ReadLoop
<1>2. w' = w /\ (r' = r \/ ~Empty)
  BY Zenon DEF ReadLoop, ReadChar
<1>3. "cons" \in Lock /\ Holds(x, "cons") /\ Depth(x) = 1 /\ \A l \in Lock : Holds(x, l) => l = "cons"
  BY <1>0, <1>1 DEF Holds, Lock, Depth, Dumping, Rest
<1>4. CASE ReadReturns(c)
  <2>1. /\ Release(x, "cons") /\ pc' \in [Ctx -> ProcLabel \cup IntrLabel]
        /\ pc'[x] = "out" /\ \A y \in Ctx \ {x} : pc'[y] = pc[y]
    BY <1>0, <1>4, Zenon DEF ReadReturns, IInv, Types, ProcLabel
  <2>2. Turn(x)
    BY <1>0, <1>1, <2>1, Zenon DEF Turn, Same, ProcLabel, IInv, Types
  <2>3. Depth(x)' = Depth(x) - 1
    BY <1>3, <2>1 DEF Depth, Rest
  <2>4. \A l \in Lock : Holds(x, l)' <=> Holds(x, l) /\ l # "cons"
    BY <1>3, <2>1, Zenon DEF Holds
  <2>5. /\ CpusOK' /\ Locks' /\ NoPanic' /\ lock' \in [Lock -> CPU \cup {None}]
        /\ cpu' \in [CPU -> [noff : Nat, intena : BOOLEAN, sie : BOOLEAN]]
    BY <1>1, <1>3, <2>1, <2>2, <2>3, <2>4, Releases, Zenon
  <2>6. Types'
    BY <1>1, <2>1, <2>5, Zenon DEF IInv, Types
  <2>7. Sleeps'
    BY <1>1, <1>2, <2>1, Zenon DEF IInv, Sleeps, Empty
  <2>8. Writing' = Writing /\ \A y \in Ctx : pc[y] = "start" => pc'[y] = "start"
    BY <1>1, <2>1, Zenon DEF Writing
  <2>9. Kick' /\ FifoFits'
    BY <1>1, <2>8, Zenon DEF IInv, Kick, FifoFits
  <2> QED BY <2>5, <2>6, <2>7, <2>9, Zenon DEF IInv
<1>5. CASE Empty /\ Go(P(c), "rsleep") /\ UNCHANGED <<lock, cpu, r, w, panicked>>
  <2>1. /\ pc' \in [Ctx -> ProcLabel \cup IntrLabel]
        /\ pc'[x] = "rsleep" /\ \A y \in Ctx \ {x} : pc'[y] = pc[y]
    BY <1>0, <1>5, Zenon DEF IInv, Types, ProcLabel
  <2>2. Turn(x) /\ Types'
    BY <1>0, <1>1, <1>5, <2>1, Zenon DEF Turn, Same, ProcLabel, IInv, Types
  <2>3. Counts(x)
    <3>1. Depth(x)' = 1
      BY <1>0, <2>1 DEF Depth, Dumping, Rest
    <3> QED BY <1>3, <1>5, <3>1, Zenon DEF Counts
  <2>4. \A l \in Lock : Holds(x, l)' <=> Holds(x, l)
    BY <1>0, <1>1, <2>1, Zenon DEF Holds
  <2>5. Keeps(x)
    BY <1>1, <1>5, <2>4, KeepsSame, Zenon
  <2>6. CpusOK' /\ Locks'
    BY <1>1, <2>2, <2>3, <2>5, TurnKeeps, Zenon
  <2>7. Sleeps'
    BY <1>1, <1>5, <2>1, Zenon DEF IInv, Sleeps, Empty
  <2>8. Writing' = Writing /\ \A y \in Ctx : pc[y] = "start" => pc'[y] = "start"
    BY <1>1, <2>1, Zenon DEF Writing
  <2>9. Kick' /\ FifoFits'
    BY <1>1, <2>8 DEF IInv, Kick, FifoFits
  <2> QED BY <1>5, <2>2, <2>6, <2>7, <2>9, Zenon DEF IInv, NoPanic
<1>6. CASE UNCHANGED <<pc, lock, cpu, panicked>>
  <2>1. Writing' = Writing
    BY <1>6, Zenon DEF Writing
  <2>2. Types' /\ NoPanic' /\ Kick' /\ FifoFits'
    BY <1>1, <1>6, <2>1, Zenon DEF IInv, Types, NoPanic, Kick, FifoFits
  <2>3. CpusOK' /\ Locks'
    <3>1. \A d \in CPU : Bystander(d)
      BY <1>1, <1>6, Zenon DEF Bystander, Same
    <3> QED BY <1>6, <3>1, BystandersKeep, Zenon
  <2>4. Sleeps'
    BY <1>1, <1>2, <1>6, Zenon DEF IInv, Sleeps, Empty
  <2> QED BY <2>2, <2>3, <2>4, Zenon DEF IInv
<1> QED BY <1>4, <1>5, <1>6, Zenon DEF ReadLoop, ReadChar

\* consoleread() sleeps, still with no line ready.
LEMMA ReadSleepKeeps ==
  ASSUME IInv, NEW c \in CPU, ReadSleep(c)
  PROVE  IInv'
<1>0. PICK x \in Ctx : x = P(c) /\ CpuOf(x) = c /\ ~InIntr(x)
  BY Contexts
<1>1. /\ Runs(x) /\ pc[x] = "rsleep" /\ Sleep(x, "cons", "rasleep")
      /\ UNCHANGED <<key, tx, fifo, thre, r, w>>
  BY <1>0, Zenon DEF ReadSleep
<1>2. "cons" \in Lock /\ Depth(x) = 1 /\ \A l \in Lock : Holds(x, l) <=> l = "cons"
  BY <1>0, <1>1 DEF Holds, Lock, Depth, Dumping, Rest
<1>3. CpusOK' /\ Locks' /\ NoPanic' /\ Types'
  BY <1>0, <1>1, <1>2, SleepKeeps, Zenon
<1>4. pc'[x] = "rasleep" /\ \A y \in Ctx \ {x} : pc'[y] = pc[y]
  BY <1>1, Zenon DEF Sleep, IInv, Types
<1>5. Sleeps'
  BY <1>1, <1>4, Zenon DEF IInv, Sleeps, Empty
<1>6. Writing' = Writing /\ \A y \in Ctx : pc[y] = "start" => pc'[y] = "start"
  BY <1>1, <1>4, Zenon DEF Writing
<1>7. Kick' /\ FifoFits'
  BY <1>1, <1>6, ZenonT(30) DEF IInv, Kick, FifoFits
<1> QED BY <1>3, <1>5, <1>7, Zenon DEF IInv

\* uartputc(): asleep on a full buffer, or one byte more and uartstart().
LEMMA UartputcKeeps ==
  ASSUME IInv, NEW c \in CPU, Uartputc(c)
  PROVE  IInv'
<1>0. PICK x \in Ctx : x = P(c) /\ CpuOf(x) = c /\ ~InIntr(x)
  BY Contexts
<1>1. Runs(x) /\ pc[x] = "put" /\ UNCHANGED <<key, fifo, thre, r, w>>
  BY <1>0, Zenon DEF Uartputc
<1>2. "tx" \in Lock /\ Depth(x) = 1 /\ \A l \in Lock : Holds(x, l) <=> l = "tx"
  BY <1>0, <1>1 DEF Holds, Lock, Depth, Dumping, Rest
<1>3. CASE tx = UART_TX_BUF_SIZE /\ Sleep(x, "tx", "wasleep") /\ tx' = tx
  <2>1. CpusOK' /\ Locks' /\ NoPanic' /\ Types'
    BY <1>0, <1>1, <1>2, <1>3, SleepKeeps, Zenon
  <2>2. pc'[x] = "wasleep" /\ \A y \in Ctx \ {x} : pc'[y] = pc[y]
    BY <1>3, Zenon DEF Sleep, IInv, Types
  <2>3. Sleeps'
    BY <1>1, <1>3, <2>2, Zenon DEF IInv, Sleeps, Empty
  <2>4. Writing' = Writing /\ \A y \in Ctx : pc[y] = "start" => pc'[y] = "start"
    BY <1>1, <2>2, Zenon DEF Writing
  <2>5. Kick' /\ FifoFits'
    BY <1>1, <1>3, <2>4, ZenonT(30) DEF IInv, Kick, FifoFits
  <2> QED BY <2>1, <2>3, <2>5 DEF IInv
<1>4. CASE tx < UART_TX_BUF_SIZE /\ tx' = tx + 1 /\ Go(x, "start") /\ UNCHANGED <<lock, cpu, panicked>>
  <2>1. /\ pc' \in [Ctx -> ProcLabel \cup IntrLabel]
        /\ pc'[x] = "start" /\ \A y \in Ctx \ {x} : pc'[y] = pc[y]
    BY <1>4, Zenon DEF IInv, Types, ProcLabel
  <2>2. Turn(x) /\ Types'
    BY <1>0, <1>1, <1>4, <2>1 DEF Turn, Same, ProcLabel, IInv, Types
  <2>3. Counts(x)
    <3>1. Depth(x)' = 1
      BY <1>0, <2>1 DEF Depth, Dumping, Rest
    <3> QED BY <1>2, <1>4, <3>1, Zenon DEF Counts
  <2>4. \A l \in Lock : Holds(x, l)' <=> Holds(x, l)
    BY <1>0, <1>1, <2>1, Zenon DEF Holds
  <2>5. Keeps(x)
    BY <1>1, <1>4, <2>4, KeepsSame, Zenon
  <2>6. CpusOK' /\ Locks'
    BY <1>1, <2>2, <2>3, <2>5, TurnKeeps, Zenon
  <2>7. Sleeps'
    BY <1>1, <1>4, <2>1, ConsoleAssumption DEF IInv, Types, Sleeps, Empty
  <2>8. Writing' = Writing
    BY <1>1, <2>1, Zenon DEF Writing
  <2>9. Kick' /\ FifoFits'
    BY <1>1, <2>1, <2>8, Zenon DEF IInv, Kick, FifoFits
  <2> QED BY <1>4, <2>2, <2>6, <2>7, <2>9, Zenon DEF IInv, NoPanic
<1> QED BY <1>0, <1>3, <1>4, Zenon DEF Uartputc
-----------------------------------------------------------------------------
\* A step of c's handler from or to "idle".
LEMMA HandlerKeeps ==
  ASSUME IInv, NEW c \in CPU, \A y \in Ctx \ {I(c)} : pc'[y] = pc[y], key' = key,
         \A d \in CPU \ {c} : cpu'[d] = cpu[d], CpuOK(c)',
         \A l \in Lock : /\ lock'[l] = c <=> Holds(I(c), l)'
                         /\ lock'[l] = lock[l] \/ {lock[l], lock'[l]} \subseteq {c, None},
         Depth(P(c)) = 0
  PROVE  CpusOK' /\ Locks'
<1>1. \A d \in CPU \ {c} : Bystander(d)
  BY Contexts, ZenonT(30) DEF Bystander, Same
<1>2. \A l \in Lock : ~Holds(P(c), l)'
  <2>1. pc[P(c)] \in Rest /\ pc'[P(c)] = pc[P(c)]
    BY Contexts, AtRest, Zenon
  <2> QED BY <2>1, Zenon DEF Rest, Holds
<1> QED BY <1>1, <1>2, ActsKeep, Zenon DEF Acts

\* The interrupt comes when the process of its CPU has interrupts on.
LEMMA InterruptKeeps ==
  ASSUME IInv, NEW c \in CPU, Interrupt(c)
  PROVE  IInv'
<1>1. /\ pc[I(c)] = "idle" /\ pc'[I(c)] = "uart" /\ \A y \in Ctx \ {I(c)} : pc'[y] = pc[y]
      /\ cpu[c].sie /\ cpu' = [cpu EXCEPT ![c].sie = FALSE]
      /\ UNCHANGED <<lock, key, tx, fifo, thre, r, w, panicked>>
  BY Contexts, Zenon DEF Interrupt, IInv, Types
<1>2. Types'
  <2>1. pc' \in [Ctx -> ProcLabel \cup IntrLabel]
    BY ZenonT(30) DEF Interrupt, IInv, Types, IntrLabel
  <2>2. cpu' \in [CPU -> [noff : Nat, intena : BOOLEAN, sie : BOOLEAN]]
    BY <1>1, ZenonT(30) DEF IInv, Types
  <2> QED BY <1>1, <2>1, <2>2, Zenon DEF IInv, Types
<1>3. CpuOK(c) /\ Depth(P(c)) = 0 /\ Depth(I(c)) = 0 /\ ~cpu[c].intena
  BY <1>1 DEF IInv, CpusOK, CpuOK, Depth, Rest
<1>4. pc'[P(c)] = pc[P(c)] /\ Depth(P(c))' = 0 /\ Depth(I(c))' = 0
  BY <1>1, <1>3, Contexts, Zenon DEF Depth, Dumping, Rest
<1>5. cpu'[c].noff = cpu[c].noff /\ ~cpu'[c].intena /\ ~cpu'[c].sie
  BY <1>1, <1>3, Zenon DEF IInv, Types
<1>6. CpuOK(c)'
  BY <1>1, <1>3, <1>4, <1>5, Zenon DEF CpuOK, IntrLabel
<1>7. \A l \in Lock : lock'[l] = c <=> Holds(I(c), l)'
  <2>1. \A l \in Lock : ~Holds(I(c), l)' /\ ~Holds(I(c), l) /\ ~Holds(P(c), l)
    <3>1. pc[P(c)] \in Rest
      BY <1>3, Contexts, AtRest, Zenon
    <3> QED BY <1>1, <3>1, Zenon DEF Holds, Rest
  <2> QED BY <1>1, <2>1, Zenon DEF IInv, Locks
<1>8. \A d \in CPU \ {c} : cpu'[d] = cpu[d]
  BY <1>1, Zenon DEF IInv, Types
<1>9. CpusOK' /\ Locks'
  BY <1>1, <1>3, <1>6, <1>7, <1>8, HandlerKeeps, Zenon
<1>10. Kick' /\ FifoFits' /\ Sleeps'
  BY <1>1, Contexts, QuietKeeps, Zenon
<1> QED BY <1>1, <1>2, <1>9, <1>10, Zenon DEF IInv, NoPanic

\* The end of the handler: uart_tx_lock is released and sret turns interrupts on.
LEMMA IntrReturnsKeeps ==
  ASSUME IInv, NEW x \in Ctx, InIntr(x), Runs(x), pc[x] = "start", StartReturns(x), UNCHANGED key
  PROVE  /\ CpusOK' /\ Locks' /\ NoPanic' /\ lock' \in [Lock -> CPU \cup {None}]
         /\ cpu' \in [CPU -> [noff : Nat, intena : BOOLEAN, sie : BOOLEAN]]
         /\ pc' \in [Ctx -> ProcLabel \cup IntrLabel]
         /\ pc'[x] = "idle" /\ \A y \in Ctx \ {x} : pc'[y] = pc[y]
<1> DEFINE c == CpuOf(x)
<1>0. c \in CPU /\ "tx" \in Lock
  BY Contexts, Zenon DEF Lock
<1>1. Depth(x) = 1 /\ \A l \in Lock : Holds(x, l) <=> l = "tx"
  BY DEF Holds, Lock, Depth, Dumping, Rest
<1>2. x = I(c) /\ P(c) \in Ctx \ {x} /\ CpuOf(P(c)) = c
  BY <1>0, Contexts, Zenon
<1>3. /\ lock' \in [Lock -> CPU \cup {None}] /\ lock'["tx"] = None
      /\ \A m \in Lock \ {"tx"} : lock'[m] = lock[m]
      /\ pc' \in [Ctx -> ProcLabel \cup IntrLabel]
      /\ pc'[x] = "idle" /\ \A y \in Ctx \ {x} : pc'[y] = pc[y]
  BY <1>0, ZenonT(30) DEF StartReturns, IInv, Types, IntrLabel
<1>4. cpu[c].noff = 1 /\ ~cpu[c].intena /\ ~cpu[c].sie /\ lock["tx"] = c /\ Depth(P(c)) = 0
  BY <1>0, <1>1, <1>2, Alone, Zenon
<1>5. cpu' = [cpu EXCEPT ![c] = [PopOff(@) EXCEPT !.sie = TRUE]]
  BY Zenon DEF StartReturns
<1>6. [PopOff(cpu[c]) EXCEPT !.sie = TRUE] \in [noff : Nat, intena : BOOLEAN, sie : BOOLEAN]
  <2>1. PopOff(cpu[c]) \in [noff : Nat, intena : BOOLEAN, sie : BOOLEAN]
    BY <1>0, <1>4 DEF PopOff, IInv, Types
  <2> QED BY <2>1, ZenonT(30)
<1>7. cpu' \in [CPU -> [noff : Nat, intena : BOOLEAN, sie : BOOLEAN]]
  BY <1>0, <1>5, <1>6, Zenon DEF IInv, Types
<1>8. cpu'[c].noff = 0 /\ ~cpu'[c].intena /\ cpu'[c].sie /\ \A d \in CPU \ {c} : cpu'[d] = cpu[d]
  BY <1>0, <1>4, <1>5 DEF IInv, Types, PopOff
<1>9. pc'[P(c)] = pc[P(c)] /\ Depth(P(c))' = 0 /\ Depth(I(c))' = 0 /\ pc[P(c)] \in ProcLabel
  <2>1. pc'[P(c)] = pc[P(c)] /\ pc[P(c)] \in ProcLabel
    BY <1>0, <1>2, <1>3, Zenon DEF IInv, CpusOK, CpuOK
  <2>2. pc[P(c)] \in Rest
    BY <1>2, <1>4, AtRest, Zenon
  <2> QED BY <1>2, <1>3, <2>1, <2>2, Zenon DEF Depth, Rest
<1>10. CpuOK(c)'
  <2>1. pc'[I(c)] = "idle" /\ "idle" \in IntrLabel /\ pc'[P(c)] \in ProcLabel
    BY <1>2, <1>3, <1>9, Zenon DEF IntrLabel
  <2>2. cpu'[c].noff = Depth(P(c))' + Depth(I(c))' /\ ~(Depth(P(c))' > 0)
    <3>1. 0 = 0 + 0 /\ ~(0 > 0)
      OBVIOUS
    <3> QED BY <1>8, <1>9, <3>1, Zenon
  <2> QED BY <1>8, <1>9, <2>1, <2>2, Zenon DEF CpuOK
<1>11. \A l \in Lock : /\ lock'[l] = c <=> Holds(I(c), l)'
                       /\ lock'[l] = lock[l] \/ {lock[l], lock'[l]} \subseteq {c, None}
  <2>1. \A l \in Lock : ~Holds(I(c), l)'
    BY <1>2, <1>3, Zenon DEF Holds
  <2>2. \A l \in Lock \ {"tx"} : lock[l] # c
    BY <1>1, Alone, Zenon
  <2> QED BY <1>0, <1>3, <1>4, <2>1, <2>2, ConsoleAssumption, Zenon
<1>12. CpusOK' /\ Locks'
  BY <1>0, <1>2, <1>3, <1>4, <1>8, <1>10, <1>11, HandlerKeeps, Zenon
<1>13. NoPanic'
  <2>1. ~PopOffPanics(cpu[c])
    BY <1>1, NoPopPanic
  <2> QED BY <1>4, <2>1, Zenon DEF StartReturns, Holding, NoPanic
<1> QED BY <1>3, <1>7, <1>12, <1>13, Zenon

\* uartstart() returns, in the process or at the end of the handler.
LEMMA StartReturnsKeeps ==
  ASSUME IInv, NEW x \in Ctx, Runs(x), pc[x] = "start", StartReturns(x), UNCHANGED key
  PROVE  /\ CpusOK' /\ Locks' /\ NoPanic' /\ lock' \in [Lock -> CPU \cup {None}]
         /\ cpu' \in [CPU -> [noff : Nat, intena : BOOLEAN, sie : BOOLEAN]]
         /\ pc' \in [Ctx -> ProcLabel \cup IntrLabel]
         /\ pc'[x] \in {"idle", "more"} /\ \A y \in Ctx \ {x} : pc'[y] = pc[y]
<1> DEFINE c == CpuOf(x)
<1>0. c \in CPU /\ "tx" \in Lock
  BY Contexts, Zenon DEF Lock
<1>1. Depth(x) = 1 /\ \A l \in Lock : Holds(x, l) <=> l = "tx"
  BY DEF Holds, Lock, Depth, Dumping, Rest
<1>2. CASE ~InIntr(x)
  <2>1. /\ Release(x, "tx") /\ pc' \in [Ctx -> ProcLabel \cup IntrLabel]
        /\ pc'[x] = "more" /\ \A y \in Ctx \ {x} : pc'[y] = pc[y]
    BY <1>2, Zenon DEF StartReturns, IInv, Types, ProcLabel
  <2>2. Turn(x)
    BY <1>2, <2>1, Zenon DEF Turn, Same, ProcLabel, IInv, Types
  <2>3. Depth(x)' = Depth(x) - 1
    BY <1>1, <2>1 DEF Depth, Rest
  <2>4. \A l \in Lock : Holds(x, l)' <=> Holds(x, l) /\ l # "tx"
    BY <1>1, <2>1, Zenon DEF Holds
  <2> QED BY <1>0, <1>1, <2>1, <2>2, <2>3, <2>4, Releases, Zenon
<1>3. CASE InIntr(x)
  BY <1>3, IntrReturnsKeeps, Zenon
<1> QED BY <1>2, <1>3, Zenon
\* The loop of uartstart().
LEMMA UartstartKeeps ==
  ASSUME SetFacts, IInv, NEW x \in Ctx, Uartstart(x)
  PROVE  IInv'
<1>1. Runs(x) /\ pc[x] = "start" /\ UNCHANGED <<key, fifo, r, w>>
  BY Zenon DEF Uartstart
<1>2. CASE StartReturns(x) /\ tx' = tx /\ (tx = 0 \/ fifo > 0) /\ thre' \in BOOLEAN
  <2>1. /\ CpusOK' /\ Locks' /\ NoPanic' /\ lock' \in [Lock -> CPU \cup {None}]
        /\ cpu' \in [CPU -> [noff : Nat, intena : BOOLEAN, sie : BOOLEAN]]
        /\ pc' \in [Ctx -> ProcLabel \cup IntrLabel]
        /\ pc'[x] \in {"idle", "more"} /\ \A y \in Ctx \ {x} : pc'[y] = pc[y]
    BY <1>1, <1>2, StartReturnsKeeps, Zenon
  <2>2. Types'
    BY <1>1, <1>2, <2>1, Zenon DEF IInv, Types
  <2>3. Sleeps'
    BY <1>1, <1>2, <2>1, Zenon DEF IInv, Sleeps, Empty
  <2>4. Writing' = Writing
    BY <1>1, <2>1, Zenon DEF Writing
  <2>5. Kick' /\ FifoFits'
    BY <1>1, <1>2, <2>4 DEF IInv, Types, Kick, FifoFits
  <2> QED BY <2>1, <2>2, <2>3, <2>5, Zenon DEF IInv
<1>3. CASE tx > 0 /\ fifo = 0 /\ StartByte(x) /\ UNCHANGED <<cpu, lock, thre, panicked>>
  <2>1. /\ pc' \in [Ctx -> ProcLabel \cup IntrLabel] /\ pc'[x] = "thr"
        /\ \A y \in Ctx \ {x} : pc'[y] = IF pc[y] = "wasleep" THEN "wwoke" ELSE pc[y]
        /\ tx' \in Nat
    BY <1>3 DEF StartByte, WakeAnd, IInv, Types, ProcLabel
  <2>2. \A y \in Ctx \ {x} : Same(y)
    BY <2>1, Zenon DEF Same
  <2>3. Turn(x) /\ Types'
    BY <1>1, <1>3, <2>1, <2>2, Zenon DEF Turn, ProcLabel, IntrLabel, IInv, Types
  <2>4. Counts(x)
    BY <1>1, <1>3, <2>1, Zenon DEF Counts, Depth, Dumping, Rest
  <2>5. \A l \in Lock : Holds(x, l)' <=> Holds(x, l)
    BY <1>1, <2>1, Zenon DEF Holds
  <2>6. Keeps(x)
    BY <1>1, <1>3, <2>5, KeepsSame, Zenon
  <2>7. CpusOK' /\ Locks'
    BY <1>1, <2>3, <2>4, <2>6, TurnKeeps, Zenon
  <2>8. Sleeps'
    BY <1>1, <2>1, Zenon DEF IInv, Sleeps, Empty
  <2>9. Writing' = Writing \cup {x}
    BY <2>1, Zenon DEF Writing
  <2>10. Kick' /\ FifoFits'
    BY <1>1, <1>3, <2>9, WriterFits, Zenon DEF Kick
  <2> QED BY <1>3, <2>3, <2>7, <2>8, <2>10, Zenon DEF IInv, NoPanic
<1> QED BY <1>2, <1>3, ZenonT(30) DEF Uartstart, IInv, Types
-----------------------------------------------------------------------------
INSTANCE FiniteSetTheorems

(* The facts about finite sets: there are two contexts for each CPU.       *)
LEMMA SetFactsHold == SetFacts
<1>1. IsFiniteSet(Ctx)
  <2>1. IsFiniteSet({"process"}) /\ IsFiniteSet({"interrupt"})
    BY FS_Singleton, Zenon
  <2>2. IsFiniteSet({"process"} \cup {"interrupt"})
    BY <2>1, FS_Union, ZenonT(30)
  <2>3. Ctx = CPU \X ({"process"} \cup {"interrupt"})
    BY Zenon DEF Ctx
  <2> QED BY <2>2, <2>3, FS_Product, ConsoleAssumption, Zenon
<1>2. ASSUME NEW S \in SUBSET Ctx
      PROVE  IsFiniteSet(S) /\ Cardinality(S) \in Nat
  BY <1>1, FS_Subset, FS_CardinalityType, Zenon
<1>3. ASSUME NEW S \in SUBSET Ctx, NEW x \in S
      PROVE  Cardinality(S \ {x}) = Cardinality(S) - 1
  BY <1>2, FS_RemoveElement, Zenon
<1>4. ASSUME NEW S \in SUBSET Ctx, \A x, y \in S : CpuOf(x) = CpuOf(y) => x = y
      PROVE  Cardinality(S) <= Cardinality(CPU)
  <2>1. PICK f : f = [y \in S |-> CpuOf(y)]
    BY Zenon
  <2>2. f \in [S -> CPU]
    BY <2>1, Contexts, Zenon
  <2>3. f \in Injection(S, CPU)
    BY <1>4, <2>1, <2>2, Zenon DEF Injection, IsInjective
  <2> QED BY <2>3, FS_Injection, ConsoleAssumption, Zenon
<1>5. Cardinality(CPU) \in Nat /\ Cardinality({}) = 0
  BY FS_CardinalityType, FS_EmptySet, ConsoleAssumption, Zenon
<1> QED BY <1>2, <1>3, <1>4, <1>5, Zenon DEF SetFacts

\* The invariant holds at the start.
LEMMA InitIInv == Init => IInv
<1> SUFFICES ASSUME Init PROVE IInv
  BY Zenon
<1>1. \A c \in CPU : pc[P(c)] = "out" /\ pc[I(c)] = "idle"
  BY Contexts, Zenon DEF Init
<1>2. \A x \in Ctx : pc[x] \in {"out", "idle"}
  BY Zenon DEF Init
<1>3. Types
  BY ZenonT(30) DEF Init, Types, ProcLabel, IntrLabel
<1>4. CpusOK
  <2>1. \A c \in CPU : Depth(P(c)) = 0 /\ Depth(I(c)) = 0
    BY <1>1, Zenon DEF Depth, Rest
  <2> QED BY <1>1, <2>1 DEF Init, CpusOK, CpuOK, ProcLabel, IntrLabel
<1>5. Locks
  BY <1>1, ConsoleAssumption, ZenonT(30) DEF Init, Locks, Holds
<1>6. Writing = {}
  BY <1>2, Zenon DEF Writing
<1>7. NoPanic /\ Kick /\ FifoFits /\ Sleeps
  BY <1>2, <1>6, SetFactsHold DEF SetFacts, Init, NoPanic, Kick, FifoFits, Sleeps
<1> QED BY <1>3, <1>4, <1>5, <1>7, Zenon DEF IInv

\* Every step keeps it.
LEMMA NextIInv == IInv /\ [Next]_vars => IInv'
<1> SUFFICES ASSUME IInv, [Next]_vars PROVE IInv'
  BY Zenon
<1>1. CASE UNCHANGED vars
  <2>1. UNCHANGED <<cpu, lock, pc, key, tx, fifo, thre, r, w, panicked>>
    BY <1>1, Zenon DEF vars
  <2>2. Writing' = Writing
    BY <2>1, Zenon DEF Writing
  <2>3. Types' /\ NoPanic' /\ Kick' /\ FifoFits' /\ Sleeps'
    BY <2>1, <2>2, Zenon DEF IInv, Types, NoPanic, Kick, FifoFits, Sleeps, Empty
  <2>4. CpusOK' /\ Locks'
    <3>1. \A d \in CPU : Bystander(d)
      BY <2>1, Zenon DEF Bystander, Same
    <3> QED BY <2>1, <3>1, BystandersKeep, Zenon
  <2> QED BY <2>3, <2>4, Zenon DEF IInv
<1>2. CASE Next
  <2>1. CASE \E c \in CPU : Calls(c)
    BY <2>1, BeginKeeps, Zenon DEF Calls
  <2>2. ASSUME NEW x \in Ctx, Common(x) PROVE IInv'
    BY Zenon, <2>2, SetFactsHold, AcquireKeeps, UartstartKeeps, StartTHRKeeps, SyncWaitKeeps, SyncTHRKeeps,
       PrintDoneKeeps DEF Common
  <2>3. CASE \E c \in CPU : ProcStep(c)
    BY Zenon, <2>2, <2>3, Contexts, ReadLoopKeeps, ReadSleepKeeps, BeginKeeps, WriteMoreKeeps,
       UartputcKeeps DEF ProcStep
  <2>4. CASE \E c \in CPU : Interrupt(c)
    BY <2>4, InterruptKeeps, Zenon
  <2>5. CASE \E c \in CPU : IntrStep(c)
    BY <2>2, <2>5, Contexts, BeginKeeps, EchoKeeps, StoreKeeps, Zenon DEF IntrStep
  <2>6. CASE \E c \in Reader : Kill(c)
    BY <2>6, KillKeeps, ConsoleAssumption, Zenon
  <2>7. CASE Send \/ Press
    BY <2>7, SetFactsHold, DeviceKeeps, Zenon
  <2> QED BY <1>2, <2>1, <2>3, <2>4, <2>5, <2>6, <2>7, Zenon DEF Next
<1> QED BY <1>1, <1>2, Zenon

\* So it always holds.
LEMMA Invariant == Spec => []IInv
BY InitIInv, NextIInv, PTL DEF Spec

(* acquire(), release(), pop_off() and sched() never panic in the console: *)
(* on every CPU noff is the number of push_off()s of the one context that  *)
(* runs, and an interrupt comes only when that number is zero.             *)
THEOREM SpinLocksNeverPanic == Spec => []NoPanic
<1>1. IInv => NoPanic
  BY Zenon DEF IInv
<1> QED BY <1>1, Invariant, PTL

(* The UART never holds more bytes than there are CPUs, although the       *)
(* polling uartputc_sync() takes no lock: with interrupts off, a CPU is    *)
(* between its look at LSR and its write of THR at most once.              *)
THEOREM OutputFits == Spec => []FifoFits
<1>1. IInv => FifoFits
  BY Zenon DEF IInv
<1> QED BY <1>1, Invariant, PTL

(* Output never stalls: uartstart() returns with bytes buffered only when  *)
(* the UART is busy, so an interrupt is still to come.                     *)
THEOREM OutputGoesOn == Spec => []NoLostKick
<1>1. IInv => NoLostKick
  <2>1. ASSUME IInv, NEW x \in Ctx, pc[x] = "start" PROVE lock["tx"] # None
    <3>1. Holds(x, "tx") /\ "tx" \in Lock
      BY <2>1, Zenon DEF Holds, Lock
    <3> QED BY <2>1, <3>1, Contexts, ConsoleAssumption DEF IInv, Locks
  <2> QED BY <2>1, Zenon DEF IInv, Kick, NoLostKick
<1> QED BY <1>1, Invariant, PTL

(* A writer sleeps only while the buffer is full and a reader only while   *)
(* no line is ready: the condition is tested and the sleep begun under the *)
(* lock of whoever changes it.                                             *)
THEOREM ConsoleSleepersWake == Spec => []NoLostWakeup
<1>1. IInv => NoLostWakeup
  BY Zenon DEF IInv, Sleeps, NoLostWakeup
<1> QED BY <1>1, Invariant, PTL
=============================================================================
