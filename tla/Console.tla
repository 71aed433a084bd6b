------------------------------ MODULE Console ------------------------------
(***************************************************************************)
(* The console: read(), write() and kernel printf() on it                  *)
(* (kernel/console.c, kernel/printf.c), the UART driver below              *)
(* (kernel/uart.c), the spin locks with their interrupt bookkeeping        *)
(* (kernel/spinlock.c), and the path of an interrupt through kerneltrap(), *)
(* devintr() and the PLIC (kernel/trap.c, kernel/plic.c).                  *)
(*                                                                         *)
(* Each CPU has a process, which stays there; while it sleeps the CPU is   *)
(* in scheduler(), interrupts on.  An interrupt freezes the CPU's process  *)
(* and runs to its end.  acquire() is two steps, interrupts off and the    *)
(* swap; so is a byte given to the UART, the look at LSR and the write of  *)
(* THR.  The rest of a critical section is one step per loop iteration.    *)
(* Output bytes are counted, input characters kept.                        *)
(***************************************************************************)
EXTENDS Integers, Sequences, FiniteSets

CONSTANTS
  CPU,
  Reader, Writer, Printer,   \* CPUs whose process calls read(), write(), printf()
  INPUT_BUF_SIZE, UART_TX_BUF_SIZE,
  WORD,         \* cons.r, w and e count modulo this, 2^32 in the code
  Start,        \* what they may be to begin with: 0 at boot, anything later
  Chunk,        \* lengths asked for
  Typed,        \* the keys that are pressed: any of these sequences
  MaxPrints,    \* bound on calls of printf()
  None

ASSUME ConsoleAssumption ==
  /\ INPUT_BUF_SIZE \in Nat \ {0} /\ UART_TX_BUF_SIZE \in Nat \ {0}
  /\ WORD \in Nat /\ WORD > INPUT_BUF_SIZE /\ WORD % INPUT_BUF_SIZE = 0
  /\ Start \subseteq 0..(WORD - 1)
  /\ Chunk \subseteq Nat \ {0}
  /\ IsFiniteSet(CPU) /\ None \notin CPU
  /\ Reader \cup Writer \cup Printer \subseteq CPU

VARIABLES
  cpu,       \* noff, intena and sstatus.SIE of each CPU
  lock,      \* the CPU that holds cons.lock, uart_tx_lock, pr.lock
  pc,        \* where each CPU's process is, and its interrupt handler
  cnt,       \* bytes its call has still to move
  got,       \* consoleread() has copied something out
  killed,
  key,       \* the character consoleintr() was given
  buf, r, w, e,   \* struct cons
  tx,        \* bytes in uart_tx_buf, uart_tx_w - uart_tx_r
  fifo,      \* bytes the UART has still to send; LSR_TX_IDLE when 0
  thre,      \* its transmit interrupt is pending
  rx,        \* characters it has received
  claimed,   \* the CPU that claimed UART0_IRQ from the PLIC
  keys,      \* the keys still to be pressed
  prints,
  panicked

call == <<cnt, got, killed>>
cons == <<buf, r, w, e>>
uart == <<fifo, thre, rx, claimed>>
plan == <<keys, prints>>
vars == <<cpu, lock, pc, call, key, cons, tx, uart, plan, panicked>>

\* The process of a CPU and its interrupt handler.
P(c) == <<c, "process">>
I(c) == <<c, "interrupt">>
Ctx == CPU \X {"process", "interrupt"}
CpuOf(x) == x[1]
InIntr(x) == x[2] = "interrupt"

\* ^D, newline and an ordinary character are stored; ^P, ^U and ^H are not.
Stored == {"D", "nl", "a"}
Lock == {"cons", "tx", "pr"}

\* The lock a context waits for, by its label, and where it is with it.
LockOf == [rwant |-> "cons", kwant |-> "cons", wwant |-> "tx", twant |-> "tx", pwant |-> "pr"]
Inside == [rwant |-> "read", kwant |-> "key", wwant |-> "put", twant |-> "start", pwant |-> "sync"]
Want == DOMAIN LockOf

\* A handler that serves no interrupt is "idle"; else it is what runs.
Runs(x) ==
  /\ panicked = 0
  /\ IF InIntr(x) THEN pc[x] # "idle" ELSE pc[I(CpuOf(x))] = "idle"

-----------------------------------------------------------------------------
(* Mutant: interrupts stay on, as when intr_off() is left out.             *)
PushOffOn(s) ==
  [noff |-> s.noff + 1, intena |-> IF s.noff = 0 THEN s.sie ELSE s.intena, sie |-> s.sie]
PushOff(s) ==
  [noff |-> s.noff + 1, intena |-> IF s.noff = 0 THEN s.sie ELSE s.intena, sie |-> FALSE]

(* intena means nothing while noff is 0.                                   *)
PopOff(s) ==
  [noff |-> s.noff - 1, intena |-> s.noff > 1 /\ s.intena, sie |-> s.noff = 1 /\ s.intena]
PopOffPanics(s) == s.sie \/ s.noff < 1

Go(x, l) == pc' = [pc EXCEPT ![x] = l]
Holding(x, l) == lock[l] = CpuOf(x)
Panic(b) == panicked' = IF b THEN 1 ELSE 0

(* The first half of acquire(): interrupts off, not held by this CPU.      *)
StartAcquire(x, l) ==
  /\ cpu' = [cpu EXCEPT ![CpuOf(x)] = PushOff(@)]
  /\ Go(x, l)
  /\ Panic(Holding(x, LockOf[l]))

(* The second half, the swap that succeeds.                                *)
Acquire(x) ==
  /\ Runs(x) /\ pc[x] \in Want /\ lock[LockOf[pc[x]]] = None
  /\ lock' = [lock EXCEPT ![LockOf[pc[x]]] = CpuOf(x)]
  /\ Go(x, Inside[pc[x]])
  /\ UNCHANGED <<cpu, call, key, cons, tx, uart, plan, panicked>>

Release(x, l) ==
  /\ lock' = [lock EXCEPT ![l] = None]
  /\ cpu' = [cpu EXCEPT ![CpuOf(x)] = PopOff(@)]
  /\ Panic(~Holding(x, l) \/ PopOffPanics(cpu[CpuOf(x)]))

(* sleep(): p->lock makes the release and the sleep one step; sched()      *)
(* panics if other locks are held, and scheduler() turns interrupts on.    *)
Sleep(x, l, lab) ==
  /\ Go(x, lab)
  /\ lock' = [lock EXCEPT ![l] = None]
  /\ cpu' = [cpu EXCEPT ![CpuOf(x)] = [noff |-> 0, intena |-> FALSE, sie |-> TRUE]]
  /\ Panic(~Holding(x, l) \/ cpu[CpuOf(x)].noff # 1)

(* wakeup() of those asleep at label a, who go to b; x goes on to l.       *)
WakeAnd(a, b, x, l) ==
  pc' = [y \in Ctx |-> IF y = x THEN l ELSE IF pc[y] = a THEN b ELSE pc[y]]

-----------------------------------------------------------------------------
Init ==
  /\ cpu = [c \in CPU |-> [noff |-> 0, intena |-> FALSE, sie |-> TRUE]]
  /\ lock = [l \in Lock |-> None]
  /\ pc = [x \in Ctx |-> IF InIntr(x) THEN "idle" ELSE "out"]
  /\ cnt = [x \in Ctx |-> 0]
  /\ got = [c \in CPU |-> FALSE]
  /\ killed = [c \in CPU |-> 0]
  /\ key = [c \in CPU |-> None]
  /\ buf = [k \in 0..(INPUT_BUF_SIZE - 1) |-> "a"]
  /\ r \in Start /\ w = r /\ e = r
  /\ tx = 0 /\ fifo = 0 /\ thre = FALSE /\ rx = <<>>
  /\ claimed = None
  /\ keys \in Typed /\ prints = 0
  /\ panicked = 0

-----------------------------------------------------------------------------
Size == (e + WORD - r) % WORD
Empty == r = w
At(k) == buf[k % INPUT_BUF_SIZE]

(* consoleread() of n bytes; a killed process makes no more calls.         *)
Read(c, n) ==
  /\ Runs(P(c)) /\ pc[P(c)] = "out" /\ killed[c] = 0
  /\ cnt' = [cnt EXCEPT ![P(c)] = n]
  /\ StartAcquire(P(c), "rwant")
  /\ UNCHANGED <<lock, got, killed, key, cons, tx, uart, plan>>

ReadReturns(c) ==
  /\ cnt' = [cnt EXCEPT ![P(c)] = 0] /\ got' = [got EXCEPT ![c] = FALSE]
  /\ Go(P(c), "out") /\ Release(P(c), "cons")

(* ^D is left for the next read() if this one has something to return.     *)
AfterEof(c) == IF got[c] THEN r ELSE (r + 1) % WORD

(* A character is taken, and copied out unless copyout() fails.            *)
ReadChar(c) ==
  /\ ~Empty
  /\ UNCHANGED <<buf, w, e>>
  /\ \/ At(r) = "D" /\ r' = AfterEof(c) /\ ReadReturns(c)
     \/ At(r) # "D" /\ r' = (r + 1) % WORD /\ ReadReturns(c)
     \/ /\ At(r) = "a" /\ r' = (r + 1) % WORD
        /\ cnt' = [cnt EXCEPT ![P(c)] = @ - 1] /\ got' = [got EXCEPT ![c] = TRUE]
        /\ UNCHANGED <<pc, lock, cpu, panicked>>

(* The loop of consoleread().                                              *)
ReadLoop(c) ==
  /\ Runs(P(c)) /\ pc[P(c)] = "read"
  /\ \/ cnt[P(c)] = 0 /\ ReadReturns(c) /\ UNCHANGED cons
     \/ cnt[P(c)] > 0 /\ Empty /\ killed[c] = 1 /\ ReadReturns(c) /\ UNCHANGED cons
     \/ /\ cnt[P(c)] > 0 /\ Empty /\ killed[c] = 0 /\ Go(P(c), "rsleep")
        /\ UNCHANGED <<cnt, got, lock, cpu, cons, panicked>>
     \/ cnt[P(c)] > 0 /\ ReadChar(c)
  /\ UNCHANGED <<killed, key, tx, uart, plan>>

(* The sleep() in it; kill() may have come since the look at p->killed.    *)
ReadSleep(c) ==
  /\ Runs(P(c)) /\ pc[P(c)] = "rsleep"
  /\ Sleep(P(c), "cons", "rasleep")
  /\ UNCHANGED <<call, key, cons, tx, uart, plan>>

(* The end of sleep(): take the lock again.                                *)
Woken(c) ==
  /\ Runs(P(c))
  /\ \/ pc[P(c)] = "rwoke" /\ StartAcquire(P(c), "rwant")
     \/ pc[P(c)] = "wwoke" /\ StartAcquire(P(c), "wwant")
  /\ UNCHANGED <<lock, call, key, cons, tx, uart, plan>>

(* kill() of a reader.                                                     *)
Kill(c) ==
  /\ panicked = 0 /\ killed[c] = 0
  /\ killed' = [killed EXCEPT ![c] = 1]
  /\ pc' = [pc EXCEPT ![P(c)] = IF @ = "rasleep" THEN "rwoke" ELSE @]
  /\ UNCHANGED <<cpu, lock, cnt, got, key, cons, tx, uart, plan, panicked>>

-----------------------------------------------------------------------------
(* consolewrite() of n bytes.                                              *)
Write(c, n) ==
  /\ Runs(P(c)) /\ pc[P(c)] = "out"
  /\ cnt' = [cnt EXCEPT ![P(c)] = n]
  /\ StartAcquire(P(c), "wwant")
  /\ UNCHANGED <<lock, got, killed, key, cons, tx, uart, plan>>

(* Its next byte, unless copyin() fails.                                   *)
WriteMore(c) ==
  /\ Runs(P(c)) /\ pc[P(c)] = "more"
  /\ \/ cnt[P(c)] > 0 /\ StartAcquire(P(c), "wwant") /\ UNCHANGED cnt
     \/ /\ Go(P(c), "out") /\ cnt' = [cnt EXCEPT ![P(c)] = 0]
        /\ UNCHANGED <<cpu, panicked>>
  /\ UNCHANGED <<lock, got, killed, key, cons, tx, uart, plan>>

(* Mutant: uartstart() is left to the interrupt handler.                   *)
UartputcNoStart(c) ==
  /\ Runs(P(c)) /\ pc[P(c)] = "put"
  /\ tx < UART_TX_BUF_SIZE
  /\ tx' = tx + 1 /\ cnt' = [cnt EXCEPT ![P(c)] = @ - 1]
  /\ Go(P(c), "more") /\ Release(P(c), "tx")
  /\ UNCHANGED <<got, killed, key, cons, uart, plan>>
(* uartputc(), holding uart_tx_lock.                                       *)
Uartputc(c) ==
  /\ Runs(P(c)) /\ pc[P(c)] = "put"
  /\ \/ /\ tx = UART_TX_BUF_SIZE
        /\ Sleep(P(c), "tx", "wasleep") /\ UNCHANGED <<tx, cnt>>
     \/ /\ tx < UART_TX_BUF_SIZE
        /\ tx' = tx + 1 /\ cnt' = [cnt EXCEPT ![P(c)] = @ - 1]
        /\ Go(P(c), "start")
        /\ UNCHANGED <<lock, cpu, panicked>>
  /\ UNCHANGED <<got, killed, key, cons, uart, plan>>

(* uartstart() returns and uart_tx_lock is released, by uartputc() or by   *)
(* uartintr(); then the PLIC is told, and sret turns interrupts on again.  *)
StartReturns(x) ==
  IF InIntr(x)
  THEN /\ lock' = [lock EXCEPT !["tx"] = None]
       /\ cpu' = [cpu EXCEPT ![CpuOf(x)] = [PopOff(@) EXCEPT !.sie = TRUE]]
       /\ Panic(~Holding(x, "tx") \/ PopOffPanics(cpu[CpuOf(x)]))
       /\ claimed' = None
       /\ Go(x, "idle")
  ELSE Release(x, "tx") /\ Go(x, "more") /\ UNCHANGED claimed

(* Mutant: the writers are not woken.                                      *)
StartByteQuiet(x) == tx' = tx - 1 /\ Go(x, "thr")
(* A byte leaves the buffer.                                               *)
StartByte(x) == tx' = tx - 1 /\ WakeAnd("wasleep", "wwoke", x, "thr")

(* The loop of uartstart(); reading ISR clears the transmit interrupt.     *)
Uartstart(x) ==
  /\ Runs(x) /\ pc[x] = "start"
  /\ \/ tx = 0 /\ StartReturns(x) /\ thre' = FALSE /\ UNCHANGED tx
     \/ tx > 0 /\ fifo > 0 /\ StartReturns(x) /\ UNCHANGED <<tx, thre>>
     \/ tx > 0 /\ fifo = 0 /\ StartByte(x) /\ UNCHANGED <<cpu, lock, thre, claimed, panicked>>
  /\ UNCHANGED <<call, key, cons, fifo, rx, plan>>

(* WriteReg(THR, c) in uartstart().                                        *)
StartTHR(x) ==
  /\ Runs(x) /\ pc[x] = "thr"
  /\ fifo' = fifo + 1 /\ thre' = FALSE
  /\ Go(x, "start")
  /\ UNCHANGED <<cpu, lock, call, key, cons, tx, rx, claimed, plan, panicked>>

-----------------------------------------------------------------------------
(* printf() by a process, of n bytes.                                      *)
Printf(c, n) ==
  /\ Runs(P(c)) /\ pc[P(c)] = "out" /\ prints < MaxPrints
  /\ prints' = prints + 1
  /\ cnt' = [cnt EXCEPT ![P(c)] = n]
  /\ StartAcquire(P(c), "pwant")
  /\ UNCHANGED <<lock, got, killed, key, cons, tx, uart, keys>>

(* Mutant: the byte is written without waiting for the UART.               *)
TxIdleAlways == TRUE
TxIdle == fifo = 0

(* uartputc_sync(): interrupts off, and the UART found idle.               *)
SyncWait(x) ==
  /\ Runs(x) /\ pc[x] = "sync" /\ cnt[x] > 0 /\ TxIdle
  /\ cpu' = [cpu EXCEPT ![CpuOf(x)] = PushOff(@)]
  /\ Go(x, "sthr")
  /\ UNCHANGED <<lock, call, key, cons, tx, uart, plan, panicked>>

SyncTHR(x) ==
  /\ Runs(x) /\ pc[x] = "sthr"
  /\ fifo' = fifo + 1 /\ thre' = FALSE
  /\ cpu' = [cpu EXCEPT ![CpuOf(x)] = PopOff(@)]
  /\ Panic(PopOffPanics(cpu[CpuOf(x)]))
  /\ cnt' = [cnt EXCEPT ![x] = @ - 1]
  /\ Go(x, "sync")
  /\ UNCHANGED <<lock, got, killed, key, cons, tx, rx, claimed, plan>>

(* printf() returns, to its process or to procdump() in consoleintr().     *)
PrintDone(x) ==
  /\ Runs(x) /\ pc[x] = "sync" /\ cnt[x] = 0
  /\ InIntr(x) => key[CpuOf(x)] = "P"
  /\ Go(x, IF InIntr(x) THEN "listed" ELSE "out")
  /\ Release(x, "pr")
  /\ UNCHANGED <<call, key, cons, tx, uart, plan>>

-----------------------------------------------------------------------------
(* The UART interrupt reaches a CPU with interrupts on, and devintr(),     *)
(* with interrupts off, claims it from the PLIC.  A CPU that comes second  *)
(* claims no irq and returns.                                              *)
Interrupt(c) ==
  /\ panicked = 0 /\ pc[I(c)] = "idle" /\ cpu[c].sie
  /\ claimed = None /\ (thre \/ rx # <<>>)
  /\ claimed' = c
  /\ cpu' = [cpu EXCEPT ![c].sie = FALSE]
  /\ Go(I(c), "uart")
  /\ UNCHANGED <<lock, call, key, cons, tx, fifo, thre, rx, plan, panicked>>

(* The loop of uartintr(): the next character, or on to the output.        *)
Uartintr(c) ==
  /\ Runs(I(c)) /\ pc[I(c)] = "uart"
  /\ IF rx # <<>>
     THEN /\ key' = [key EXCEPT ![c] = Head(rx)] /\ rx' = Tail(rx)
          /\ StartAcquire(I(c), "kwant")
     ELSE StartAcquire(I(c), "twant") /\ UNCHANGED <<key, rx>>
  /\ UNCHANGED <<lock, call, cons, tx, fifo, thre, claimed, plan>>

(* How many characters ^U erases: back to the end of the last line.        *)
KillLength ==
  LET line == (e + WORD - w) % WORD IN
  CHOOSE n \in 0..line : /\ \A k \in 1..n : At((e + WORD - k) % WORD) # "nl"
                         /\ n = line \/ At((e + WORD - (n + 1)) % WORD) = "nl"

(* How many characters the key erases.                                     *)
Erased(k) == CASE k = "U" -> KillLength
               [] k = "H" -> IF e # w THEN 1 ELSE 0
               [] OTHER -> 0
(* Mutant: a key is stored whether or not there is room.                   *)
FitsAlways(k) == k \in Stored
Fits(k) == k \in Stored /\ Size < INPUT_BUF_SIZE

(* consputc(): bytes of the echo; an erased character takes three.         *)
Echo(k) == IF Fits(k) THEN 1 ELSE 3 * Erased(k)
(* procdump(): its calls of printf() are one here.                         *)
Procdump(c) == StartAcquire(I(c), "pwant") /\ cnt' = [cnt EXCEPT ![I(c)] = 1]

(* consoleintr(), holding cons.lock: ^P lists the processes, every other   *)
(* key is echoed.                                                          *)
ConsoleintrEcho(c) ==
  /\ Runs(I(c)) /\ pc[I(c)] = "key"
  /\ \/ key[c] = "P" /\ Procdump(c)
     \/ /\ key[c] # "P" /\ Go(I(c), "sync")
        /\ cnt' = [cnt EXCEPT ![I(c)] = Echo(key[c])]
        /\ UNCHANGED <<cpu, panicked>>
  /\ UNCHANGED <<lock, got, killed, key, cons, tx, uart, plan>>

EndsLine(k) == k \in {"nl", "D"} \/ Size + 1 = INPUT_BUF_SIZE

(* Then the line changes; the end of a line wakes the readers.             *)
ConsoleintrStore(c) ==
  LET k == key[c]
      line == Fits(k) /\ EndsLine(k) IN
  /\ Runs(I(c))
  /\ pc[I(c)] = "listed" \/ (pc[I(c)] = "sync" /\ cnt[I(c)] = 0 /\ k # "P")
  /\ IF Fits(k)
     THEN /\ buf' = [buf EXCEPT ![e % INPUT_BUF_SIZE] = k]
          /\ e' = (e + 1) % WORD
          /\ w' = IF line THEN e' ELSE w
     ELSE e' = (e + WORD - Erased(k)) % WORD /\ UNCHANGED <<buf, w>>
  /\ IF line THEN WakeAnd("rasleep", "rwoke", I(c), "uart") ELSE Go(I(c), "uart")
  /\ key' = [key EXCEPT ![c] = None]
  /\ Release(I(c), "cons")
  /\ UNCHANGED <<call, r, tx, uart, plan>>

-----------------------------------------------------------------------------
(* The UART: it sends a byte, and asks for more when it has none left; it  *)
(* receives a key.                                                         *)
Send ==
  /\ fifo > 0 /\ panicked = 0
  /\ fifo' = fifo - 1
  /\ thre' = (thre \/ fifo = 1)
  /\ UNCHANGED <<cpu, lock, pc, call, key, cons, tx, rx, claimed, plan, panicked>>

Press ==
  /\ rx = <<>> /\ keys # <<>> /\ panicked = 0
  /\ rx' = <<Head(keys)>> /\ keys' = Tail(keys)
  /\ UNCHANGED <<cpu, lock, pc, call, key, cons, tx, fifo, thre, claimed, prints, panicked>>

-----------------------------------------------------------------------------
Calls(c) ==
  \E n \in Chunk : \/ c \in Reader /\ Read(c, n)
                   \/ c \in Writer /\ Write(c, n)
                   \/ c \in Printer /\ Printf(c, n)
Common(x) ==
  Acquire(x) \/ Uartstart(x) \/ StartTHR(x) \/ SyncWait(x) \/ SyncTHR(x) \/ PrintDone(x)
ProcStep(c) ==
  Common(P(c)) \/ ReadLoop(c) \/ ReadSleep(c) \/ Woken(c) \/ WriteMore(c) \/ Uartputc(c)
IntrStep(c) == Common(I(c)) \/ Uartintr(c) \/ ConsoleintrEcho(c) \/ ConsoleintrStore(c)

Next ==
  \/ \E c \in CPU : Calls(c) \/ ProcStep(c) \/ Interrupt(c) \/ IntrStep(c)
  \/ \E c \in Reader : Kill(c)
  \/ Send \/ Press
Spec == Init /\ [][Next]_vars

-----------------------------------------------------------------------------
(* None of the panics is reached: no CPU waits for a lock it holds itself, *)
(* releases one it does not hold, or sleeps with a second lock; this needs *)
(* interrupts to stay off from the first push_off() to the last pop_off(). *)
NoPanic == panicked = 0

(* No output byte is lost in the UART: uartputc_sync() takes no lock, so   *)
(* every CPU may find it idle at the same time and write, but no CPU can   *)
(* do so twice.  A FIFO of one byte per CPU is enough.                     *)
Writing == {x \in Ctx : pc[x] \in {"thr", "sthr"}}
FifoFits == fifo + Cardinality(Writing) <= Cardinality(CPU)

(* The output never stalls: when bytes are buffered and nobody is in       *)
(* uartstart(), the UART will interrupt, though uartstart() clears         *)
(* interrupts and the echo of a key may take the UART at any moment.       *)
NoLostKick == tx > 0 /\ lock["tx"] = None => fifo > 0 \/ thre \/ Writing # {}

(* No lost wakeup: a writer sleeps only while the buffer is full, a reader *)
(* only while no line is ready.                                            *)
NoLostWakeup == \A x \in Ctx : /\ pc[x] = "wasleep" => tx = UART_TX_BUF_SIZE
                               /\ pc[x] = "rasleep" => Empty

(* The three indices into cons.buf implement the line editor of Tty.       *)
Slice(a, b) == [k \in 1..((b + WORD - a) % WORD) |-> At((a + k - 1) % WORD)]
Ready == Slice(r, w)
Edited == Slice(w, e)
Line == INSTANCE Tty WITH
  Char <- Stored, Ender <- {"nl", "D"}, Size <- INPUT_BUF_SIZE,
  ready <- Ready, edit <- Edited
IsTty == Line!Spec
=============================================================================
