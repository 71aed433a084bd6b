-------------------------------- MODULE Proc --------------------------------
(***************************************************************************)
(* The life of processes: kernel/proc.c (allocproc, freeproc, fork, exit,  *)
(* reparent, wait, kill, sleep, wakeup, yield, sched, scheduler), with the *)
(* points of trap.c where a killed process exits and the loop of           *)
(* user/init.c.                                                            *)
(*                                                                         *)
(* A process is named by its slot of proc[].  Its pid is left out: pids    *)
(* are never reused, so among the slots in use a pid and a slot name the   *)
(* same process.  An UNUSED slot has pid 0, which kill(0) matches.         *)
(*                                                                         *)
(* p->lock is not a variable: between steps it is held exactly while a CPU *)
(* is still on the kernel stack of a process that is no longer RUNNING,    *)
(* that is from sleep(), exit() or yield() until scheduler() has switched  *)
(* stacks and released it.  wait_lock is held between steps only in wait() *)
(* after the last look at the children and before sleep() releases it.     *)
(***************************************************************************)
EXTENDS Naturals, FiniteSets

CONSTANTS
    Proc,       \* the slots of proc[]
    InitProc,   \* initproc, the slot userinit() takes
    CPU,
    None,       \* no slot: a null pointer, a lock nobody holds
    IO          \* the channel of every sleep() other than wait()'s

ASSUME ProcAssumption ==
    /\ InitProc \in Proc
    /\ None \notin Proc /\ IO \notin Proc /\ IO # None

VARIABLES
    state, parent, chan, killed,    \* the fields of struct proc
    pc,         \* where each process is: user mode or a point of a call
    child,      \* np, the slot a fork() in progress has allocated
    cpu,        \* the process whose stack each CPU is on (c->proc)
    wait_lock,  \* the process that holds wait_lock between two steps
    sh,         \* init.c's pid: the child that runs the shell
    panicked

vars == <<state, parent, chan, killed, pc, child, cpu, wait_lock, sh, panicked>>

States == {"UNUSED", "USED", "SLEEPING", "RUNNABLE", "RUNNING", "ZOMBIE"}
PC == {"user", "forked", "linked", "wait", "decided", "io"}
SlotOrNone == Proc \cup {None}

Kids(p) == {q \in Proc : parent[q] = p}
Running(p) == state[p] = "RUNNING" /\ ~panicked
InUser(p) == Running(p) /\ pc[p] = "user"

\* A system call is made only by a process that usertrap() finds not killed.
Calls(p) == InUser(p) /\ ~killed[p]

LockableAlways(p) == TRUE
\* p->lock can be taken: no CPU is between p's change of state and the
\* scheduler's release.
Lockable(p) == \A c \in CPU : cpu[c] = p => state[p] = "RUNNING"

SetPc(p, l) == pc' = [pc EXCEPT ![p] = l]

\* wakeup(ch) for each ch of chs.
Asleep(chs) == {q \in Proc : state[q] = "SLEEPING" /\ chan[q] \in chs}
Wakeup(chs) == [q \in Proc |-> IF q \in Asleep(chs) THEN "RUNNABLE" ELSE state[q]]

Init ==
    /\ state = [p \in Proc |-> IF p = InitProc THEN "RUNNABLE" ELSE "UNUSED"]
    /\ parent = [p \in Proc |-> None]
    /\ chan = [p \in Proc |-> None]
    /\ killed = [p \in Proc |-> FALSE]
    /\ pc = [p \in Proc |-> "user"]
    /\ child = [p \in Proc |-> None]
    /\ cpu = [c \in CPU |-> None]
    /\ wait_lock = None
    /\ sh = None
    /\ panicked = FALSE

-----------------------------------------------------------------------------
(* fork() *)

\* init.c forks when it has no shell; its fork() must succeed or it exits.
MayFork(p) == Calls(p) /\ (p = InitProc => sh = None)

\* allocproc() takes an UNUSED slot; the copies follow under np->lock.
\* p->killed is left as it is found.
Fork(p) ==
    /\ MayFork(p)
    /\ \E np \in Proc :
        /\ state[np] = "UNUSED" /\ Lockable(np)
        /\ state' = [state EXCEPT ![np] = "USED"]
        /\ child' = [child EXCEPT ![p] = np]
    /\ SetPc(p, "forked")
    /\ UNCHANGED <<parent, chan, killed, cpu, wait_lock, sh, panicked>>

\* No slot, or no memory for the copy: freeproc() leaves the slot UNUSED.
ForkFails(p) ==
    /\ MayFork(p)
    /\ panicked' = (p = InitProc)
    /\ \/ UNCHANGED killed
       \/ \E np \in Proc : /\ state[np] = "UNUSED" /\ Lockable(np)
                           /\ killed' = [killed EXCEPT ![np] = FALSE]
    /\ UNCHANGED <<state, parent, chan, pc, child, cpu, wait_lock, sh>>

SetParent(p) ==
    /\ Running(p) /\ pc[p] = "forked" /\ wait_lock = None
    /\ parent' = [parent EXCEPT ![child[p]] = p]
    /\ SetPc(p, "linked")
    /\ UNCHANGED <<state, chan, killed, child, cpu, wait_lock, sh, panicked>>

StartChild(p) ==
    /\ Running(p) /\ pc[p] = "linked"
    /\ state' = [state EXCEPT ![child[p]] = "RUNNABLE"]
    /\ pc' = [pc EXCEPT ![p] = "user", ![child[p]] = "user"]
    /\ child' = [child EXCEPT ![p] = None]
    /\ sh' = IF p = InitProc THEN child[p] ELSE sh
    /\ UNCHANGED <<parent, chan, killed, cpu, wait_lock, panicked>>

-----------------------------------------------------------------------------
(* exit() *)

ReparentNone(p) == parent
\* reparent(): p's children, zombies too, become init's.
Reparent(p) == [q \in Proc |-> IF parent[q] = p THEN InitProc ELSE parent[q]]

ExitWakesInit(p) == IF Kids(p) = {} THEN {} ELSE {InitProc}
\* Who reparent() and exit() wake.
ExitWakes(p) == {parent[p]} \cup IF Kids(p) = {} THEN {} ELSE {InitProc}

\* From acquire(&wait_lock) to its release; p->lock is kept into sched().
\* wakeup() waits for the lock of a sleeper whose CPU has not switched yet.
Exit(p) ==
    /\ InUser(p)
    /\ IF p = InitProc
       THEN /\ killed[p]
            /\ panicked' = TRUE
            /\ UNCHANGED <<state, parent>>
       ELSE /\ wait_lock = None
            /\ \A q \in Asleep(ExitWakes(p)) : Lockable(q)
            /\ parent' = Reparent(p)
            /\ state' = [Wakeup(ExitWakes(p)) EXCEPT ![p] = "ZOMBIE"]
            /\ UNCHANGED panicked
    /\ UNCHANGED <<chan, killed, pc, child, cpu, wait_lock, sh>>

-----------------------------------------------------------------------------
(* wait() *)

\* init.c waits only while its shell has not been reaped.
WaitCall(p) ==
    /\ Calls(p) /\ (p = InitProc => sh # None)
    /\ SetPc(p, "wait")
    /\ UNCHANGED <<state, parent, chan, killed, child, cpu, wait_lock, sh, panicked>>

InWait(p) == Running(p) /\ pc[p] = "wait" /\ wait_lock = None
ZombieKids(p) == {z \in Kids(p) : state[z] = "ZOMBIE"}

\* freeproc()
Freeproc(z) ==
    /\ state' = [state EXCEPT ![z] = "UNUSED"]
    /\ parent' = [parent EXCEPT ![z] = None]
    /\ chan' = [chan EXCEPT ![z] = None]
    /\ killed' = [killed EXCEPT ![z] = FALSE]

\* The scan finds a zombie and takes its lock.
WaitReap(p) ==
    /\ InWait(p)
    /\ \E z \in ZombieKids(p) :
        /\ Lockable(z)
        /\ Freeproc(z)
        /\ sh' = IF p = InitProc /\ z = sh THEN None ELSE sh
    /\ SetPc(p, "user")
    /\ UNCHANGED <<child, cpu, wait_lock, panicked>>

\* copyout() of the status to a bad address; init.c passes address 0.
WaitFault(p) ==
    /\ InWait(p) /\ p # InitProc
    /\ \E z \in ZombieKids(p) : Lockable(z)
    /\ SetPc(p, "user")
    /\ UNCHANGED <<state, parent, chan, killed, child, cpu, wait_lock, sh, panicked>>

WaitDecideUnlocked(p) ==
    /\ InWait(p) /\ ZombieKids(p) = {}
    /\ SetPc(p, IF Kids(p) = {} \/ killed[p] THEN "user" ELSE "decided")
    /\ UNCHANGED <<state, parent, chan, killed, child, cpu, wait_lock, sh, panicked>>
\* No zombie: give up, or keep wait_lock and go on to sleep().  init.c exits
\* when wait() fails.
WaitDecide(p) ==
    /\ InWait(p) /\ ZombieKids(p) = {}
    /\ IF Kids(p) = {} \/ killed[p]
       THEN /\ SetPc(p, "user")
            /\ panicked' = (p = InitProc)
            /\ UNCHANGED wait_lock
       ELSE /\ SetPc(p, "decided")
            /\ wait_lock' = p
            /\ UNCHANGED panicked
    /\ UNCHANGED <<state, parent, chan, killed, child, cpu, sh>>

\* sleep(): p->lock is taken, lk released, the state changed.
Sleep(p, ch, l) ==
    /\ state' = [state EXCEPT ![p] = "SLEEPING"]
    /\ chan' = [chan EXCEPT ![p] = ch]
    /\ SetPc(p, l)

WaitSleep(p) ==
    /\ Running(p) /\ pc[p] = "decided"
    /\ Sleep(p, p, "wait")
    /\ wait_lock' = None
    /\ UNCHANGED <<parent, killed, child, cpu, sh, panicked>>

-----------------------------------------------------------------------------
(* Other sleeps, kill(), the scheduler *)

\* A call that sleeps for a device or another process; its end is an
\* interrupt's wakeup() or a kill().
IoSleep(p) ==
    /\ Calls(p) /\ p # InitProc
    /\ Sleep(p, IO, "io")
    /\ UNCHANGED <<parent, killed, child, cpu, wait_lock, sh, panicked>>

IoDone(p) ==
    /\ Running(p) /\ pc[p] = "io"
    /\ SetPc(p, "user")
    /\ UNCHANGED <<state, parent, chan, killed, child, cpu, wait_lock, sh, panicked>>

IoWakeup ==
    /\ ~panicked /\ Asleep({IO}) # {}
    /\ \A q \in Asleep({IO}) : Lockable(q)
    /\ state' = Wakeup({IO})
    /\ UNCHANGED <<parent, chan, killed, pc, child, cpu, wait_lock, sh, panicked>>

\* kill(pid) for the pid in slot q; kill(0) finds an UNUSED slot, and what it
\* sets there allocproc() does not clear.
Kill(p, q) ==
    /\ Calls(p) /\ p # InitProc
    /\ Lockable(q)
    /\ killed' = [killed EXCEPT ![q] = TRUE]
    /\ state' = [state EXCEPT ![q] = IF @ = "SLEEPING" THEN "RUNNABLE" ELSE @]
    /\ UNCHANGED <<parent, chan, pc, child, cpu, wait_lock, sh, panicked>>

\* yield() on a timer interrupt: from user mode when usertrap() does not find
\* p killed, from the kernel when p holds no spinlock.
Yield(p) ==
    /\ Running(p) /\ pc[p] # "decided"
    /\ pc[p] = "user" => ~killed[p]
    /\ state' = [state EXCEPT ![p] = "RUNNABLE"]
    /\ UNCHANGED <<parent, chan, killed, pc, child, cpu, wait_lock, sh, panicked>>

\* sched()'s swtch back to scheduler(), which releases p->lock.
SwitchOut(c) ==
    /\ ~panicked /\ cpu[c] # None
    /\ state[cpu[c]] # "RUNNING"
    /\ cpu' = [cpu EXCEPT ![c] = None]
    /\ UNCHANGED <<state, parent, chan, killed, pc, child, wait_lock, sh, panicked>>

\* scheduler() picks p; p releases its lock in forkret(), yield() or sleep(),
\* and sleep() clears p->chan.
Schedule(c, p) ==
    /\ ~panicked /\ cpu[c] = None
    /\ state[p] = "RUNNABLE" /\ Lockable(p)
    /\ state' = [state EXCEPT ![p] = "RUNNING"]
    /\ chan' = [chan EXCEPT ![p] = None]
    /\ cpu' = [cpu EXCEPT ![c] = p]
    /\ UNCHANGED <<parent, killed, pc, child, wait_lock, sh, panicked>>

\* panic() spins.
Halted == panicked /\ UNCHANGED vars

ForkStep(p) == Fork(p) \/ ForkFails(p) \/ SetParent(p) \/ StartChild(p)
WaitStep(p) == WaitCall(p) \/ WaitReap(p) \/ WaitFault(p) \/ WaitDecide(p) \/ WaitSleep(p)
SchedStep(p) == Yield(p) \/ \E c \in CPU : Schedule(c, p)

Next ==
    \/ \E p \in Proc :
        \/ ForkStep(p) \/ Exit(p) \/ WaitStep(p) \/ IoSleep(p) \/ IoDone(p)
        \/ SchedStep(p)
        \/ \E q \in Proc : Kill(p, q)
    \/ IoWakeup
    \/ \E c \in CPU : SwitchOut(c)
    \/ Halted

Spec == Init /\ [][Next]_vars

\* What a process does next without being asked: the rest of a call, the exit of
\* a killed process, and for init the loop of init.c.
Continue(p) ==
    \/ SetParent(p) \/ StartChild(p) \/ IoDone(p)
    \/ WaitReap(p) \/ WaitDecide(p) \/ WaitSleep(p)
    \/ Exit(p) /\ killed[p]
    \/ p = InitProc /\ (Fork(p) \/ ForkFails(p) \/ WaitCall(p))

\* A switch is completed, a device answers, the timer preempts whoever runs.
\* scheduler() comes round to every RUNNABLE process, and a process that is
\* given the CPU, or finds a spinlock free, again and again gets on: hence
\* strong fairness.  A process in user mode need do nothing.
Fairness ==
    /\ \A c \in CPU : WF_vars(SwitchOut(c))
    /\ WF_vars(IoWakeup)
    /\ \A p \in Proc :
        /\ WF_vars(Yield(p))
        /\ SF_vars(\E c \in CPU : Schedule(c, p))
        /\ SF_vars(Continue(p))

LiveSpec == Spec /\ Fairness

-----------------------------------------------------------------------------
(* Properties *)

\* The type invariant: the fields of proc[] hold what struct proc declares, and
\* a slot has a fork()ed child only at the two points where fork() has one.
TypeOK ==
    /\ state \in [Proc -> States]
    /\ parent \in [Proc -> SlotOrNone]
    /\ chan \in [Proc -> SlotOrNone \cup {IO}]
    /\ killed \in [Proc -> BOOLEAN]
    /\ pc \in [Proc -> PC]
    /\ child \in [Proc -> SlotOrNone]
    /\ \A p \in Proc : child[p] # None <=> pc[p] \in {"forked", "linked"}
    /\ cpu \in [CPU -> SlotOrNone]
    /\ wait_lock \in SlotOrNone
    /\ sh \in SlotOrNone
    /\ panicked \in BOOLEAN

\* wait_lock "helps ensure that wakeups of wait()ing parents are not lost": a
\* process asleep in wait() has children, and none of them is a zombie, whatever
\* exit()s and reparent()s came between its scan and its sleep().
WaitWakeup ==
    \A p \in Proc : state[p] = "SLEEPING" /\ chan[p] = p =>
        /\ Kids(p) # {}
        /\ ZombieKids(p) = {}

\* No two CPUs are on one kernel stack, and none is on the stack of a slot that
\* wait() has freed or fork() is filling: scheduler(), wait() and wakeup()
\* respect the p->lock that sched() carries across swtch().
OneStack ==
    /\ \A c \in CPU : cpu[c] # None => state[cpu[c]] \notin {"UNUSED", "USED"}
    /\ \A c, d \in CPU : cpu[c] = cpu[d] /\ c # d => cpu[c] = None
    /\ \A p \in Proc : state[p] = "RUNNING" => \E c \in CPU : cpu[c] = p

\* Everybody will be waited for: each process that fork() has linked has a
\* parent that is alive, so exit() never leaves a child, running or zombie,
\* with a parent that is gone or with a slot reused by someone else.
ParentLives ==
    \A q \in Proc :
        /\ parent[q] # None =>
            /\ state[q] # "UNUSED"
            /\ state[parent[q]] \in {"SLEEPING", "RUNNABLE", "RUNNING"}
        /\ state[q] \notin {"UNUSED", "USED"} /\ q # InitProc => parent[q] # None

\* The parents form a tree under init: no set of processes without init is
\* closed under parent, though slots are reused and exit() moves subtrees.
TreeUnderInit ==
    \A S \in SUBSET (Proc \ {InitProc}) : S # {} =>
        \E q \in S : parent[q] \notin S

\* init.c's wait() fails only if init was killed: from fork()'s return until
\* init reaps it, the shell is a child of init, whatever else was reparented
\* to init and reaped by it.
InitHasShell ==
    sh # None => /\ parent[sh] = InitProc
                 /\ state[sh] \notin {"UNUSED", "USED"}

\* "An exited process remains in the zombie state until its parent calls
\* wait()", and init is the parent of last resort: while init has zombies it
\* reaps again and again, or the kernel has panicked.  (Each one in its turn is
\* more than the code gives: the scan of wait() starts at slot 0 every time, so
\* a zombie in a high slot can wait for ever behind shells that come and go.)
InitKeepsReaping ==
    <>[](ZombieKids(InitProc) # {}) => []<><<WaitReap(InitProc)>>_vars \/ <>panicked
=============================================================================
