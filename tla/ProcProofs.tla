----------------------------- MODULE ProcProofs -----------------------------
(***************************************************************************)
(* Proofs about Proc.tla for any number of slots and CPUs: no kernel stack *)
(* is shared or freed under a CPU, the parents form a tree of live         *)
(* processes under init, and wait() misses no wakeup.                      *)
(***************************************************************************)
EXTENDS Proc, TLAPS

Live == {"SLEEPING", "RUNNABLE", "RUNNING"}

\* Where the calls in progress can be: a process inside fork() is running or
\* preempted, its child is its own and USED, and linked to it from "linked" on;
\* one that is not live is at rest.
Forks ==
    /\ \A p \in Proc : pc[p] \in {"forked", "linked"} =>
        /\ state[p] \in {"RUNNABLE", "RUNNING"}
        /\ state[child[p]] = "USED"
        /\ parent[child[p]] = IF pc[p] = "linked" THEN p ELSE None
    /\ \A p, q \in Proc : child[p] = child[q] /\ p # q => child[p] = None
    /\ \A q \in Proc : state[q] = "USED" => \E p \in Proc : child[p] = q
    /\ \A p \in Proc : state[p] \notin Live => pc[p] = "user"
    /\ state[InitProc] \in Live

\* wait_lock is held exactly by a process that has decided to sleep, and what
\* its scan found is still true; only wait() sleeps on the process itself.
Waits ==
    /\ \A p \in Proc : pc[p] = "decided" <=> wait_lock = p
    /\ \A p \in Proc : pc[p] = "decided" =>
        /\ state[p] = "RUNNING"
        /\ Kids(p) # {}
        /\ ZombieKids(p) = {}
    /\ \A p \in Proc : state[p] = "SLEEPING" =>
        /\ pc[p] \in {"wait", "io"}
        /\ pc[p] = "wait" => chan[p] = p
        /\ pc[p] = "io" => chan[p] = IO

Inv ==
    /\ TypeOK /\ OneStack /\ Forks /\ ParentLives /\ TreeUnderInit
    /\ Waits /\ WaitWakeup /\ InitHasShell

USE DEF MayFork, Calls, InUser, Running, SetPc, Lockable, Live

\* fork()'s allocation keeps the invariant: the new slot was UNUSED, so no CPU is on
\* its stack, nobody's child or parent, and not init.
LEMMA ForkKeeps ==
    ASSUME Inv, NEW p \in Proc, Fork(p)
    PROVE  Inv'
<1>1. TypeOK'
  BY ProcAssumption DEF Inv, Fork, TypeOK, SlotOrNone, PC, States
<1>2. OneStack'
  BY ProcAssumption DEF Inv, Fork, TypeOK, SlotOrNone, OneStack
<1>3. Forks'
  BY ProcAssumption DEF Inv, Fork, TypeOK, SlotOrNone, OneStack, Forks, ParentLives
<1>4. ParentLives'
  BY ProcAssumption DEF Inv, Fork, TypeOK, SlotOrNone, Forks, ParentLives, Waits
<1>5. TreeUnderInit'
  BY ProcAssumption DEF Inv, Fork, TypeOK, SlotOrNone, Forks, ParentLives, TreeUnderInit
<1>6. Waits'
  BY ProcAssumption DEF Inv, Fork, TypeOK, SlotOrNone, Forks, ParentLives, Waits, Kids,
       ZombieKids
<1>7. WaitWakeup'
  BY ProcAssumption DEF Inv, Fork, TypeOK, SlotOrNone, Forks, ParentLives, Waits,
       WaitWakeup, Kids, ZombieKids
<1>8. InitHasShell'
  BY ProcAssumption DEF Inv, Fork, TypeOK, SlotOrNone, Forks, ParentLives, InitHasShell,
       Kids, ZombieKids
<1> QED
  BY <1>1, <1>2, <1>3, <1>4, <1>5, <1>6, <1>7, <1>8 DEF Inv

\* A fork() that fails changes no process.
LEMMA ForkFailsKeeps ==
    ASSUME Inv, NEW p \in Proc, ForkFails(p)
    PROVE  Inv'
<1>1. TypeOK'
  BY ProcAssumption DEF Inv, ForkFails, TypeOK, SlotOrNone, PC, States
<1>2. OneStack'
  BY ProcAssumption DEF Inv, ForkFails, TypeOK, SlotOrNone, OneStack
<1>3. Forks'
  BY ProcAssumption DEF Inv, ForkFails, TypeOK, SlotOrNone, OneStack, Forks, ParentLives
<1>4. ParentLives'
  BY ProcAssumption DEF Inv, ForkFails, TypeOK, SlotOrNone, Forks, ParentLives, Waits
<1>5. TreeUnderInit'
  BY ProcAssumption DEF Inv, ForkFails, TypeOK, SlotOrNone, Forks, ParentLives, TreeUnderInit
<1>6. Waits'
  BY ProcAssumption DEF Inv, ForkFails, TypeOK, SlotOrNone, Forks, ParentLives, Waits, Kids,
       ZombieKids
<1>7. WaitWakeup'
  BY ProcAssumption DEF Inv, ForkFails, TypeOK, SlotOrNone, Forks, ParentLives, Waits,
       WaitWakeup, Kids, ZombieKids
<1>8. InitHasShell'
  BY ProcAssumption DEF Inv, ForkFails, TypeOK, SlotOrNone, Forks, ParentLives,
       InitHasShell, Kids, ZombieKids
<1> QED
  BY <1>1, <1>2, <1>3, <1>4, <1>5, <1>6, <1>7, <1>8 DEF Inv

\* fork()'s np->parent = p keeps the tree: np is USED, so it has no children yet and
\* the new edge closes no cycle.
LEMMA SetParentKeeps ==
    ASSUME Inv, NEW p \in Proc, SetParent(p)
    PROVE  Inv'
<1>1. TypeOK'
  BY ProcAssumption DEF Inv, SetParent, TypeOK, SlotOrNone, PC, States
<1>2. OneStack'
  BY ProcAssumption DEF Inv, SetParent, TypeOK, SlotOrNone, OneStack
<1>3. Forks'
  BY ProcAssumption DEF Inv, SetParent, TypeOK, SlotOrNone, OneStack, Forks, ParentLives
<1>4. ParentLives'
  BY ProcAssumption DEF Inv, SetParent, TypeOK, SlotOrNone, Forks, ParentLives, Waits
<1>5. TreeUnderInit'
  <2> SUFFICES ASSUME NEW S \in SUBSET (Proc \ {InitProc}), S # {},
                      \A q \in S : parent'[q] \in S
               PROVE  FALSE
    BY DEF TreeUnderInit
  <2> DEFINE np == child[p]
  <2>1. /\ np \in Proc /\ state[np] = "USED" /\ np # p
        /\ parent' = [parent EXCEPT ![np] = p]
    BY ProcAssumption DEF Inv, SetParent, TypeOK, SlotOrNone, Forks
  <2>2. \A q \in Proc : parent[q] # np
    BY <2>1, ProcAssumption DEF Inv, ParentLives
  <2>3. CASE np \in S
    <3>1. p \in S \ {np}
      BY <2>1, <2>3 DEF Inv, TypeOK
    <3>2. PICK q \in S \ {np} : parent[q] \notin S \ {np}
      BY <3>1 DEF Inv, TreeUnderInit
    <3>3. parent'[q] = parent[q] /\ parent[q] # np
      BY <2>1, <2>2, <3>2 DEF Inv, TypeOK
    <3> QED
      BY <3>2, <3>3
  <2>4. CASE np \notin S
    BY <2>1, <2>4 DEF Inv, TypeOK, TreeUnderInit
  <2> QED
    BY <2>3, <2>4
<1>6. Waits'
  BY ProcAssumption DEF Inv, SetParent, TypeOK, SlotOrNone, Forks, ParentLives, Waits, Kids,
       ZombieKids
<1>7. WaitWakeup'
  BY ProcAssumption DEF Inv, SetParent, TypeOK, SlotOrNone, Forks, ParentLives, Waits,
       WaitWakeup, Kids, ZombieKids
<1>8. InitHasShell'
  BY ProcAssumption DEF Inv, SetParent, TypeOK, SlotOrNone, Forks, ParentLives,
       InitHasShell, Kids, ZombieKids
<1> QED
  BY <1>1, <1>2, <1>3, <1>4, <1>5, <1>6, <1>7, <1>8 DEF Inv

\* fork()'s np->state = RUNNABLE keeps the invariant: np is already linked to p.
LEMMA StartChildKeeps ==
    ASSUME Inv, NEW p \in Proc, StartChild(p)
    PROVE  Inv'
<1>1. TypeOK'
  <2>1. child[p] \in Proc /\ pc[child[p]] = "user" /\ child[p] # p
    BY ProcAssumption DEF Inv, StartChild, TypeOK, SlotOrNone, Forks
  <2>2. /\ state' \in [Proc -> States]
        /\ pc' \in [Proc -> PC]
        /\ child' \in [Proc -> SlotOrNone]
        /\ sh' \in SlotOrNone
    BY <2>1 DEF Inv, StartChild, TypeOK, SlotOrNone, States, PC
  <2>3. \A q \in Proc : child'[q] # None <=> pc'[q] \in {"forked", "linked"}
    BY <2>1 DEF Inv, StartChild, TypeOK, SlotOrNone
  <2> QED
    BY <2>2, <2>3 DEF Inv, StartChild, TypeOK
<1>2. OneStack'
  BY ProcAssumption DEF Inv, StartChild, TypeOK, SlotOrNone, OneStack
<1>3. Forks'
  BY ProcAssumption DEF Inv, StartChild, TypeOK, SlotOrNone, OneStack, Forks, ParentLives
<1>4. ParentLives'
  BY ProcAssumption DEF Inv, StartChild, TypeOK, SlotOrNone, Forks, ParentLives, Waits
<1>5. TreeUnderInit'
  BY ProcAssumption DEF Inv, StartChild, TypeOK, SlotOrNone, Forks, ParentLives, TreeUnderInit
<1>6. Waits'
  BY ProcAssumption DEF Inv, StartChild, TypeOK, SlotOrNone, Forks, ParentLives, Waits,
       Kids, ZombieKids
<1>7. WaitWakeup'
  BY ProcAssumption DEF Inv, StartChild, TypeOK, SlotOrNone, Forks, ParentLives, Waits,
       WaitWakeup, Kids, ZombieKids
<1>8. InitHasShell'
  BY ProcAssumption DEF Inv, StartChild, TypeOK, SlotOrNone, Forks, ParentLives,
       InitHasShell, Kids, ZombieKids
<1> QED
  BY <1>1, <1>2, <1>3, <1>4, <1>5, <1>6, <1>7, <1>8 DEF Inv

\* exit() keeps the invariant: its children go to init, which is live, and the
\* sleepers in wait() that a new zombie concerns are woken in the same section.
LEMMA ExitKeeps ==
    ASSUME Inv, NEW p \in Proc, Exit(p)
    PROVE  Inv'
<1>1. CASE p = InitProc
  <2>1. UNCHANGED <<state, parent, chan, killed, pc, child, cpu, wait_lock, sh>> /\ panicked' = TRUE
    BY <1>1 DEF Exit
  <2> QED
    BY <2>1 DEF Inv, TypeOK, OneStack, Forks, ParentLives, TreeUnderInit, Waits,
                WaitWakeup, InitHasShell, Kids, ZombieKids
<1>2. CASE p # InitProc
  <2>1. /\ wait_lock = None /\ state[p] = "RUNNING" /\ pc[p] = "user"
        /\ UNCHANGED <<chan, killed, pc, child, cpu, wait_lock, sh, panicked>>
        /\ \A q \in Asleep(ExitWakes(p)), c \in CPU : cpu[c] = q => state[q] = "RUNNING"
        /\ \A q \in Proc : state'[q] = IF q = p THEN "ZOMBIE"
                                    ELSE IF q \in Asleep(ExitWakes(p)) THEN "RUNNABLE"
                                    ELSE state[q]
        /\ \A q \in Proc : parent'[q] = IF parent[q] = p THEN InitProc ELSE parent[q]
    BY <1>2 DEF Exit, Wakeup, Reparent
  <2>2. /\ state' \in [Proc -> States]
        /\ parent' \in [Proc -> SlotOrNone]
    <3>1. Wakeup(ExitWakes(p)) \in [Proc -> States] /\ Reparent(p) \in [Proc -> SlotOrNone]
      BY ProcAssumption DEF Inv, TypeOK, Wakeup, Reparent, States, SlotOrNone
    <3> QED
      BY <1>2, <3>1 DEF Exit, States
  <2>3. \A q \in Proc : q \in Asleep(ExitWakes(p)) <=>
            /\ state[q] = "SLEEPING"
            /\ chan[q] = parent[p] \/ (chan[q] = InitProc /\ Kids(p) # {})
    BY DEF Asleep, ExitWakes
  <2>4. TypeOK'
    BY <2>1, <2>2 DEF Inv, TypeOK
  <2>5. OneStack'
    BY <1>2, <2>1, <2>2, <2>3, ProcAssumption DEF Inv, TypeOK, SlotOrNone, OneStack
  <2>6. Forks'
    BY <1>2, <2>1, <2>2, <2>3, ProcAssumption DEF Inv, TypeOK, SlotOrNone, OneStack, Forks,
         ParentLives
  <2>7. ParentLives'
    BY <1>2, <2>1, <2>2, <2>3, ProcAssumption DEF Inv, TypeOK, SlotOrNone, Forks,
         ParentLives, Waits
  <2>8. TreeUnderInit'
    BY <1>2, <2>1, <2>2, <2>3, ProcAssumption DEF Inv, TypeOK, SlotOrNone, Forks,
         ParentLives, TreeUnderInit
  <2>9. Waits'
    BY <1>2, <2>1, <2>2, <2>3, ProcAssumption DEF Inv, TypeOK, SlotOrNone, Forks,
         ParentLives, Waits, Kids, ZombieKids
  <2>10. WaitWakeup'
    BY <1>2, <2>1, <2>2, <2>3, ProcAssumption DEF Inv, TypeOK, SlotOrNone, Forks,
         ParentLives, Waits, WaitWakeup, Kids, ZombieKids
  <2>11. InitHasShell'
    BY <1>2, <2>1, <2>2, <2>3, ProcAssumption DEF Inv, TypeOK, SlotOrNone, Forks,
         ParentLives, InitHasShell, Kids, ZombieKids
  <2> QED
    BY <2>4, <2>5, <2>6, <2>7, <2>8, <2>9, <2>10, <2>11 DEF Inv
<1> QED
  BY <1>1, <1>2

\* Entering wait() changes only where the caller is.
LEMMA WaitCallKeeps ==
    ASSUME Inv, NEW p \in Proc, WaitCall(p)
    PROVE  Inv'
<1>1. TypeOK'
  BY ProcAssumption DEF Inv, WaitCall, TypeOK, SlotOrNone, PC, States
<1>2. OneStack'
  BY ProcAssumption DEF Inv, WaitCall, TypeOK, SlotOrNone, OneStack
<1>3. Forks'
  BY ProcAssumption DEF Inv, WaitCall, TypeOK, SlotOrNone, OneStack, Forks, ParentLives
<1>4. ParentLives'
  BY ProcAssumption DEF Inv, WaitCall, TypeOK, SlotOrNone, Forks, ParentLives, Waits
<1>5. TreeUnderInit'
  BY ProcAssumption DEF Inv, WaitCall, TypeOK, SlotOrNone, Forks, ParentLives, TreeUnderInit
<1>6. Waits'
  BY ProcAssumption DEF Inv, WaitCall, TypeOK, SlotOrNone, Forks, ParentLives, Waits, Kids,
       ZombieKids
<1>7. WaitWakeup'
  BY ProcAssumption DEF Inv, WaitCall, TypeOK, SlotOrNone, Forks, ParentLives, Waits,
       WaitWakeup, Kids, ZombieKids
<1>8. InitHasShell'
  BY ProcAssumption DEF Inv, WaitCall, TypeOK, SlotOrNone, Forks, ParentLives, InitHasShell,
       Kids, ZombieKids
<1> QED
  BY <1>1, <1>2, <1>3, <1>4, <1>5, <1>6, <1>7, <1>8 DEF Inv

\* wait()'s freeproc() keeps the invariant: the zombie's lock is free, so its CPU has
\* left its stack, and a zombie has no children.
LEMMA WaitReapKeeps ==
    ASSUME Inv, NEW p \in Proc, WaitReap(p)
    PROVE  Inv'
<1>0. PICK z \in ZombieKids(p) :
        /\ Lockable(z) /\ Freeproc(z)
        /\ sh' = IF p = InitProc /\ z = sh THEN None ELSE sh
  BY DEF WaitReap
<1>a. /\ z \in Proc /\ parent[z] = p /\ state[z] = "ZOMBIE" /\ pc[z] = "user" /\ z # p
      /\ state[p] = "RUNNING" /\ pc[p] = "wait" /\ wait_lock = None
      /\ pc' = [pc EXCEPT ![p] = "user"]
      /\ UNCHANGED <<child, cpu, wait_lock, panicked>>
  BY <1>0 DEF Inv, WaitReap, InWait, ZombieKids, Kids, Forks
<1>1. TypeOK'
  BY <1>0, <1>a, ProcAssumption DEF Inv, Freeproc, TypeOK, SlotOrNone, PC, States
<1>2. OneStack'
  BY <1>0, <1>a, ProcAssumption DEF Inv, Freeproc, TypeOK, SlotOrNone, OneStack
<1>3. Forks'
  BY <1>0, <1>a, ProcAssumption DEF Inv, Freeproc, TypeOK, SlotOrNone, OneStack, Forks,
       ParentLives
<1>4. ParentLives'
  BY <1>0, <1>a, ProcAssumption DEF Inv, Freeproc, TypeOK, SlotOrNone, Forks, ParentLives, Waits
<1>5. TreeUnderInit'
  BY <1>0, <1>a, ProcAssumption DEF Inv, Freeproc, TypeOK, SlotOrNone, Forks, ParentLives,
       TreeUnderInit
<1>6. Waits'
  BY <1>0, <1>a, ProcAssumption DEF Inv, Freeproc, TypeOK, SlotOrNone, Forks, ParentLives,
       Waits, Kids, ZombieKids
<1>7. WaitWakeup'
  BY <1>0, <1>a, ProcAssumption DEF Inv, Freeproc, TypeOK, SlotOrNone, Forks, ParentLives,
       Waits, WaitWakeup, Kids, ZombieKids
<1>8. InitHasShell'
  BY <1>0, <1>a, ProcAssumption DEF Inv, Freeproc, TypeOK, SlotOrNone, Forks, ParentLives,
       InitHasShell, Kids, ZombieKids
<1> QED
  BY <1>1, <1>2, <1>3, <1>4, <1>5, <1>6, <1>7, <1>8 DEF Inv

\* A wait() that cannot copy the status out changes only where the caller is.
LEMMA WaitFaultKeeps ==
    ASSUME Inv, NEW p \in Proc, WaitFault(p)
    PROVE  Inv'
<1>1. TypeOK'
  BY ProcAssumption DEF Inv, WaitFault, InWait, TypeOK, SlotOrNone, PC, States
<1>2. OneStack'
  BY ProcAssumption DEF Inv, WaitFault, InWait, TypeOK, SlotOrNone, OneStack
<1>3. Forks'
  BY ProcAssumption DEF Inv, WaitFault, InWait, TypeOK, SlotOrNone, OneStack, Forks, ParentLives
<1>4. ParentLives'
  BY ProcAssumption DEF Inv, WaitFault, InWait, TypeOK, SlotOrNone, Forks, ParentLives, Waits
<1>5. TreeUnderInit'
  BY ProcAssumption DEF Inv, WaitFault, InWait, TypeOK, SlotOrNone, Forks, ParentLives,
       TreeUnderInit
<1>6. Waits'
  BY ProcAssumption DEF Inv, WaitFault, InWait, TypeOK, SlotOrNone, Forks, ParentLives,
       Waits, Kids, ZombieKids
<1>7. WaitWakeup'
  BY ProcAssumption DEF Inv, WaitFault, InWait, TypeOK, SlotOrNone, Forks, ParentLives,
       Waits, WaitWakeup, Kids, ZombieKids
<1>8. InitHasShell'
  BY ProcAssumption DEF Inv, WaitFault, InWait, TypeOK, SlotOrNone, Forks, ParentLives,
       InitHasShell, Kids, ZombieKids
<1> QED
  BY <1>1, <1>2, <1>3, <1>4, <1>5, <1>6, <1>7, <1>8 DEF Inv

\* wait()'s decision to sleep is made with wait_lock held, so what the scan found
\* stays true.
LEMMA WaitDecideKeeps ==
    ASSUME Inv, NEW p \in Proc, WaitDecide(p)
    PROVE  Inv'
<1>1. TypeOK'
  <2>1. panicked' \in BOOLEAN /\ wait_lock' \in SlotOrNone
    BY DEF Inv, WaitDecide, TypeOK, SlotOrNone
  <2>2. pc' \in [Proc -> PC] /\ \A q \in Proc : child'[q] # None <=> pc'[q] \in {"forked", "linked"}
    BY DEF Inv, WaitDecide, InWait, TypeOK, PC
  <2> QED
    BY <2>1, <2>2 DEF Inv, WaitDecide, TypeOK
<1>2. OneStack'
  BY ProcAssumption DEF Inv, WaitDecide, InWait, TypeOK, SlotOrNone, OneStack
<1>3. Forks'
  BY ProcAssumption DEF Inv, WaitDecide, InWait, TypeOK, SlotOrNone, OneStack, Forks,
       ParentLives
<1>4. ParentLives'
  BY ProcAssumption DEF Inv, WaitDecide, InWait, TypeOK, SlotOrNone, Forks, ParentLives, Waits
<1>5. TreeUnderInit'
  BY ProcAssumption DEF Inv, WaitDecide, InWait, TypeOK, SlotOrNone, Forks, ParentLives,
       TreeUnderInit
<1>6. Waits'
  BY ProcAssumption DEF Inv, WaitDecide, InWait, TypeOK, SlotOrNone, Forks, ParentLives,
       Waits, Kids, ZombieKids
<1>7. WaitWakeup'
  BY ProcAssumption DEF Inv, WaitDecide, InWait, TypeOK, SlotOrNone, Forks, ParentLives,
       Waits, WaitWakeup, Kids, ZombieKids
<1>8. InitHasShell'
  BY ProcAssumption DEF Inv, WaitDecide, InWait, TypeOK, SlotOrNone, Forks, ParentLives,
       InitHasShell, Kids, ZombieKids
<1> QED
  BY <1>1, <1>2, <1>3, <1>4, <1>5, <1>6, <1>7, <1>8 DEF Inv

\* sleep() in wait() turns what the scan found into what WaitWakeup states.
LEMMA WaitSleepKeeps ==
    ASSUME Inv, NEW p \in Proc, WaitSleep(p)
    PROVE  Inv'
<1>1. TypeOK'
  BY ProcAssumption DEF Inv, WaitSleep, Sleep, TypeOK, SlotOrNone, PC, States
<1>2. OneStack'
  BY ProcAssumption DEF Inv, WaitSleep, Sleep, TypeOK, SlotOrNone, OneStack
<1>3. Forks'
  BY ProcAssumption DEF Inv, WaitSleep, Sleep, TypeOK, SlotOrNone, OneStack, Forks, ParentLives
<1>4. ParentLives'
  BY ProcAssumption DEF Inv, WaitSleep, Sleep, TypeOK, SlotOrNone, Forks, ParentLives, Waits
<1>5. TreeUnderInit'
  BY ProcAssumption DEF Inv, WaitSleep, Sleep, TypeOK, SlotOrNone, Forks, ParentLives,
       TreeUnderInit
<1>6. Waits'
  BY ProcAssumption DEF Inv, WaitSleep, Sleep, TypeOK, SlotOrNone, Forks, ParentLives,
       Waits, Kids, ZombieKids
<1>7. WaitWakeup'
  BY ProcAssumption DEF Inv, WaitSleep, Sleep, TypeOK, SlotOrNone, Forks, ParentLives,
       Waits, WaitWakeup, Kids, ZombieKids
<1>8. InitHasShell'
  BY ProcAssumption DEF Inv, WaitSleep, Sleep, TypeOK, SlotOrNone, Forks, ParentLives,
       InitHasShell, Kids, ZombieKids
<1> QED
  BY <1>1, <1>2, <1>3, <1>4, <1>5, <1>6, <1>7, <1>8 DEF Inv

\* Another sleep() uses a channel that is no process.
LEMMA IoSleepKeeps ==
    ASSUME Inv, NEW p \in Proc, IoSleep(p)
    PROVE  Inv'
<1>1. TypeOK'
  BY ProcAssumption DEF Inv, IoSleep, Sleep, TypeOK, SlotOrNone, PC, States
<1>2. OneStack'
  BY ProcAssumption DEF Inv, IoSleep, Sleep, TypeOK, SlotOrNone, OneStack
<1>3. Forks'
  BY ProcAssumption DEF Inv, IoSleep, Sleep, TypeOK, SlotOrNone, OneStack, Forks, ParentLives
<1>4. ParentLives'
  BY ProcAssumption DEF Inv, IoSleep, Sleep, TypeOK, SlotOrNone, Forks, ParentLives, Waits
<1>5. TreeUnderInit'
  BY ProcAssumption DEF Inv, IoSleep, Sleep, TypeOK, SlotOrNone, Forks, ParentLives,
       TreeUnderInit
<1>6. Waits'
  BY ProcAssumption DEF Inv, IoSleep, Sleep, TypeOK, SlotOrNone, Forks, ParentLives, Waits,
       Kids, ZombieKids
<1>7. WaitWakeup'
  BY ProcAssumption DEF Inv, IoSleep, Sleep, TypeOK, SlotOrNone, Forks, ParentLives, Waits,
       WaitWakeup, Kids, ZombieKids
<1>8. InitHasShell'
  BY ProcAssumption DEF Inv, IoSleep, Sleep, TypeOK, SlotOrNone, Forks, ParentLives,
       InitHasShell, Kids, ZombieKids
<1> QED
  BY <1>1, <1>2, <1>3, <1>4, <1>5, <1>6, <1>7, <1>8 DEF Inv

\* The end of another sleep() changes only where the caller is.
LEMMA IoDoneKeeps ==
    ASSUME Inv, NEW p \in Proc, IoDone(p)
    PROVE  Inv'
<1>1. TypeOK'
  BY ProcAssumption DEF Inv, IoDone, TypeOK, SlotOrNone, PC, States
<1>2. OneStack'
  BY ProcAssumption DEF Inv, IoDone, TypeOK, SlotOrNone, OneStack
<1>3. Forks'
  BY ProcAssumption DEF Inv, IoDone, TypeOK, SlotOrNone, OneStack, Forks, ParentLives
<1>4. ParentLives'
  BY ProcAssumption DEF Inv, IoDone, TypeOK, SlotOrNone, Forks, ParentLives, Waits
<1>5. TreeUnderInit'
  BY ProcAssumption DEF Inv, IoDone, TypeOK, SlotOrNone, Forks, ParentLives, TreeUnderInit
<1>6. Waits'
  BY ProcAssumption DEF Inv, IoDone, TypeOK, SlotOrNone, Forks, ParentLives, Waits, Kids,
       ZombieKids
<1>7. WaitWakeup'
  BY ProcAssumption DEF Inv, IoDone, TypeOK, SlotOrNone, Forks, ParentLives, Waits,
       WaitWakeup, Kids, ZombieKids
<1>8. InitHasShell'
  BY ProcAssumption DEF Inv, IoDone, TypeOK, SlotOrNone, Forks, ParentLives, InitHasShell,
       Kids, ZombieKids
<1> QED
  BY <1>1, <1>2, <1>3, <1>4, <1>5, <1>6, <1>7, <1>8 DEF Inv

\* wakeup() makes sleepers RUNNABLE and nothing else.
LEMMA IoWakeupKeeps ==
    ASSUME Inv, IoWakeup
    PROVE  Inv'
<1>1. TypeOK'
  BY ProcAssumption DEF Inv, IoWakeup, Asleep, Wakeup, TypeOK, SlotOrNone, PC, States
<1>2. OneStack'
  BY ProcAssumption DEF Inv, IoWakeup, Asleep, Wakeup, TypeOK, SlotOrNone, OneStack
<1>3. Forks'
  BY ProcAssumption DEF Inv, IoWakeup, Asleep, Wakeup, TypeOK, SlotOrNone, OneStack, Forks,
       ParentLives
<1>4. ParentLives'
  BY ProcAssumption DEF Inv, IoWakeup, Asleep, Wakeup, TypeOK, SlotOrNone, Forks,
       ParentLives, Waits
<1>5. TreeUnderInit'
  BY ProcAssumption DEF Inv, IoWakeup, Asleep, Wakeup, TypeOK, SlotOrNone, Forks,
       ParentLives, TreeUnderInit
<1>6. Waits'
  BY ProcAssumption DEF Inv, IoWakeup, Asleep, Wakeup, TypeOK, SlotOrNone, Forks,
       ParentLives, Waits, Kids, ZombieKids
<1>7. WaitWakeup'
  BY ProcAssumption, SMTT(30) DEF Inv, IoWakeup, Asleep, Wakeup, TypeOK, SlotOrNone, Forks,
       ParentLives, Waits, WaitWakeup, Kids, ZombieKids
<1>8. InitHasShell'
  BY ProcAssumption DEF Inv, IoWakeup, Asleep, Wakeup, TypeOK, SlotOrNone, Forks,
       ParentLives, InitHasShell, Kids, ZombieKids
<1> QED
  BY <1>1, <1>2, <1>3, <1>4, <1>5, <1>6, <1>7, <1>8 DEF Inv

\* kill() makes a sleeper RUNNABLE and nothing else that the invariant tells apart.
LEMMA KillKeeps ==
    ASSUME Inv, NEW p \in Proc, NEW q \in Proc, Kill(p, q)
    PROVE  Inv'
<1>1. TypeOK'
  BY ProcAssumption DEF Inv, Kill, TypeOK, SlotOrNone, PC, States
<1>2. OneStack'
  BY ProcAssumption DEF Inv, Kill, TypeOK, SlotOrNone, OneStack
<1>3. Forks'
  BY ProcAssumption DEF Inv, Kill, TypeOK, SlotOrNone, OneStack, Forks, ParentLives
<1>4. ParentLives'
  BY ProcAssumption DEF Inv, Kill, TypeOK, SlotOrNone, Forks, ParentLives, Waits
<1>5. TreeUnderInit'
  BY ProcAssumption DEF Inv, Kill, TypeOK, SlotOrNone, Forks, ParentLives, TreeUnderInit
<1>6. Waits'
  BY ProcAssumption DEF Inv, Kill, TypeOK, SlotOrNone, Forks, ParentLives, Waits, Kids,
       ZombieKids
<1>7. WaitWakeup'
  BY ProcAssumption DEF Inv, Kill, TypeOK, SlotOrNone, Forks, ParentLives, Waits,
       WaitWakeup, Kids, ZombieKids
<1>8. InitHasShell'
  BY ProcAssumption DEF Inv, Kill, TypeOK, SlotOrNone, Forks, ParentLives, InitHasShell,
       Kids, ZombieKids
<1> QED
  BY <1>1, <1>2, <1>3, <1>4, <1>5, <1>6, <1>7, <1>8 DEF Inv

\* yield() makes a running process RUNNABLE; its CPU stays on its stack.
LEMMA YieldKeeps ==
    ASSUME Inv, NEW p \in Proc, Yield(p)
    PROVE  Inv'
<1>1. TypeOK'
  BY ProcAssumption DEF Inv, Yield, TypeOK, SlotOrNone, PC, States
<1>2. OneStack'
  BY ProcAssumption DEF Inv, Yield, TypeOK, SlotOrNone, OneStack
<1>3. Forks'
  BY ProcAssumption DEF Inv, Yield, TypeOK, SlotOrNone, OneStack, Forks, ParentLives
<1>4. ParentLives'
  BY ProcAssumption DEF Inv, Yield, TypeOK, SlotOrNone, Forks, ParentLives, Waits
<1>5. TreeUnderInit'
  BY ProcAssumption DEF Inv, Yield, TypeOK, SlotOrNone, Forks, ParentLives, TreeUnderInit
<1>6. Waits'
  BY ProcAssumption DEF Inv, Yield, TypeOK, SlotOrNone, Forks, ParentLives, Waits, Kids,
       ZombieKids
<1>7. WaitWakeup'
  BY ProcAssumption DEF Inv, Yield, TypeOK, SlotOrNone, Forks, ParentLives, Waits,
       WaitWakeup, Kids, ZombieKids
<1>8. InitHasShell'
  BY ProcAssumption DEF Inv, Yield, TypeOK, SlotOrNone, Forks, ParentLives, InitHasShell,
       Kids, ZombieKids
<1> QED
  BY <1>1, <1>2, <1>3, <1>4, <1>5, <1>6, <1>7, <1>8 DEF Inv

\* scheduler() leaves the stack of a process that no longer runs.
LEMMA SwitchOutKeeps ==
    ASSUME Inv, NEW c \in CPU, SwitchOut(c)
    PROVE  Inv'
<1>1. TypeOK'
  BY ProcAssumption DEF Inv, SwitchOut, TypeOK, SlotOrNone, PC, States
<1>2. OneStack'
  BY ProcAssumption DEF Inv, SwitchOut, TypeOK, SlotOrNone, OneStack
<1>3. Forks'
  BY ProcAssumption DEF Inv, SwitchOut, TypeOK, SlotOrNone, OneStack, Forks, ParentLives
<1>4. ParentLives'
  BY ProcAssumption DEF Inv, SwitchOut, TypeOK, SlotOrNone, Forks, ParentLives, Waits
<1>5. TreeUnderInit'
  BY ProcAssumption DEF Inv, SwitchOut, TypeOK, SlotOrNone, Forks, ParentLives, TreeUnderInit
<1>6. Waits'
  BY ProcAssumption DEF Inv, SwitchOut, TypeOK, SlotOrNone, Forks, ParentLives, Waits, Kids,
       ZombieKids
<1>7. WaitWakeup'
  BY ProcAssumption DEF Inv, SwitchOut, TypeOK, SlotOrNone, Forks, ParentLives, Waits,
       WaitWakeup, Kids, ZombieKids
<1>8. InitHasShell'
  BY ProcAssumption DEF Inv, SwitchOut, TypeOK, SlotOrNone, Forks, ParentLives,
       InitHasShell, Kids, ZombieKids
<1> QED
  BY <1>1, <1>2, <1>3, <1>4, <1>5, <1>6, <1>7, <1>8 DEF Inv

\* scheduler() enters a stack only when p->lock is free, hence when no CPU is on it.
LEMMA ScheduleKeeps ==
    ASSUME Inv, NEW c \in CPU, NEW p \in Proc, Schedule(c, p)
    PROVE  Inv'
<1>1. TypeOK'
  BY ProcAssumption DEF Inv, Schedule, TypeOK, SlotOrNone, PC, States
<1>2. OneStack'
  BY ProcAssumption DEF Inv, Schedule, TypeOK, SlotOrNone, OneStack
<1>3. Forks'
  BY ProcAssumption DEF Inv, Schedule, TypeOK, SlotOrNone, OneStack, Forks, ParentLives
<1>4. ParentLives'
  BY ProcAssumption DEF Inv, Schedule, TypeOK, SlotOrNone, Forks, ParentLives, Waits
<1>5. TreeUnderInit'
  BY ProcAssumption DEF Inv, Schedule, TypeOK, SlotOrNone, Forks, ParentLives, TreeUnderInit
<1>6. Waits'
  BY ProcAssumption DEF Inv, Schedule, TypeOK, SlotOrNone, Forks, ParentLives, Waits, Kids,
       ZombieKids
<1>7. WaitWakeup'
  BY ProcAssumption DEF Inv, Schedule, TypeOK, SlotOrNone, Forks, ParentLives, Waits,
       WaitWakeup, Kids, ZombieKids
<1>8. InitHasShell'
  BY ProcAssumption DEF Inv, Schedule, TypeOK, SlotOrNone, Forks, ParentLives, InitHasShell,
       Kids, ZombieKids
<1> QED
  BY <1>1, <1>2, <1>3, <1>4, <1>5, <1>6, <1>7, <1>8 DEF Inv

\* The boot state satisfies the invariant: init alone, on no CPU yet.
LEMMA InitInv == Init => Inv
<1> SUFFICES ASSUME Init PROVE Inv
  OBVIOUS
<1>1. TypeOK
  BY ProcAssumption DEF Init, TypeOK, SlotOrNone, States, PC
<1>2. OneStack /\ Forks /\ ParentLives /\ InitHasShell
  BY ProcAssumption DEF Init, OneStack, Forks, ParentLives, InitHasShell
<1>3. TreeUnderInit
  BY ProcAssumption DEF Init, TreeUnderInit
<1>4. Waits /\ WaitWakeup
  BY ProcAssumption DEF Init, Waits, WaitWakeup
<1> QED
  BY <1>1, <1>2, <1>3, <1>4 DEF Inv

\* A step that changes nothing, as in a panicked kernel.
LEMMA StutterKeeps == Inv /\ UNCHANGED vars => Inv'
  BY SMTT(30) DEF Inv, vars, TypeOK, OneStack, Forks, ParentLives, TreeUnderInit, Waits,
         WaitWakeup, InitHasShell, Kids, ZombieKids

\* Every step of a process, a device or a scheduler keeps the invariant.
LEMMA NextKeeps == Inv /\ [Next]_vars => Inv'
<1> SUFFICES ASSUME Inv, [Next]_vars PROVE Inv'
  OBVIOUS
<1>1. ASSUME NEW p \in Proc, ForkStep(p) PROVE Inv'
  BY <1>1, ForkKeeps, ForkFailsKeeps, SetParentKeeps, StartChildKeeps DEF ForkStep
<1>2. ASSUME NEW p \in Proc, WaitStep(p) PROVE Inv'
  BY <1>2, WaitCallKeeps, WaitReapKeeps, WaitFaultKeeps, WaitDecideKeeps, WaitSleepKeeps
     DEF WaitStep
<1>3. ASSUME NEW p \in Proc, SchedStep(p) PROVE Inv'
  BY <1>3, YieldKeeps, ScheduleKeeps DEF SchedStep
<1>4. ASSUME NEW p \in Proc, Exit(p) \/ IoSleep(p) \/ IoDone(p) \/ \E q \in Proc : Kill(p, q)
      PROVE  Inv'
  BY <1>4, ExitKeeps, IoSleepKeeps, IoDoneKeeps, KillKeeps
<1>5. ASSUME IoWakeup \/ \E c \in CPU : SwitchOut(c) PROVE Inv'
  BY <1>5, IoWakeupKeeps, SwitchOutKeeps
<1>6. CASE Halted \/ UNCHANGED vars
  BY <1>6, StutterKeeps DEF Halted
<1> QED
  BY <1>1, <1>2, <1>3, <1>4, <1>5, <1>6 DEF Next

\* The inductive invariant holds in every reachable state.
LEMMA Invariance == Spec => []Inv
  BY InitInv, NextKeeps, PTL DEF Spec

\* The fields of the process table always have their types.
THEOREM ProcTypes == Spec => []TypeOK
<1>1. Inv => TypeOK
  BY DEF Inv
<1> QED
  BY <1>1, Invariance, PTL

\* For any number of CPUs, no kernel stack is used by two of them or freed under
\* one: the p->lock that sched() carries across swtch() is enough.
THEOREM StacksAreSafe == Spec => []OneStack
<1>1. Inv => OneStack
  BY DEF Inv
<1> QED
  BY <1>1, Invariance, PTL

\* Every process fork() has linked has a live parent, and the parents form a
\* tree under init, however exit() and the reuse of slots interleave.
THEOREM ParentsFormTree == Spec => [](ParentLives /\ TreeUnderInit)
<1>1. Inv => ParentLives /\ TreeUnderInit
  BY DEF Inv
<1> QED
  BY <1>1, Invariance, PTL

\* wait_lock suffices for wait(): no parent sleeps on with a zombie child.
THEOREM WaitMissesNoExit == Spec => []WaitWakeup
<1>1. Inv => WaitWakeup
  BY DEF Inv
<1> QED
  BY <1>1, Invariance, PTL

\* init's wait() always has the shell to wait for.
THEOREM InitWaitsForShell == Spec => []InitHasShell
<1>1. Inv => InitHasShell
  BY DEF Inv
<1> QED
  BY <1>1, Invariance, PTL
=============================================================================
