------------------------------ MODULE Ergasia1 ------------------------------
(***************************************************************************)
(* Project 1, ergasia1.c: a parent starts and terminates children by the   *)
(* steps of a configuration file and sends, at each step, a line of text   *)
(* to one of them through shared memory.  Each child sleeps on a semaphore *)
(* of its own, the parent on par_sem.                                      *)
(*                                                                         *)
(* The configuration is read before anything starts; here its next command *)
(* is chosen when the parent comes to the step.  A child's pid is the      *)
(* number of its fork().                                                   *)
(***************************************************************************)
EXTENDS Integers, Sequences, FiniteSets, FiniteSetsExt

CONSTANTS
    Name,          \* the numbers of C0, C1, ... in the configuration
    M,             \* num_of_max_active_processes
    MAX_CHILDREN,  \* entries of child_pid_name and of active[], 100 in the code
    Line,          \* lines of the text file
    MaxStep        \* bound: the last step of a configuration

ASSUME ErgasiaAssumption ==
    /\ MAX_CHILDREN \in Nat \ {0} /\ M \in Nat \ {0} /\ MaxStep \in Nat
    /\ Name \subseteq 0..(MAX_CHILDREN - 1)

VARIABLES
    step,     \* i of the main loop
    par,      \* where the parent is
    table,    \* child_pid_name[0..child_count-1]
    running,  \* no_of_currently_running_processes
    active,   \* names that S and T commands so far leave active
    to,       \* terminate_pid or chosen_pid: the child the parent last woke
    k,        \* loop variable of the two loops at the end
    doubled,  \* (history) some name was started while it was active
    slots,    \* shared memory: the pid that owns each semaphore
    command,  \* shared memory: ptr_command
    text,     \* shared memory: the line
    sem,      \* semaphores[]
    par_sem,
    child,    \* where each child is
    index,    \* my_index of each child
    printed   \* the line each child printed last

shared == <<slots, command, text>>
parent == <<step, par, table, running, active, to, k, doubled>>
vars == <<step, par, table, running, active, to, k, doubled, slots, command, text,
          sem, par_sem, child, index, printed>>

Pid == 1..(MaxStep + 1)
Slot == 0..(M - 1)
NoLine == "none"

\* "command": at the top of a step; "message": after its command; "waitS",
\* "waitT", "waitM": in sem_wait(par_sem) after a start, a termination, a line;
\* "post", "reap": the two loops at the end; "done": exit(0); "error": return -1;
\* "undefined": semaphores[-1] was posted, or child_pid_name written past its
\* end. These are the parent's positions.
\* A child's: "unborn", "dead"; "born": forked; "posting": about to post par_sem
\* and wait; "idle": in sem_wait(child_sem); "woken": past it; "leaving": about
\* to post and exit.

Init ==
    /\ step = 0 /\ par = "command"
    /\ table = <<>> /\ running = 0 /\ active = {} /\ to = 0
    /\ k = 0 /\ doubled = FALSE
    /\ slots = [s \in Slot |-> 0] /\ command = 0 /\ text = NoLine
    /\ sem = [s \in Slot |-> 0] /\ par_sem = 0
    /\ child = [c \in Pid |-> "unborn"]
    /\ index = [c \in Pid |-> 0]
    /\ printed = [c \in Pid |-> NoLine]

SetChild(c, l) == child' = [child EXCEPT ![c] = l]
Post(s) == sem' = [sem EXCEPT ![s] = @ + 1]
Quiet == UNCHANGED <<sem, par_sem, child, index, printed>>
Entries(nm) == {j \in DOMAIN table : table[j].name = nm /\ table[j].pid # 0}

-----------------------------------------------------------------------------
(* The parent: the command of a step *)

AtCommand == par = "command" /\ step <= MaxStep

\* The step has no command.
NoCommand ==
    /\ AtCommand
    /\ par' = "message"
    /\ UNCHANGED <<step, table, running, active, to, k, doubled, shared>> /\ Quiet

\* S: one child too many ends the program at once, and so does a failed fork().
StartError ==
    /\ AtCommand
    /\ par' = "error"
    /\ running' = running + 1
    /\ UNCHANGED <<step, table, active, to, k, doubled, shared>> /\ Quiet
TooManyError == running + 1 > M /\ StartError
ForkFails == running + 1 <= M /\ StartError

AfterForkNoWait == "message"
AfterFork == "waitS"

\* S: nothing keeps the configuration from starting a name twice, or more
\* children, one after the other, than child_pid_name has entries.
Start(nm) ==
    /\ AtCommand
    /\ running + 1 <= M
    /\ LET c == Len(table) + 1 IN
        /\ SetChild(c, "born")
        /\ IF c <= MAX_CHILDREN
           THEN table' = Append(table, [pid |-> c, name |-> nm]) /\ par' = AfterFork
           ELSE UNCHANGED table /\ par' = "undefined"
    /\ running' = running + 1
    /\ active' = active \cup {nm}
    /\ doubled' = (doubled \/ nm \in active)
    /\ UNCHANGED <<step, to, k, shared, sem, par_sem, index, printed>>

\* T of a child that is not running: the rest of the step is skipped.
TerminateNone(nm) ==
    /\ AtCommand
    /\ Entries(nm) = {}
    /\ active' = active \ {nm}
    /\ step' = step + 1
    /\ UNCHANGED <<par, table, running, to, k, doubled, shared>> /\ Quiet

Forget(E) == [j \in DOMAIN table |-> IF j \in E THEN [pid |-> 0, name |-> 0] ELSE table[j]]
OneLess == running - 1

ReleaseNot(s) == slots
Release(s) == [slots EXCEPT ![s] = 0]

\* T: the pid goes to shared memory, its slot is cleared, its semaphore posted.
Terminate(nm) ==
    /\ AtCommand
    /\ Entries(nm) # {}
    /\ LET c == table[Max(Entries(nm))].pid IN
        /\ command' = c
        /\ to' = c
        /\ \E s \in Slot : /\ slots[s] = c
                           /\ slots' = Release(s)
                           /\ Post(s)
    /\ table' = Forget(Entries(nm))
    /\ active' = active \ {nm}
    /\ running' = OneLess
    /\ par' = "waitT"
    /\ UNCHANGED <<step, k, doubled, text, par_sem, child, index, printed>>

-----------------------------------------------------------------------------
(* The parent: the line of a step *)

\* The last entry with the name. The pid is not looked at: an entry that T has
\* cleared has the name 0.
Found(nm) == table[Max({j \in DOMAIN table : table[j].name = nm})].pid

\* The first slot with the pid; without one chosen_index is still the name.
SlotOf(c, nm, s) ==
    IF \E r \in Slot : slots[r] = c
    THEN slots[s] = c /\ \A r \in Slot : slots[r] = c => s <= r
    ELSE s = nm

\* choose_random_active_child(), then the table from name to pid and the slot
\* that holds the pid.
Message(nm, l) ==
    /\ par = "message" /\ running > 0
    /\ nm \in active
    /\ \E s \in Slot : SlotOf(Found(nm), nm, s) /\ to' = slots[s] /\ Post(s)
    /\ text' = l
    /\ par' = "waitM"
    /\ UNCHANGED <<step, table, running, active, k, doubled, slots, command, par_sem,
                   child, index, printed>>

\* choose_random_active_child() returns -1: no name has that number, pid_chosen
\* is not set and no slot is found.
MessageUndefined ==
    /\ par = "message" /\ running > 0
    /\ active = {}
    /\ par' = "undefined"
    /\ UNCHANGED <<step, table, running, active, to, k, doubled, shared>> /\ Quiet

NoMessage ==
    /\ par = "message" /\ running <= 0
    /\ par' = "command" /\ step' = step + 1
    /\ UNCHANGED <<table, running, active, to, k, doubled, shared>> /\ Quiet

\* sem_wait(par_sem) returns.
ParentWakes ==
    /\ par \in {"waitS", "waitT", "waitM"} /\ par_sem > 0
    /\ par_sem' = par_sem - 1
    /\ par' = IF par = "waitM" THEN "command" ELSE "message"
    /\ step' = IF par = "waitM" THEN step + 1 ELSE step
    /\ UNCHANGED <<table, running, active, to, k, doubled, shared, sem, child, index, printed>>

-----------------------------------------------------------------------------
(* The parent: the end *)

\* EXIT or the end of the configuration.
Shutdown ==
    /\ par = "command"
    /\ command' = -1
    /\ par' = "post" /\ k' = 0
    /\ UNCHANGED <<step, table, running, active, to, doubled, slots, text>> /\ Quiet

LastSlotShort == M - 2
LastSlot == M - 1

PostAll ==
    /\ par = "post"
    /\ Post(k)
    /\ par' = IF k >= LastSlot THEN "reap" ELSE par
    /\ k' = IF k >= LastSlot THEN 1 ELSE k + 1
    /\ UNCHANGED <<step, table, running, active, to, doubled, shared, par_sem, child, index, printed>>

Reap ==
    /\ par = "reap"
    /\ IF k > Len(table)
       THEN par' = "done" /\ UNCHANGED k
       ELSE /\ table[k].pid # 0 => child[table[k].pid] = "dead"
            /\ k' = k + 1
            /\ UNCHANGED par
    /\ UNCHANGED <<step, table, running, active, to, doubled, shared>> /\ Quiet

-----------------------------------------------------------------------------
(* A child *)

\* Take the first free slot of the shared table.
Register(c) ==
    /\ child[c] = "born"
    /\ \E s \in Slot :
        /\ slots[s] = 0 /\ \A r \in Slot : slots[r] = 0 => s <= r
        /\ slots' = [slots EXCEPT ![s] = c]
        /\ index' = [index EXCEPT ![c] = s]
    /\ SetChild(c, "posting")
    /\ UNCHANGED <<parent, command, text, sem, par_sem, printed>>

PostParent(c) ==
    /\ child[c] \in {"posting", "leaving"}
    /\ par_sem' = par_sem + 1
    /\ SetChild(c, IF child[c] = "posting" THEN "idle" ELSE "dead")
    /\ UNCHANGED <<parent, shared, sem, index, printed>>

ChildWakes(c) ==
    /\ child[c] = "idle" /\ sem[index[c]] > 0
    /\ sem' = [sem EXCEPT ![index[c]] = @ - 1]
    /\ SetChild(c, "woken")
    /\ UNCHANGED <<parent, shared, par_sem, index, printed>>

ForMeAll(c) == command = -1
ForMe(c) == command = c \/ command = -1

\* Print the line, or reset a command for this child alone and leave.
Obey(c) ==
    /\ child[c] = "woken"
    /\ IF ForMe(c)
       THEN /\ command' = IF command = -1 THEN -1 ELSE 0
            /\ SetChild(c, "leaving")
            /\ UNCHANGED printed
       ELSE /\ printed' = [printed EXCEPT ![c] = text]
            /\ SetChild(c, "posting")
            /\ UNCHANGED command
    /\ UNCHANGED <<parent, slots, text, sem, par_sem, index>>

-----------------------------------------------------------------------------
CommandStep ==
    \/ NoCommand \/ TooManyError \/ ForkFails \/ Shutdown
    \/ \E nm \in Name : Start(nm) \/ TerminateNone(nm) \/ Terminate(nm)
ParentStep ==
    \/ CommandStep
    \/ \E nm \in Name, l \in Line : Message(nm, l)
    \/ MessageUndefined \/ NoMessage \/ ParentWakes \/ PostAll \/ Reap
ChildStep(c) == Register(c) \/ PostParent(c) \/ ChildWakes(c) \/ Obey(c)

Next == ParentStep \/ \E c \in Pid : ChildStep(c)

\* The operating system schedules every process that can run.
Spec == Init /\ [][Next]_vars /\ WF_vars(ParentStep) /\ \A c \in Pid : WF_vars(ChildStep(c))

-----------------------------------------------------------------------------
(* Properties *)

Live == {c \in Pid : child[c] \notin {"unborn", "dead"}}
Busy == {c \in Pid : child[c] \in {"born", "posting", "woken", "leaving"}}
Posted == {s \in Slot : sem[s] > 0}
Ended == par \in {"post", "reap", "done", "undefined"}
(* The semaphore posted for a line is that of a free slot: no child has it. *)
Stray == par = "waitM" /\ to = 0

\* Until the end one process at a time runs: the parent waits for par_sem after
\* each post, so one of the parent, a busy child and a posted semaphore has the
\* turn.  It is what keeps the unlocked shared memory free of races.
Baton ==
    ~Ended => /\ \A s \in Slot : sem[s] <= 1
              /\ (IF par \in {"command", "message", "error"} THEN 1 ELSE 0)
                 + Cardinality(Busy) + par_sem + Cardinality(Posted) = 1

\* When the parent has the turn, every live child waits on the semaphore of the
\* one slot that holds its pid, every other slot is free, and the count checked
\* against the maximum is the number of live children.  Unless a name is started
\* twice, it is also the number choose_random_active_child() works out from the
\* commands, so that it finds a child whenever it is called.  The line goes to a
\* live child of an active name, but when C0 is active, whose entry may be taken for
\* a cleared one.
SlotsMatch ==
    /\ par \in {"command", "message"} =>
        /\ \A c \in Live : child[c] = "idle" /\ {s \in Slot : slots[s] = c} = {index[c]}
        /\ {slots[s] : s \in Slot} \ {0} = Live
        /\ running = Cardinality(Live)
    /\ ~doubled => /\ par # "error" => running = Cardinality(active)
                   /\ par = "undefined" => Len(table) = MAX_CHILDREN
    /\ par = "waitM" /\ 0 \notin active => to \in Live /\ table[to].name \in active

\* When the parent is released after a line, the child it chose printed that line
\* and waits again; after a termination, the named child is gone and its command
\* has been taken back, so that no later line can be mistaken for it.
Answered ==
    par_sem > 0 =>
        /\ par = "waitM" => printed[to] = text /\ child[to] = "idle"
        /\ par = "waitT" => child[to] = "dead" /\ command = 0

\* Unless the parent gives up with an error, it ends and every child exits; but it
\* waits forever when the line it sent was for C0 and went to a cleared entry.
AllExit ==
    <>(par \in {"error", "undefined"} \/ Stray \/ (par = "done" /\ Live = {}))
=============================================================================
