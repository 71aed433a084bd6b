------------------------------- MODULE Memory -------------------------------
(***************************************************************************)
(* Physical pages and user address spaces: kalloc() and kfree()            *)
(* (kernel/kalloc.c), page tables (kernel/vm.c), and the calls that build  *)
(* and tear them down: fork() and freeproc() (kernel/proc.c), sbrk()       *)
(* (growproc()), exec() (kernel/exec.c, sys_exec() in kernel/sysfile.c)    *)
(* and pipes, which take pages too.                                        *)
(*                                                                         *)
(* Every kalloc() is a step of its own, so calls of several processes run  *)
(* out of memory at any of them; what a call gives back in one loop is one *)
(* step.  Physical pages are all alike and are counted where they are.     *)
(* Virtual pages are numbered; sizes count half pages, so that they need   *)
(* not be aligned.                                                         *)
(***************************************************************************)
EXTENDS Integers, Sequences, FiniteSets, FiniteSetsExt

CONSTANTS
  NPAGE,       \* physical pages that kinit() frees
  FANOUT,      \* entries of a page-table page, 512
  NPROC,
  Sbrk,        \* arguments of sbrk(), in half pages
  Program,     \* executables: sequences of segments [vaddr, memsz, filesz]
  MAXARG, USERSTACK,
  MaxSize      \* bound on sz, in half pages

Slot == 1..NPROC
initproc == 1
TRAMPOLINE == FANOUT * FANOUT * FANOUT - 1
TRAPFRAME == TRAMPOLINE - 1

\* No process can fill its address space: memory is used up before.
ASSUME MemoryAssumption ==
  /\ NPAGE \in Nat /\ FANOUT \in Nat \ {0, 1} /\ NPAGE <= TRAPFRAME
  /\ NPROC \in Nat \ {0} /\ Sbrk \subseteq Int

VARIABLES
  free,        \* length of kmem.freelist
  state,       \* of each proc: UNUSED, USED, LIVE or ZOMBIE
  trapframe,   \* 1 if it has that page
  pagetable,   \* a table (see below)
  sz,
  call,        \* the system call it is in
  pipe,        \* 1 if there is a pipe
  panicked

vars == <<free, state, trapframe, pagetable, sz, call, pipe, panicked>>

\* A page table: 1 if it has its root page, the entries of the upper two levels
\* that point to a page of the next, the virtual pages mapped, and the one of
\* them without PTE_U.
NoTable == [root |-> 0, mid |-> {}, low |-> {}, leaf |-> {}, guard |-> {}]
\* at: where the call is; tbl: the table it builds; va: the page its loop has
\* reached; end: the size uvmalloc() is to reach; mem: 1 if it holds a page not
\* mapped yet; size: exec()'s sz; segs: segments to load; args: pages of argv;
\* np: the child.
NoCall == [name |-> "none", at |-> "none", tbl |-> NoTable, va |-> 0, end |-> 0, mem |-> 0,
           size |-> 0, segs |-> <<>>, args |-> 0, np |-> 0]

PGROUNDUP(n) == (n + 1) \div 2      \* in pages

-----------------------------------------------------------------------------
(* The trampoline and the trapframe are mapped in every table, and belong  *)
(* to none.                                                                *)
Special == {TRAMPOLINE, TRAPFRAME}
Nodes(t) == t.root + Cardinality(t.mid) + Cardinality(t.low)

(* walk(): the node that is missing on the way to va, if any.              *)
MidOf(va) == va \div (FANOUT * FANOUT)
LowOf(va) == va \div FANOUT
Lacks(t, va) == MidOf(va) \notin t.mid \/ LowOf(va) \notin t.low
AddNode(t, va) ==
  IF MidOf(va) \notin t.mid THEN [t EXCEPT !.mid = @ \cup {MidOf(va)}]
  ELSE [t EXCEPT !.low = @ \cup {LowOf(va)}]

(* Whether copyin(), copyinstr() and copyout() can use the page.           *)
UserPage(t, va) == va \in t.leaf \ (Special \cup t.guard)

(* uvmunmap() of the pages K, and whether it panics.                       *)
Unmap(t, K) == [t EXCEPT !.leaf = @ \ K, !.guard = @ \ K]
UnmapPanics(t, K) == ~(K \subseteq t.leaf)

(* proc_freepagetable(), which ends in freewalk(): how many pages it       *)
(* frees, and whether it panics, on one that is not mapped or one left.    *)
Below(size) == 0..(PGROUNDUP(size) - 1)
FreedBy(t, size) == Cardinality(Below(size) \cap t.leaf) + Nodes(t)
FreePanics(t, size) == t.leaf # Below(size) \cup Special

-----------------------------------------------------------------------------
(* userinit(): the first process, with one page.                           *)
FirstTable == [root |-> 1, mid |-> {0, MidOf(TRAMPOLINE)}, low |-> {0, LowOf(TRAMPOLINE)},
               leaf |-> Special \cup {0}, guard |-> {}]
Init ==
  /\ free = NPAGE - 7
  /\ state = [s \in Slot |-> IF s = initproc THEN "LIVE" ELSE "UNUSED"]
  /\ trapframe = [s \in Slot |-> IF s = initproc THEN 1 ELSE 0]
  /\ pagetable = [s \in Slot |-> IF s = initproc THEN FirstTable ELSE NoTable]
  /\ sz = [s \in Slot |-> IF s = initproc THEN 2 ELSE 0]
  /\ call = [s \in Slot |-> NoCall]
  /\ pipe = 0 /\ panicked = 0

(* kalloc() of one page, kfree() of n.                                     *)
Kalloc == free > 0 /\ free' = free - 1
Kfree(n) == free' = free + n

Panic(b) == panicked' = IF b THEN 1 ELSE 0
Idle(s) == panicked = 0 /\ state[s] = "LIVE" /\ call[s].name = "none"
At(s, l) == panicked = 0 /\ call[s].at = l
Enter(s, c) == call' = [call EXCEPT ![s] = c]
Return(s) == call' = [call EXCEPT ![s] = NoCall]
Goto(s, l) == call' = [call EXCEPT ![s].at = l]

(* sbrk() works on the process's own table, fork() and exec() on a new one.*)
Table(s) == IF call[s].name = "sbrk" THEN pagetable[s] ELSE call[s].tbl
(* The call goes on as c, with the table t.                                *)
Continue(s, c, t) ==
  IF call[s].name = "sbrk"
  THEN call' = [call EXCEPT ![s] = c] /\ pagetable' = [pagetable EXCEPT ![s] = t]
  ELSE call' = [call EXCEPT ![s] = [c EXCEPT !.tbl = t]] /\ UNCHANGED pagetable

-----------------------------------------------------------------------------
(* fork(): allocproc() takes a slot, then a trapframe.                     *)
Fork(s, n) ==
  /\ Idle(s) /\ state[n] = "UNUSED"
  /\ state' = [state EXCEPT ![n] = "USED"]
  /\ Enter(s, [NoCall EXCEPT !.name = "fork", !.at = "trapframe", !.np = n])
  /\ UNCHANGED <<free, trapframe, pagetable, sz, pipe, panicked>>

AllocTrapframe(s) ==
  /\ At(s, "trapframe")
  /\ IF free > 0
     THEN /\ Kalloc
          /\ trapframe' = [trapframe EXCEPT ![call[s].np] = 1]
          /\ Goto(s, "create")
     ELSE Goto(s, "freeproc") /\ UNCHANGED <<free, trapframe>>
  /\ UNCHANGED <<state, pagetable, sz, pipe, panicked>>

(* proc_pagetable(): uvmcreate(), then the trampoline and the trapframe    *)
(* are mapped.                                                             *)
Uvmcreate(s) ==
  /\ At(s, "create")
  /\ IF free > 0
     THEN /\ Kalloc
          /\ call' = [call EXCEPT ![s] = [@ EXCEPT !.tbl.root = 1, !.at = "map",
                                                   !.va = TRAMPOLINE]]
     ELSE Goto(s, IF call[s].name = "fork" THEN "freeproc" ELSE "return") /\ UNCHANGED free
  /\ UNCHANGED <<state, trapframe, pagetable, sz, pipe, panicked>>

(* mappages(): walk() adds a node that is missing.                         *)
MapNode(s) ==
  LET t == Table(s) va == call[s].va IN
  /\ At(s, "map") /\ Lacks(t, va) /\ Kalloc
  /\ Continue(s, call[s], AddNode(t, va))
  /\ UNCHANGED <<state, trapframe, sz, pipe, panicked>>

(* Where the caller of mappages() goes on.                                 *)
AfterMap(c) ==
  CASE c.va = TRAMPOLINE -> [c EXCEPT !.va = TRAPFRAME]
    [] c.va = TRAPFRAME -> [c EXCEPT !.va = 0, !.at = IF c.name = "fork" THEN "page" ELSE "segment"]
    [] OTHER -> [c EXCEPT !.va = @ + 1, !.mem = 0, !.at = "page"]
MapLeaf(s) ==
  LET t == Table(s) va == call[s].va IN
  /\ At(s, "map") /\ ~Lacks(t, va)
  /\ Continue(s, AfterMap(call[s]), [t EXCEPT !.leaf = @ \cup {va}])
  /\ Panic(va \in t.leaf)
  /\ UNCHANGED <<free, state, trapframe, sz, pipe>>

(* proc_pagetable() fails in mappages(): it frees what it has built.       *)
ProcPagetableFails(s) ==
  LET t == call[s].tbl va == call[s].va IN
  /\ At(s, "map") /\ va \in Special /\ Lacks(t, va) /\ free = 0
  /\ Kfree(Nodes(t))
  /\ call' = [call EXCEPT ![s] = [@ EXCEPT !.tbl = NoTable,
                !.at = IF call[s].name = "fork" THEN "freeproc" ELSE "return"]]
  /\ Panic(va = TRAPFRAME /\ t.leaf # {TRAMPOLINE})
  /\ UNCHANGED <<state, trapframe, pagetable, sz, pipe>>

-----------------------------------------------------------------------------
(* uvmcopy() and uvmalloc() loop over pages, from va on.                   *)
Copying(s) == call[s].name = "fork"
More(s) == 2 * call[s].va < IF Copying(s) THEN sz[s] ELSE call[s].end
GotPage(s) == call' = [call EXCEPT ![s] = [@ EXCEPT !.mem = 1, !.at = "map"]]
NotMapped(s) == Copying(s) /\ At(s, "page") /\ call[s].va \notin pagetable[s].leaf

CopyPage(s) ==
  /\ At(s, "page") /\ More(s) /\ Copying(s) /\ Kalloc
  /\ GotPage(s) /\ Panic(NotMapped(s))
  /\ UNCHANGED <<state, trapframe, pagetable, sz, pipe>>

AllocPage(s) ==
  /\ At(s, "page") /\ More(s) /\ ~Copying(s) /\ Kalloc
  /\ GotPage(s)
  /\ UNCHANGED <<state, trapframe, pagetable, sz, pipe, panicked>>

(* The pages such a loop has mapped so far.                                *)
Undone(s) ==
  IF Copying(s) THEN 0..(call[s].va - 1) ELSE PGROUNDUP(call[s].size)..(call[s].va - 1)

(* Mutant: the page that could not be mapped is not freed.                 *)
GivenBackNotMem(s) == Cardinality(Undone(s) \cap Table(s).leaf)
(* How many pages go back when it fails.                                   *)
GivenBack(s) == Cardinality(Undone(s) \cap Table(s).leaf) + call[s].mem

(* No memory for a page, or for a node to map it.                          *)
NoMemory(s) ==
  /\ free = 0
  /\ \/ At(s, "page") /\ More(s)
     \/ At(s, "map") /\ call[s].va \notin Special /\ Lacks(Table(s), call[s].va)

(* uvmcopy() fails: it unmaps and frees its copies, and fork() ends.       *)
CopyFails(s) ==
  LET c == call[s] IN
  /\ NoMemory(s) /\ Copying(s)
  /\ Kfree(GivenBack(s))
  /\ Panic(UnmapPanics(c.tbl, Undone(s)) \/ NotMapped(s))
  /\ Enter(s, [c EXCEPT !.tbl = Unmap(@, Undone(s)), !.mem = 0, !.va = 0, !.at = "freeproc"])
  /\ UNCHANGED <<state, trapframe, pagetable, sz, pipe>>

(* uvmalloc() fails: uvmdealloc() takes the table back to where it was,    *)
(* and sbrk() or exec() ends.                                              *)
AllocFails(s) ==
  LET c == call[s] t == Table(s) IN
  /\ NoMemory(s) /\ ~Copying(s)
  /\ Kfree(GivenBack(s))
  /\ Panic(UnmapPanics(t, Undone(s)))
  /\ Continue(s, IF c.name = "sbrk" THEN NoCall ELSE [c EXCEPT !.mem = 0, !.va = 0, !.at = "bad"],
              Unmap(t, Undone(s)))
  /\ UNCHANGED <<state, trapframe, sz, pipe>>

(* fork() succeeds: the child can run.                                     *)
ForkDone(s) ==
  LET n == call[s].np IN
  /\ At(s, "page") /\ ~More(s) /\ call[s].name = "fork"
  /\ pagetable' = [pagetable EXCEPT ![n] = [call[s].tbl EXCEPT !.guard = pagetable[s].guard]]
  /\ sz' = [sz EXCEPT ![n] = sz[s]]
  /\ state' = [state EXCEPT ![n] = "LIVE"]
  /\ Return(s)
  /\ UNCHANGED <<free, trapframe, pipe, panicked>>

(* freeproc() of the child when fork() fails; its sz is still 0.           *)
ForkFails(s) ==
  LET n == call[s].np t == call[s].tbl IN
  /\ At(s, "freeproc")
  /\ Kfree(trapframe[n] + FreedBy(t, 0))
  /\ Panic(t.root = 1 /\ FreePanics(t, 0))
  /\ trapframe' = [trapframe EXCEPT ![n] = 0]
  /\ state' = [state EXCEPT ![n] = "UNUSED"]
  /\ Return(s)
  /\ UNCHANGED <<pagetable, sz, pipe>>

-----------------------------------------------------------------------------
(* sbrk(): growproc() by n half pages.                                     *)
Grow(s, n) ==
  /\ Idle(s) /\ n > 0 /\ sz[s] + n <= MaxSize
  /\ Enter(s, [NoCall EXCEPT !.name = "sbrk", !.at = "page", !.size = sz[s],
                             !.va = PGROUNDUP(sz[s]), !.end = sz[s] + n])
  /\ UNCHANGED <<free, state, trapframe, pagetable, sz, pipe, panicked>>

GrowDone(s) ==
  /\ At(s, "page") /\ ~More(s) /\ call[s].name = "sbrk"
  /\ sz' = [sz EXCEPT ![s] = call[s].end]
  /\ Return(s)
  /\ UNCHANGED <<free, state, trapframe, pagetable, pipe, panicked>>

(* Mutant: the page that the new size lies in goes too.                    *)
ShrinkToDown(size) == size \div 2
(* The first page that uvmdealloc() unmaps.                                *)
ShrinkTo(size) == PGROUNDUP(size)

(* Shrinking below 0 wraps to a size that uvmdealloc() finds not smaller.  *)
Shrink(s, n) ==
  LET K == ShrinkTo(sz[s] + n)..(PGROUNDUP(sz[s]) - 1) IN
  /\ Idle(s) /\ n < 0 /\ sz[s] + n >= 0
  /\ Kfree(Cardinality(K \cap pagetable[s].leaf))
  /\ pagetable' = [pagetable EXCEPT ![s] = Unmap(@, K)]
  /\ Panic(UnmapPanics(pagetable[s], K))
  /\ sz' = [sz EXCEPT ![s] = @ + n]
  /\ UNCHANGED <<state, trapframe, call, pipe>>

-----------------------------------------------------------------------------
(* sys_exec(): a page for each argument; its pointer is in the virtual     *)
(* page u of the process, the string in v.                                 *)
Exec(s) ==
  /\ Idle(s)
  /\ Enter(s, [NoCall EXCEPT !.name = "exec", !.at = "argv"])
  /\ UNCHANGED <<free, state, trapframe, pagetable, sz, pipe, panicked>>

ExecArg(s, u, v) ==
  /\ At(s, "argv") /\ call[s].args < MAXARG
  /\ IF UserPage(pagetable[s], u) /\ free > 0
     THEN /\ Kalloc
          /\ call' = [call EXCEPT ![s] = [@ EXCEPT !.args = @ + 1,
                        !.at = IF UserPage(pagetable[s], v) THEN "argv" ELSE "return"]]
     ELSE Goto(s, "return") /\ UNCHANGED free
  /\ UNCHANGED <<state, trapframe, pagetable, sz, pipe, panicked>>

(* There are too many arguments, or the file is no good.                   *)
ExecRefused(s) ==
  /\ At(s, "argv")
  /\ Goto(s, "return")
  /\ UNCHANGED <<free, state, trapframe, pagetable, sz, pipe, panicked>>

(* exec() itself: the file has an ELF header.                              *)
ExecStart(s, prog) ==
  /\ At(s, "argv")
  /\ call' = [call EXCEPT ![s] = [@ EXCEPT !.segs = prog, !.at = "create"]]
  /\ UNCHANGED <<free, state, trapframe, pagetable, sz, pipe, panicked>>

(* uvmalloc() for the next segment, or, after the last, for the stack and  *)
(* the guard page below it.  It grows and never shrinks.                   *)
Segment(s) ==
  LET c == call[s]
      top == IF c.segs = <<>> THEN 2 * PGROUNDUP(c.size) + 2 * (USERSTACK + 1)
             ELSE 2 * Head(c.segs).vaddr + Head(c.segs).memsz
      from == IF c.segs = <<>> THEN 2 * PGROUNDUP(c.size) ELSE c.size
      to == IF top < from THEN from ELSE top IN
  /\ At(s, "segment") /\ to <= MaxSize
  /\ call' = [call EXCEPT ![s] = [@ EXCEPT !.size = from, !.end = to,
                                           !.va = PGROUNDUP(from), !.at = "page"]]
  /\ UNCHANGED <<free, state, trapframe, pagetable, sz, pipe, panicked>>

(* The next program header cannot be read, or says nonsense.               *)
SegmentRefused(s) ==
  /\ At(s, "segment") /\ call[s].segs # <<>>
  /\ Goto(s, "bad")
  /\ UNCHANGED <<free, state, trapframe, pagetable, sz, pipe, panicked>>

(* loadseg(): every page the file's bytes go to must be a user page.       *)
LoadSegment(s) ==
  LET c == call[s]
      seg == Head(c.segs)
      K == seg.vaddr..(seg.vaddr + PGROUNDUP(seg.filesz) - 1) IN
  /\ At(s, "page") /\ ~More(s) /\ c.name = "exec" /\ c.segs # <<>>
  /\ IF c.end = 0 THEN Goto(s, "bad") /\ UNCHANGED panicked
     ELSE /\ Panic(~(K \subseteq c.tbl.leaf \ Special))
          /\ \E l \in {"segment", "bad"} :
               call' = [call EXCEPT ![s] = [@ EXCEPT !.size = c.end, !.segs = Tail(@), !.at = l]]
  /\ UNCHANGED <<free, state, trapframe, pagetable, sz, pipe>>

(* The stack is there: clear PTE_U of the guard page, and push argv, which *)
(* may be too long, with copyout().                                        *)
StackDone(s) ==
  LET c == call[s]
      page == PGROUNDUP(c.end) - (USERSTACK + 1) IN
  /\ At(s, "page") /\ ~More(s) /\ c.name = "exec" /\ c.segs = <<>>
  /\ \E l \in {"bad"} \cup (IF UserPage(c.tbl, page + 1) THEN {"commit"} ELSE {}) :
       call' = [call EXCEPT ![s] = [@ EXCEPT !.size = c.end, !.tbl.guard = {page}, !.at = l]]
  /\ Panic(page \notin c.tbl.leaf)
  /\ UNCHANGED <<free, state, trapframe, pagetable, sz, pipe>>

(* Mutant: the old table is freed with the new size.                       *)
OldSizeNew(s) == call[s].size
OldSize(s) == sz[s]

(* The process gets the new image; the old one is left to free.            *)
Commit(s) ==
  LET c == call[s] IN
  /\ At(s, "commit")
  /\ pagetable' = [pagetable EXCEPT ![s] = c.tbl]
  /\ sz' = [sz EXCEPT ![s] = c.size]
  /\ call' = [call EXCEPT ![s] = [@ EXCEPT !.tbl = pagetable[s], !.size = OldSize(s), !.at = "bad"]]
  /\ UNCHANGED <<free, state, trapframe, pipe, panicked>>

(* proc_freepagetable() of the new image, at "bad", or of the old one.     *)
FreeImage(s) ==
  LET c == call[s] IN
  /\ At(s, "bad")
  /\ Kfree(FreedBy(c.tbl, c.size))
  /\ Panic(FreePanics(c.tbl, c.size))
  /\ call' = [call EXCEPT ![s] = [@ EXCEPT !.tbl = NoTable, !.at = "return"]]
  /\ UNCHANGED <<state, trapframe, pagetable, sz, pipe>>

(* sys_exec() frees the arguments.                                         *)
ExecReturns(s) ==
  /\ At(s, "return")
  /\ Kfree(call[s].args)
  /\ Return(s)
  /\ UNCHANGED <<state, trapframe, pagetable, sz, pipe, panicked>>

-----------------------------------------------------------------------------
(* exit(), and freeproc() in the parent's wait().                          *)
Exit(s) ==
  /\ Idle(s) /\ s # initproc
  /\ state' = [state EXCEPT ![s] = "ZOMBIE"]
  /\ UNCHANGED <<free, trapframe, pagetable, sz, call, pipe, panicked>>

Reap(s) ==
  /\ panicked = 0 /\ state[s] = "ZOMBIE"
  /\ Kfree(trapframe[s] + FreedBy(pagetable[s], sz[s]))
  /\ Panic(FreePanics(pagetable[s], sz[s]))
  /\ trapframe' = [trapframe EXCEPT ![s] = 0]
  /\ pagetable' = [pagetable EXCEPT ![s] = NoTable]
  /\ sz' = [sz EXCEPT ![s] = 0]
  /\ state' = [state EXCEPT ![s] = "UNUSED"]
  /\ UNCHANGED <<call, pipe>>

(* pipealloc() and the last pipeclose().                                   *)
PipeTakes ==
  /\ panicked = 0 /\ pipe = 0
  /\ pipe' = 1 /\ Kalloc
  /\ UNCHANGED <<state, trapframe, pagetable, sz, call, panicked>>

PipeGives ==
  /\ panicked = 0 /\ pipe = 1
  /\ pipe' = 0 /\ Kfree(1)
  /\ UNCHANGED <<state, trapframe, pagetable, sz, call, panicked>>

-----------------------------------------------------------------------------
Next ==
  \/ \E s \in Slot :
       \/ \E n \in Slot : Fork(s, n)
       \/ \E n \in Sbrk : Grow(s, n) \/ Shrink(s, n)
       \/ AllocTrapframe(s) \/ Uvmcreate(s) \/ MapNode(s) \/ MapLeaf(s) \/ ProcPagetableFails(s)
       \/ CopyPage(s) \/ AllocPage(s) \/ CopyFails(s) \/ AllocFails(s)
       \/ ForkDone(s) \/ ForkFails(s) \/ GrowDone(s)
       \/ Exec(s) \/ ExecRefused(s) \/ \E prog \in Program : ExecStart(s, prog)
       \/ \E u, v \in 0..(MaxSize \div 2) : ExecArg(s, u, v)
       \/ Segment(s) \/ SegmentRefused(s) \/ LoadSegment(s) \/ StackDone(s) \/ Commit(s)
       \/ FreeImage(s) \/ ExecReturns(s) \/ Exit(s) \/ Reap(s)
  \/ PipeTakes \/ PipeGives
Spec == Init /\ [][Next]_vars

-----------------------------------------------------------------------------
(* No page is lost and none is freed twice: whoever runs out of memory at  *)
(* whichever kalloc(), the free pages and those that tables, trapframes,   *)
(* pipes and the local variables of calls refer to make up the memory.     *)
UserPages(t) == Cardinality(t.leaf \ Special)
InUse(s) == trapframe[s] + call[s].mem + call[s].args
            + Nodes(pagetable[s]) + UserPages(pagetable[s])
            + Nodes(call[s].tbl) + UserPages(call[s].tbl)
PagesAccounted == free + pipe + MapThenSumSet(InUse, Slot) = NPAGE

(* None of the panics of kernel/vm.c and loadseg() is reached: nothing is  *)
(* mapped twice, unmapped when it is not mapped, or left in a table that   *)
(* is freed.                                                               *)
NoPanic == panicked = 0

(* A process outside of calls has all pages below its size, and no others. *)
SizeMapped ==
  \A s \in Slot : state[s] = "ZOMBIE" \/ Idle(s) =>
    pagetable[s].leaf = Below(sz[s]) \cup Special
=============================================================================
