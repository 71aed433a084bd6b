# A TLA+ verification of operating_systems_c

The repository holds two course projects. Project 1 (`operating systems project
1/ergasia1.c`) is a POSIX program: a parent starts and terminates children by
the steps of a configuration file and passes lines of text to them through
shared memory, with semaphores. Project 2 (`operating systems project 2`) is the
xv6 kernel for RISC-V with its user programs, to which the authors added a
double-indirect level of file blocks (`bmap`, `itrunc`) and symbolic links
(`sys_symlink`, `sys_open`).

This directory models the parts whose correctness depends on the order in which
things happen, checks the models with TLC and proves the main results with
TLAPS. `PROJECT.json` gives, for every definition that models code, the lines it
models.

## 1. The system

| Part | State | Operations | What makes it hard |
|---|---|---|---|
| Write-ahead log (`log.c`) | header and log blocks on disk, `log.lh`, `outstanding`, `committing` | `begin_op`, `log_write`, `end_op`, `commit`, `recover_from_log` | a crash between any two block writes; a commit without the lock; space reserved before it is used |
| Buffer cache (`bio.c`, `sleeplock.c`) | buffers, reference counts, LRU list | `bread`, `bwrite`, `brelse`, `bpin`, `bunpin` | eviction; the gap between `bcache.lock` and the buffer's lock |
| File blocks (`fs.c`) | bitmap, `addrs[]`, indirect blocks, `size` | `balloc`, `bfree`, `bmap`, `itrunc`, `readi`, `writei`, `iupdate` | full disk in the middle of a path; index arithmetic; the bitmap is shared |
| Inode table, directories (`fs.c`, `sysfile.c`) | `itable`, link counts, directory entries | `iget`, `iput`, `ialloc`, `create`, `sys_link`, `sys_unlink`, `sys_symlink`, `sys_open` | last `iput` against a new `iget`; lock order; loops of links |
| File table (`file.c`) | `ftable`, reference counts | `filealloc`, `filedup`, `fileclose`, `fileread`, `filewrite` | the last close |
| Pipes (`pipe.c`) | a ring, two wrapping counters, two open flags | `pipewrite`, `piperead`, `pipeclose` | lost wakeups, kill, closing while others sleep |
| Processes (`proc.c`, `trap.c`, `init.c`) | the process table, `wait_lock`, `p->lock`, CPUs | `fork`, `exit`, `wait`, `kill`, `sleep`, `wakeup`, `yield`, `sched`, `scheduler` | a lock held across a context switch; reuse of slots; orphans |
| Virtio disk (`virtio_disk.c`) | descriptors, two rings | `virtio_disk_rw`, `virtio_disk_intr` | interrupts, descriptors running out |
| Console, UART, spin locks (`console.c`, `uart.c`, `spinlock.c`, `printf.c`) | input and output rings, the UART's registers, `noff` and `intena` of each CPU | `consoleread`, `consolewrite`, `consoleintr`, `uartputc`, `uartputc_sync`, `uartstart`, `push_off`, `pop_off` | interrupts at any step; a path to the UART without a lock; wrapping indices |
| Memory (`kalloc.c`, `vm.c`, `exec.c`) | free list, page tables, sizes | `kalloc`, `kfree`, `uvmalloc`, `uvmdealloc`, `uvmcopy`, `growproc`, `exec`, `freeproc` | memory runs out anywhere; undoing partial work; sizes that are not page-aligned |
| Shell (`user/sh.c`) | a tree of processes with descriptors | the parser, `runcmd` | who holds which pipe end; who waits for whom |
| Traps, clock, boot, other user programs | | | mostly sequential |
| Parent and children (`ergasia1.c`) | shared memory, semaphores, two tables of children | the commands S, T, EXIT; a line per step; `child_process` | unlocked shared memory; two accounts of who is active |

How the parts meet: file-system calls run between `begin_op` and `end_op` and
announce the blocks they change with `log_write`; the log pins buffers so that the
cache cannot evict them; a file's blocks come from the shared bitmap; pipes, the
log, buffers and `wait` are all built on `sleep`/`wakeup` of the process table.

## 2. Modules

| Module | Models | Main properties |
|---|---|---|
| `AtomicDisk` | what the log promises: a disk on which a transaction happens entirely or not at all | - |
| `Log` | `log.c`, and of `bio.c` the buffer's content, lock, pins and eviction | `CrashAtomic`, `QuiescentIsDurable`, `NoLostWakeup`; proved also `PinExact`, `PanicsOnlySpent`, `CommitAlone` |
| `LogLive` | `Log` with bounded calls and crashes, and fairness | `BeginOpReturns` |
| `BlockMap` | `balloc`, `bfree`, `bmap`, `itrunc`, `iupdate`, loops of `readi` and `writei` | `NoCrossLink`, `NoLeak`, `InodeSound`, `MappingStable` |
| `Fifo` | what a pipe promises: a bounded queue of bytes | - |
| `Pipe` | `pipe.c`, `sleep`/`wakeup`/`kill` as it uses them, the last `fileclose` | `IsFifo`, `NoLostWakeup`, `NoUseAfterFree`, `EofReaches` |
| `Proc` | `proc.c` but for memory and pids, the preemption of `trap.c`, the loop of `init.c` | `OneStack`, `TreeUnderInit`, `WaitWakeup`, `InitKeepsReaping`; proved also `InitHasShell` |
| `Blocks` | what the buffer cache promises: an array of blocks, each held by one process at a time | - |
| `BlockIO` | `bio.c` and `sleeplock.c` over `virtio_disk.c` and the device | `CachesBlocks`, `DescOwned`, `NoLostRequest`, `NoLostWakeup` |
| `Namespace` | inodes, directories and links of `fs.c`, the path calls of `sysfile.c`, the file table | `RefExact`, `LinksExact`, `NoDangling`, `IputNeverBlocks` |
| `Ergasia1` | `ergasia1.c` | `Baton`, `SlotsMatch`, `Answered`, `AllExit` |
| `Tty` | what the console promises of its input: a line that can be edited until it is ended, and then is read once | - |
| `Console` | `console.c`, `uart.c`, `spinlock.c`, the locking of `printf.c`, the interrupt path of `trap.c` and `plic.c` | `NoPanic`, `FifoFits`, `NoLostKick`, `NoLostWakeup`, `IsTty` |
| `Memory` | `kalloc.c`, `vm.c`, `exec.c`, and what `fork`, `sbrk`, `sys_exec`, `exit`, `wait` and pipes do with pages | `PagesAccounted`, `NoPanic`, `SizeMapped` |
| `ShellParse` | the parser of `sh.c`, and a reference that reads a line from the outside in | `Agrees` |
| `Shell` | `main` and `runcmd` of `sh.c` over processes, descriptors and pipes | `ParserAgrees`, `Wired`, `InTurn`, `PromptReturns` |
| `LogProofs`, `PipeProofs`, `ProcProofs`, `Ergasia1Proofs`, `ConsoleProofs`, `TtyProofs`, `BlockIOSteps`, `BlockIOProofs` | the theorems of section 5 | |
| `MCBlockMap`, `MCBlockIO`, `MCNamespace`, `MCConsole`, `MCMemory`, `MCShell` | symmetry sets, file sizes, paths, initial file systems, keys, executables and command lines for TLC | |

Definitions whose comment begins with "Mutant", or which stand directly before
the definition they imitate (`LastSlotShort` before `LastSlot`), are wrong
versions of the next definition. They are used nowhere in the specifications:
each shows, when put in the place of the right one, that a property can fail.

### Log

`disk`, `logblk` and `head` are durable; everything else is lost in a `Crash`.
Each critical section of `log.lock` is one step (`BeginOp`, `LogWrite`, `EndOp`),
since no section sleeps holding it. `commit()` works without the lock, so each
iteration of `write_log()` and `install_trans()` and each `write_head()` is a step
of its own and a crash may fall between any two. Recovery repeats the same steps
and can be interrupted again. The cache may drop any buffer that is neither
pinned nor locked. `OPBLOCKS` is how many different blocks one call really logs;
the code reserves `MAXOPBLOCKS` for it.

The refinement mapping to `AtomicDisk` takes as the abstract disk what recovery
would make of the durable state: the home blocks overwritten by the logged ones
if the header is not empty. The abstract commit is the single write of the
header.

### BlockMap

Block offsets replace byte offsets. `data` is the content of every block as an
array of block numbers; user data is an array that names real blocks, so that
following it by mistake is visible. A process holds its inode's lock for a whole
operation, and while `bmap` is inside an indirect block it holds that buffer too;
only the bitmap is shared between operations, and `Balloc` searches one bitmap
block per step, as the code does. `Spec` lets a truncation meet any state;
`SpecWhole` leaves out truncations of a file whose double-indirect block has an
empty entry below the first level. That case is the finding of section 6, after
which the kernel has already panicked or damaged block 0, and nothing else can
be asked of it. A behaviour begins with files to which any number of blocks has
been written, the way `writei` does on an empty disk (`Allocated`, `Earlier`), and
`CALLS` bounds the calls that follow; so long files are met without the many
steps that make them. `MaxBlocks` bounds each file's length by itself, so that one
file can go through all levels while another competes for its blocks. `NoLeak`,
and the part of `InodeSound` about holes, ask for nothing once block 0 has changed:
`bmap` writes a block number into it in the case that section 6 describes.

### Pipe

One loop iteration is a step, but for the call of `sleep()`, which is a step of
its own (label `sleep`): a `kill()` may come between the look at `killed` and the
sleep, since `kill` does not take the pipe's lock. `Sleep` releases that lock and
sleeps at once: `p->lock` makes it so, and `Proc` has that in detail. Counters
wrap at `WORD`, a multiple of the ring's size, as 2^32 is of 512. `cut` remembers
that a killed writer returned without its final `wakeup`; `NoLostWakeup` excuses a
reader only in that state.

### Proc

A slot is a process. `state`, `parent`, `chan` and `killed` are the fields, `cpu`
says which slot each CPU runs, and `pc` where a process is inside a call. `sched()`
switches to the scheduler with `p->lock` held: a process that has set its state
and not yet been switched out (`SwitchOut`) still has its lock, and `Lockable`
keeps everyone else from the slot until then. `fork()` is three critical sections
(`Fork`, `SetParent`, `StartChild`) and `wait()` holds `wait_lock` across its
scan, its decision and its sleep. Slot `InitProc` runs the loop of `user/init.c`;
the variable `sh` is the shell it waits for. `Kill` may hit any slot, an unused
one included, because `kill(0)` does: the next process in that slot is born
killed.

### BlockIO

`bcache.lock`, the spin lock inside a sleep lock and `vdisk_lock` each cover one
step. The device takes no lock: it fetches requests, carries them out in any order
and raises its interrupt between any two steps, so `virtio_disk_intr` is cut at
each pass of its loop and after it. Each request takes three descriptors, so the
two rings of `NUM` entries cannot fill and are queues of what the other side has
not seen; ring indices are left out. `Change` stands for a caller that has the
buffer; it then logs the block (`Bpin`) or writes it (`Bwrite`). That is an
assumption about the callers. One does not keep it: `writei` leaves its loop
without `log_write` when a copy from user memory fails halfway (`fs.c:625`), and
the bytes copied until then are lost when the buffer is recycled. `pins` is a
history variable that tells a pin from other references. A failing device makes
the handler panic, and a cache with every buffer referenced makes `bget` panic;
both end the run.

The refinement mapping to `Blocks` takes a block's content from its valid buffer
if there is one and else from the disk, and its holder from the process between
`bread` and `brelse`.

### Namespace

`disk` is what is on disk: type and link count of each inode, entries of
directories, targets of links. `ino` is `itable`, as a function of the inode
number, because an inode has one entry at most. `at[p]` says where a process is
in its call and holds the call's variables. A sleep lock that is taken and
released with nothing awaited in between covers one step; `create` and
`sys_unlink` hold a directory's lock while they wait for an inode's, and `lock`
says so. `iput` is cut where it gives up `itable.lock`: lock, free on disk,
unlock, decrement. Two element paths, absolute or from the current directory
through `..`, are enough for each loop of `namex` to go round. `dirlink`
and the writes of `sys_symlink` may fail whenever they are called. `CALLS` bounds
how many calls are made, and `Start` gives file systems to start from, with the
directories processes may be in.

Three variables keep what the code does wrong (section 6) apart from the rest.
`lost` names the inodes that leak, and `LinksExact` is about the others. `panicked`
is the inode over which the kernel panicked: `NoDangling` says that it is always
the `..` of a directory that has been removed. `wrecked` is a directory whose
entries `sys_symlink` has overwritten. The length and a target of up to 11
characters fit in the entry `.`, which no modelled path uses, and the model goes on
after them; a target in `Long` destroys the entries that follow, and the behaviour
ends there.

### Ergasia1

The parent's steps are the body of the main loop cut at its semaphore calls;
`child_process` is cut at each shared access. The configuration is not read into
an array first: the command of a step is chosen when the step comes, any that the
reader accepts (it orders the steps and checks the syntax; it does not reject a
second S of a running name, nor a T of one that is not running). Names are C0, C1
and so on below `MAX_CHILDREN`, the size of the arrays they index; the reader
accepts larger numbers too, and what follows then is not modelled. `TooManyError`
and `ForkFails` are the two `return -1` of a start. The parent's position
`undefined` stands for a write outside an array: `Start` when `child_pid_name` is
full, and `MessageUndefined`, the use of index -1 that follows when
`choose_random_active_child` finds nobody.

A terminated child's entry in `child_pid_name` gets the pid 0 and the name 0, and
the search for the receiver of a line compares names alone (`Found`). So a line
for C0 may find a cleared entry after its own; then a free slot's semaphore is
posted, or that of slot 0 if there is none (`SlotOf`). With a free slot nobody
answers, and the parent waits for ever: `Stray`, the exception in `AllExit`.

### Console

Each CPU has one process, which reads, writes or calls `printf`, and one interrupt
handler; while the handler runs the process is frozen, and `Runs` says so. An
interrupt comes at any step at which `sstatus.SIE` is set. `acquire` is two steps,
because an interrupt that finds the lock half taken is the case that `push_off`
exists for; so is a byte for the UART, because `uartputc_sync` holds no lock
between its look at LSR and its write of THR. `fifo` counts the bytes the UART
has not sent, and `thre` is its transmit interrupt: set when it runs empty,
cleared by a write of THR or a read of ISR. Only the number of output bytes is
kept; the output indices never differ by more than the ring and count in 64 bits.
Input characters are kept, since line editing depends on them, and `r`, `w`, `e`
wrap at `WORD`. The keys that will be pressed are one of the sequences `Typed`;
when they are is up to the keyboard. `procdump` prints without locks of its own
and is one `printf`.

The refinement mapping to `Tty` takes the characters between `r` and `w` as those
ready to be read and those between `w` and `e` as the line being edited.

### Memory

Every `kalloc` is a step, and any of them may find the list empty because another
process took the last page; what one call gives back in a loop is one step.
Physical pages are all alike, so the model counts them where they are: the free
list, trapframes, page-table pages, mapped pages, the pages of `argv`, a pipe, and
the page that a loop has allocated and not mapped yet. A page table is the set of
its inner nodes and of its mapped pages, with `FANOUT` entries per node; `walk`
adds one node per step. Sizes count half pages. `TRAMPOLINE` and `TRAPFRAME` are
mapped in every table and owned by none, so a table that is freed with them
still mapped, or with the wrong size, makes `freewalk` or `uvmunmap` panic, and
`NoPanic` is about these.

### Shell

A word is named by its place in the line, so a parse says which word became what.
A process has a position in `runcmd`, a command still to run, and descriptors; the
lowest free one is taken, as `fdalloc` does, and that is what makes
`close(1); dup(p[1])` work. Programs are external: each reads its input to the end,
or writes more than a pipe holds, or does neither. `fork`, `pipe`, `open` and
`exec` may fail. One line is read in a behaviour. The model keeps the parse of
the line in `tree` from the moment it is read; the child that runs it looks there.

Of several redirections of one descriptor the first on the line is the one that
counts: `parseredirs` wraps them, the last one outermost, and `runcmd` opens from
the outside in, so `a > f > g` creates both and writes to `f`. `Reference` follows
the code in this; nothing in the repository says otherwise.

## 3. Runs

| Run | Shows | Bounds, and why they are enough |
|---|---|---|
| `log` | the log implements `AtomicDisk` through every crash; with no call in progress all is durable; no lost wakeup; `begin_op` returns | two processes, two blocks, two values, calls of two blocks and room for two calls: a second call waits for space once the first has logged a block, or for its commit, and they absorb each other's blocks; one crash, in commit or in recovery. One call per process, since `begin_op` makes no promise against being overtaken by endless new calls |
| `blockmap` | no block belongs to two files or two places; mappings never move; no leak; reads allocate nothing and the inode on disk is current when unlocked | one direct block, two entries per indirect block, so that a file of six blocks uses every level and two second-level blocks, each with data, are truncated; a second file of two blocks; twelve blocks for both and their index blocks, two less than they need, so that allocation fails at each level; two bitmap blocks; any three calls from any lengths, each of one or two blocks; failing copies cut a write anywhere |
| `pipe` | the pipe is a FIFO; no lost wakeup; no use after free; readers see the end of file | two writers, a reader, a ring of two, counters modulo four, writes of one and three bytes: longer than the ring, and the counters wrap in each |
| `proc` | stacks, tree, wakeups of `wait`; init goes on reaping | three slots: init, the shell and one to orphan, kill or reuse; two CPUs. The theorems of section 5 hold for any number |
| `blockio` | the cache implements `Blocks`; descriptors are owned by one request; no completion is forgotten | two processes, three blocks in two buffers, so that buffers are recycled; seven descriptors: two requests in flight and one descriptor over |
| `blockio_wait` | nobody sleeps for something that is free | three processes, descriptors for one request, so that others wait and wake in turn |
| `namespace` | references, link counts, entries, no panic | two processes, three calls, three inodes, the paths `/a`, `../b` and `/a/b` (the last two also as new links and targets), opened for reading or with `O_NOFOLLOW`, which like a mode for writing refuses directories; a file with two descriptors; from an empty `/a`, from a file `/a/b`, and with the processes in a directory `/a/b`: every pair of calls meets in every order, with one more before, between or after. The leaks, the panic over `..` and an overwritten directory are all reached |
| `ergasia1` | one process at a time, slots, delivery, counts, termination | the names C0, C1 and C2, two semaphores, six steps, a table of three entries: start, start twice, terminate, restart into a freed slot, a line for C0 with a cleared entry behind it, a start too many, and the end |
| `console` | spin locks keep their interrupt discipline; output neither stalls nor overruns the UART; no lost wakeup; the input ring is a line editor | two CPUs: one reads and prints, one writes; rings of three and one characters, indices modulo six that start at five and so wrap at once; five sequences of four or five keys, in which `^U` erases two characters, a key meets a full ring, and there is nothing to erase. A key's echo, a transmit interrupt and a `printf` meet a write at each of its steps |
| `memory` | no page is lost or freed twice; no panic of `vm.c`; a process has exactly the pages below its size | two slots and 18 pages, which a second process with a stack and a pipe uses up, so that each `kalloc` fails in some behaviour; four entries per page-table page, so that growing needs new nodes; `sbrk` by amounts that do not fit pages; three executables, one with a gap between segments |
| `shell` | the parser agrees with the reference; every program has the right descriptors and no others; lists run in turn; the prompt comes back | all lines of up to five tokens parsed, all of up to three and ten longer ones run; eight processes and six descriptors, which the longest pipeline needs and a nested one runs out of |
| `blockmap_partial` | a disagreement, section 6 | the least sizes at which it happens |

Deadlock is not checked where the system may rightly stop: the log and the pipe
when every call is over or the power is off, the block map after its panic,
`memory` in a call that the bound on sizes cuts off, `shell` after its one line,
and the end of `ergasia1`. `proc`, `blockio`, `blockio_wait`, `console` and
`namespace` check it:
some process can always go on, or the kernel has panicked or all calls are made.
In `namespace` that is the absence of deadlock among inode locks.

## 4. Fairness

The scheduler of `proc.c` goes round the process table for ever, so a runnable
process runs again: weak fairness of each process's next step inside a call.
Strong fairness is used in two places. A spin lock that is free again and again
is acquired in the end (`__sync_lock_test_and_set` with interrupts off and short
critical sections; not a theorem of the hardware, and a stated assumption). A
file-system call uses finitely many buffers, so one that could end again and
again does end (`EndOp`). Readers of a pipe go on reading or close, which is
needed for a writer to get room; writers are promised nothing otherwise. Nobody
is assumed to start calls, be killed or crash. In `Ergasia1` the operating system
runs every process that can run. `Shell` asks for less: whenever some process
can go on, one of them does. A behaviour runs one line and every process ends,
so that is enough for the prompt to come back, and the user need not type.

## 5. Proofs

Each theorem holds for any number of processes, blocks, CPUs and any sizes that
satisfy the named assumptions of the module.

**`LogProofs`.** `CInv` is inductive: `Types`, `Control` (who is where while a
commit or a recovery runs), `Count` and `NoLostWakeup`. `Count` is the accounting
of log space. The space that admitted calls may still use is a finite set of pairs
(process, unit), `Credit`, and the blocks logged plus its cardinality stay within
`LOGSIZE`; that is what `begin_op` tests with products and sums. Results:
`LostWakeupFree`, `CommitRunsAlone`, and `LogPanicsOnlySpent`. Of the three panics
of `log.c` two are unreachable. The third, "too big a transaction", can be
reached, because `log_write` tests the size before it looks whether the block is
logged already, and because the on-disk log of 30 blocks holds a header and so has
room for 29 (`Lacking` is 1). The theorem says when: each call in progress has
then logged at least `MAXOPBLOCKS - Lacking` blocks. So nobody panics while some
call in progress has logged fewer than nine blocks; the argument is that the
credit `Count` leaves to that call is more than the log lacks (`UnspentFits`).

`DInv` adds what is true of the data: which buffers hold logged content and are
pinned, which prefix of the log has been written or installed in each phase, and
that cached and home content agree elsewhere. From it follow `TypeCorrect`,
`PinsAreExact`, `QuiescenceIsDurable`, and `LogIsCrashAtomic`, the refinement:
`Init` maps to `AD!Init`, the write of a non-empty header to the abstract commit, a
crash to an abort, all other steps to a stutter or a write of the transaction.

**`PipeProofs`.** `Inv` relates each sleeper to a condition that still holds
(`Sleepers`) and the open flags to the references left (`Ends`). For the refinement
`Ring` says that the counters are at most `PIPESIZE` apart; the queue is then what
lies between them, a write appends to it (`WriteAppends`) and a read takes its head
(`ReadTakes`), also where the counters wrap. Results: `PipeWakeups`,
`PipeMemorySafe`, `PipeIsFifo`.

**`ProcProofs`.** `Inv` joins the properties with `Forks` (a child between the parts
of `fork` belongs to exactly one forking parent) and `Waits` (what a process inside
`wait` may assume while it holds `wait_lock`). Results: `ProcTypes`,
`StacksAreSafe`, `ParentsFormTree`, `WaitMissesNoExit`, `InitWaitsForShell`.

**`ConsoleProofs`.** The properties of a spin lock depend on interrupts, so `IInv`
ties both to where each context is: `Depth` is how many `push_off`s its label
stands for, `Holds` which locks. `CpuOK` says that a handler runs only over a
process of depth zero, and that `noff`, `intena` and `SIE` follow from the two
depths; `Locks` that a CPU owns a lock just when one of its contexts is in the
critical section. `TurnKeeps` reduces a step of one context to its own label. On
top, `Kick` weakens `NoLostKick` to hold while somebody is in `uartstart`, and
`Sleeps` extends `NoLostWakeup` to a reader about to sleep. `FifoFits` is an
injection from the contexts about to write THR into the CPUs. Results:
`SpinLocksNeverPanic`, `OutputFits`, `OutputGoesOn`, `ConsoleSleepersWake`.

**`TtyProofs`.** `InputOK` says that `w` is at most a ring ahead of `r`, and `e`
ahead of `w`, in arithmetic modulo `WORD`. `Cells` is what a stretch of the ring
holds. Reading takes the first of the cells between `r` and `w`, storing adds one
after `e` in a place that no cell occupies (`NewPlace`), erasing drops the last
ones; `WORD` is a multiple of the ring's size, and so a place survives the wrap
(`SpotWraps`). Result: `ConsoleIsTty`.

**`Ergasia1Proofs`.** `IInv` is `Types` with, until the end of the program,
`TableOK` (the entries of `child_pid_name` that are not cleared are the children
that stay), `NamesOK` (the commands and the table agree on the active names unless
one was started twice), `OwnersOK` (each slot that is not free belongs to one live
child, each child to one slot) and `TurnOK`, which lists who can have the turn:
the parent, the child it forked or woke, at each point of its answer, or nobody,
after a line for C0 went to a free slot (`WokeNobody`). `Baton` alone is not
inductive: that the one that runs is the one the parent waits for is what `TurnOK`
adds. Results: `OneRunsAtATime`, `SlotsAreExact`, `ParentIsAnswered`.

**`BlockIOSteps`, `BlockIOProofs`.** `IInv` is the conjunction
`AllHold`: `Types`, `CacheOK` (a block is in one buffer, and `refcnt` counts its
users and its pin), `LocksOK` (who is in the buffer's critical section has its sleep
lock), `RequestsOK` (the three descriptors of each request), `RingsOK` (a request is
in one ring or in the device, and a completion that has not been seen has an
interrupt to come), `ContentsOK` (a valid buffer has the disk's content unless it
has been changed, and then it is pinned or held) and `DescWait`. The first module
has the driver, the device and the interrupt handler, the second the cache and the
mapping to `Blocks`. The set of processes is finite. Results: `BlockIOWakeups`,
`DescriptorsOwned`, `CompletionsArrive`, `CacheImplementsBlocks`.

What these proofs need of finite sets (that a set with one element more has one
more, that a set of numbers has a least one) is proved from the library in one
lemma at the end of each module and handed to the others as `SetFacts` or
`LeastFact`, because the library's theorems and the prover's arithmetic do not mix
well in one obligation.

Only model-checked: every liveness property (`BeginOpReturns`, `EofReaches`,
`AllExit`, `InitKeepsReaping`, `PromptReturns`), which the prover does not handle;
all of `BlockMap`, `Namespace`, `Memory` and `Shell`. What the recursive parser
computes for every line is out of the prover's reach as well.

## 6. Disagreements with the code

- **`blockmap_partial`.** `itrunc` frees each entry of the double-indirect block
  without testing it, unlike the single-indirect one, so a partly filled one makes
  it free block 0 again and again (`fs.c:546`).

Beside it, seen while modelling:

- A process whose current directory is `/a/b` removes `/a/b` and then `/a`, and
  opens `..`. The entry `..` stays in the removed directory and names an inode
  that is free by then (`fs.c:674`); `ilock` panics (`fs.c:315`). `NoDangling` says
  that no other panic happens.
- A reader of the console that is killed between its look at `killed` and its
  `sleep` sleeps until the next line (`console.c:92`).
- `iput` frees an inode without `itable.lock` and then decrements `ref` without
  testing again (`fs.c:360`). If the inode is allocated, used and unlinked by
  another process in between, that process's `iput` sees two references and
  leaves the freeing to the first, which does not do it. The inode is lost.
- `create` and `sys_link` do not test whether the directory they lock has been
  removed since it was found (`sysfile.c:254`); the new inode is lost with it.
  `LinksExact` holds for all inodes except those of these two cases.
- `sys_open` refuses to write to a directory before it follows symbolic links
  and not after (`sysfile.c:333`); `sys_symlink` writes its target over an
  existing file or directory (`sysfile.c:261`). Over a directory, a target of more
  than 11 characters destroys `..` and the entries after it (`sysfile.c:561`).
- When `balloc` fails for a second-level block, `bmap` goes on with block 0
  (`fs.c:441`); if space appears meanwhile, it stores the new block there. The
  block is lost and the file has a hole, although its size counts the block.
- In a full log the write of a block that is already logged panics
  (`log.c:220`); section 5 says when a log can be full.
- `kill(0)` marks an unused slot as killed (`proc.c:614`).
- `child_pid_name[]` keeps an entry for every child ever started
  (`ergasia1.c:330`); `config_10_10000.txt` starts 491 and the array holds 100.
- The search for the child that gets a line does not look at the pid
  (`ergasia1.c:412`), and a cleared entry has the name 0: after another child was
  terminated, a line for C0 is sent to nobody, and the parent waits for ever.

## 7. Not modelled

Parts of what is modelled:

- `Namespace`: the path element `.`, empty link targets, devices with a bad number,
  a full inode table, files shared by `fork`, the content of files, and whatever
  follows a directory overwritten by `sys_symlink`.
- `BlockIO`: the start-up handshake with the device, the ring indices, and a caller
  that changes a block and releases it without logging it.
- `Memory`: the kernel's own page table (built once at boot; a failure panics) and
  the bytes that `copyin` and `copyout` move.
- `Console`: `uartinit`, and processes that move between CPUs while they hold no
  lock; a process takes no lock between two CPUs, so nothing in the model tells
  them apart.
- `Shell`: the characters of a line, `nulterminate`, and `cd`'s effect.
- `filewrite`'s chunk size, which allows for one indirect block and not for the
  double-indirect level (`file.c:149`), needs blocks counted at full scale.
- A log that is full pins every buffer of the cache (`bio.c:88`); that needs `Log`
  over `BlockIO`, whose product is too large for TLC.

Whole parts: boot (`start.c`, `main.c`) and assembly are straight-line device and
register accesses. System call arguments, `sys_sleep`, the user library and
utilities are sequential. User tests (`usertests.c`, `grind.c`, `symlinktest.c`,
`bigfile.c`) state what the kernel should do and are read as such.
`ergasia1test.c` is an older version of `ergasia1.c`. Relaxed memory ordering is
left out: the models take each lock's critical section as a step or several in
program order, which `spinlock.c` justifies with its fences.
