------------------------------ MODULE BlockMap ------------------------------
(***************************************************************************)
(* The block map of a file in kernel/fs.c: balloc(), bfree(), bmap() with  *)
(* the double-indirect level this repository adds, itrunc(), and the loops *)
(* of readi() and writei() that call bmap().                               *)
(*                                                                         *)
(* Offsets are counted in blocks.  An inode's lock is held from the start  *)
(* of an operation to its end, and an indirect block's buffer while bmap() *)
(* allocates for one of its entries; the bitmap is shared, and its lock is *)
(* held only while one bitmap block is searched.                           *)
(***************************************************************************)
EXTENDS Integers, Sequences, SequencesExt, FiniteSets, FiniteSetsExt

CONSTANTS
  Proc, Inode,
  NDIRECT, NINDIRECT,
  SIZE,       \* sb.size: blocks of the disk
  NMETA,      \* blocks mkfs marks in use: boot block, log, inodes, bitmap
  BPB,        \* bits of one bitmap block
  MaxBlocks,  \* bound: no operation goes past this block of each file
  MaxWrite,   \* bound: blocks of one writei() or readi()
  CALLS       \* bound: calls of readi(), writei() and itrunc() in a behaviour

ASSUME SizeAssumption ==
  /\ NDIRECT \in Nat \ {0} /\ NINDIRECT \in Nat \ {0}
  /\ SIZE \in Nat /\ NMETA \in 1..SIZE /\ BPB \in Nat \ {0}

VARIABLES
  used,      \* the bitmap: blocks marked in use
  data,      \* content of each block as an array of block numbers
  addrs,     \* ip->addrs[] of the in-memory inode
  size,      \* ip->size, in blocks
  dinode,    \* addrs and size in the inode's block on disk
  op,        \* what each process is doing
  calls,     \* calls made so far
  panicked   \* bfree() called panic("freeing free block")

vars == <<used, data, addrs, size, dinode, op, calls, panicked>>

Block == 0..(SIZE - 1)
MAXFILE == NDIRECT + NINDIRECT + NINDIRECT * NINDIRECT
Slots == 0..(NDIRECT + 1)
Entries == 0..(NINDIRECT - 1)
Zero == [i \in Entries |-> 0]
\* User data, which read as an array of block numbers names real blocks.
Junk == [i \in Entries |-> SIZE - 1]
NoAddrs == [s \in Slots |-> 0]

Idle == [kind |-> "idle"]
Busy(p) == op[p].kind # "idle"
Locked(ip) == \E p \in Proc : Busy(p) /\ op[p].ip = ip
SetOp(p, w) == op' = [op EXCEPT ![p] = w]

(* The slots bmap() follows to block bn: one in ip->addrs[], then one in   *)
(* each indirect block.                                                    *)
Path(bn) ==
  LET in1 == bn - NDIRECT
      in2 == in1 - NINDIRECT
  IN  CASE in1 < 0 -> <<bn>>
        [] in1 >= 0 /\ in2 < 0 -> <<NDIRECT, in1>>
        [] in2 >= 0 -> <<NDIRECT + 1, in2 \div NINDIRECT, in2 % NINDIRECT>>

(* The file's block bn, 0 if there is none.                                *)
Lookup(ip, bn) ==
  LET p == Path(bn)
      a == addrs[ip][p[1]]
      b == IF a = 0 THEN 0 ELSE data[a][p[2]]
  IN  CASE Len(p) = 1 -> a
        [] Len(p) = 2 -> b
        [] Len(p) = 3 -> IF b = 0 THEN 0 ELSE data[b][p[3]]

-----------------------------------------------------------------------------
(* The blocks allocated once n[ip] blocks of every file ip were written:   *)
(* one for every prefix of a path.                                         *)
Allocated(n) ==
  UNION {{<<ip, x>> : x \in Prefixes(Path(bn)) \ {<<>>}} :
           <<ip, bn>> \in {y \in Inode \X (0..MAXFILE) : y[2] < n[y[1]]}}
First(x) == Min({bn \in 0..(MAXFILE - 1) : IsPrefix(x, Path(bn))})
(* The order in which they were, file by file and block by block.          *)
Earlier(y, z) ==
  \/ y[1] < z[1]
  \/ y[1] = z[1] /\ First(y[2]) < First(z[2])
  \/ y[1] = z[1] /\ First(y[2]) = First(z[2]) /\ Len(y[2]) < Len(z[2])

(* The metadata blocks are in use, as mkfs leaves them (external), and     *)
(* each file holds some blocks, written to an empty disk.                  *)
Init ==
  \E n \in [Inode -> 0..MAXFILE] :
    LET nodes == Allocated(n)
        no == [z \in nodes |-> NMETA + Cardinality({y \in nodes : Earlier(y, z)})]
        at(ip, x) == IF <<ip, x>> \in nodes THEN no[<<ip, x>>] ELSE 0
        of(b) == CHOOSE z \in nodes : no[z] = b
        content(z) == IF z[2] = Path(First(z[2])) THEN Junk
                      ELSE [i \in Entries |-> at(z[1], Append(z[2], i))]
    IN  /\ NMETA + Cardinality(nodes) <= SIZE
        /\ \A ip \in Inode : n[ip] <= MaxBlocks[ip]
        /\ used = 0..(NMETA + Cardinality(nodes) - 1)
        /\ data = [b \in Block |-> IF b \in Range(no) THEN content(of(b)) ELSE Zero]
        /\ addrs = [ip \in Inode |-> [s \in Slots |-> at(ip, <<s>>)]]
        /\ size = n
        /\ dinode = [ip \in Inode |-> [addrs |-> addrs[ip], size |-> n[ip]]]
        /\ op = [p \in Proc |-> Idle]
        /\ calls = 0
        /\ panicked = FALSE

(* readi() and writei() up to the loop, with the inode locked.  An offset  *)
(* past the end, or a write past MAXFILE, returns at once.                 *)
Start(p, ip, kind, bn, n) ==
  /\ ~Busy(p) /\ ~Locked(ip)
  /\ calls < CALLS /\ calls' = calls + 1
  /\ bn <= size[ip]
  /\ bn + n <= IF kind = "read" THEN size[ip] ELSE MAXFILE
  /\ bn + n <= MaxBlocks[ip]
  /\ SetOp(p, [kind |-> kind, ip |-> ip, bn |-> bn, end |-> bn + n,
               level |-> 1, addr |-> 0, scan |-> -1])
  /\ UNCHANGED <<used, data, addrs, size, dinode, panicked>>

(* bmap() has block a of the current level: return it, fail if there is no *)
(* first-level block, or go down.  Level 0 is "bmap() returned addr".      *)
Descend(w, a) ==
  IF w.level = Len(Path(w.bn)) \/ (a = 0 /\ w.level = 1)
  THEN [w EXCEPT !.level = 0, !.addr = a, !.scan = -1]
  ELSE [w EXCEPT !.level = @ + 1, !.addr = a, !.scan = -1]

Allocating(p) == op[p].kind \in {"read", "write"} /\ op[p].scan >= 0
\* bread() of an indirect block waits while another bmap() has its buffer.
BufHeld(p, b) == \E q \in Proc \ {p} : /\ Allocating(q)
                                       /\ op[q].level > 1 /\ op[q].addr = b

(* Mutant: the last level allocates without looking at the entry.          *)
BmapFresh(p) ==
  LET w == op[p]
      slot == Path(w.bn)[w.level]
      a == IF w.level = 1 THEN addrs[w.ip][slot] ELSE data[w.addr][slot]
  IN  /\ w.kind \in {"read", "write"} /\ w.level > 0 /\ w.scan < 0
      /\ SetOp(p, IF a # 0 /\ w.level < Len(Path(w.bn)) THEN Descend(w, a) ELSE [w EXCEPT !.scan = 0])
      /\ UNCHANGED <<used, data, addrs, size, dinode, calls, panicked>>

(* bmap() reads the entry of its level and calls balloc() if it is 0.      *)
Bmap(p) ==
  LET w == op[p]
      slot == Path(w.bn)[w.level]
      a == IF w.level = 1 THEN addrs[w.ip][slot] ELSE data[w.addr][slot]
  IN  /\ w.kind \in {"read", "write"} /\ w.level > 0 /\ w.scan < 0
      /\ w.level > 1 => ~BufHeld(p, w.addr)
      /\ SetOp(p, IF a # 0 THEN Descend(w, a) ELSE [w EXCEPT !.scan = 0])
      /\ UNCHANGED <<used, data, addrs, size, dinode, calls, panicked>>

(* bzero() of a new block.                                                 *)
Bzero(b) == [data EXCEPT ![b] = Zero]

(* The free blocks whose bits are in the k-th bitmap block.                *)
FreeIn(k) == {b \in Block : b \div BPB = k /\ b \notin used}

(* balloc() searches one bitmap block: mark and zero the first free block, *)
(* and bmap() stores its number; else go on, and give up after the last.   *)
Balloc(p) ==
  LET w == op[p]
      free == FreeIn(w.scan)
      slot == Path(w.bn)[w.level]
      b == Min(free)
  IN  /\ Allocating(p)
      /\ IF free # {}
         THEN /\ used' = used \cup {b}
              /\ data' = IF w.level > 1 /\ b # 0
                         THEN [Bzero(b) EXCEPT ![w.addr] = [@ EXCEPT ![slot] = b]]
                         ELSE Bzero(b)
              /\ addrs' = IF w.level = 1 THEN [addrs EXCEPT ![w.ip][slot] = b] ELSE addrs
              /\ SetOp(p, Descend(w, b))
         ELSE /\ SetOp(p, IF (w.scan + 1) * BPB < SIZE
                          THEN [w EXCEPT !.scan = @ + 1] ELSE Descend(w, 0))
              /\ UNCHANGED <<used, data, addrs>>
      /\ UNCHANGED <<size, dinode, calls, panicked>>

(* Mutant: writei() writes the inode back only when the size changed.      *)
IupdateOnGrowth(ip, s) ==
  IF s = size[ip] THEN dinode ELSE [dinode EXCEPT ![ip] = [addrs |-> addrs[ip], size |-> s]]
(* iupdate(): the in-memory inode is copied to its block.                  *)
Iupdate(ip, s) == [dinode EXCEPT ![ip] = [addrs |-> addrs[ip], size |-> s]]

(* The end of the loop: writei() records the new size and the inode.       *)
Finish(p, bn) ==
  LET ip == op[p].ip
      s == IF bn > size[ip] THEN bn ELSE size[ip]
  IN  /\ SetOp(p, Idle)
      /\ IF op[p].kind = "write"
         THEN size' = [size EXCEPT ![ip] = s] /\ dinode' = Iupdate(ip, s)
         ELSE UNCHANGED <<size, dinode>>

(* The rest of an iteration of readi() or writei(), after bmap(): leave    *)
(* the loop if it failed, else copy the data; the copy may fail (a bad     *)
(* user address), which leaves the loop too.                               *)
UseBlock(p, copied) ==
  LET w == op[p] IN
  /\ w.kind \in {"read", "write"} /\ w.level = 0
  /\ copied => w.addr # 0
  /\ data' = IF copied /\ w.kind = "write" THEN [data EXCEPT ![w.addr] = Junk] ELSE data
  /\ IF copied /\ w.bn + 1 < w.end
     THEN /\ SetOp(p, [w EXCEPT !.bn = @ + 1, !.level = 1, !.addr = 0])
          /\ UNCHANGED <<size, dinode>>
     ELSE Finish(p, IF copied THEN w.bn + 1 ELSE w.bn)
  /\ UNCHANGED <<used, addrs, calls, panicked>>

-----------------------------------------------------------------------------
(* The arguments of itrunc()'s calls of bfree(), in order.                 *)
NonZero(f, n) == SelectSeq([i \in 1..n |-> f[i - 1]], LAMBDA b : b # 0)
Leaf(a) == NonZero(data[a], NINDIRECT) \o <<a>>

(* Mutant: the data blocks below the single-indirect block are forgotten.  *)
ToFreeShallow(ip) ==
  NonZero(addrs[ip], NDIRECT) \o (IF addrs[ip][NDIRECT] = 0 THEN <<>> ELSE <<addrs[ip][NDIRECT]>>)
(* Every entry of the double-indirect block is followed and freed, also an *)
(* entry that is 0.                                                        *)
ToFree(ip) ==
  LET one == addrs[ip][NDIRECT]
      two == addrs[ip][NDIRECT + 1]
  IN  NonZero(addrs[ip], NDIRECT)
      \o (IF one = 0 THEN <<>> ELSE Leaf(one))
      \o (IF two = 0 THEN <<>>
          ELSE FlattenSeq([j \in 1..NINDIRECT |-> Leaf(data[two][j - 1])]) \o <<two>>)

(* Mutant: the number of the double-indirect block is not cleared.         *)
ItruncKeeps(p, ip) ==
  /\ ~Busy(p) /\ ~Locked(ip)
  /\ calls < CALLS /\ calls' = calls + 1
  /\ SetOp(p, [kind |-> "trunc", ip |-> ip, todo |-> ToFree(ip)])
  /\ addrs' = [addrs EXCEPT ![ip] = [NoAddrs EXCEPT ![NDIRECT + 1] = addrs[ip][NDIRECT + 1]]]
  /\ UNCHANGED <<used, data, size, dinode, panicked>>

(* itrunc() begins.  It clears ip->addrs[] as it goes, with the inode      *)
(* locked; here at once.                                                   *)
Itrunc(p, ip) ==
  /\ ~Busy(p) /\ ~Locked(ip)
  /\ calls < CALLS /\ calls' = calls + 1
  /\ SetOp(p, [kind |-> "trunc", ip |-> ip, todo |-> ToFree(ip)])
  /\ addrs' = [addrs EXCEPT ![ip] = NoAddrs]
  /\ UNCHANGED <<used, data, size, dinode, panicked>>

Bfree(p) ==
  LET w == op[p] IN
  /\ w.kind = "trunc" /\ w.todo # <<>>
  /\ IF Head(w.todo) \in used
     THEN /\ used' = used \ {Head(w.todo)}
          /\ SetOp(p, [w EXCEPT !.todo = Tail(@)])
          /\ UNCHANGED panicked
     ELSE panicked' = TRUE /\ UNCHANGED <<used, op>>
  /\ UNCHANGED <<data, addrs, size, dinode, calls>>

(* The end of itrunc(): size = 0 and iupdate().                            *)
Truncated(p) ==
  LET w == op[p] IN
  /\ w.kind = "trunc" /\ w.todo = <<>>
  /\ size' = [size EXCEPT ![w.ip] = 0]
  /\ dinode' = Iupdate(w.ip, 0)
  /\ SetOp(p, Idle)
  /\ UNCHANGED <<used, data, addrs, calls, panicked>>

-----------------------------------------------------------------------------
(* A double-indirect block with an entry that is still 0.                  *)
Partial(ip) ==
  LET two == addrs[ip][NDIRECT + 1]
  IN  two # 0 /\ \E i \in Entries : data[two][i] = 0

FileStep(p) ==
  \/ \E ip \in Inode, kind \in {"read", "write"}, bn \in 0..MAXFILE, n \in 1..MaxWrite :
       Start(p, ip, kind, bn, n)
  \/ Bmap(p) \/ Balloc(p)
  \/ \E copied \in BOOLEAN : UseBlock(p, copied)
  \/ Bfree(p) \/ Truncated(p)

Next == ~panicked /\ \E p \in Proc : FileStep(p) \/ \E ip \in Inode : Itrunc(p, ip)
Spec == Init /\ [][Next]_vars

(* The same system as long as no file with a partly filled double-indirect *)
(* block is truncated: what itrunc() can handle.                           *)
NextWhole ==
  ~panicked /\ \E p \in Proc : \/ FileStep(p)
                               \/ \E ip \in Inode : ~Partial(ip) /\ Itrunc(p, ip)
SpecWhole == Init /\ [][NextWhole]_vars

-----------------------------------------------------------------------------
(* The block numbers a file holds, each as often as it is referred to: in  *)
(* ip->addrs[], in its indirect blocks, or still to be freed by itrunc().  *)
Refs(ip) ==
  LET two == addrs[ip][NDIRECT + 1]
      below(a) == IF a = 0 THEN <<>> ELSE NonZero(data[a], NINDIRECT)
      todo == UNION {{op[p].todo} : p \in {q \in Proc : op[q].kind = "trunc" /\ op[q].ip = ip}}
  IN  NonZero(addrs[ip], NDIRECT + 2) \o below(addrs[ip][NDIRECT]) \o below(two)
      \o (IF two = 0 THEN <<>>
          ELSE FlattenSeq([j \in 1..NINDIRECT |-> below(data[two][j - 1])]))
      \o (IF todo = {} THEN <<>> ELSE CHOOSE s \in todo : TRUE)

RefSet(ip) == ToSet(Refs(ip))

(* No block belongs to two files, or twice to one, as data or as index,    *)
(* and every block a file refers to is marked in use and is not a metadata *)
(* block; two offsets are never mapped to one block (user/bigfile.c: "read *)
(* the wrong data").                                                       *)
NoCrossLink ==
  LET mapped == {x \in Inode \X (0..(MAXFILE - 1)) : Lookup(x[1], x[2]) # 0} IN
  /\ \A ip \in Inode : /\ IsInjective(Refs(ip))
                       /\ RefSet(ip) \subseteq used \ 0..(NMETA - 1)
  /\ \A ip, jp \in Inode : ip # jp => RefSet(ip) \cap RefSet(jp) = {}
  /\ Cardinality({Lookup(x[1], x[2]) : x \in mapped}) = Cardinality(mapped)

(* No block leaks and no metadata block is freed: whatever failed (no      *)
(* space at any level, a bad user address), the blocks in use are the      *)
(* metadata blocks and those the files refer to.  The one exception is a   *)
(* block that bmap() records in block 0, the boot block: after a failed    *)
(* balloc() of a second-level block it goes on to allocate the next level, *)
(* which succeeds if another process has freed a block meanwhile.          *)
NoLeak ==
  ~panicked /\ data[0] = Zero => used = 0..(NMETA - 1) \cup UNION {RefSet(ip) : ip \in Inode}

(* Whenever an inode's lock is free, its copy on disk is up to date, so    *)
(* that iput() may drop the one in memory (bmap() changes addrs[] even     *)
(* where the size does not grow).  And it has no holes, so that readi(),   *)
(* which runs outside a transaction, never makes bmap() allocate; here too *)
(* the exception is a block recorded in block 0: writei() counts it in the *)
(* size, and the file's own map does not lead to it.                       *)
InodeSound ==
  /\ \A ip \in Inode : ~Locked(ip) => dinode[ip] = [addrs |-> addrs[ip], size |-> size[ip]]
  /\ data[0] = Zero =>
       /\ \A ip \in Inode : ~Locked(ip) =>
            \A bn \in 0..(size[ip] - 1) : Lookup(ip, bn) # 0
       /\ \A p \in Proc : Allocating(p) => op[p].kind = "write"

(* A block of a file stays where it is until the file is truncated: what   *)
(* was written at an offset is read back there (user/bigfile.c).           *)
MappingStable ==
  [][\A ip \in Inode : NoAddrs # addrs'[ip] =>
       \A bn \in 0..(MAXFILE - 1) : Lookup(ip, bn) # 0 => Lookup(ip, bn)' = Lookup(ip, bn)]_vars

(* bfree()'s assertion: a block that is freed was in use.                  *)
NoDoubleFree == ~panicked
=============================================================================
