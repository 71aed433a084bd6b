----------------------------- MODULE Namespace ------------------------------
(***************************************************************************)
(* Inodes, directories and links (kernel/fs.c), the system calls on path   *)
(* names (kernel/sysfile.c) and the file table (kernel/file.c).            *)
(*                                                                         *)
(* An inode has at most one entry in itable, so the table is a function of *)
(* the inode number.  itable.lock and ftable.lock each cover one step.  An *)
(* inode's sleep lock that is taken, used and released with no other lock  *)
(* awaited in between also covers one step; lock[i] is the holder where it *)
(* is kept longer.  iput(), whose last call frees the inode in several     *)
(* steps, is a queue of references to put, emptied before the call goes    *)
(* on.  Every change of an inode in memory is followed by iupdate() before *)
(* its lock is released.  The content of files is left to BlockMap, their  *)
(* space to dirlink() and writei() failing at any time, and transactions   *)
(* to Log.                                                                 *)
(***************************************************************************)
EXTENDS Integers, Sequences, FiniteSets, FiniteSetsExt

CONSTANTS
  Proc,
  Name,      \* what directory entries are called, other than "." and ".."
  NINODES,   \* sb.ninodes - 1: inodes on disk
  NFILE, NOFILE,
  Path,      \* the paths used; <<"/", ...>> is absolute
  Second,    \* those used for new links and as targets of symbolic links
  Long,      \* those of more than 11 characters
  Op,        \* the system calls used
  OpenMode,  \* the modes sys_open() is called with, but for O_CREATE
  DEPTH,     \* symbolic links that sys_open() follows
  Start,     \* file systems and current directories to start from
  CALLS      \* bound on the number of calls

Mode == {"read", "write", "nofollow"}

ASSUME NamespaceAssumption ==
  /\ NINODES \in Nat \ {0} /\ NFILE \in Nat \ {0} /\ NOFILE \in Nat \ {0}
  /\ DEPTH \in Nat /\ CALLS \in Nat /\ Path \subseteq Seq(Name \cup {"..", "/"}) \ {<<>>}
  /\ Second \subseteq Path /\ Long \subseteq Path /\ OpenMode \subseteq Mode
  /\ Op \subseteq {"open", "creat", "mkdir", "mknod", "symlink", "link", "unlink", "chdir"}

VARIABLES
  disk,      \* inodes on disk, with the entries of directories and the targets of links
  ino,       \* itable
  lock,      \* holder of an inode's lock, or None
  file,      \* ftable
  fd, cwd,   \* p->ofile, p->cwd
  at,        \* where a process is in a call, and the call's variables
  calls,     \* calls left to make (a bound of the model)
  lost,      \* (history) inodes leaked: see LinksExact
  wrecked,   \* the directory whose entries sys_symlink() overwrote, if any
  panicked   \* the inode over which the kernel panicked, if it did

vars == <<disk, ino, lock, file, fd, cwd, at, calls, lost, wrecked, panicked>>

None == 0
ROOTINO == 1
Inum == 1..NINODES
File == 1..NFILE
Type == {"free", "dir", "file", "device", "link"}

NoEntries == [n \in Name \cup {".."} |-> None]
FreeInode == [type |-> "free", nlink |-> 0, ents |-> NoEntries, target |-> <<>>]
NoInode == [ref |-> 0, valid |-> 0, type |-> "free", nlink |-> 0]
NoFile == [ref |-> 0, ip |-> None]

(* call: the system call, mode: of open, arg: its second path; path, w: what *)
(* namex() has left to walk and where it is; name: the last element; ip, dp: *)
(* references held; depth: links followed; puts: iput() to do; free: how far *)
(* iput() has freed the first of them.                                     *)
User == [pc |-> "user", call |-> "none", mode |-> "read", arg |-> <<>>, path |-> <<>>,
         w |-> None, name |-> "..", ip |-> None, dp |-> None, depth |-> 0,
         puts |-> <<>>, free |-> 0]

Init ==
  /\ \E s \in Start : disk = s.disk /\ cwd \in [Proc -> s.cwd]
  /\ ino = [i \in Inum |-> [NoInode EXCEPT !.ref = Cardinality({p \in Proc : cwd[p] = i})]]
  /\ lock = [i \in Inum |-> None]
  /\ file = [f \in File |-> NoFile]
  /\ fd = [p \in Proc |-> [n \in 1..NOFILE |-> None]]
  /\ at = [p \in Proc |-> User]
  /\ calls = CALLS /\ lost = {} /\ wrecked = None /\ panicked = None

-----------------------------------------------------------------------------
(* iget(), ilock(), iupdate(), iput() *)

(* The table with one more reference to i.                                 *)
Iget(t, i) == [t EXCEPT ![i] = IF @.ref = 0 THEN [NoInode EXCEPT !.ref = 1]
                               ELSE [@ EXCEPT !.ref = @ + 1]]
(* What ilock() makes of inode i: read from the disk unless valid.         *)
Load(i) == IF ino[i].valid = 1 THEN ino[i]
           ELSE [ino[i] EXCEPT !.valid = 1, !.type = disk[i].type, !.nlink = disk[i].nlink]
Loaded(i) == [ino EXCEPT ![i] = Load(i)]
(* panic("ilock: no type"); nothing is said of the state after a panic.    *)
PanicIf(i, c) == panicked' = IF c THEN i ELSE None
NoType(i) == ino[i].valid = 0 /\ disk[i].type = "free"
Ilocks(i) == PanicIf(i, NoType(i))
(* Nor is it followed after a directory has been overwritten.              *)
Running == panicked = None /\ wrecked = None
(* p is at l in its call, with nothing left to put.                        *)
Ready(p, l) == Running /\ at[p].pc = l /\ at[p].puts = <<>>
Free(i) == lock[i] = None
IsDir(i) == Load(i).type = "dir"

(* An error return, or the end of a call, with the references s to put.    *)
Return(p, s) == at' = [at EXCEPT ![p] = [User EXCEPT !.puts = s]]

(* Mutant: other references are not looked at.                             *)
LastPutAny(i) == ino[i].valid = 1 /\ ino[i].nlink = 0
LastPut(i) == ino[i].ref = 1 /\ ino[i].valid = 1 /\ ino[i].nlink = 0

Putting(p, k) == Running /\ at[p].puts # <<>> /\ at[p].free = k

(* The count is decremented; an entry with none may be recycled.           *)
IputRef(p) ==
  LET i == Head(at[p].puts) IN
  /\ Putting(p, 3) \/ (Putting(p, 0) /\ ~LastPut(i))
  /\ ino' = [ino EXCEPT ![i] = IF @.ref = 1 THEN NoInode ELSE [@ EXCEPT !.ref = @ - 1]]
  /\ at' = [at EXCEPT ![p].puts = Tail(@), ![p].free = 0]
  /\ lost' = IF LastPut(i) THEN lost \cup {i} ELSE lost
  /\ UNCHANGED <<disk, lock, file, fd, cwd, calls, panicked, wrecked>>

(* acquiresleep(), then itable.lock is released.                           *)
IputLock(p) ==
  LET i == Head(at[p].puts) IN
  /\ Putting(p, 0) /\ LastPut(i) /\ Free(i)
  /\ lock' = [lock EXCEPT ![i] = p]
  /\ at' = [at EXCEPT ![p].free = 1]
  /\ UNCHANGED <<disk, ino, file, fd, cwd, calls, lost, panicked, wrecked>>

(* itrunc(), type 0, iupdate(): from here ialloc() may find the inode.     *)
IputFree(p) ==
  LET i == Head(at[p].puts) IN
  /\ Putting(p, 1)
  /\ disk' = [disk EXCEPT ![i] = FreeInode]
  /\ ino' = [ino EXCEPT ![i].type = "free"]
  /\ lost' = lost \ {i}
  /\ at' = [at EXCEPT ![p].free = 2]
  /\ UNCHANGED <<lock, file, fd, cwd, calls, panicked, wrecked>>

(* Mutant: the entry stays valid.                                          *)
InvalidNot(n) == n
Invalid(n) == [n EXCEPT !.valid = 0]

IputUnlock(p) ==
  LET i == Head(at[p].puts) IN
  /\ Putting(p, 2)
  /\ ino' = [ino EXCEPT ![i] = Invalid(@)]
  /\ lock' = [lock EXCEPT ![i] = None]
  /\ at' = [at EXCEPT ![p].free = 3]
  /\ UNCHANGED <<disk, file, fd, cwd, calls, lost, panicked, wrecked>>

-----------------------------------------------------------------------------
(* namex() *)

(* dirlookup() and the write of an entry by dirlink() and sys_unlink().    *)
Dirlookup(dp, name) == disk[dp].ents[name]
Dirlink(d, dp, name, i) == [d EXCEPT ![dp].ents[name] = i]

Creates == {"creat", "mkdir", "mknod", "symlink"}
(* nameiparent() rather than namei().                                      *)
ToParent(p) == at[p].call \in Creates \cup {"unlink"} \/ (at[p].call = "link" /\ at[p].ip # None)

(* namex() starts on path with the variables a of p's call.                *)
Starts(p, a, path) ==
  LET abs == Head(path) = "/"
      i == IF abs THEN ROOTINO ELSE cwd[p] IN
  /\ ino' = Iget(ino, i)
  /\ at' = [at EXCEPT ![p] = [a EXCEPT !.pc = "walk", !.w = i,
                                       !.path = IF abs THEN Tail(path) ELSE path]]

Call(p, c, path, arg, mode) ==
  /\ Ready(p, "user") /\ calls > 0
  /\ Starts(p, [User EXCEPT !.call = c, !.arg = arg, !.mode = mode], path)
  /\ calls' = calls - 1
  /\ UNCHANGED <<disk, lock, file, fd, cwd, lost, panicked, wrecked>>

(* The second path of sys_link(), the target of a symbolic link.           *)
WalkAgain(p) ==
  /\ Ready(p, "start")
  /\ Starts(p, at[p], at[p].path)
  /\ UNCHANGED <<disk, lock, file, fd, cwd, calls, lost, panicked, wrecked>>

(* namex() returns 0, with references s to put; sys_link() then takes its  *)
(* link back.                                                              *)
WalkReturns0(p, s) ==
  IF at[p].call = "link" /\ at[p].ip # None
  THEN at' = [at EXCEPT ![p].pc = "undo", ![p].w = None, ![p].puts = s]
  ELSE Return(p, s)

WalkEnd(p) ==
  /\ Ready(p, "walk") /\ at[p].path = <<>>
  /\ IF ToParent(p) THEN WalkReturns0(p, <<at[p].w>>)
     ELSE at' = [at EXCEPT ![p].pc = "have", ![p].ip = at[p].w, ![p].w = None]
  /\ UNCHANGED <<disk, ino, lock, file, fd, cwd, calls, lost, panicked, wrecked>>

WalkDown(p) ==
  LET i == at[p].w
      name == Head(at[p].path)
      next == Dirlookup(i, name)
      last == ToParent(p) /\ Len(at[p].path) = 1 IN
  /\ Ready(p, "walk") /\ at[p].path # <<>> /\ Free(i)
  /\ Ilocks(i)
  /\ \/ /\ IsDir(i) /\ last
        /\ at' = [at EXCEPT ![p].pc = "parent", ![p].dp = i, ![p].w = None,
                            ![p].name = name, ![p].path = <<>>]
        /\ ino' = Loaded(i)
     \/ /\ IsDir(i) /\ ~last /\ next # None
        /\ ino' = Iget(Loaded(i), next)
        /\ at' = [at EXCEPT ![p].w = next, ![p].path = Tail(@), ![p].puts = <<i>>]
     \/ /\ ~IsDir(i) \/ (~last /\ next = None)
        /\ ino' = Loaded(i)
        /\ WalkReturns0(p, <<i>>)
  /\ UNCHANGED <<disk, lock, file, fd, cwd, calls, lost, wrecked>>

-----------------------------------------------------------------------------
(* create() *)

WantType(c) == CASE c = "mkdir" -> "dir" [] c = "mknod" -> "device" [] c = "symlink" -> "link"
                 [] OTHER -> "file"
FreeInums == {i \in Inum : disk[i].type = "free"}
(* iupdate() of inode i, whose copy in memory is n.                        *)
Iupdate(d, i, n) == [d EXCEPT ![i].type = n.type, ![i].nlink = n.nlink]

(* The name exists already: the directory is released first.               *)
CreateFound(p) ==
  LET dp == at[p].dp
      i == Dirlookup(dp, at[p].name) IN
  /\ Ready(p, "parent") /\ at[p].call \in Creates /\ Free(dp) /\ i # None
  /\ Ilocks(dp)
  /\ ino' = Iget(Loaded(dp), i)
  /\ at' = [at EXCEPT ![p].pc = "exists", ![p].ip = i, ![p].dp = None, ![p].puts = <<dp>>]
  /\ UNCHANGED <<disk, lock, file, fd, cwd, calls, lost, wrecked>>

(* What create() returns instead of a new inode.                           *)
CreateTakes(c, t) == (c = "creat" /\ t \in {"file", "device"}) \/ c = "symlink"

CreateExists(p) ==
  LET i == at[p].ip IN
  /\ Ready(p, "exists") /\ Free(i)
  /\ Ilocks(i)
  /\ ino' = Loaded(i)
  /\ IF CreateTakes(at[p].call, Load(i).type)
     THEN lock' = [lock EXCEPT ![i] = p] /\ at' = [at EXCEPT ![p].pc = "made"]
     ELSE Return(p, <<i>>) /\ UNCHANGED lock
  /\ UNCHANGED <<disk, file, fd, cwd, calls, lost, wrecked>>

(* ialloc() marks the first free inode; the directory stays locked.        *)
CreateIalloc(p) ==
  LET dp == at[p].dp
      i == Min(FreeInums) IN
  /\ Ready(p, "parent") /\ at[p].call \in Creates /\ Free(dp)
  /\ Ilocks(dp)
  /\ Dirlookup(dp, at[p].name) = None
  /\ ino' = Loaded(dp)
  /\ IF FreeInums = {} THEN Return(p, <<dp>>) /\ UNCHANGED <<disk, lock>>
     ELSE /\ disk' = [disk EXCEPT ![i].type = WantType(at[p].call)]
          /\ lock' = [lock EXCEPT ![dp] = p]
          /\ at' = [at EXCEPT ![p].pc = "alloc", ![p].ip = i]
  /\ UNCHANGED <<file, fd, cwd, calls, lost, wrecked>>

CreateIget(p) ==
  /\ Ready(p, "alloc")
  /\ ino' = Iget(ino, at[p].ip)
  /\ at' = [at EXCEPT ![p].pc = "new"]
  /\ UNCHANGED <<disk, lock, file, fd, cwd, calls, lost, panicked, wrecked>>

(* Entries of the new directory, entry and ".." link in the parent.        *)
CreateNew(p) ==
  LET i == at[p].ip
      dp == at[p].dp
      dir == at[p].call = "mkdir"
      n == [Load(i) EXCEPT !.nlink = 1]
      dn == [ino[dp] EXCEPT !.nlink = IF dir THEN @ + 1 ELSE @]
      d == Iupdate(Iupdate(disk, i, n), dp, dn) IN
  /\ Ready(p, "new") /\ Free(i)
  /\ Ilocks(i)
  /\ disk' = Dirlink(Dirlink(d, i, "..", IF dir THEN dp ELSE None), dp, at[p].name, i)
  /\ ino' = [ino EXCEPT ![i] = n, ![dp] = dn]
  /\ lock' = [lock EXCEPT ![i] = p, ![dp] = None]
  /\ lost' = IF ino[dp].nlink = 0 THEN lost \cup {i, dp} ELSE lost
  /\ at' = [at EXCEPT ![p].pc = "made", ![p].dp = None, ![p].puts = <<dp>>]
  /\ UNCHANGED <<file, fd, cwd, calls, wrecked>>

(* dirlink() fails: the new inode is put first, while dp is still locked.  *)
CreateFails(p) ==
  LET i == at[p].ip
      n == [Load(i) EXCEPT !.nlink = 0] IN
  /\ Ready(p, "new") /\ Free(i)
  /\ Ilocks(i)
  /\ ino' = [ino EXCEPT ![i] = n]
  /\ disk' = Iupdate(disk, i, n)
  /\ at' = [at EXCEPT ![p].pc = "bad", ![p].ip = None, ![p].puts = <<i>>]
  /\ UNCHANGED <<lock, file, fd, cwd, calls, lost, wrecked>>

(* iunlockput(dp) of create() and of sys_unlink() after an error.          *)
Bad(p) ==
  /\ Ready(p, "bad")
  /\ lock' = [lock EXCEPT ![at[p].dp] = None]
  /\ Return(p, <<at[p].dp>>)
  /\ UNCHANGED <<disk, ino, file, fd, cwd, calls, lost, panicked, wrecked>>

-----------------------------------------------------------------------------
(* sys_open(), sys_mkdir(), sys_mknod(), sys_symlink(): what follows create() *)

FreeFiles == {f \in File : file[f].ref = 0}
FreeFds(p) == {n \in 1..NOFILE : fd[p][n] = None}

(* filealloc() and fdalloc() for inode i, whose reference the file takes.  *)
OpenFile(p, i) ==
  IF FreeFiles = {} \/ FreeFds(p) = {}
  THEN Return(p, <<i>>) /\ UNCHANGED <<file, fd>>
  ELSE /\ file' = [file EXCEPT ![Min(FreeFiles)] = [ref |-> 1, ip |-> i]]
       /\ fd' = [fd EXCEPT ![p][Min(FreeFds(p))] = Min(FreeFiles)]
       /\ Return(p, <<>>)

(* sys_symlink() writes a length and its target over whatever create()     *)
(* returned.  A directory loses its "."; a long target goes on (16 bytes)  *)
(* over ".." and the names that follow.  If the second writei() fails a    *)
(* link is left without a target of its own.                               *)
Created(p) ==
  LET i == at[p].ip
      type == disk[i].type
      target(t) == disk' = [disk EXCEPT ![i].target = IF type = "link" THEN t ELSE @] IN
  /\ Ready(p, "made")
  /\ lock' = [lock EXCEPT ![i] = None]
  /\ wrecked' = IF at[p].call = "symlink" /\ type = "dir" /\ at[p].arg \in Long THEN i ELSE None
  /\ \/ /\ at[p].call = "creat" /\ OpenFile(p, i)
        /\ UNCHANGED disk
     \/ /\ at[p].call \in {"mkdir", "mknod"} /\ Return(p, <<i>>)
        /\ UNCHANGED <<disk, file, fd>>
     \/ /\ at[p].call = "symlink" /\ Return(p, <<i>>)
        /\ target(at[p].arg)
        /\ UNCHANGED <<file, fd>>
     \/ /\ at[p].call = "symlink" /\ Return(p, <<i>>)
        /\ UNCHANGED disk \/ target(<<>>)
        /\ UNCHANGED <<file, fd>>
  /\ UNCHANGED <<ino, cwd, calls, lost, panicked>>

-----------------------------------------------------------------------------
(* sys_open() of an existing file, sys_chdir(), sys_close(), sys_dup() *)

TooDeep(p) == at[p].depth >= DEPTH
Follows(p) == Load(at[p].ip).type = "link" /\ ~TooDeep(p) /\ at[p].mode # "nofollow"
(* A directory is refused for writing before links are followed, not after.*)
OpenRefuses(p) == \/ at[p].depth = 0 /\ IsDir(at[p].ip) /\ at[p].mode # "read"
                  \/ Load(at[p].ip).type = "link" /\ TooDeep(p)

AtOpen(p) == Ready(p, "have") /\ at[p].call = "open" /\ Free(at[p].ip)

Open(p) ==
  /\ AtOpen(p) /\ ~Follows(p)
  /\ Ilocks(at[p].ip)
  /\ ino' = Loaded(at[p].ip)
  /\ IF OpenRefuses(p) THEN Return(p, <<at[p].ip>>) /\ UNCHANGED <<file, fd>>
     ELSE OpenFile(p, at[p].ip)
  /\ UNCHANGED <<disk, lock, cwd, calls, lost, wrecked>>

(* A link that has no target, because writei() failed, is read into        *)
(* variables that have no value.                                           *)
OpenFollows(p) ==
  LET i == at[p].ip IN
  /\ AtOpen(p) /\ Follows(p)
  /\ Ilocks(i)
  /\ ino' = Loaded(i)
  /\ \E t \in IF disk[i].target = <<>> THEN Path ELSE {disk[i].target} :
       at' = [at EXCEPT ![p].pc = "start", ![p].path = t, ![p].ip = None,
                        ![p].depth = @ + 1, ![p].puts = <<i>>]
  /\ UNCHANGED <<disk, lock, file, fd, cwd, calls, lost, wrecked>>

Chdir(p) ==
  LET i == at[p].ip IN
  /\ Ready(p, "have") /\ at[p].call = "chdir" /\ Free(i)
  /\ Ilocks(i)
  /\ ino' = Loaded(i)
  /\ IF IsDir(i) THEN Return(p, <<cwd[p]>>) /\ cwd' = [cwd EXCEPT ![p] = i]
     ELSE Return(p, <<i>>) /\ UNCHANGED cwd
  /\ UNCHANGED <<disk, lock, file, fd, calls, lost, wrecked>>

(* Mutant: fileclose() puts the inode at every close.                      *)
LastCloseAny(f) == TRUE
LastClose(f) == file[f].ref = 1

Close(p, n) ==
  LET f == fd[p][n] IN
  /\ Ready(p, "user") /\ f # None /\ calls > 0 /\ calls' = calls - 1
  /\ fd' = [fd EXCEPT ![p][n] = None]
  /\ file' = [file EXCEPT ![f] = IF @.ref = 1 THEN NoFile ELSE [@ EXCEPT !.ref = @ - 1]]
  /\ Return(p, IF LastClose(f) THEN <<file[f].ip>> ELSE <<>>)
  /\ UNCHANGED <<disk, ino, lock, cwd, lost, panicked, wrecked>>

Dup(p, n) ==
  /\ Ready(p, "user") /\ fd[p][n] # None /\ FreeFds(p) # {} /\ calls > 0 /\ calls' = calls - 1
  /\ fd' = [fd EXCEPT ![p][Min(FreeFds(p))] = fd[p][n]]
  /\ file' = [file EXCEPT ![fd[p][n]].ref = @ + 1]
  /\ UNCHANGED <<disk, ino, lock, cwd, at, lost, panicked, wrecked>>

-----------------------------------------------------------------------------
(* sys_link() *)

(* The link is counted before it is made.                                  *)
LinkOld(p) ==
  LET i == at[p].ip
      n == [Load(i) EXCEPT !.nlink = @ + 1] IN
  /\ Ready(p, "have") /\ at[p].call = "link" /\ Free(i)
  /\ Ilocks(i)
  /\ IF IsDir(i) THEN Return(p, <<i>>) /\ ino' = Loaded(i) /\ UNCHANGED disk
     ELSE /\ ino' = [ino EXCEPT ![i] = n]
          /\ disk' = Iupdate(disk, i, n)
          /\ at' = [at EXCEPT ![p].pc = "start", ![p].path = at[p].arg]
  /\ UNCHANGED <<lock, file, fd, cwd, calls, lost, wrecked>>

LinkNew(p) ==
  LET i == at[p].ip
      dp == at[p].dp IN
  /\ Ready(p, "parent") /\ at[p].call = "link" /\ Free(dp)
  /\ Ilocks(dp)
  /\ ino' = Loaded(dp)
  /\ \/ /\ Dirlookup(dp, at[p].name) = None
        /\ disk' = Dirlink(disk, dp, at[p].name, i)
        /\ lost' = IF Load(dp).nlink = 0 THEN lost \cup {i} ELSE lost
        /\ Return(p, <<dp, i>>)
     \/ \* dirlink() finds the name, or no space
        /\ at' = [at EXCEPT ![p].pc = "undo", ![p].dp = None, ![p].puts = <<dp>>]
        /\ UNCHANGED <<disk, lost>>
  /\ UNCHANGED <<lock, file, fd, cwd, calls, wrecked>>

LinkUndo(p) ==
  LET i == at[p].ip
      n == [Load(i) EXCEPT !.nlink = @ - 1] IN
  /\ Ready(p, "undo") /\ Free(i)
  /\ Ilocks(i)
  /\ ino' = [ino EXCEPT ![i] = n]
  /\ disk' = Iupdate(disk, i, n)
  /\ Return(p, <<i>>)
  /\ UNCHANGED <<lock, file, fd, cwd, calls, lost, wrecked>>

-----------------------------------------------------------------------------
(* sys_unlink() *)

(* The directory stays locked while the inode found in it is locked.       *)
UnlinkLookup(p) ==
  LET dp == at[p].dp
      i == Dirlookup(dp, at[p].name) IN
  /\ Ready(p, "parent") /\ at[p].call = "unlink" /\ Free(dp)
  /\ Ilocks(dp)
  /\ IF at[p].name = ".." \/ i = None
     THEN ino' = Loaded(dp) /\ Return(p, <<dp>>) /\ UNCHANGED lock
     ELSE /\ ino' = Iget(Loaded(dp), i)
          /\ lock' = [lock EXCEPT ![dp] = p]
          /\ at' = [at EXCEPT ![p].pc = "child", ![p].ip = i]
  /\ UNCHANGED <<disk, file, fd, cwd, calls, lost, wrecked>>

(* Mutant: files may be in the directory.                                  *)
IsdiremptyNot(i) == TRUE
Isdirempty(i) == \A n \in Name : disk[i].ents[n] = None

UnlinkChild(p) ==
  LET i == at[p].ip
      dp == at[p].dp
      dn == [ino[dp] EXCEPT !.nlink = IF IsDir(i) THEN @ - 1 ELSE @] IN
  /\ Ready(p, "child") /\ Free(i)
  /\ PanicIf(i, NoType(i) \/ Load(i).nlink < 1)
  /\ IF IsDir(i) /\ ~Isdirempty(i)
     THEN /\ ino' = Loaded(i)
          /\ at' = [at EXCEPT ![p].pc = "bad", ![p].ip = None, ![p].puts = <<i>>]
          /\ UNCHANGED <<disk, lock>>
     ELSE /\ disk' = Dirlink(Iupdate(disk, dp, dn), dp, at[p].name, None)
          /\ ino' = [Loaded(i) EXCEPT ![dp] = dn]
          /\ lock' = [lock EXCEPT ![dp] = None, ![i] = p]
          /\ at' = [at EXCEPT ![p].pc = "unlinked", ![p].dp = None, ![p].puts = <<dp>>]
  /\ UNCHANGED <<file, fd, cwd, calls, lost, wrecked>>

Unlinked(p) ==
  LET i == at[p].ip
      n == [ino[i] EXCEPT !.nlink = @ - 1] IN
  /\ Ready(p, "unlinked")
  /\ ino' = [ino EXCEPT ![i] = n]
  /\ disk' = Iupdate(disk, i, n)
  /\ lock' = [lock EXCEPT ![i] = None]
  /\ Return(p, <<i>>)
  /\ UNCHANGED <<file, fd, cwd, calls, lost, panicked, wrecked>>

-----------------------------------------------------------------------------
Iput(p) == IputRef(p) \/ IputLock(p) \/ IputFree(p) \/ IputUnlock(p)
Namex(p) == WalkAgain(p) \/ WalkEnd(p) \/ WalkDown(p)
Create(p) == \/ CreateFound(p) \/ CreateExists(p) \/ CreateIalloc(p) \/ CreateIget(p)
             \/ CreateNew(p) \/ CreateFails(p) \/ Created(p)
InCall(p) == \/ Iput(p) \/ Namex(p) \/ Create(p) \/ Bad(p)
             \/ Open(p) \/ OpenFollows(p) \/ Chdir(p)
             \/ LinkOld(p) \/ LinkNew(p) \/ LinkUndo(p)
             \/ UnlinkLookup(p) \/ UnlinkChild(p) \/ Unlinked(p)

(* Only sys_link() and sys_symlink() have a second path, only sys_open() a mode. *)
Arg(c) == IF c \in {"link", "symlink"} THEN Second ELSE {<<>>}
Modes(c) == IF c = "open" THEN OpenMode ELSE IF c = "creat" THEN {"write"} ELSE {"read"}
Calls(p) ==
  \/ \E c \in Op, path \in Path :
       \E arg \in Arg(c), mode \in Modes(c) : Call(p, c, path, arg, mode)
  \/ \E n \in 1..NOFILE : Close(p, n) \/ Dup(p, n)

Over == ~Running \/ (calls = 0 /\ \A p \in Proc : at[p] = User)
Next == \/ \E p \in Proc : Calls(p) \/ InCall(p)
        \/ Over /\ UNCHANGED vars
Spec == Init /\ [][Next]_vars

-----------------------------------------------------------------------------

(* ip->ref counts the pointers to the entry: open files, current           *)
(* directories and the variables of calls in progress, however the calls   *)
(* interleave and wherever they fail.                                      *)
RefExact ==
  Running => \A i \in Inum :
    ino[i].ref = Cardinality({f \in File : file[f].ip = i})
                 + Cardinality({p \in Proc : cwd[p] = i})
                 + Cardinality({p \in Proc : at[p].w = i})
                 + Cardinality({p \in Proc : at[p].dp = i})
                 + Cardinality({p \in Proc : at[p].ip = i /\ at[p].pc # "alloc"})
                 + Cardinality({q \in Proc \X {1, 2} : q[2] <= Len(at[q[1]].puts)
                                                      /\ at[q[1]].puts[q[2]] = i})

(* The last iput() of an unlinked inode finds its lock free, as the        *)
(* comment in iput() claims.                                               *)
IputNeverBlocks ==
  \A p \in Proc : Putting(p, 0) /\ LastPut(Head(at[p].puts)) => Free(Head(at[p].puts))

(* Links to i: entries in directories, and ".." in its subdirectories that *)
(* have not been removed.                                                  *)
Links(i) ==
  Cardinality({e \in Inum \X Name : disk[e[1]].ents[e[2]] = i})
  + Cardinality({d \in Inum \ lost : disk[d].ents[".."] = i /\ disk[d].nlink > 0})

(* When no call is in progress, nlink is the number of links to an inode,  *)
(* and an inode without links is in use by someone.  Two exceptions, in    *)
(* lost: create() and sys_link() enter an inode in a directory that        *)
(* another process has removed since nameiparent() found it; and iput()    *)
(* does not look at nlink again after freeing an inode, although           *)
(* another process may have allocated, used and unlinked it meanwhile.     *)
(* And nothing is claimed once sys_symlink() has written a long target     *)
(* over the entries of an existing directory (Running), which loses links  *)
(* and may put any inode number in their place.                            *)
LinksExact ==
  (\A p \in Proc : at[p] = User) /\ Running =>
    \A i \in Inum \ lost : disk[i].type # "free" =>
      /\ disk[i].nlink = Links(i)
      /\ disk[i].nlink > 0 \/ ino[i].ref > 0

(* No call panics, and an entry never names a free inode, even while calls *)
(* are in progress: ilock() never meets an inode that is free on disk, and *)
(* sys_unlink() none without links.  The one exception is the ".." of a    *)
(* directory that was removed and is still in use, whose parent was        *)
(* removed and freed after it.  As in LinksExact no directory has been     *)
(* overwritten.                                                            *)
Orphan(d) == disk[d].type = "dir" /\ disk[d].nlink = 0
NoDangling ==
  /\ panicked # None => \E d \in Inum : Orphan(d) /\ disk[d].ents[".."] = panicked
  /\ \A d \in Inum, n \in Name :
       LET i == disk[d].ents[n] IN i # None => disk[i].type # "free" /\ disk[i].nlink > 0
=============================================================================
