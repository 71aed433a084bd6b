------------------------------- MODULE Shell -------------------------------
(***************************************************************************)
(* The shell (user/sh.c): it reads a line, forks a child that parses and   *)
(* runs it, and waits.  runcmd() walks the command: it forks, opens pipes  *)
(* and files, and moves descriptors, until it becomes a program.  A        *)
(* program reads its input to the end ("drain"), writes more than a pipe   *)
(* holds ("spew"), or does neither ("plain").  fork(), pipe(), open() and  *)
(* exec() may fail.  A pipe is named by the place of its | in the line, a  *)
(* file by the place of its name.  Descriptor moves of one process between *)
(* two of its forks are one step.                                          *)
(***************************************************************************)
EXTENDS ShellParse

CONSTANTS
  NPROC,     \* process slots; slot 1 is the shell
  NOFILE,    \* descriptors of a process
  MaxParsed, \* every line of up to so many tokens is parsed,
  MaxTokens, \* every line of up to so many tokens is run,
  Longer     \* and these longer ones

ASSUME ShellAssumption == NPROC \in Nat \ {0, 1} /\ NOFILE \in Nat \ 0..4 /\ MaxTokens \in Nat /\ MaxParsed \in Nat

VARIABLES
  line,    \* the line read, <<>> before
  tree,    \* what parsecmd() makes of it; the child that runs it looks
  read,    \* a line was read
  proc,    \* the processes
  started, \* the programs started, by the place of their name,
  done,    \* and those that ended (history)
  failed   \* a fork(), pipe() or open() failed (history)

vars == <<line, tree, read, proc, started, done, failed>>

Proc == 1..NPROC
Sh == 1
Init1 == 0                      \* the process that adopts orphans
FD == 0..NOFILE - 1
Cd == <<"cd">>                  \* a line that starts with "cd "
UpTo(k) == UNION {[1..n -> Token] : n \in 0..k}
Lines == UpTo(MaxTokens) \cup Longer \cup {Cd}

Obj(o, n) == [o |-> o, n |-> n]
Con == Obj("console", 0)
None == Obj("none", 0)

Free == [pc |-> "free", parent |-> Init1, cmd |-> execcmd(<<>>), fd |-> [f \in FD |-> None],
         p |-> <<0, 0>>]

-----------------------------------------------------------------------------
(* Descriptor tables, as the kernel keeps them: the lowest free one is     *)
(* taken (fdalloc).                                                        *)
Lowest(t) == Min({f \in FD : t[f] = None})
Close(t, f) == [t EXCEPT ![f] = None]
Put(t, obj) == [t EXCEPT ![Lowest(t)] = obj]
Dup(t, f) == Put(t, t[f])
Room(t) == Cardinality({f \in FD : t[f] = None})

(* What both children of a pipe do to their descriptors, and the parent.   *)
LeftEnd(t, p) == Close(Close(Dup(Close(t, 1), p[2]), p[1]), p[2])
\* Mutant: the reader keeps the write end open.
RightEndKept(t, p) == Close(Dup(Close(t, 0), p[1]), p[1])
RightEnd(t, p) == Close(Close(Dup(Close(t, 0), p[1]), p[1]), p[2])
\* Mutant: the parent waits with the read end open.
ParentEndKept(t, p) == Close(t, p[2])
ParentEnd(t, p) == Close(Close(t, p[1]), p[2])

Children(p) == {q \in Proc : proc[q].parent = p /\ proc[q].pc # "free"}
Holds(obj) == \E q \in Proc : \E f \in FD : proc[q].fd[f] = obj

(* exit(): the children go to init, which reaps the dead ones.             *)
Exited(p) ==
  [q \in Proc |->
    CASE q = p /\ proc[p].parent # Init1 -> [Free EXCEPT !.pc = "zombie", !.parent = proc[p].parent]
      [] q = p /\ proc[p].parent = Init1 -> Free
      [] q \in Children(p) /\ proc[q].pc = "zombie" -> Free
      [] q \in Children(p) /\ proc[q].pc # "zombie" -> [proc[q] EXCEPT !.parent = Init1]
      [] OTHER -> proc[q]]

(* fork1(): the child goes on at pc with command c, the parent at next; a  *)
(* failure ends the caller.                                                *)
Fork1(p, pc, c, next) ==
  \/ LET free == {q \in Proc \ {Sh} : proc[q].pc = "free"} IN
     /\ free # {}
     /\ proc' = [proc EXCEPT ![Min(free)] = [proc[p] EXCEPT !.pc = pc, !.cmd = c, !.parent = p],
                             ![p].pc = next]
     /\ UNCHANGED failed
  \/ proc' = Exited(p) /\ failed' = TRUE

(* wait(0): any dead child; it goes on at next.                            *)
Wait(p, next) ==
  /\ \E q \in Children(p) :
       proc[q].pc = "zombie" /\ proc' = [proc EXCEPT ![q] = Free, ![p].pc = next]
  /\ UNCHANGED failed

-----------------------------------------------------------------------------
(* main(): prompt, read a line, fork, wait.                                *)
Getcmd ==
  /\ proc[Sh].pc = "prompt" /\ ~read
  /\ \E l \in Lines :
       /\ line' = l /\ tree' = parsecmd(l)
       /\ proc' = [proc EXCEPT ![Sh].pc = IF l = Cd THEN "prompt" ELSE "fork"]
  /\ read' = TRUE
  /\ UNCHANGED <<started, done, failed>>

Eof ==
  /\ proc[Sh].pc = "prompt" /\ proc' = Exited(Sh)
  /\ UNCHANGED <<line, tree, read, started, done, failed>>

ShFork ==
  /\ proc[Sh].pc = "fork" /\ Fork1(Sh, "parse", execcmd(<<>>), "wait")
  /\ UNCHANGED <<line, tree, read, started, done>>

ShWait ==
  /\ proc[Sh].pc = "wait" /\ Wait(Sh, "prompt")
  /\ UNCHANGED <<line, tree, read, started, done>>

(* parsecmd() in the child; a syntax error ends it.                        *)
Parse(p) ==
  /\ proc[p].pc = "parse"
  /\ proc' = IF tree.ok THEN [proc EXCEPT ![p].pc = "cmd", ![p].cmd = tree.cmd] ELSE Exited(p)
  /\ UNCHANGED <<line, tree, read, started, done, failed>>

-----------------------------------------------------------------------------
(* runcmd(), by the type of the command.                                   *)
At(p, type) == proc[p].pc = "cmd" /\ proc[p].cmd.type = type

Exec(p) ==
  LET argv == proc[p].cmd.argv IN
  /\ At(p, "EXEC")
  /\ \/ argv = <<>> /\ proc' = Exited(p) /\ UNCHANGED <<started, done>>
     \/ /\ argv # <<>> /\ proc' = Exited(p)
        /\ done' = done \cup {argv[1]} /\ UNCHANGED started
     \/ /\ argv # <<>> /\ started' = started \cup {argv[1]} /\ UNCHANGED done
        /\ \E kind \in {"plain"} \cup {k \in {"drain"} : proc[p].fd[0].o = "r"}
                                 \cup {k \in {"spew"} : proc[p].fd[1].o = "w"} :
             proc' = [proc EXCEPT ![p].pc = kind]
  /\ UNCHANGED <<line, tree, read, failed>>

Redir(p) ==
  LET c == proc[p].cmd IN
  /\ At(p, "REDIR")
  /\ \/ /\ proc' = [proc EXCEPT ![p].cmd = c.cmd,
                                ![p].fd = Put(Close(@, c.fd), Obj("file", c.file))]
        /\ UNCHANGED failed
     \/ proc' = Exited(p) /\ failed' = TRUE
  /\ UNCHANGED <<line, tree, read, started, done>>

List(p) ==
  /\ At(p, "LIST") /\ Fork1(p, "cmd", proc[p].cmd.left, "list")
  /\ UNCHANGED <<line, tree, read, started, done>>
\* Mutant: the second command starts at once.
ListWaitNot(p) ==
  /\ proc[p].pc = "list" /\ proc' = [proc EXCEPT ![p].pc = "cmd", ![p].cmd = @.right]
  /\ UNCHANGED <<line, tree, read, started, done, failed>>
ListWait(p) ==
  /\ proc[p].pc = "list"
  /\ \E q \in Children(p) :
       /\ proc[q].pc = "zombie"
       /\ proc' = [proc EXCEPT ![q] = Free, ![p].pc = "cmd", ![p].cmd = @.right]
  /\ UNCHANGED <<line, tree, read, started, done, failed>>

Back(p) ==
  /\ At(p, "BACK") /\ Fork1(p, "cmd", proc[p].cmd.cmd, "exit")
  /\ UNCHANGED <<line, tree, read, started, done>>

PipeOpen(p) ==
  LET t == proc[p].fd
      t1 == Put(t, Obj("r", proc[p].cmd.at))
      t2 == Put(t1, Obj("w", proc[p].cmd.at)) IN
  /\ At(p, "PIPE")
  /\ \/ /\ Room(t) >= 2 /\ UNCHANGED failed
        /\ proc' = [proc EXCEPT ![p].pc = "left", ![p].fd = t2, ![p].p = <<Lowest(t), Lowest(t1)>>]
     \/ proc' = Exited(p) /\ failed' = TRUE
  /\ UNCHANGED <<line, tree, read, started, done>>
PipeLeft(p) ==
  /\ proc[p].pc = "left" /\ Fork1(p, "leftend", proc[p].cmd.left, "right")
  /\ UNCHANGED <<line, tree, read, started, done>>
PipeRight(p) ==
  /\ proc[p].pc = "right" /\ Fork1(p, "rightend", proc[p].cmd.right, "close")
  /\ UNCHANGED <<line, tree, read, started, done>>
Moved(p, pc, t, next) ==
  proc[p].pc = pc /\ proc' = [proc EXCEPT ![p].pc = next, ![p].fd = t, ![p].p = <<0, 0>>]
PipeEnds(p) ==
  LET t == proc[p].fd ends == proc[p].p IN
  /\ \/ Moved(p, "leftend", LeftEnd(t, ends), "cmd")
     \/ Moved(p, "rightend", RightEnd(t, ends), "cmd")
     \/ Moved(p, "close", ParentEnd(t, ends), "wait1")
  /\ UNCHANGED <<line, tree, read, started, done, failed>>
PipeWait(p) ==
  /\ \/ proc[p].pc = "wait1" /\ Wait(p, "wait2")
     \/ proc[p].pc = "wait2" /\ Wait(p, "exit")
  /\ UNCHANGED <<line, tree, read, started, done>>

Exit(p) ==
  /\ proc[p].pc = "exit" /\ proc' = Exited(p)
  /\ UNCHANGED <<line, tree, read, started, done, failed>>

-----------------------------------------------------------------------------
(* A program ends: a reader at the end of its input, when nobody holds the *)
(* write end; a writer when its pipe is read to the end or has no reader.  *)
Ends(p) ==
  LET in == proc[p].fd[0] out == proc[p].fd[1] IN
  CASE proc[p].pc = "drain" -> ~Holds(Obj("w", in.n))
    [] proc[p].pc = "spew" -> \/ ~Holds(Obj("r", out.n))
                              \/ \E q \in Proc : /\ proc[q].pc = "drain"
                                                 /\ proc[q].fd[0] = Obj("r", out.n)
    [] OTHER -> TRUE
Running(p) == proc[p].pc \in {"plain", "drain", "spew"}
End(p) ==
  /\ Running(p) /\ Ends(p)
  /\ proc' = Exited(p) /\ done' = done \cup {proc[p].cmd.argv[1]}
  /\ UNCHANGED <<line, tree, read, started, failed>>

-----------------------------------------------------------------------------
Init ==
  /\ line = <<>> /\ tree = parsecmd(<<>>) /\ read = FALSE /\ failed = FALSE
  /\ started = {} /\ done = {}
  /\ proc = [q \in Proc |->
       IF q = Sh THEN [Free EXCEPT !.pc = "prompt", !.fd = [f \in FD |-> IF f < 3 THEN Con ELSE None]]
       ELSE Free]

Run(p) ==
  \/ Parse(p) \/ Exec(p) \/ Redir(p) \/ List(p) \/ ListWait(p) \/ Back(p)
  \/ PipeOpen(p) \/ PipeLeft(p) \/ PipeRight(p) \/ PipeEnds(p) \/ PipeWait(p)
  \/ Exit(p) \/ End(p)
Progress == ShFork \/ ShWait \/ \E p \in Proc : Run(p)
Next == Getcmd \/ Eof \/ Progress

(* Some process that can run does; the user need not type.                 *)
Spec == Init /\ [][Next]_vars /\ WF_vars(Progress)

-----------------------------------------------------------------------------
RECURSIVE Plumb(_, _, _)
RECURSIVE Fore(_)
RECURSIVE Leaves(_)
RECURSIVE Sequenced(_)

(* Input and output of each program of a command that is given i and o.    *)
Plumb(c, i, o) ==
  CASE c.type = "EXEC" -> IF c.argv = <<>> THEN {} ELSE {<<c.argv[1], i, o>>}
    [] c.type = "REDIR" -> LET f == Obj("file", c.file) IN
                           Plumb(c.cmd, IF c.fd = 0 THEN f ELSE i, IF c.fd = 1 THEN f ELSE o)
    [] c.type = "LIST" -> Plumb(c.left, i, o) \cup Plumb(c.right, i, o)
    [] c.type = "BACK" -> Plumb(c.cmd, i, o)
    [] c.type = "PIPE" -> Plumb(c.left, i, Obj("w", c.at)) \cup Plumb(c.right, Obj("r", c.at), o)

Leaves(c) == {x[1] : x \in Plumb(c, Con, Con)}

(* The programs of a command that is waited for.                           *)
Fore(c) ==
  CASE c.type = "EXEC" -> Leaves(c)
    [] c.type = "REDIR" -> Fore(c.cmd)
    [] c.type \in {"LIST", "PIPE"} -> Fore(c.left) \cup Fore(c.right)
    [] c.type = "BACK" -> {}

Sequenced(c) ==
  CASE c.type = "EXEC" -> TRUE
    [] c.type \in {"REDIR", "BACK"} -> Sequenced(c.cmd)
    [] c.type \in {"LIST", "PIPE"} ->
         /\ Sequenced(c.left) /\ Sequenced(c.right)
         /\ c.type = "LIST" /\ Leaves(c.right) \cap started # {} => Fore(c.left) \subseteq done

-----------------------------------------------------------------------------
(* The recursive descent of parsecmd() accepts exactly the lines that the  *)
(* operators' nesting makes sense of, and builds the command they mean:    *)
(* `;` weakest, then `&`, then `|`, then redirections, in any order with   *)
(* the words.                                                              *)
ParserAgrees == ~read => \A l \in UpTo(MaxParsed) \cup Longer : Agrees(l, parsecmd(l))

(* A program runs with exactly three descriptors: the ends of the pipes    *)
(* and the files its place in the command says, and the console for        *)
(* errors; runcmd() leaves no other pipe end open in it.                   *)
Wired ==
  \A p \in Proc : Running(p) =>
    /\ <<proc[p].cmd.argv[1], proc[p].fd[0], proc[p].fd[1]>> \in Plumb(tree.cmd, Con, Con)
    /\ proc[p].fd[2] = Con
    /\ \A f \in FD \ 0..2 : proc[p].fd[f] = None

(* If no call fails, what follows a `;` starts, and the prompt comes back, *)
(* only after every program before it that is not in the background has    *)
(* ended.                                                                  *)
InTurn ==
  ~failed /\ read /\ line # Cd /\ tree.ok =>
    /\ Sequenced(tree.cmd)
    /\ proc[Sh].pc = "prompt" => Fore(tree.cmd) \subseteq done

(* Whatever fails, the shell that waits for a line comes back to its       *)
(* prompt: no pipe end stays open in a process that waits for the others.  *)
PromptReturns == proc[Sh].pc = "wait" ~> proc[Sh].pc = "prompt"
=============================================================================
