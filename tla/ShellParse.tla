----------------------------- MODULE ShellParse -----------------------------
(***************************************************************************)
(* The shell's parser (user/sh.c): recursive descent over a line of        *)
(* tokens, as gettoken() and peek() cut them from the characters.  A word  *)
(* is named by its place in the line.  A parse is the command and the      *)
(* place reached, or has ok = FALSE where the code calls panic().          *)
(*                                                                         *)
(* Reference(line) says which command a line means in another way, by      *)
(* splitting it at its operators from the outside in.                      *)
(***************************************************************************)
EXTENDS Integers, Sequences, FiniteSets, FiniteSetsExt, SequencesExt

CONSTANT MAXARGS

\* "a" is a word, "+" is >>.
Token == {"a", "<", ">", "+", "|", "&", ";", "(", ")"}
Redirect == {"<", ">", "+"}

(* gettoken() and peek(): the token at i, "end" after the last one.        *)
Tok(ts, i) == IF i > Len(ts) THEN "end" ELSE ts[i]

execcmd(argv) == [type |-> "EXEC", argv |-> argv]
redircmd(c, file, mode) ==
  [type |-> "REDIR", cmd |-> c, file |-> file, mode |-> mode, fd |-> IF mode = "<" THEN 0 ELSE 1]
pipecmd(l, r, at) == [type |-> "PIPE", left |-> l, right |-> r, at |-> at]
listcmd(l, r) == [type |-> "LIST", left |-> l, right |-> r]
backcmd(c) == [type |-> "BACK", cmd |-> c]

Parsed(c, i) == [ok |-> TRUE, cmd |-> c, pos |-> i]
Panic == [ok |-> FALSE, cmd |-> execcmd(<<>>), pos |-> 0]

-----------------------------------------------------------------------------
RECURSIVE parseline(_, _)
RECURSIVE parsepipe(_, _)
RECURSIVE parseredirs(_, _, _)
RECURSIVE Words(_, _, _, _)
RECURSIVE Redirs(_, _, _)
RECURSIVE Ampersands(_, _, _)

(* The redirections from i on, around the command c.                       *)
parseredirs(c, ts, i) ==
  IF Tok(ts, i) \notin Redirect THEN Parsed(c, i)
  ELSE IF Tok(ts, i + 1) # "a" THEN Panic
  ELSE parseredirs(redircmd(c, i + 1, ts[i]), ts, i + 2)

parseblock(ts, i) ==
  LET line == parseline(ts, i + 1) IN
  IF ~line.ok \/ Tok(ts, line.pos) # ")" THEN Panic
  ELSE parseredirs(line.cmd, ts, line.pos + 1)

(* The redirections met on the way go around the command in their order.   *)
Redirs(c, ts, rs) ==
  IF rs = <<>> THEN c ELSE Redirs(redircmd(c, Head(rs) + 1, ts[Head(rs)]), ts, Tail(rs))

(* The loop of parseexec(): argv so far, and the places of redirections.   *)
Words(ts, i, argv, rs) ==
  LET t == Tok(ts, i) IN
  IF t \in Redirect
  THEN IF Tok(ts, i + 1) = "a" THEN Words(ts, i + 2, argv, Append(rs, i)) ELSE Panic
  ELSE IF t \in {"|", ")", "&", ";", "end"} THEN Parsed(Redirs(execcmd(argv), ts, rs), i)
  ELSE IF t # "a" \/ Len(argv) + 1 >= MAXARGS THEN Panic
  ELSE Words(ts, i + 1, Append(argv, i), rs)

parseexec(ts, i) == IF Tok(ts, i) = "(" THEN parseblock(ts, i) ELSE Words(ts, i, <<>>, <<>>)

parsepipe(ts, i) ==
  LET left == parseexec(ts, i) IN
  IF ~left.ok \/ Tok(ts, left.pos) # "|" THEN left
  ELSE LET right == parsepipe(ts, left.pos + 1) IN
       IF right.ok THEN Parsed(pipecmd(left.cmd, right.cmd, left.pos), right.pos) ELSE Panic

Ampersands(c, ts, i) == IF Tok(ts, i) = "&" THEN Ampersands(backcmd(c), ts, i + 1) ELSE Parsed(c, i)

parseline(ts, i) ==
  LET pipe == parsepipe(ts, i)
      left == IF pipe.ok THEN Ampersands(pipe.cmd, ts, pipe.pos) ELSE Panic IN
  IF ~left.ok \/ Tok(ts, left.pos) # ";" THEN left
  ELSE LET right == parseline(ts, left.pos + 1) IN
       IF right.ok THEN Parsed(listcmd(left.cmd, right.cmd), right.pos) ELSE Panic

(* Mutant: what is left of the line is ignored.                            *)
parsecmdLeftovers(ts) == parseline(ts, 1)
parsecmd(ts) ==
  LET line == parseline(ts, 1) IN
  IF line.ok /\ Tok(ts, line.pos) = "end" THEN line ELSE Panic

-----------------------------------------------------------------------------
RECURSIVE Line(_, _, _)
RECURSIVE Pipeline(_, _, _)
RECURSIVE Wrap(_, _, _)

Yes(c) == [ok |-> TRUE, cmd |-> c]
No == [ok |-> FALSE, cmd |-> execcmd(<<>>)]

(* Operators t of ts[a..b] outside parentheses.                            *)
Depth(ts, a, i) ==
  Cardinality({j \in a..i : ts[j] = "("}) - Cardinality({j \in a..i : ts[j] = ")"})
Outer(ts, a, b, t) == {i \in a..b : ts[i] = t /\ Depth(ts, a, i - 1) = 0}

(* The redirections of ts[a..b], and the words that are not their files.   *)
Arrows(ts, a, b) == {i \in a..b : ts[i] \in Redirect}
Args(ts, a, b) == {i \in a..b : ts[i] = "a" /\ i - 1 \notin Arrows(ts, a, b)}
OnlyWords(ts, a, b) ==
  /\ \A i \in a..b : ts[i] = "a" \/ ts[i] \in Redirect
  /\ \A i \in Arrows(ts, a, b) : i < b /\ ts[i + 1] = "a"
InOrder(S) == SetToSortSeq(S, <)
(* The command c with redirections, the first one innermost.               *)
Wrap(c, ts, R) ==
  IF R = {} THEN c ELSE LET i == Max(R) IN redircmd(Wrap(c, ts, R \ {i}), i + 1, ts[i])

Block(ts, a, b) ==
  LET closed == {i \in a..b : Depth(ts, a, i) = 0}
      j == Min(closed)
      inner == Line(ts, a + 1, j - 1) IN
  IF closed = {} \/ ~inner.ok \/ ~OnlyWords(ts, j + 1, b) \/ Args(ts, j + 1, b) # {} THEN No
  ELSE Yes(Wrap(inner.cmd, ts, Arrows(ts, j + 1, b)))
Simple(ts, a, b) ==
  IF a <= b /\ ts[a] = "(" THEN Block(ts, a, b)
  ELSE IF ~OnlyWords(ts, a, b) \/ Cardinality(Args(ts, a, b)) >= MAXARGS THEN No
  ELSE Yes(Wrap(execcmd(InOrder(Args(ts, a, b))), ts, Arrows(ts, a, b)))

Pipeline(ts, a, b) ==
  LET bars == Outer(ts, a, b, "|") IN
  IF bars = {} THEN Simple(ts, a, b)
  ELSE LET i == Min(bars) l == Simple(ts, a, i - 1) r == Pipeline(ts, i + 1, b) IN
       IF l.ok /\ r.ok THEN Yes(pipecmd(l.cmd, r.cmd, i)) ELSE No
(* Every & at the end puts one more backcmd around the pipeline.           *)
Job(ts, a, b) ==
  LET n == Max({k \in 0..(b - a + 1) : \A j \in (b - k + 1)..b : ts[j] = "&"})
      p == Pipeline(ts, a, b - n) IN
  IF p.ok THEN Yes(Ampersands(p.cmd, [i \in 1..n |-> "&"], 1).cmd) ELSE No
Line(ts, a, b) ==
  LET semis == Outer(ts, a, b, ";") IN
  IF semis = {} THEN Job(ts, a, b)
  ELSE LET i == Min(semis) l == Job(ts, a, i - 1) r == Line(ts, i + 1, b) IN
       IF l.ok /\ r.ok THEN Yes(listcmd(l.cmd, r.cmd)) ELSE No

Reference(ts) == Line(ts, 1, Len(ts))
Agrees(ts, parsed) == LET r == Reference(ts) IN parsed.ok = r.ok /\ parsed.cmd = r.cmd
=============================================================================
