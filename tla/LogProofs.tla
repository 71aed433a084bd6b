----------------------------- MODULE LogProofs ------------------------------
(***************************************************************************)
(* The log, for any number of processes, blocks and contents and any       *)
(* sizes: its invariants, and that it implements the atomic disk, every    *)
(* step of Log being a step of AtomicDisk or a stutter under the mapping   *)
(* AD of module Log.  The facts about finite sets that the reservation     *)
(* rests on are a hypothesis, SetFacts, until SetFactsHold proves them.    *)
(***************************************************************************)
EXTENDS Log, TLAPS

Ops == {p \in Proc : InOp(p)}

(* Types, apart from the bound on outstanding, which follows from Count.   *)
Types ==
  /\ disk \in [Block -> Val]
  /\ logblk \in [1..LOGSIZE -> Val]
  /\ head \in Seq(Block) /\ Len(head) <= LOGSIZE
  /\ cache \in [Block -> Val \cup {NoBuf}]
  /\ pins \in [Block -> Int]
  /\ lh \in Seq(Block) /\ Len(lh) <= LOGSIZE
  /\ committing \in {0, 1}
  /\ phase \in Phase
  /\ tail \in 0..LOGSIZE
  /\ pc \in [Proc -> PC]
  /\ buf \in [Proc -> Block \cup {NoBuf}]
  /\ wrote \in [Proc -> SUBSET Block]
  /\ outstanding = Cardinality(Ops)

(* Where commit() and recovery are, the loop variable, and who runs.       *)
Control ==
  /\ committing = 1 <=> phase \in CommitPhase
  /\ phase \in CommitPhase => Ops = {}
  /\ phase \in RecoveryPhase => \A p \in Proc : pc[p] = "out"
  /\ phase \in {"write_log", "install", "recover"} => tail < Len(lh)
  /\ phase \in {"normal", "write_head", "finish", "read_head"} => tail = 0
  /\ phase \in {"clear", "recover_clear"} => tail = Len(lh)
  /\ phase = "write_head" => lh # <<>>
  /\ phase \in {"finish", "read_head"} => lh = <<>>
  /\ phase = "normal" /\ Ops = {} => lh = <<>>
  /\ \A p \in Proc : pc[p] = "locked" <=> buf[p] \in Block

(* The log space the calls in progress may still use, one token a block.   *)
Credit == {t \in Proc \X (1..MAXOPBLOCKS) :
             InOp(t[1]) /\ t[2] > Cardinality(wrote[t[1]])}

(* begin_op()'s reservation: what is logged and what may still be logged   *)
(* fit in the log together.                                                *)
Count ==
  /\ \A p \in Proc : /\ IsFiniteSet(wrote[p])
                     /\ Cardinality(wrote[p]) <= OPBLOCKS
                     /\ ~InOp(p) => wrote[p] = {}
                     /\ ~Panicked => wrote[p] \subseteq Logged
  /\ Len(lh) + Cardinality(Credit) <= LOGSIZE

Distinct(s) == \A i, j \in DOMAIN s : s[i] = s[j] => i = j

(* What the disk, the log and the buffers hold, by phase.  Until the       *)
(* commit point the on-disk header is empty; after it the header, the log  *)
(* blocks and the transaction in memory agree, and the loop of             *)
(* install_trans() has made the home blocks up to tail equal to their log  *)
(* blocks.  A buffer outside the uninstalled part of the transaction never *)
(* differs from its home block.                                            *)
DInv ==
  /\ Distinct(lh) /\ Distinct(head)
  /\ phase \in {"normal", "panic", "write_log", "write_head", "finish"} => head = <<>>
  /\ phase \in {"install", "clear", "recover", "recover_clear"} =>
       /\ head = lh
       /\ \A i \in DOMAIN lh : i <= tail => disk[lh[i]] = logblk[i]
  /\ phase = "write_log" => \A i \in DOMAIN lh : i <= tail => logblk[i] = cache[lh[i]]
  /\ phase = "write_head" => \A i \in DOMAIN lh : logblk[i] = cache[lh[i]]
  /\ phase = "install" => \A i \in DOMAIN lh : i > tail => logblk[i] = cache[lh[i]]
  /\ ~Panicked => \A b \in Block \ Uninstalled : cache[b] \in {NoBuf, disk[b]}
  /\ PinExact

(* The control part of the inductive invariant, and all of it.             *)
CInv == Types /\ Control /\ Count /\ NoLostWakeup
Inv == CInv /\ DInv

(* What the reservation uses of finite sets; SetFactsHold proves it.       *)
SetFacts ==
  /\ \A S : IsFiniteSet(S) => Cardinality(S) \in Nat /\ (Cardinality(S) = 0 <=> S = {})
  /\ IsFiniteSet({}) /\ Cardinality({}) = 0
  /\ \A S : \A T \in SUBSET S : IsFiniteSet(S) => IsFiniteSet(T) /\ Cardinality(T) <= Cardinality(S)
  /\ \A S, x : IsFiniteSet(S) =>
       /\ IsFiniteSet(S \cup {x})
       /\ Cardinality(S \cup {x}) = IF x \in S THEN Cardinality(S) ELSE Cardinality(S) + 1
  /\ \A S, x : IsFiniteSet(S) =>
       /\ IsFiniteSet(S \ {x})
       /\ Cardinality(S \ {x}) = IF x \in S THEN Cardinality(S) - 1 ELSE Cardinality(S)
  /\ \A S, T : IsFiniteSet(S) /\ IsFiniteSet(T) =>
       IsFiniteSet(S \cup T) /\ Cardinality(S \cup T) <= Cardinality(S) + Cardinality(T)
  /\ \A S : IsFiniteSet(S) => /\ IsFiniteSet(S \X (1..MAXOPBLOCKS))
                             /\ Cardinality(S \X (1..MAXOPBLOCKS)) = Cardinality(S) * MAXOPBLOCKS
  /\ \A x : IsFiniteSet({x}) /\ Cardinality({x}) = 1

-----------------------------------------------------------------------------
USE DEF InOp, SetPc, Panicked

(* bread() finds a content in every buffer.                                *)
LEMMA ViewType == ASSUME Types, NEW b \in Block PROVE View(b) \in Val
BY Zenon DEF Types, View

(* wakeup(&log) makes the sleepers runnable and touches no other process.  *)
LEMMA WakeupType ==
  ASSUME pc \in [Proc -> PC]
  PROVE  /\ Wakeup(pc) \in [Proc -> PC]
         /\ \A p \in Proc :
              /\ Wakeup(pc)[p] # "asleep"
              /\ pc[p] # "asleep" => Wakeup(pc)[p] = pc[p]
              /\ pc[p] = "asleep" => Wakeup(pc)[p] = "woken"
BY Zenon DEF Wakeup, PC

(* A step that moves no call in or out and logs nothing keeps Count.       *)
LEMMA CountFrame ==
  ASSUME Types, Count, UNCHANGED <<lh, wrote>>, (Panicked => Panicked'),
         \A p \in Proc : InOp(p)' <=> InOp(p)
  PROVE  Count'
<1>1. Credit' = Credit
  BY Zenon DEF Credit
<1>2. Logged' = Logged
  BY Zenon DEF Logged
<1> QED BY <1>1, <1>2, Zenon DEF Count

(* The lengths of the two headers are natural numbers.                     *)
LEMMA LenNat == Types => Len(lh) \in Nat /\ Len(head) \in Nat
BY DEF Types

(* A step that moves no process leaves the same calls in progress.         *)
LEMMA SamePc == pc' = pc => Ops' = Ops
BY Zenon DEF Ops

-----------------------------------------------------------------------------
(* The reservation of log space.                                           *)

(* The cardinality of a finite set is a number, 0 for the empty set alone. *)
LEMMA CardNat ==
  ASSUME SetFacts, NEW S, IsFiniteSet(S) PROVE Cardinality(S) \in Nat
BY Zenon DEF SetFacts

(* The empty set is finite, and the only one with no elements.             *)
LEMMA CardEmpty ==
  ASSUME SetFacts
  PROVE  /\ IsFiniteSet({}) /\ Cardinality({}) = 0
         /\ \A S : IsFiniteSet(S) => (Cardinality(S) = 0 <=> S = {})
BY Zenon DEF SetFacts

(* A subset of a finite set is finite and no larger.                       *)
LEMMA CardSubset ==
  ASSUME SetFacts, NEW S, IsFiniteSet(S), NEW T \in SUBSET S
  PROVE  IsFiniteSet(T) /\ Cardinality(T) <= Cardinality(S)
BY Zenon DEF SetFacts

(* Putting an element in and taking one out.                               *)
LEMMA CardAdd ==
  ASSUME SetFacts, NEW S, NEW x, IsFiniteSet(S)
  PROVE  /\ IsFiniteSet(S \cup {x})
         /\ Cardinality(S \cup {x}) = IF x \in S THEN Cardinality(S) ELSE Cardinality(S) + 1
BY Zenon DEF SetFacts

(* An element taken away takes one from the size.                          *)
LEMMA CardRemove ==
  ASSUME SetFacts, NEW S, NEW x, IsFiniteSet(S)
  PROVE  /\ IsFiniteSet(S \ {x})
         /\ Cardinality(S \ {x}) = IF x \in S THEN Cardinality(S) - 1 ELSE Cardinality(S)
BY Zenon DEF SetFacts

(* The tokens of a set of calls, and of one more call.                     *)
LEMMA CardTokens ==
  ASSUME SetFacts
  PROVE  /\ \A S : IsFiniteSet(S) => /\ IsFiniteSet(S \X (1..MAXOPBLOCKS))
                                     /\ Cardinality(S \X (1..MAXOPBLOCKS)) = Cardinality(S) * MAXOPBLOCKS
         /\ \A x : IsFiniteSet({x}) /\ Cardinality({x}) = 1
BY Zenon DEF SetFacts

(* A union has no more elements than its parts.                            *)
LEMMA CardUnion ==
  ASSUME SetFacts, NEW S, IsFiniteSet(S), NEW T, IsFiniteSet(T)
  PROVE  IsFiniteSet(S \cup T) /\ Cardinality(S \cup T) <= Cardinality(S) + Cardinality(T)
BY Zenon DEF SetFacts

(* The calls between begin_op() and end_op() are finitely many.            *)
LEMMA OpsFinite ==
  ASSUME SetFacts
  PROVE
  /\ IsFiniteSet(Proc) /\ Cardinality(Proc) \in Nat
  /\ IsFiniteSet(Ops) /\ Cardinality(Ops) \in 0..Cardinality(Proc)
<1>1. IsFiniteSet(Proc) /\ Cardinality(Proc) \in Nat
  BY ProcAssumption, CardNat, Zenon
<1>2. Ops \in SUBSET Proc
  BY Zenon DEF Ops
<1>3. IsFiniteSet(Ops) /\ Cardinality(Ops) <= Cardinality(Proc)
  BY <1>1, <1>2, CardSubset, Zenon
<1>4. Cardinality(Ops) \in Nat
  BY <1>3, CardNat, Zenon
<1> QED BY <1>1, <1>3, <1>4

(* At power-on the types hold and recover_from_log() is about to start.    *)
LEMMA InitTypesControl == SetFacts /\ Init => Types /\ Control
<1> SUFFICES ASSUME SetFacts, Init PROVE Types /\ Control
  BY Zenon
<1>1. Ops = {}
  BY Zenon DEF Init, Ops
<1>2. outstanding = Cardinality(Ops)
  BY <1>1, CardEmpty, Zenon DEF Init
<1>3. <<>> \in Seq(Block) /\ Len(<<>>) = 0
  OBVIOUS
<1>4. Types
  BY <1>2, <1>3, SizeAssumption DEF Init, Types, Phase, RecoveryPhase, CommitPhase, PC
<1>5. Control
  BY <1>1, <1>3, NoBufAssumption DEF Init, Control, RecoveryPhase, CommitPhase
<1> QED BY <1>4, <1>5, Zenon

(* begin_op() keeps the types and the control facts.                       *)
LEMMA BeginOpTypesControl ==
  ASSUME SetFacts, Types, Control, ~Panicked, NEW p \in Proc, BeginOp(p)
  PROVE  Types' /\ Control'
<1> USE DEF BeginOp, durable
<1>1. CASE MustWait
  <2>1. Ops' = Ops
    BY <1>1, Zenon DEF Types, Ops
  <2> QED BY <1>1, <2>1, Zenon DEF Types, Control, PC, RecoveryPhase
<1>2. CASE ~MustWait
  <2>1. Cardinality(Ops') = Cardinality(Ops) + 1
    <3>1. Ops' = Ops \cup {p} /\ p \notin Ops
      BY <1>2, Zenon DEF Types, Ops
    <3> QED BY <3>1, OpsFinite, CardAdd, Zenon
  <2>2. phase = "normal"
    BY <1>2, Zenon DEF MustWait, Control, Types, Phase, Panicked
  <2>3. Ops' # {}
    BY <1>2, Zenon DEF Types, Ops
  <2>4. Types'
    BY <1>2, <2>1, Zenon DEF Types, PC
  <2>5. \A q \in Proc : pc'[q] = "locked" <=> pc[q] = "locked"
    BY <1>2, Zenon DEF Types
  <2> QED BY <2>2, <2>3, <2>4, <2>5, Zenon DEF Control, RecoveryPhase, CommitPhase
<1> QED BY <1>1, <1>2, Zenon

(* end_op() keeps the types and the control facts: the commit it starts    *)
(* finds no call in progress.                                              *)
LEMMA EndOpTypesControl ==
  ASSUME SetFacts, Types, Control, ~Panicked, NEW p \in Proc, EndOp(p)
  PROVE  Types' /\ Control'
<1> USE DEF EndOp, durable
<1>1. p \in Ops
  BY Zenon DEF Ops
<1>2. phase = "normal" /\ committing = 0
  BY <1>1, Zenon DEF Control, Types, Phase, RecoveryPhase, CommitPhase, Ops, Panicked
<1>3. Ops' = Ops \ {p} /\ Cardinality(Ops') = Cardinality(Ops) - 1
  <2>1. Ops' = Ops \ {p}
    <3>1. CASE outstanding = 1
      BY <1>2, <3>1 DEF Types, Ops
    <3>2. CASE outstanding # 1
      <4>1. pc' = [Wakeup(pc) EXCEPT ![p] = "out"]
        BY <1>2, <3>2
      <4>2. \A q \in Proc : InOp(q)' <=> (InOp(q) /\ q # p)
        BY <4>1, Zenon DEF Types, Wakeup
      <4> QED BY <4>2, Zenon DEF Ops
    <3> QED BY <3>1, <3>2, Zenon
  <2> QED BY <1>1, <2>1, OpsFinite, CardRemove, Zenon
<1>4. (Ops' = {}) <=> (outstanding = 1)
  <2>1. Cardinality(Ops') = 0 <=> Ops' = {}
    BY <1>3, OpsFinite, CardRemove, CardEmpty, Zenon
  <2> QED BY <2>1, <1>3, OpsFinite DEF Types
<1>5. Types'
  BY <1>2, <1>3, WakeupType, Zenon DEF Types, CommitStart, Phase, CommitPhase, PC
<1>6. Control'
  <2>0. lh # <<>> => 0 < Len(lh)
    BY DEF Types
  <2>1. CASE outstanding = 1
    <3>1. phase' \in CommitPhase /\ committing' = 1 /\ Ops' = {}
      BY <1>2, <1>4, <2>1 DEF CommitStart, CommitPhase
    <3>2. \A q \in Proc : pc'[q] = "locked" <=> buf'[q] \in Block
      BY <1>2, <2>1, Zenon DEF Types, Control
    <3>3. \/ phase' = "finish" /\ lh' = <<>> /\ tail' = 0
          \/ phase' = "write_log" /\ tail' = 0 /\ 0 < Len(lh')
      BY <1>2, <2>0, <2>1 DEF CommitStart, Control
    <3> QED BY <3>1, <3>2, <3>3, Zenon DEF Control, RecoveryPhase
  <2>2. CASE outstanding # 1
    <3>1. phase' = "normal" /\ committing' = committing /\ Ops' # {} /\ tail' = tail
      BY <1>2, <1>4, <2>2
    <3>2. \A q \in Proc : pc'[q] = "locked" <=> buf'[q] \in Block
      <4> TAKE q \in Proc
      <4>1. pc'[q] = "locked" <=> pc[q] = "locked"
        BY <1>2, <2>2, Zenon DEF Types, Wakeup
      <4> QED BY <4>1, Zenon DEF Control
    <3> QED BY <1>2, <3>1, <3>2, Zenon DEF Control, RecoveryPhase, CommitPhase
  <2> QED BY <2>1, <2>2, Zenon
<1> QED BY <1>2, <1>5, <1>6, Zenon

(* A crash re-establishes the types and the control facts of power-on.     *)
LEMMA CrashTypesControl ==
  ASSUME SetFacts, Types, Control, Crash
  PROVE  Types' /\ Control'
<1>1. <<>> \in Seq(Block) /\ Len(<<>>) = 0
  OBVIOUS
<1>2. Ops' = {}
  BY Zenon DEF Crash, Ops
<1>3. outstanding' = Cardinality(Ops')
  BY <1>2, CardEmpty, Zenon DEF Crash
<1>4. Types'
  BY <1>1, <1>3, SizeAssumption DEF Types, Crash, durable, Phase, RecoveryPhase, PC
<1>5. Control'
  BY <1>1, <1>2, NoBufAssumption DEF Control, Crash, durable, RecoveryPhase, CommitPhase
<1> QED BY <1>4, <1>5, Zenon

(* The credit of the calls in progress is at most what was reserved.       *)
LEMMA CreditFinite ==
  ASSUME SetFacts, Types
  PROVE  /\ IsFiniteSet(Credit) /\ Cardinality(Credit) \in Nat
         /\ Cardinality(Credit) <= outstanding * MAXOPBLOCKS
<1>2. /\ IsFiniteSet(Ops \X (1..MAXOPBLOCKS))
      /\ Cardinality(Ops \X (1..MAXOPBLOCKS)) = outstanding * MAXOPBLOCKS
  BY OpsFinite, CardTokens, Zenon DEF Types
<1>3. Credit \in SUBSET (Ops \X (1..MAXOPBLOCKS))
  BY Zenon DEF Credit, Ops
<1> QED BY <1>2, <1>3, CardSubset, CardNat, Zenon

(* A smaller set of tokens has a smaller cardinality.                      *)
LEMMA CreditShrinks ==
  ASSUME SetFacts, Types, Credit' \subseteq Credit
  PROVE  Cardinality(Credit') \in Nat /\ Cardinality(Credit') <= Cardinality(Credit)
BY CreditFinite, CardSubset, CardNat, Zenon

(* begin_op() keeps the reservation: it admits a call only if MAXOPBLOCKS  *)
(* more blocks fit.                                                        *)
LEMMA BeginOpCount ==
  ASSUME SetFacts, Types, Control, Count, NEW p \in Proc, BeginOp(p), ~Panicked
  PROVE  Count'
<1>0. UNCHANGED <<lh, wrote, phase>>
  BY Zenon DEF BeginOp
<1>1. CASE MustWait
  <2>1. \A q \in Proc : InOp(q)' <=> InOp(q)
    BY <1>1, Zenon DEF BeginOp, Types
  <2> QED BY <1>0, <2>1, CountFrame, Zenon DEF Panicked
<1>2. CASE ~MustWait
  <2> DEFINE New == {p} \X (1..MAXOPBLOCKS)
  <2>1. Credit' \subseteq Credit \cup New
    BY <1>0, <1>2 DEF BeginOp, Types, Credit
  <2>2. IsFiniteSet(New) /\ Cardinality(New) = MAXOPBLOCKS
    <3>1. IsFiniteSet(New) /\ Cardinality(New) = 1 * MAXOPBLOCKS
      BY CardTokens, Zenon
    <3> QED BY <3>1, SizeAssumption
  <2>3. IsFiniteSet(Credit \cup New) /\ Cardinality(Credit \cup New) <= Cardinality(Credit) + MAXOPBLOCKS
    <3> HIDE DEF New
    <3>1. /\ IsFiniteSet(Credit \cup New)
          /\ Cardinality(Credit \cup New) <= Cardinality(Credit) + Cardinality(New)
      BY <2>2, CreditFinite, CardUnion, Zenon
    <3> QED BY <3>1, <2>2, Zenon
  <2>4. Cardinality(Credit') \in Nat /\ Cardinality(Credit') <= Cardinality(Credit) + MAXOPBLOCKS
    <3> HIDE DEF New
    <3>1. Cardinality(Credit') \in Nat /\ Cardinality(Credit') <= Cardinality(Credit \cup New)
      BY <2>1, <2>3, CardSubset, CardNat, Zenon
    <3>2. Cardinality(Credit \cup New) \in Nat
      BY <2>3, CardNat, Zenon
    <3> QED BY <2>3, <3>1, <3>2, CreditFinite, SizeAssumption
  <2>5. Len(lh) + (outstanding + 1) * MAXOPBLOCKS <= LOGSIZE
    <3>1. outstanding \in Nat
      BY OpsFinite DEF Types
    <3> QED BY <1>2, <3>1, LenNat, SizeAssumption DEF MustWait, NoSpace
  <2>6. (outstanding + 1) * MAXOPBLOCKS = outstanding * MAXOPBLOCKS + MAXOPBLOCKS
    BY OpsFinite, SizeAssumption DEF Types
  <2>7. outstanding * MAXOPBLOCKS \in Nat
    BY OpsFinite, SizeAssumption DEF Types
  <2>8. Len(lh) + Cardinality(Credit') <= LOGSIZE
    BY <2>4, <2>5, <2>6, <2>7, CreditFinite, LenNat, SizeAssumption
  <2>9. \A q \in Proc : ~InOp(q)' => ~InOp(q)
    BY <1>2, Zenon DEF BeginOp, Types
  <2>10. Logged' = Logged /\ Len(lh') = Len(lh)
    BY <1>0, Zenon DEF Logged
  <2> QED BY <1>0, <2>8, <2>9, <2>10, Zenon DEF Count, Panicked
<1> QED BY <1>1, <1>2, Zenon

(* log_write() keeps the reservation: a block it appends costs the call    *)
(* one token.                                                              *)
LEMMA LogWriteCount ==
  ASSUME SetFacts, Types, Control, Count, ~Panicked, NEW p \in Proc, NEW v \in Val, LogWrite(p, v)
  PROVE  Count'
<1> DEFINE b == buf[p]
           c == Cardinality(wrote[p])
           d == Cardinality(wrote[p] \cup {b})
<1>1. wrote' = [wrote EXCEPT ![p] = @ \cup {b}] /\ pc' = pc /\ InOp(p)
  BY Zenon DEF LogWrite
<1>2. IsFiniteSet(wrote[p]) /\ c \in Nat /\ c <= OPBLOCKS
  BY CardNat, Zenon DEF Count
<1>3. IsFiniteSet(wrote[p] \cup {b}) /\ d = (IF b \in wrote[p] THEN c ELSE c + 1)
  BY <1>2, CardAdd, Zenon
<1>4. d <= OPBLOCKS
  BY Zenon DEF LogWrite, WithinBudget
<1>5. \A q \in Proc : q # p => wrote'[q] = wrote[q]
  BY <1>1, Zenon DEF Types
<1>6. wrote'[p] = wrote[p] \cup {b}
  BY <1>1, Zenon DEF Types
<1>7. \A q \in Proc : /\ IsFiniteSet(wrote'[q]) /\ Cardinality(wrote'[q]) <= OPBLOCKS
                      /\ ~InOp(q)' => wrote'[q] = {}
  <2> TAKE q \in Proc
  <2>1. CASE q = p
    BY <2>1, <1>1, <1>3, <1>4, <1>6, Zenon
  <2>2. CASE q # p
    BY <2>2, <1>1, <1>5, Zenon DEF Count
  <2> QED BY <2>1, <2>2, Zenon
<1>8. \A q \in Proc : wrote[q] \subseteq Logged
  BY Zenon DEF Count
<1>9. lh \in Seq(Block) /\ b \in Block
  BY Zenon DEF Types, Control, LogWrite
<1> HIDE DEF c, d, b
<1>10. Credit' \subseteq Credit
  BY <1>1, <1>2, <1>3, <1>5, <1>6 DEF Credit, c, d
<1>11. CASE lh' = lh /\ (Panicked' \/ b \in Logged)
  <2>1. Logged' = Logged /\ Len(lh') = Len(lh)
    BY <1>11, Zenon DEF Logged
  <2>2. \A q \in Proc : ~Panicked' => wrote'[q] \subseteq Logged'
    <3> TAKE q \in Proc
    <3>1. CASE q = p
      BY <3>1, <1>6, <1>8, <1>11, <2>1, Zenon
    <3>2. CASE q # p
      BY <3>2, <1>5, <1>8, <2>1, Zenon
    <3> QED BY <3>1, <3>2, Zenon
  <2>3. Len(lh') + Cardinality(Credit') <= LOGSIZE
    BY <1>10, <2>1, CreditShrinks, CreditFinite, LenNat, SizeAssumption DEF Count
  <2> QED BY <1>7, <2>2, <2>3, Zenon DEF Count
<1>12. CASE b \notin Logged /\ lh' = Append(lh, b)
  <2>1. Logged' = Logged \cup {b}
    <3>1. \A i \in 1..Len(lh) : lh'[i] = lh[i]
      BY <1>9, <1>12
    <3>2. lh'[Len(lh) + 1] = b /\ DOMAIN lh' = 1..(Len(lh) + 1) /\ DOMAIN lh = 1..Len(lh)
      BY <1>9, <1>12
    <3> QED BY <3>1, <3>2, <1>9 DEF Logged
  <2>2. Len(lh') = Len(lh) + 1
    BY <1>9, <1>12
  <2>3. d = c + 1
    BY <1>3, <1>8, <1>12, Zenon
  <2>4. <<p, c + 1>> \in Credit
    BY <1>1, <1>2, <1>4, <2>3, SizeAssumption DEF Credit, c
  <2>5. Credit' \subseteq Credit \ {<<p, c + 1>>}
    <3>1. Cardinality(wrote'[p]) = c + 1
      BY <1>6, <2>3, Zenon DEF d
    <3>2. <<p, c + 1>> \notin Credit'
      BY <1>2, <3>1 DEF Credit
    <3> QED BY <1>10, <3>2, Zenon
  <2>6. Cardinality(Credit') <= Cardinality(Credit) - 1 /\ Cardinality(Credit') \in Nat
    <3>1. /\ IsFiniteSet(Credit \ {<<p, c + 1>>})
          /\ Cardinality(Credit \ {<<p, c + 1>>}) = Cardinality(Credit) - 1
      BY <2>4, CreditFinite, CardRemove, Zenon
    <3> QED BY <2>5, <3>1, CardSubset, CardNat, Zenon
  <2>7. Len(lh') + Cardinality(Credit') <= LOGSIZE
    BY <2>2, <2>6, CreditFinite, LenNat, SizeAssumption, SMTT(30) DEF Count
  <2>8. \A q \in Proc : wrote'[q] \subseteq Logged'
    <3> TAKE q \in Proc
    <3>1. CASE q = p
      BY <3>1, <1>6, <1>8, <2>1, Zenon
    <3>2. CASE q # p
      BY <3>2, <1>5, <1>8, <2>1, Zenon
    <3> QED BY <3>1, <3>2, Zenon
  <2> QED BY <1>7, <2>7, <2>8, Zenon DEF Count
<1>13. (lh' = lh /\ (Panicked' \/ b \in Logged)) \/ (b \notin Logged /\ lh' = Append(lh, b))
  BY Zenon DEF LogWrite, Absorbed, Panicked, b
<1> QED BY <1>11, <1>12, <1>13, Zenon

(* end_op() keeps the reservation: it returns the tokens the call did not  *)
(* use.                                                                    *)
LEMMA EndOpCount ==
  ASSUME SetFacts, Types, Control, Count, ~Panicked, NEW p \in Proc, EndOp(p)
  PROVE  Count'
<1>1. committing = 0 /\ phase = "normal"
  BY Zenon DEF Types, Control, Phase, RecoveryPhase, CommitPhase, Ops, Panicked, EndOp
<1>2. \A q \in Proc : InOp(q)' <=> (InOp(q) /\ q # p)
  <2>1. CASE outstanding = 1
    BY <1>1, <2>1 DEF Types, EndOp
  <2>2. CASE outstanding # 1
    <3>1. pc' = [Wakeup(pc) EXCEPT ![p] = "out"]
      BY <1>1, <2>2 DEF EndOp
    <3> QED BY <3>1, Zenon DEF Types, Wakeup
  <2> QED BY <2>1, <2>2, Zenon
<1>3. \A q \in Proc : wrote'[q] = IF q = p THEN {} ELSE wrote[q]
  BY Zenon DEF EndOp, Types
<1>4. lh' = lh /\ Logged' = Logged
  BY Zenon DEF EndOp, Logged
<1>5. Credit' \subseteq Credit
  BY <1>2, <1>3, Zenon DEF Credit
<1>6. Len(lh') + Cardinality(Credit') <= LOGSIZE
  BY <1>4, <1>5, CreditShrinks, CreditFinite, LenNat, SizeAssumption DEF Count
<1>7. \A q \in Proc : /\ IsFiniteSet(wrote'[q]) /\ Cardinality(wrote'[q]) <= OPBLOCKS
                      /\ ~InOp(q)' => wrote'[q] = {}
                      /\ ~Panicked' => wrote'[q] \subseteq Logged'
  <2> TAKE q \in Proc
  <2>1. CASE q = p
    BY <2>1, <1>3, CardEmpty, SizeAssumption
  <2>2. CASE q # p
    BY <2>2, <1>2, <1>3, <1>4, Zenon DEF Count
  <2> QED BY <2>1, <2>2, Zenon
<1> QED BY <1>6, <1>7, Zenon DEF Count

(* Steps taken while no call is in progress: Count only bounds the log.    *)
LEMMA QuietCount ==
  ASSUME SetFacts, Types', \A p \in Proc : ~InOp(p)' /\ wrote'[p] = {}
  PROVE  Count'
<1>1. Credit' = {}
  BY Zenon DEF Credit
<1>2. Cardinality(Credit') = 0
  BY <1>1, CardEmpty, Zenon
<1>3. Len(lh') \in Nat /\ Len(lh') <= LOGSIZE
  BY DEF Types
<1>4. IsFiniteSet({}) /\ Cardinality({}) <= OPBLOCKS
  BY CardEmpty, SizeAssumption
<1>5. Len(lh') + Cardinality(Credit') <= LOGSIZE
  BY <1>2, <1>3, SizeAssumption
<1>6. \A p \in Proc : /\ IsFiniteSet(wrote'[p]) /\ Cardinality(wrote'[p]) <= OPBLOCKS
                      /\ ~InOp(p)' => wrote'[p] = {}
                      /\ wrote'[p] \subseteq Logged'
  BY <1>4, Zenon
<1> QED BY <1>5, <1>6, Zenon DEF Count

(* Every step keeps the reservation.                                       *)
LEMMA CountStep ==
  ASSUME SetFacts, Types, Control, Count, [Next]_vars, Types', Control'
  PROVE  Count'
<1>1. CASE UNCHANGED vars
  BY <1>1, CountFrame, Zenon DEF vars
<1>2. CASE Crash
  BY <1>2, QuietCount, Zenon DEF Crash
<1>3. ASSUME NEW p \in Proc, OpStep(p), ~Panicked PROVE Count'
  <2>1. CASE BeginOp(p)
    BY <1>3, <2>1, BeginOpCount, Zenon
  <2>2. ASSUME NEW b \in Block, Bread(p, b) PROVE Count'
    <3>1. \A q \in Proc : InOp(q)' <=> InOp(q)
      BY <2>2, Zenon DEF Bread, Types
    <3> QED BY <1>3, <2>2, <3>1, CountFrame, Zenon DEF Bread, logvars
  <2>3. CASE \E v \in Val : LogWrite(p, v)
    BY <1>3, <2>3, LogWriteCount, Zenon
  <2>4. CASE Brelse(p)
    <3>1. \A q \in Proc : InOp(q)' <=> InOp(q)
      BY <2>4, Zenon DEF Brelse, Types
    <3> QED BY <1>3, <2>4, <3>1, CountFrame, Zenon DEF Brelse, logvars
  <2>5. CASE EndOp(p)
    BY <1>3, <2>5, EndOpCount, Zenon
  <2> QED BY <1>3, <2>1, <2>2, <2>3, <2>4, <2>5, Zenon DEF OpStep
<1>4. CASE CommitStep \/ RecoveryStep
  <2>1. \A p \in Proc : ~InOp(p) /\ wrote[p] = {}
    <3>1. phase \in CommitPhase \cup RecoveryPhase
BY <1>4, Zenon DEF CommitStep, RecoveryStep, WriteLog, WriteHead, Install, Clear, Finish, ReadHead,
         Recover, RecoverClear, CommitPhase, RecoveryPhase
    <3> QED BY <3>1, Zenon DEF Control, Count, Ops
  <2>2. wrote' = wrote /\ \A p \in Proc : ~InOp(p)'
    <3>1. CASE pc' = pc /\ wrote' = wrote
      BY <2>1, <3>1, Zenon
    <3>2. ASSUME NEW p \in Proc, Finish(p) PROVE wrote' = wrote /\ \A q \in Proc : ~InOp(q)'
      BY <2>1, <3>2, Zenon DEF Finish, Wakeup, Types
<3> QED BY <1>4, <3>1, <3>2, Zenon DEF CommitStep, RecoveryStep, WriteLog, WriteHead, Install, Clear,
       ReadHead, Recover, RecoverClear, InstallTrans, ClearHead
  <2> QED BY <2>1, <2>2, QuietCount, Zenon
<1>5. CASE CacheStep
  <2>1. UNCHANGED <<lh, wrote, phase, pc>>
    BY <1>5, Zenon DEF CacheStep, Read, Recycle, logvars
  <2> QED BY <2>1, CountFrame, Zenon
<1> QED BY <1>1, <1>2, <1>3, <1>4, <1>5, Zenon DEF Next

(* Every step leaves each sleeper in begin_op() its reason to wait and     *)
(* someone to wake it.                                                     *)
LEMMA LostWakeupStep ==
  ASSUME SetFacts, Types, Control, NoLostWakeup, [Next]_vars, Types', Control'
  PROVE  NoLostWakeup'
<1> USE DEF NoLostWakeup
<1>0. /\ outstanding \in Nat /\ outstanding' \in Nat /\ Len(lh) \in Nat /\ Len(lh') \in Nat
      /\ MAXOPBLOCKS \in Nat \ {0} /\ LOGSIZE \in Nat
  <2>1. Ops' \in SUBSET Proc
    BY Zenon DEF Ops
  <2>2. Cardinality(Ops') \in Nat
    BY <2>1, OpsFinite, CardSubset, CardNat, Zenon
  <2> QED BY <2>2, OpsFinite, SizeAssumption, LenNat DEF Types
<1>1. CASE UNCHANGED vars
  BY <1>1, Zenon DEF vars, NoSpace
<1>2. CASE Crash
  BY <1>2, Zenon DEF Crash
<1>3. ASSUME NEW p \in Proc, BeginOp(p), ~Panicked PROVE NoLostWakeup'
  <2>1. CASE MustWait
    <3>1. CASE committing = 1
      BY <1>3, <2>1, <3>1, Zenon DEF BeginOp, Types
    <3>2. CASE committing # 1
      <4>1. NoSpace /\ phase = "normal"
        BY <1>3, <2>1, <3>2, Zenon DEF MustWait, BeginOp, Control, Types, Phase
      <4>2. outstanding # 0
        <5> SUFFICES ASSUME outstanding = 0 PROVE FALSE
          BY Zenon
        <5>1. Ops = {}
          BY OpsFinite, CardEmpty, Zenon DEF Types
        <5>2. Len(lh) = 0
          BY <4>1, <5>1, SMTT(30) DEF Control
        <5> QED BY <4>1, <5>2, SizeAssumption DEF NoSpace
      <4>3. NoSpace' /\ outstanding' > 0
        BY <1>0, <1>3, <2>1, <4>1, <4>2 DEF BeginOp, NoSpace
      <4> QED BY <4>3, Zenon
    <3> QED BY <3>1, <3>2, Zenon
  <2>2. CASE ~MustWait
    <3>1. outstanding' = outstanding + 1 /\ lh' = lh /\ committing' = committing
      BY <1>3, <2>2, Zenon DEF BeginOp
    <3>2. (outstanding' + 1) * MAXOPBLOCKS = (outstanding + 1) * MAXOPBLOCKS + MAXOPBLOCKS
      BY <1>0, <3>1
    <3>3. NoSpace => NoSpace'
      BY <1>0, <3>1, <3>2 DEF NoSpace
    <3>4. \A q \in Proc : pc'[q] = "asleep" => pc[q] = "asleep"
      BY <1>3, <2>2, Zenon DEF BeginOp, Types
    <3> QED BY <1>0, <3>1, <3>3, <3>4
  <2> QED BY <2>1, <2>2, Zenon
<1>4. ASSUME NEW p \in Proc, NEW v \in Val, LogWrite(p, v) PROVE NoLostWakeup'
  <2>1. lh' = lh \/ Len(lh') = Len(lh) + 1
    BY <1>4, SMTT(30) DEF LogWrite, Types
  <2>2. UNCHANGED <<outstanding, committing, pc>>
    BY <1>4, Zenon DEF LogWrite
  <2>3. NoSpace => NoSpace'
    BY <1>0, <2>1, <2>2 DEF NoSpace
  <2> QED BY <2>2, <2>3, Zenon
<1>5. ASSUME NEW p \in Proc, EndOp(p), ~Panicked PROVE NoLostWakeup'
  <2>1. committing = 0
    BY <1>5, Zenon DEF EndOp, Types, Control, Phase, RecoveryPhase, CommitPhase, Ops
  <2>2. CASE outstanding = 1
    BY <1>5, <2>1, <2>2, Zenon DEF EndOp
  <2>3. CASE outstanding # 1
    <3>1. pc' = [Wakeup(pc) EXCEPT ![p] = "out"]
      BY <1>5, <2>1, <2>3 DEF EndOp
    <3>2. \A q \in Proc : pc'[q] # "asleep"
      BY <3>1, WakeupType, Zenon DEF Types, Wakeup
    <3> QED BY <3>2, Zenon
  <2> QED BY <2>2, <2>3, Zenon
<1>6. ASSUME NEW p \in Proc, Finish(p) PROVE NoLostWakeup'
  <2>1. \A q \in Proc : pc'[q] # "asleep"
    BY <1>6, WakeupType, Zenon DEF Types, Wakeup, Finish
  <2> QED BY <2>1
<1>7. ASSUME NEW p \in Proc, Brelse(p) \/ \E b \in Block : Bread(p, b) PROVE NoLostWakeup'
  <2>1. UNCHANGED <<lh, outstanding, committing>>
    BY <1>7, Zenon DEF Brelse, Bread, logvars
  <2>2. \A q \in Proc : pc'[q] = "asleep" => pc[q] = "asleep"
    BY <1>7, Zenon DEF Brelse, Bread, Types
  <2> QED BY <2>1, <2>2, Zenon DEF NoSpace
<1>8. CASE WriteLog \/ WriteHead \/ Install \/ Recover \/ CacheStep
  BY <1>8, SMTT(30) DEF WriteLog, WriteHead, Install, Recover, InstallTrans, CacheStep, Read, Recycle,
              logvars, NoSpace
<1>9. CASE Clear
  BY <1>9, Zenon DEF Clear, ClearHead, Control, CommitPhase
<1>10. CASE ReadHead \/ RecoverClear
  BY <1>10, Zenon DEF ReadHead, RecoverClear, ClearHead, Control, RecoveryPhase
<1> QED BY <1>1, <1>2, <1>3, <1>4, <1>5, <1>6, <1>7, <1>8, <1>9, <1>10, Zenon DEF Next, OpStep,
   CommitStep, RecoveryStep

(* At power-on the control part of the invariant holds.                    *)
LEMMA InitCInv == SetFacts /\ Init => CInv
<1> SUFFICES ASSUME SetFacts, Init PROVE CInv
  BY Zenon
<1>1. Types /\ Control
  BY InitTypesControl, Zenon
<1>2. Count
  <2>1. Credit = {} /\ Len(lh) = 0
    BY Zenon DEF Init, Credit
  <2>2. Cardinality(Credit) = 0 /\ IsFiniteSet({}) /\ Cardinality({}) = 0
    BY <2>1, CardEmpty, Zenon
  <2>3. \A p \in Proc : wrote[p] = {}
    BY Zenon DEF Init
  <2>4. \A p \in Proc : /\ IsFiniteSet(wrote[p]) /\ wrote[p] \subseteq Logged
                        /\ Cardinality(wrote[p]) <= OPBLOCKS
    BY <2>2, <2>3, SizeAssumption
  <2>5. Len(lh) + Cardinality(Credit) <= LOGSIZE
    BY <2>1, <2>2, SizeAssumption
  <2> QED BY <2>3, <2>4, <2>5, Zenon DEF Count
<1>3. NoLostWakeup
  BY Zenon DEF Init, NoLostWakeup
<1> QED BY <1>1, <1>2, <1>3, Zenon DEF CInv

-----------------------------------------------------------------------------
(* The data: the disk, the log and the buffers.                            *)

(* The header in memory lists blocks of the file system.                   *)
LEMMA LoggedBlocks ==
  ASSUME lh \in Seq(Block)
  PROVE  \A b \in Logged : b \in Block
<1>1. \A i \in DOMAIN lh : lh[i] \in Block
  OBVIOUS
<1> QED BY ONLY <1>1, Zenon DEF Logged

(* The part of the transaction that is not home yet, by phase.             *)
LEMMA UninstalledIs ==
  ASSUME Types, Control
  PROVE  /\ phase \in RecoveryPhase \cup {"clear", "finish"} => Uninstalled = {}
         /\ phase \in {"normal", "panic", "write_log", "write_head"} => Uninstalled = Logged
         /\ phase = "install" => Uninstalled = {lh[i] : i \in {j \in DOMAIN lh : j > tail}}
BY DEF Types, Control, Uninstalled, Logged, RecoveryPhase, CommitPhase

(* Filling or recycling buffers outside the uninstalled part of the        *)
(* transaction keeps the data invariant.                                   *)
LEMMA CacheFrame ==
  ASSUME Types, Control, DInv, ~Panicked,
         UNCHANGED <<durable, pins, lh, phase, tail>>,
         \A b \in Block : \/ cache'[b] = cache[b]
                          \/ b \notin Uninstalled /\ cache'[b] \in {NoBuf, disk[b]}
  PROVE  DInv'
<1>1. Uninstalled' = Uninstalled
  BY DEF Uninstalled
<1>2. \A b \in Uninstalled : b \in Block /\ cache'[b] = cache[b]
  BY DEF Uninstalled, Types
<1>3. PinExact'
  BY <1>1, <1>2, Zenon DEF DInv, PinExact, durable
<1>4. \A b \in Block \ Uninstalled' : cache'[b] \in {NoBuf, disk'[b]}
  BY <1>1, Zenon DEF DInv, durable
<1>5. phase \in {"write_log", "write_head"} => \A i \in DOMAIN lh : cache'[lh[i]] = cache[lh[i]]
  BY <1>2, UninstalledIs, Zenon DEF Logged
<1>6. phase = "install" => \A i \in DOMAIN lh : i > tail => cache'[lh[i]] = cache[lh[i]]
  BY <1>2, UninstalledIs, Zenon
<1> QED BY <1>3, <1>4, <1>5, <1>6 DEF DInv, Distinct, durable

(* bread() never changes what a reader sees, and an uncached block is not  *)
(* in the uninstalled part of the transaction.                             *)
LEMMA ViewCached ==
  ASSUME Types, DInv, NEW b \in Block
  PROVE  View(b) = cache[b] \/ (b \notin Uninstalled /\ View(b) = disk[b])
BY Zenon DEF DInv, PinExact, View

(* bread() inside a call keeps the data invariant.                         *)
LEMMA BreadData ==
  ASSUME Types, Control, DInv, ~Panicked, NEW p \in Proc, NEW b \in Block, Bread(p, b)
  PROVE  DInv'
BY ViewCached, CacheFrame, Zenon DEF Bread, logvars, Types

(* Reads and buffer recycling keep the data invariant: only a clean buffer *)
(* is recycled.                                                            *)
LEMMA CacheData ==
  ASSUME Types, Control, DInv, ~Panicked, NEW b \in Block, Read(b) \/ Recycle(b)
  PROVE  DInv'
<1>1. CASE Read(b)
  BY <1>1, ViewCached, CacheFrame, Zenon DEF Read, logvars, Types
<1>2. CASE Recycle(b)
  <2>1. b \notin Uninstalled
    BY <1>2 DEF Recycle, DInv, PinExact
  <2> QED BY <1>2, <2>1, CacheFrame, Zenon DEF Recycle, logvars, Types
<1> QED BY <1>1, <1>2, Zenon

(* A call in progress: no commit and no recovery.                          *)
LEMMA InOpNormal ==
  ASSUME Types, Control, ~Panicked, NEW p \in Proc, InOp(p)
  PROVE  phase = "normal"
<1>1. p \in Ops
  BY Zenon DEF Ops
<1>2. phase \notin CommitPhase /\ phase \notin RecoveryPhase
  BY <1>1, Zenon DEF Control
<1> QED BY <1>2, Zenon DEF Types, Phase

(* log_write() keeps the data invariant: the block it modifies is in the   *)
(* transaction and pinned, or the kernel has panicked.                     *)
LEMMA LogWriteData ==
  ASSUME Types, Control, DInv, ~Panicked, NEW p \in Proc, NEW v \in Val, LogWrite(p, v), Types', Control'
  PROVE  DInv'
<1> DEFINE b == buf[p]
<1>1. phase = "normal" /\ b \in Block /\ head = <<>> /\ head' = <<>>
  <2>1. InOp(p) /\ pc[p] = "locked" /\ head' = head
    BY Zenon DEF LogWrite, durable
  <2>2. phase = "normal" /\ b \in Block
    BY <2>1, InOpNormal, Zenon DEF Control
  <2> QED BY <2>1, <2>2, Zenon DEF DInv
<1> HIDE DEF b
<1>2. Uninstalled = Logged /\ Uninstalled' = Logged' /\ phase' \in {"normal", "panic"}
  <2>1. phase' \in {"normal", "panic"}
    BY <1>1, Zenon DEF LogWrite
  <2> QED BY <1>1, <2>1, Zenon DEF Uninstalled, Logged, RecoveryPhase
<1>3. CASE TooBig \/ outstanding < 1 \/ Absorbed(b)
  <2>1. UNCHANGED <<lh, pins>> /\ cache' = [cache EXCEPT ![b] = v] /\ disk' = disk
    BY <1>3, Zenon DEF LogWrite, durable, b
  <2>2. PinExact'
    <3>1. Uninstalled' = Uninstalled
      BY <1>2, <2>1, Zenon DEF Logged
    <3> QED BY <1>1, <2>1, <3>1, NoBufAssumption, Zenon DEF DInv, PinExact, Types
  <2>3. ~Panicked' => b \in Logged
    BY <1>3, Zenon DEF LogWrite, Absorbed, b
  <2>4. ~Panicked' => \A c \in Block \ Uninstalled' : cache'[c] \in {NoBuf, disk'[c]}
    BY <1>1, <1>2, <2>1, <2>3 DEF DInv, Types, Logged
  <2> QED BY <1>1, <1>2, <2>1, <2>2, <2>4, Zenon DEF DInv, Distinct
<1>4. CASE ~(TooBig \/ outstanding < 1 \/ Absorbed(b))
  <2>1. /\ lh' = Append(lh, b) /\ pins' = [pins EXCEPT ![b] = @ + 1] /\ phase' = "normal"
        /\ cache' = [cache EXCEPT ![b] = v] /\ disk' = disk /\ b \notin Logged
    BY <1>1, <1>4, Zenon DEF LogWrite, durable, Absorbed, b
  <2>0. /\ Len(lh) \in Nat /\ DOMAIN lh = 1..Len(lh) /\ DOMAIN lh' = 1..(Len(lh) + 1)
        /\ \A k \in 1..Len(lh) : lh'[k] = lh[k]
        /\ lh'[Len(lh) + 1] = b
    <3>1. lh \in Seq(Block)
      BY Zenon DEF Types
    <3> QED BY <1>1, <2>1, <3>1
  <2>2. Logged' = Logged \cup {b}
    BY <2>0 DEF Logged
  <2>3. Distinct(lh')
    <3> SUFFICES ASSUME NEW i \in DOMAIN lh', NEW j \in DOMAIN lh', lh'[i] = lh'[j]
                 PROVE  i = j
      BY Zenon DEF Distinct
    <3>2. \A k \in 1..Len(lh) : lh[k] # b
      BY <2>0, <2>1, Zenon DEF Logged
    <3>4. \A k, l \in DOMAIN lh : lh[k] = lh[l] => k = l
      BY Zenon DEF DInv, Distinct
    <3> QED BY <2>0, <3>2, <3>4
  <2>4. PinExact'
    <3> SUFFICES ASSUME NEW c \in Block
                 PROVE  /\ pins'[c] = IF c \in Uninstalled' THEN 1 ELSE 0
                        /\ c \in Uninstalled' => cache'[c] # NoBuf
      BY Zenon DEF PinExact
    <3>1. CASE c = b
      BY <1>1, <1>2, <2>1, <2>2, <3>1, NoBufAssumption DEF DInv, PinExact, Types
    <3>2. CASE c # b
      BY <1>1, <1>2, <2>1, <2>2, <3>2, Zenon DEF DInv, PinExact, Types
    <3> QED BY <3>1, <3>2, Zenon
  <2>5. \A c \in Block \ Uninstalled' : cache'[c] \in {NoBuf, disk'[c]}
    BY <1>1, <1>2, <2>1, <2>2, Zenon DEF DInv, Types
  <2>6. Distinct(head')
    BY <1>1 DEF Distinct
  <2> QED BY <1>1, <2>1, <2>3, <2>4, <2>5, <2>6, Zenon DEF DInv
<1> QED BY <1>3, <1>4, Zenon

(* Steps of a call that move only processes and counters.                  *)
LEMMA CallData ==
  ASSUME Types, Control, DInv, ~Panicked, NEW p \in Proc,
         BeginOp(p) \/ Brelse(p) \/ EndOp(p), Types', Control'
  PROVE  DInv'
<1>1. UNCHANGED <<durable, cache, pins, lh, tail>>
  BY Zenon DEF BeginOp, Brelse, EndOp, logvars
<1>2. CASE phase' = phase
  BY <1>1, <1>2, CacheFrame, Zenon
<1>3. CASE phase' # phase
  <2>1. EndOp(p) /\ phase = "normal"
    BY <1>3, InOpNormal, Zenon DEF BeginOp, Brelse, EndOp
  <2>2. phase' \in {"write_log", "finish"} /\ (phase' = "finish" => lh = <<>>)
    BY <1>3, <2>1, Zenon DEF EndOp, CommitStart, Control, CommitPhase
  <2>3. Uninstalled = Logged /\ Uninstalled' = Logged' /\ Logged' = Logged
    BY <1>1, <2>1, <2>2, UninstalledIs, Zenon DEF Uninstalled, Logged, RecoveryPhase
  <2>4. tail = 0
    BY <2>1, Zenon DEF Control
  <2>5. PinExact'
    BY <1>1, <2>3, Zenon DEF DInv, PinExact
  <2>6. \A i \in DOMAIN lh : ~(i <= tail)
    BY <2>4 DEF Types
  <2> QED BY <1>1, <2>1, <2>2, <2>3, <2>5, <2>6, Zenon DEF DInv, durable, Distinct
<1> QED BY <1>2, <1>3, Zenon

(* Facts on tail + 1, the index a loop of commit() or recovery is at.      *)
LEMMA LoopIndex ==
  ASSUME Types, Control, phase \in {"write_log", "install", "recover"}
  PROVE  /\ tail \in Nat /\ Len(lh) \in Nat /\ DOMAIN lh = 1..Len(lh)
         /\ tail + 1 \in DOMAIN lh /\ tail + 1 \in 1..LOGSIZE /\ lh[tail + 1] \in Block
<1>1. tail \in Nat /\ tail < Len(lh) /\ Len(lh) \in Nat /\ DOMAIN lh = 1..Len(lh) /\ Len(lh) <= LOGSIZE
  BY DEF Types, Control
<1>2. tail + 1 \in 1..Len(lh) /\ tail + 1 \in 1..LOGSIZE
  BY <1>1, SizeAssumption
<1> QED BY <1>1, <1>2 DEF Types

(* An iteration of write_log() keeps the data invariant.                   *)
LEMMA WriteLogData ==
  ASSUME Types, Control, DInv, WriteLog, Types', Control'
  PROVE  DInv'
<1> DEFINE b == lh[tail + 1]
<1>0. phase = "write_log" /\ phase' \in {"write_log", "write_head"} /\ head = <<>>
  BY Zenon DEF WriteLog, DInv
<1>1. /\ tail \in Nat /\ Len(lh) \in Nat /\ DOMAIN lh = 1..Len(lh)
      /\ tail + 1 \in DOMAIN lh /\ tail + 1 \in 1..LOGSIZE /\ b \in Block
  BY <1>0, LoopIndex, Zenon
<1>2. b \in Logged /\ Uninstalled = Logged /\ Uninstalled' = Logged /\ Logged' = Logged
  BY <1>0, <1>1, Zenon DEF WriteLog, logvars, Uninstalled, Logged, RecoveryPhase
<1>3. View(b) = cache[b]
  BY <1>1, <1>2, ViewCached, Zenon
<1>4. cache' = cache
  BY <1>3, Zenon DEF WriteLog, Types
<1>5. /\ logblk' = [logblk EXCEPT ![tail + 1] = cache[b]]
      /\ UNCHANGED <<disk, head, pins, lh>>
  BY <1>3, Zenon DEF WriteLog, logvars
<1>6. \A i \in DOMAIN lh : i <= tail + 1 => logblk'[i] = cache[lh[i]]
  <2>1. \A i \in DOMAIN lh : i <= tail => logblk[i] = cache[lh[i]]
    BY <1>0, Zenon DEF DInv
  <2>2. logblk'[tail + 1] = cache[b]
    BY <1>1, <1>5, Zenon DEF Types
  <2>3. \A i \in DOMAIN lh : i \in 1..LOGSIZE
    BY <1>1, SizeAssumption DEF Types
  <2>4. \A i \in DOMAIN lh : i # tail + 1 => logblk'[i] = logblk[i]
    BY <1>5, <2>3, Zenon DEF Types
  <2>5. \A i \in DOMAIN lh : i <= tail + 1 => i = tail + 1 \/ i <= tail
    BY <1>1
  <2> QED BY <2>1, <2>2, <2>4, <2>5, Zenon
<1>7. /\ phase' = "write_log" => tail' = tail + 1
      /\ phase' = "write_head" => tail + 1 = Len(lh)
  BY <1>0, Zenon DEF WriteLog
<1>8. /\ phase' = "write_log" => \A i \in DOMAIN lh : i <= tail' => logblk'[i] = cache[lh[i]]
      /\ phase' = "write_head" => \A i \in DOMAIN lh : logblk'[i] = cache[lh[i]]
  <2>1. CASE phase' = "write_log"
    BY <1>6, <1>7, <2>1, Zenon
  <2>2. CASE phase' = "write_head"
    <3>1. \A i \in DOMAIN lh : i <= tail + 1
      BY <1>1, <1>7, <2>2
    <3> QED BY <1>6, <2>2, <3>1, Zenon
  <2> QED BY <2>1, <2>2, Zenon
<1>9. PinExact'
  BY <1>2, <1>4, <1>5, Zenon DEF DInv, PinExact
<1> QED BY <1>0, <1>2, <1>4, <1>5, <1>8, <1>9 DEF DInv, Distinct

(* The commit point keeps the data invariant: the header names blocks that *)
(* are all in the log.                                                     *)
LEMMA WriteHeadData ==
  ASSUME Types, Control, DInv, WriteHead, Types', Control'
  PROVE  DInv'
<1>1. /\ phase = "write_head" /\ phase' = "install" /\ tail = 0 /\ head' = lh
      /\ UNCHANGED <<disk, logblk, cache, pins, lh, tail>>
  BY Zenon DEF WriteHead, Control, logvars
<1>2. \A i \in DOMAIN lh : i > tail /\ ~(i <= tail)
  BY <1>1 DEF Types
<1>3. Uninstalled = Logged /\ Uninstalled' = Logged
  BY <1>1, <1>2, Zenon DEF Uninstalled, Logged, RecoveryPhase
<1>4. PinExact'
  BY <1>1, <1>3, Zenon DEF DInv, PinExact
<1> QED BY <1>1, <1>2, <1>3, <1>4, Zenon DEF DInv, Distinct

(* An iteration of install_trans(), of commit() or of recovery: the home   *)
(* block at tail + 1 becomes equal to its log block, and the buffer too.   *)
LEMMA InstallData ==
  ASSUME Types, Control, DInv, Install \/ Recover, Types', Control'
  PROVE  DInv'
<1> DEFINE b == lh[tail + 1]
<1>0. /\ phase \in {"install", "recover"} /\ head = lh
      /\ phase = "install" => phase' \in {"install", "clear"}
      /\ phase = "recover" => phase' \in {"recover", "recover_clear"}
  BY Zenon DEF Install, Recover, DInv
<1>1. /\ tail \in Nat /\ Len(lh) \in Nat /\ DOMAIN lh = 1..Len(lh)
      /\ tail + 1 \in DOMAIN lh /\ tail + 1 \in 1..LOGSIZE /\ b \in Block
  BY <1>0, LoopIndex, Zenon
<1>2. /\ cache' = [cache EXCEPT ![b] = logblk[tail + 1]]
      /\ disk' = [disk EXCEPT ![b] = logblk[tail + 1]]
      /\ tail' = tail + 1
      /\ UNCHANGED <<logblk, head, lh>>
      /\ phase = "install" => pins' = [pins EXCEPT ![b] = @ - 1]
      /\ phase = "recover" => pins' = pins
  BY <1>0, Zenon DEF Install, Recover, InstallTrans, logvars
<1>3. \A i, j \in DOMAIN lh : lh[i] = lh[j] => i = j
  BY Zenon DEF DInv, Distinct
<1>4. \A i \in DOMAIN lh : i # tail + 1 => lh[i] # b /\ lh[i] \in Block
  <2>1. \A i \in DOMAIN lh : i # tail + 1 => lh[i] # b
    BY <1>1, <1>3, Zenon
  <2>2. \A i \in DOMAIN lh : lh[i] \in Block
    BY DEF Types
  <2> QED BY <2>1, <2>2, Zenon
<1>5. \A i \in DOMAIN lh : i <= tail' => disk'[lh[i]] = logblk'[i]
  <2>1. \A i \in DOMAIN lh : i <= tail => disk[lh[i]] = logblk[i]
    BY <1>0, Zenon DEF DInv
  <2>2. disk'[b] = logblk[tail + 1]
    BY <1>1, <1>2, Zenon DEF Types
  <2>3. \A c \in Block : c # b => disk'[c] = disk[c]
    BY <1>2, Zenon DEF Types
  <2> QED BY <1>1, <1>2, <1>4, <2>1, <2>2, <2>3
<1>6. phase' = "install" => \A i \in DOMAIN lh : i > tail' => logblk'[i] = cache'[lh[i]]
  <2>1. phase' = "install" => \A i \in DOMAIN lh : i > tail => logblk[i] = cache[lh[i]]
    BY <1>0, Zenon DEF DInv
  <2>2. \A c \in Block : c # b => cache'[c] = cache[c]
    BY <1>2, Zenon DEF Types
  <2> QED BY <1>1, <1>2, <1>4, <2>1, <2>2
<1>7. phase = "install" => Uninstalled = Uninstalled' \cup {b} /\ b \notin Uninstalled'
  <2> SUFFICES ASSUME phase = "install"
               PROVE  Uninstalled = Uninstalled' \cup {b} /\ b \notin Uninstalled'
    BY Zenon
  <2>1. Uninstalled = {lh[i] : i \in {j \in DOMAIN lh : j > tail}}
    BY UninstalledIs, Zenon
  <2>2. Uninstalled' = {lh[i] : i \in {j \in DOMAIN lh : j > tail + 1}}
    BY <1>0, <1>2, Zenon DEF Uninstalled, RecoveryPhase
  <2> QED BY <1>1, <1>4, <2>1, <2>2
<1>8. phase = "recover" => Uninstalled = {} /\ Uninstalled' = {}
  BY <1>0, Zenon DEF Uninstalled, RecoveryPhase
<1>9. \A c \in Block \ Uninstalled' : cache'[c] \in {NoBuf, disk'[c]}
  <2> SUFFICES ASSUME NEW c \in Block \ Uninstalled' PROVE cache'[c] \in {NoBuf, disk'[c]}
    BY Zenon
  <2>1. CASE c = b
    BY <1>2, <2>1 DEF Types
  <2>2. CASE c # b
    <3>1. c \notin Uninstalled
      BY <1>0, <1>7, <1>8, <2>2, Zenon
    <3>2. cache[c] \in {NoBuf, disk[c]}
      BY <1>0, <3>1, Zenon DEF DInv
    <3> QED BY <1>2, <2>2, <3>2, Zenon DEF Types
  <2> QED BY <2>1, <2>2, Zenon
<1>10. PinExact'
  <2> SUFFICES ASSUME NEW c \in Block
               PROVE  /\ pins'[c] = IF c \in Uninstalled' THEN 1 ELSE 0
                      /\ c \in Uninstalled' => cache'[c] # NoBuf
    BY Zenon DEF PinExact
  <2>1. /\ pins[c] = IF c \in Uninstalled THEN 1 ELSE 0
        /\ c \in Uninstalled => cache[c] # NoBuf
    BY Zenon DEF DInv, PinExact
  <2>2. CASE phase = "recover"
    BY <1>2, <1>8, <2>1, <2>2, Zenon
  <2>3. CASE phase = "install" /\ c = b
    BY <1>1, <1>2, <1>7, <2>1, <2>3 DEF Types
  <2>4. CASE phase = "install" /\ c # b
    BY <1>1, <1>2, <1>7, <2>1, <2>4, Zenon DEF Types
  <2> QED BY <1>0, <2>2, <2>3, <2>4, Zenon
<1>11. Distinct(lh') /\ Distinct(head') /\ head' = lh'
  BY <1>0, <1>2, Zenon DEF DInv, Distinct
<1> QED BY <1>0, <1>2, <1>5, <1>6, <1>9, <1>10, <1>11 DEF DInv

(* The transaction is erased, by commit() or by recovery, when all of it   *)
(* is home.                                                                *)
LEMMA ClearData ==
  ASSUME Types, Control, DInv, Clear \/ RecoverClear, Types', Control'
  PROVE  DInv'
<1>1. /\ phase \in {"clear", "recover_clear"} /\ phase' \in {"finish", "normal"}
      /\ lh' = <<>> /\ head' = <<>> /\ UNCHANGED <<disk, cache, pins>>
  BY Zenon DEF Clear, RecoverClear, ClearHead
<1>2. Uninstalled = {}
  BY <1>1, UninstalledIs, Zenon DEF RecoveryPhase
<1>3. Uninstalled' = {}
  BY <1>1 DEF Uninstalled
<1>4. PinExact'
  BY <1>1, <1>2, <1>3, Zenon DEF DInv, PinExact
<1> QED BY <1>1, <1>2, <1>3, <1>4 DEF DInv, Distinct

(* The tail of end_op() keeps the data invariant.                          *)
LEMMA FinishData ==
  ASSUME Types, Control, DInv, NEW p \in Proc, Finish(p), Types', Control'
  PROVE  DInv'
<1>1. /\ phase = "finish" /\ phase' = "normal" /\ lh = <<>> /\ lh' = <<>>
      /\ UNCHANGED <<durable, cache, pins>>
  BY Zenon DEF Finish, Control
<1>2. Uninstalled = {} /\ Uninstalled' = {}
  BY <1>1 DEF Uninstalled
<1>3. PinExact'
  BY <1>1, <1>2, Zenon DEF DInv, PinExact
<1> QED BY <1>1, <1>2, <1>3, Zenon DEF DInv, Distinct, durable

(* A crash keeps the data invariant: the disk needs nothing of memory.     *)
LEMMA CrashData ==
  ASSUME DInv, Crash
  PROVE  DInv'
<1>1. /\ phase' = "read_head" /\ lh' = <<>> /\ head' = head
      /\ cache' = [b \in Block |-> NoBuf] /\ pins' = [b \in Block |-> 0]
  BY Zenon DEF Crash, durable
<1>2. Uninstalled' = {}
  BY <1>1, Zenon DEF Uninstalled, RecoveryPhase
<1>3. PinExact'
  BY <1>1, <1>2, Zenon DEF PinExact
<1> QED BY <1>1, <1>2, <1>3 DEF DInv, Distinct

(* read_head() of recovery keeps the data invariant.                       *)
LEMMA ReadHeadData ==
  ASSUME Types, Control, DInv, ReadHead, Types', Control'
  PROVE  DInv'
<1>1. /\ phase = "read_head" /\ phase' \in {"recover", "recover_clear"} /\ tail = 0
      /\ lh' = head /\ UNCHANGED <<durable, cache, pins, tail>>
  BY Zenon DEF ReadHead, Control
<1>2. Uninstalled = {} /\ Uninstalled' = {}
  BY <1>1, Zenon DEF Uninstalled, RecoveryPhase
<1>3. PinExact'
  BY <1>1, <1>2, Zenon DEF DInv, PinExact
<1>4. \A i \in DOMAIN lh' : ~(i <= tail')
  BY <1>1 DEF Types
<1> QED BY <1>1, <1>2, <1>3, <1>4, Zenon DEF DInv, Distinct, durable

(* At power-on the data invariant holds.                                   *)
LEMMA InitData == Init => DInv
<1> SUFFICES ASSUME Init PROVE DInv
  BY Zenon
<1>1. Uninstalled = {}
  BY Zenon DEF Init, Uninstalled, RecoveryPhase
<1> QED BY <1>1 DEF Init, DInv, Distinct, PinExact

(* Every step keeps the data invariant.                                    *)
LEMMA DataStep ==
  ASSUME Types, Control, DInv, [Next]_vars, Types', Control'
  PROVE  DInv'
<1>1. CASE UNCHANGED vars
  BY <1>1, SMTT(30) DEF vars, DInv, Distinct, PinExact, Uninstalled
<1>2. CASE Crash
  BY <1>2, CrashData, Zenon
<1>3. CASE ~Panicked /\ \E p \in Proc : OpStep(p)
  BY <1>3, CallData, BreadData, LogWriteData, Zenon DEF OpStep
<1>4. CASE CommitStep
  BY <1>4, WriteLogData, WriteHeadData, InstallData, ClearData, FinishData, Zenon DEF CommitStep
<1>5. CASE RecoveryStep
  BY <1>5, ReadHeadData, InstallData, ClearData, Zenon DEF RecoveryStep
<1>6. CASE ~Panicked /\ CacheStep
  BY <1>6, CacheData, Zenon DEF CacheStep
<1> QED BY <1>1, <1>2, <1>3, <1>4, <1>5, <1>6, Zenon DEF Next

-----------------------------------------------------------------------------
(* What recovery makes of a block: its log block if the header names it,   *)
(* its home block otherwise.                                               *)
LEMMA RecoveredIs ==
  ASSUME Distinct(head), head \in Seq(Block)
  PROVE  /\ \A i \in DOMAIN head : Recovered[head[i]] = logblk[i]
         /\ \A b \in Block : (\A i \in DOMAIN head : head[i] # b) => Recovered[b] = disk[b]
<1>1. ASSUME NEW k \in DOMAIN head PROVE Recovered[head[k]] = logblk[k]
  <2> DEFINE at == {i \in DOMAIN head : head[i] = head[k]}
  <2>1. at = {k}
    BY Zenon DEF Distinct
  <2>2. k \in Nat /\ head[k] \in Block
    OBVIOUS
  <2>3. (CHOOSE i \in {k} : \A j \in {k} : j <= i) = k
    BY <2>2
  <2>4. Recovered[head[k]] = logblk[CHOOSE i \in at : \A j \in at : j <= i]
    <3>1. Recovered[head[k]] =
            IF at = {} THEN disk[head[k]]
            ELSE logblk[CHOOSE i \in at : \A j \in at : j <= i]
      BY <2>2, Zenon DEF Recovered
    <3> QED BY <2>1, <3>1, Zenon
  <2> QED BY <2>1, <2>3, <2>4, Zenon
<1>2. ASSUME NEW b \in Block, \A i \in DOMAIN head : head[i] # b
      PROVE  Recovered[b] = disk[b]
  <2>1. {i \in DOMAIN head : head[i] = b} = {}
    BY <1>2, Zenon
  <2> QED BY <2>1, Zenon DEF Recovered
<1> QED BY <1>1, <1>2, Zenon

(* Without a header, recovery leaves the home blocks as they are.          *)
LEMMA RecoveredEmpty ==
  ASSUME head = <<>>, disk \in [Block -> Val]
  PROVE  Recovered = disk
<1>1. \A b \in Block : {i \in DOMAIN head : head[i] = b} = {}
  OBVIOUS
<1>2. \A b \in Block : Recovered[b] = disk[b]
  BY <1>1, Zenon DEF Recovered
<1> QED BY <1>2, Zenon DEF Recovered

(* A step of the log that leaves the durable state, the contents and the   *)
(* calls in progress alone is a stutter of the atomic disk.                *)
LEMMA SameRecovered ==
  ASSUME UNCHANGED durable
  PROVE  Recovered' = Recovered
BY DEF Recovered, durable

(* RecoveredIs in the state after a step.                                  *)
LEMMA RecoveredIsNext ==
  ASSUME Distinct(head'), head' \in Seq(Block)
  PROVE  /\ \A i \in DOMAIN head' : Recovered'[head'[i]] = logblk'[i]
         /\ \A b \in Block : (\A i \in DOMAIN head' : head'[i] # b) => Recovered'[b] = disk'[b]
<1>1. ASSUME NEW k \in DOMAIN head' PROVE Recovered'[head'[k]] = logblk'[k]
  <2> DEFINE at == {i \in DOMAIN head' : head'[i] = head'[k]}
  <2>1. at = {k}
    BY Zenon DEF Distinct
  <2>2. k \in Nat /\ head'[k] \in Block
    OBVIOUS
  <2>3. (CHOOSE i \in {k} : \A j \in {k} : j <= i) = k
    BY <2>2
  <2>4. Recovered'[head'[k]] =
          IF at = {} THEN disk'[head'[k]]
          ELSE logblk'[CHOOSE i \in at : \A j \in at : j <= i]
    BY <2>2, Zenon DEF Recovered
  <2> QED BY <2>1, <2>3, <2>4, Zenon
<1>2. ASSUME NEW b \in Block, \A i \in DOMAIN head' : head'[i] # b
      PROVE  Recovered'[b] = disk'[b]
  <2>1. {i \in DOMAIN head' : head'[i] = b} = {}
    BY <1>2, Zenon
  <2> QED BY <2>1, Zenon DEF Recovered
<1> QED BY <1>1, <1>2, Zenon

(* After a step that leaves the header empty, recovery leaves the home     *)
(* blocks as they are.                                                     *)
LEMMA RecoveredEmptyNext ==
  ASSUME head' = <<>>, disk' \in [Block -> Val]
  PROVE  Recovered' = disk'
<1>1. \A b \in Block : {i \in DOMAIN head' : head'[i] = b} = {}
  OBVIOUS
<1>2. \A b \in Block : Recovered'[b] = disk'[b]
  BY <1>1, Zenon DEF Recovered
<1> QED BY <1>2, Zenon DEF Recovered

(* install_trans() overwrites only home blocks that the header covers.     *)
LEMMA InstallRecovered ==
  ASSUME Types, Control, DInv, Install \/ Recover
  PROVE  Recovered' = Recovered
<1>1. /\ phase \in {"install", "recover"} /\ head = lh
  BY Zenon DEF Install, Recover, DInv
<1>2. tail + 1 \in DOMAIN lh /\ lh[tail + 1] \in Block
  BY <1>1, LoopIndex, Zenon
<1>3. UNCHANGED <<head, logblk>> /\ disk' = [disk EXCEPT ![lh[tail + 1]] = logblk[tail + 1]]
  BY Zenon DEF Install, Recover, InstallTrans
<1>4. \A b \in Block : disk'[b] = disk[b] \/ {i \in DOMAIN head : head[i] = b} # {}
  BY <1>1, <1>2, <1>3, Zenon DEF Types
<1> QED BY <1>3, <1>4 DEF Recovered

(* When the header is erased every block it names is home.                 *)
LEMMA ClearRecovered ==
  ASSUME Types, Control, DInv, Clear \/ RecoverClear, Types'
  PROVE  Recovered' = Recovered
<1>1. /\ phase \in {"clear", "recover_clear"} /\ head = lh /\ tail = Len(lh)
      /\ \A i \in DOMAIN lh : i <= tail => disk[lh[i]] = logblk[i]
      /\ head' = <<>> /\ disk' = disk
  BY Zenon DEF Clear, RecoverClear, ClearHead, DInv, Control
<1>2. \A i \in DOMAIN head : disk[head[i]] = logblk[i]
  BY <1>1, SMTT(30) DEF Types
<1>3. \A b \in Block : Recovered[b] = disk[b]
  <2>1. Distinct(head) /\ head \in Seq(Block)
    BY Zenon DEF DInv, Types
  <2> QED BY <1>2, <2>1, RecoveredIs
<1>4. Recovered' = disk'
  BY <1>1, RecoveredEmptyNext, Zenon DEF Types
<1> QED BY <1>1, <1>3, <1>4, ZenonT(30) DEF Recovered, Types

(* Initially nothing is logged: memory shows what survives a crash.        *)
LEMMA InitRefines == Init => AD!Init
<1> SUFFICES ASSUME Init PROVE AD!Init
  OBVIOUS
<1>1. Recovered = disk
  BY RecoveredEmpty, Zenon DEF Init
<1>2. Current = Recovered /\ Active = {}
  BY Zenon DEF Init, Current, Active, RecoveryPhase
<1> QED BY <1>1, <1>2, Zenon DEF AD!Init, Init

(* The steps of a call: begin_op() and end_op() are Begin and End,         *)
(* log_write() is Write, the rest is invisible.                            *)
LEMMA OpRefines ==
  ASSUME Inv, ~Panicked, NEW p \in Proc, OpStep(p), Inv'
  PROVE  [AD!Next]_(AD!advars)
<1> USE DEF Inv, CInv
<1>1. Recovered' = Recovered
  BY SameRecovered, Zenon DEF OpStep, BeginOp, Bread, LogWrite, Brelse, EndOp
<1>2. CASE BeginOp(p)
  <2>1. Current' = Current
    BY <1>1, <1>2, Zenon DEF BeginOp, Current, View, durable
  <2>2. Active' = Active \/ (p \notin Active /\ Active' = Active \cup {p})
    BY <1>2, Zenon DEF BeginOp, Active, Types
  <2> QED BY <1>1, <2>1, <2>2, Zenon DEF AD!Next, AD!Begin, AD!advars
<1>3. ASSUME NEW b \in Block, Bread(p, b) PROVE [AD!Next]_(AD!advars)
  <2>1. \A c \in Block : View(c)' = View(c)
    BY <1>3, Zenon DEF Bread, View, Types, durable
  <2>2. Current' = Current /\ Active' = Active
    <3>1. phase' = phase
      BY <1>3, Zenon DEF Bread
    <3>2. Active' = Active
      BY <1>3, Zenon DEF Bread, Active, Types
    <3> QED BY <1>1, <2>1, <3>1, <3>2, Zenon DEF Current
  <2> QED BY <1>1, <2>2, Zenon DEF AD!advars
<1>4. ASSUME NEW v \in Val, LogWrite(p, v) PROVE [AD!Next]_(AD!advars)
  <2> DEFINE b == buf[p]
  <2>1. InOp(p) /\ pc[p] = "locked" /\ UNCHANGED <<pc, disk>> /\ cache' = [cache EXCEPT ![b] = v]
    BY <1>4, Zenon DEF LogWrite, durable
  <2>2. phase = "normal" /\ b \in Block
    BY <2>1, InOpNormal, Zenon DEF Control
  <2>3. phase \notin RecoveryPhase /\ phase' \notin RecoveryPhase
    BY <1>4, <2>2, Zenon DEF LogWrite, RecoveryPhase
  <2>4. Active' = Active /\ p \in Active
    BY <2>1, Zenon DEF Active
  <2>5. \A c \in Block : View(c)' = IF c = b THEN v ELSE View(c)
    BY <2>1, <2>2, NoBufAssumption, Zenon DEF View, Types
  <2>6. Current' = [Current EXCEPT ![b] = v]
    BY <2>2, <2>3, <2>5, Zenon DEF Current
  <2> QED BY <1>1, <2>2, <2>4, <2>6, Zenon DEF AD!Next, AD!Write
<1>5. CASE Brelse(p)
  <2>1. Current' = Current
    BY <1>1, <1>5, Zenon DEF Brelse, Current, View, durable
  <2>2. Active' = Active
    BY <1>5, Zenon DEF Brelse, Active, Types
  <2> QED BY <1>1, <2>1, <2>2, Zenon DEF AD!advars
<1>6. CASE EndOp(p)
  <2>1. InOp(p) /\ phase = "normal" /\ committing # 1
    <3>1. InOp(p)
      BY <1>6, Zenon DEF EndOp
    <3>2. phase = "normal"
      BY <3>1, InOpNormal, Zenon
    <3> QED BY <3>1, <3>2, Zenon DEF Control, CommitPhase
  <2>2. phase' \notin RecoveryPhase /\ phase \notin RecoveryPhase /\ UNCHANGED <<cache, disk>>
    BY <1>6, <2>1, Zenon DEF EndOp, CommitStart, RecoveryPhase, durable
  <2>3. Current' = Current
    BY <2>2, Zenon DEF Current, View
  <2>4. pc' = [pc EXCEPT ![p] = "commit"] \/ pc' = [Wakeup(pc) EXCEPT ![p] = "out"]
    BY <1>6, <2>1, Zenon DEF EndOp
  <2>5. p \in Active /\ Active' = Active \ {p}
    <3>1. pc \in [Proc -> PC] /\ p \in Active
      BY <2>1, Zenon DEF Types, Active
    <3>2. Wakeup(pc) \in [Proc -> PC]
      BY <3>1, WakeupType, Zenon
    <3>3. ~InOp(p)'
      BY <2>4, <3>1, <3>2, Zenon
    <3>4. \A q \in Proc : q # p => (InOp(q)' <=> InOp(q))
      <4> SUFFICES ASSUME NEW q \in Proc, q # p PROVE InOp(q)' <=> InOp(q)
        BY Zenon
      <4>1. pc'[q] = pc[q] \/ pc'[q] = Wakeup(pc)[q]
        BY <2>4, <3>1, <3>2, Zenon
      <4>2. Wakeup(pc)[q] = pc[q] \/ (pc[q] = "asleep" /\ Wakeup(pc)[q] = "woken")
        BY <3>1, WakeupType, Zenon
      <4> QED BY <4>1, <4>2, Zenon
    <3> QED BY <3>1, <3>3, <3>4, Zenon DEF Active
  <2> QED BY <1>1, <2>3, <2>5, Zenon DEF AD!Next, AD!End
<1> QED BY <1>2, <1>3, <1>4, <1>5, <1>6, Zenon DEF OpStep

(* The steps of commit(): the write of the header is Commit, the rest is   *)
(* invisible.                                                              *)
LEMMA CommitRefines ==
  ASSUME Inv, CommitStep, Inv'
  PROVE  [AD!Next]_(AD!advars)
<1> USE DEF Inv, CInv
<1>0. Active = {} /\ Active' = {} /\ phase \notin RecoveryPhase /\ phase' \notin RecoveryPhase
  <2>1. phase \in CommitPhase /\ phase' \in CommitPhase \cup {"normal"}
    BY Zenon DEF CommitStep, WriteLog, WriteHead, Install, Clear, Finish, CommitPhase
  <2>2. Active = {}
    BY <2>1, Zenon DEF Control, Active, Ops
  <2>3. \A q \in Proc : ~InOp(q)'
    <3>1. CASE pc' = pc
      BY <2>2, <3>1, Zenon DEF Active
    <3>2. ASSUME NEW p \in Proc, Finish(p), NEW q \in Proc PROVE ~InOp(q)'
      <4>1. pc' = [Wakeup(pc) EXCEPT ![p] = "out"] /\ ~InOp(q)
        BY <2>2, <3>2, Zenon DEF Finish, Active
      <4> QED BY <4>1, WakeupType, Zenon DEF Types
<3> QED BY <3>1, <3>2, Zenon DEF CommitStep, WriteLog, WriteHead, Install, InstallTrans, Clear,
       ClearHead
  <2> QED BY <2>1, <2>2, <2>3, Zenon DEF Active, CommitPhase, RecoveryPhase
<1>1. CASE WriteLog
  <2>1. head = <<>> /\ head' = <<>> /\ disk' = disk
    BY <1>1, Zenon DEF WriteLog, DInv
  <2>2. Recovered' = Recovered
    <3>1. \A b \in Block : {i \in DOMAIN head : head[i] = b} = {}
      BY <2>1
    <3> QED BY <2>1, <3>1, Zenon DEF Recovered
  <2>3. \A b \in Block : View(b)' = View(b)
    BY <1>1, <2>1, Zenon DEF WriteLog, View, Types
  <2> QED BY <1>0, <2>2, <2>3, Zenon DEF AD!advars, Current
<1>2. CASE WriteHead
  <2>1. /\ phase = "write_head" /\ head' = lh /\ UNCHANGED <<disk, logblk, cache, lh>>
        /\ \A i \in DOMAIN lh : logblk[i] = cache[lh[i]]
        /\ \A b \in Block \ Logged : cache[b] \in {NoBuf, disk[b]}
        /\ \A b \in Logged : cache[b] # NoBuf
    <3>1. phase = "write_head" /\ Uninstalled = Logged
      BY <1>2, UninstalledIs, Zenon DEF WriteHead
    <3>2. \A b \in Logged : b \in Block
      <4>1. lh \in Seq(Block)
        BY Zenon DEF Types
      <4> QED BY <4>1, LoggedBlocks, Zenon
    <3> QED BY <1>2, <3>1, <3>2, Zenon DEF WriteHead, DInv, PinExact, logvars
  <2>2. \A b \in Block : Recovered'[b] = View(b)
    <3> SUFFICES ASSUME NEW b \in Block PROVE Recovered'[b] = View(b)
      BY Zenon
    <3>1. Distinct(head') /\ head' \in Seq(Block)
      BY Zenon DEF DInv, Types
    <3>2. CASE b \in Logged
      <4>1. PICK i \in DOMAIN lh : lh[i] = b
        BY <3>2, Zenon DEF Logged
      <4>2. Recovered'[b] = logblk'[i]
        BY <2>1, <3>1, <4>1, RecoveredIsNext, Zenon
      <4> QED BY <2>1, <3>2, <4>1, <4>2, Zenon DEF View
    <3>3. CASE b \notin Logged
      <4>1. \A i \in DOMAIN head' : head'[i] # b
        BY <2>1, <3>3, Zenon DEF Logged
      <4>2. Recovered'[b] = disk'[b]
        BY <3>1, <4>1, RecoveredIsNext, Zenon
      <4> QED BY <2>1, <3>3, <4>2, Zenon DEF View
    <3> QED BY <3>2, <3>3, Zenon
  <2>3. Recovered' = Current
    BY <1>0, <2>2, Zenon DEF Recovered, Current
  <2>4. Current' = Current
    BY <1>0, <2>1, Zenon DEF Current, View
  <2> QED BY <1>0, <2>3, <2>4, Zenon DEF AD!Next, AD!Commit
<1>3. CASE Install
  <2>1. Recovered' = Recovered
    BY <1>3, InstallRecovered, Zenon
  <2>2. \A b \in Block : View(b)' = View(b)
    <3>1. /\ tail + 1 \in DOMAIN lh /\ lh[tail + 1] \in Block /\ tail + 1 \in 1..LOGSIZE
          /\ logblk[tail + 1] = cache[lh[tail + 1]] /\ tail \in Nat
          /\ lh[tail + 1] \in Uninstalled
      <4>1. phase = "install"
        BY <1>3, Zenon DEF Install
      <4>2. tail + 1 \in DOMAIN lh /\ lh[tail + 1] \in Block /\ tail \in Nat /\ tail + 1 \in 1..LOGSIZE
        BY <4>1, LoopIndex, Zenon
      <4> QED BY <4>1, <4>2, UninstalledIs, SMTT(30) DEF DInv
    <3>2. cache[lh[tail + 1]] # NoBuf
      BY <3>1, Zenon DEF DInv, PinExact
    <3>3. cache' = cache
      BY <1>3, <3>1, Zenon DEF Install, InstallTrans, Types
    <3>4. \A b \in Block : b # lh[tail + 1] => disk'[b] = disk[b]
      BY <1>3, Zenon DEF Install, InstallTrans, Types
    <3> QED BY <3>2, <3>3, <3>4, Zenon DEF View
  <2> QED BY <1>0, <2>1, <2>2 DEF AD!advars, Current
<1>4. CASE Clear
  <2>1. Recovered' = Recovered
    BY <1>4, ClearRecovered, Zenon
  <2>2. UNCHANGED <<cache, disk>>
    BY <1>4, Zenon DEF Clear, ClearHead
  <2> QED BY <1>0, <2>1, <2>2, Zenon DEF AD!advars, Current, View
<1>5. CASE \E p \in Proc : Finish(p)
  <2>1. UNCHANGED durable /\ cache' = cache
    BY <1>5, Zenon DEF Finish
  <2>2. Recovered' = Recovered
    BY <2>1, SameRecovered, Zenon
  <2> QED BY <1>0, <2>1, <2>2, Zenon DEF AD!advars, Current, View, durable
<1> QED BY <1>1, <1>2, <1>3, <1>4, <1>5, Zenon DEF CommitStep

(* Recovery is invisible, and a crash is the abstract crash.               *)
LEMMA RecoveryRefines ==
  ASSUME Inv, RecoveryStep, Inv'
  PROVE  UNCHANGED AD!advars
<1> USE DEF Inv, CInv
<1>0. Active = {} /\ Active' = {} /\ phase \in RecoveryPhase
  <2>1. phase \in RecoveryPhase /\ pc' = pc
    BY Zenon DEF RecoveryStep, ReadHead, Recover, RecoverClear, InstallTrans, ClearHead, RecoveryPhase
  <2> QED BY <2>1, Zenon DEF Control, Active
<1>1. CASE ReadHead
  <2>1. phase' \in RecoveryPhase /\ Recovered' = Recovered
    BY <1>1, SameRecovered, Zenon DEF ReadHead, RecoveryPhase
  <2> QED BY <1>0, <2>1, Zenon DEF AD!advars, Current
<1>2. CASE Recover
  <2>1. phase' \in RecoveryPhase /\ Recovered' = Recovered
    BY <1>2, InstallRecovered, Zenon DEF Recover, RecoveryPhase
  <2> QED BY <1>0, <2>1 DEF AD!advars, Current
<1>3. CASE RecoverClear
  <2>1. Recovered' = Recovered
    BY <1>3, ClearRecovered, Zenon
  <2>2. phase' = "normal" /\ head' = <<>> /\ Recovered' = disk' /\ lh' = <<>>
    <3>1. phase' = "normal" /\ head' = <<>> /\ lh' = <<>>
      BY <1>3, Zenon DEF RecoverClear, ClearHead
    <3> QED BY <3>1, RecoveredEmptyNext, Zenon DEF Types
  <2>3. Uninstalled' = {}
    BY <2>2 DEF Uninstalled
  <2>4. \A b \in Block : View(b)' = disk'[b]
    BY <2>2, <2>3, Zenon DEF DInv, View
  <2>5. Current' = disk'
    BY <2>2, <2>4, Zenon DEF Current, RecoveryPhase, Types
  <2> QED BY <1>0, <2>1, <2>2, <2>5, Zenon DEF AD!advars, Current
<1> QED BY <1>1, <1>2, <1>3, Zenon DEF RecoveryStep

(* A buffer that is filled or recycled shows the same content as before.   *)
LEMMA CacheRefines ==
  ASSUME Inv, ~Panicked, CacheStep
  PROVE  UNCHANGED AD!advars
<1> USE DEF Inv, CInv
<1>1. PICK b \in Block : Read(b) \/ Recycle(b)
  BY Zenon DEF CacheStep
<1>2. UNCHANGED <<durable, phase, pc>>
  BY <1>1, Zenon DEF Read, Recycle
<1>3. Recovered' = Recovered /\ Active' = Active
  BY <1>2, SameRecovered, Zenon DEF Active
<1>4. CASE phase \in RecoveryPhase
  BY <1>2, <1>3, <1>4, Zenon DEF AD!advars, Current
<1>6. CASE phase \notin RecoveryPhase
  <2>1. \A c \in Block : View(c)' = View(c)
    <3>1. CASE Read(b)
      BY <1>2, <3>1, Zenon DEF Read, View, Types, durable
    <3>2. CASE Recycle(b)
      <4>1. b \notin Uninstalled
        BY <3>2, SMTT(30) DEF Recycle, DInv, PinExact
      <4>2. cache[b] = disk[b]
        BY <1>6, <3>2, <4>1, Zenon DEF Recycle, DInv
      <4> QED BY <1>2, <3>2, <4>2, Zenon DEF Recycle, View, Types, durable
    <3> QED BY <1>1, <3>1, <3>2, Zenon
  <2> QED BY <1>2, <1>3, <1>6, <2>1, Zenon DEF AD!advars, Current
<1> QED BY <1>4, <1>6, Zenon

-----------------------------------------------------------------------------
(* bread() inside a call keeps the types and the control facts.            *)
LEMMA BreadTypesControl ==
  ASSUME Types, Control, ~Panicked, NEW p \in Proc, NEW b \in Block, Bread(p, b)
  PROVE  Types' /\ Control'
<1>1. Ops' = Ops
  BY Zenon DEF Bread, Types, Ops
<1>2. Types'
  BY <1>1, ViewType, Zenon DEF Bread, Types, durable, logvars, PC
<1>3. Control'
  BY <1>1, Zenon DEF Bread, Types, Control, durable, logvars, RecoveryPhase
<1> QED BY <1>2, <1>3, Zenon

(* log_write() keeps the types and the control facts: it appends only to a *)
(* log that is not full.                                                   *)
LEMMA LogWriteTypesControl ==
  ASSUME Types, Control, ~Panicked, NEW p \in Proc, NEW v \in Val, LogWrite(p, v)
  PROVE  Types' /\ Control'
<1>1. Ops' = Ops /\ p \in Ops /\ buf[p] \in Block
  BY Zenon DEF Types, Ops, LogWrite, Control
<1>2. phase = "normal"
  BY <1>1, Zenon DEF Types, Control, CommitPhase, RecoveryPhase, Phase, Ops, Panicked
<1>3. lh' = lh \/ (Len(lh) < LOGSIZE /\ lh' = Append(lh, buf[p]))
  BY SizeAssumption DEF Types, TooBig, LogWrite
<1>4. lh' \in Seq(Block) /\ Len(lh') <= LOGSIZE
  <2>1. lh \in Seq(Block) /\ Len(lh) \in Nat /\ Len(lh) <= LOGSIZE
    BY DEF Types
  <2>2. Append(lh, buf[p]) \in Seq(Block) /\ Len(Append(lh, buf[p])) = Len(lh) + 1
    BY <1>1, <2>1
  <2> QED BY <1>3, <2>1, <2>2, SizeAssumption
<1>5. cache' \in [Block -> Val \cup {NoBuf}] /\ wrote' \in [Proc -> SUBSET Block]
  BY <1>1, Zenon DEF Types, LogWrite
<1>6. pins' \in [Block -> Int] /\ phase' \in {"normal", "panic"}
  BY <1>1, <1>2 DEF Types, LogWrite
<1>7. UNCHANGED <<disk, logblk, head, outstanding, committing, tail, pc, buf>>
  BY Zenon DEF LogWrite, durable
<1>8. Types'
  BY <1>1, <1>4, <1>5, <1>6, <1>7, Zenon DEF Types, Phase
<1>9. Control'
  BY <1>1, <1>2, <1>6, <1>7, Zenon DEF Types, Control, CommitPhase, RecoveryPhase
<1> QED BY <1>8, <1>9

(* brelse() keeps the types and the control facts.                         *)
LEMMA BrelseTypesControl ==
  ASSUME Types, Control, ~Panicked, NEW p \in Proc, Brelse(p)
  PROVE  Types' /\ Control'
<1>1. Ops' = Ops
  BY Zenon DEF Brelse, Types, Ops
<1> QED BY <1>1, NoBufAssumption, Zenon DEF Brelse, Types, Control, durable, logvars, PC, RecoveryPhase

(* An iteration of write_log() keeps the types and the control facts.      *)
LEMMA WriteLogTypesControl ==
  ASSUME Types, Control, WriteLog
  PROVE  Types' /\ Control'
<1>1. tail + 1 \in 1..Len(lh) /\ lh[tail + 1] \in Block /\ tail + 1 \in 1..LOGSIZE
  BY SizeAssumption DEF Types, Control, WriteLog
<1>2. View(lh[tail + 1]) \in Val
  BY <1>1, ViewType, Zenon
<1>3. Ops' = Ops
  BY SamePc, Zenon DEF WriteLog
<1>4. /\ \/ phase' = "write_head" /\ tail' = 0
         \/ phase' = "write_log" /\ tail' = tail + 1 /\ tail + 1 < Len(lh)
      /\ lh # <<>>
  BY <1>1 DEF WriteLog, Types
<1>5. Types'
  BY <1>1, <1>2, <1>3, <1>4, SizeAssumption DEF Types, WriteLog, logvars, Phase, CommitPhase
<1>6. Control'
  BY <1>3, <1>4, Zenon DEF Types, Control, WriteLog, logvars, CommitPhase, RecoveryPhase
<1> QED BY <1>5, <1>6, Zenon

(* write_head() at the commit point keeps the types and the control facts. *)
LEMMA WriteHeadTypesControl ==
  ASSUME Types, Control, WriteHead
  PROVE  Types' /\ Control'
<1>1. Ops' = Ops
  BY SamePc, Zenon DEF WriteHead
<1>2. 0 < Len(lh)
  BY DEF Types, Control, WriteHead
<1>3. Types'
  BY <1>1, Zenon DEF Types, WriteHead, logvars, Phase, CommitPhase
<1>4. Control'
  BY <1>1, <1>2, Zenon DEF Types, Control, WriteHead, logvars, CommitPhase, RecoveryPhase
<1> QED BY <1>3, <1>4

(* An iteration of install_trans() keeps the types.                        *)
LEMMA InstallTransTypes ==
  ASSUME Types, Control, NEW r \in BOOLEAN, InstallTrans(r), tail < Len(lh), phase' \in Phase
  PROVE  Types' /\ Ops' = Ops
<1>1. tail + 1 \in 1..Len(lh) /\ lh[tail + 1] \in Block /\ tail + 1 \in 1..LOGSIZE
  BY SizeAssumption DEF Types
<1>2. Ops' = Ops
  BY SamePc, Zenon DEF InstallTrans
<1>3. logblk[tail + 1] \in Val
  BY <1>1, Zenon DEF Types
<1>4. pins' \in [Block -> Int]
  BY <1>1 DEF Types, InstallTrans
<1> QED BY <1>1, <1>2, <1>3, <1>4 DEF Types, InstallTrans, logvars

(* An iteration of install_trans(), in commit() or in recovery, keeps the  *)
(* types and the control facts.                                            *)
LEMMA InstallTypesControl ==
  ASSUME Types, Control, Install \/ Recover
  PROVE  Types' /\ Control'
<1>1. tail < Len(lh)
  BY Zenon DEF Control, Install, Recover
<1>2. Types' /\ Ops' = Ops
  BY <1>1, InstallTransTypes, Zenon DEF Types, Install, Recover, Phase, CommitPhase, RecoveryPhase
<1>3. tail' = tail + 1 /\ UNCHANGED <<logvars, pc, buf>>
  BY Zenon DEF Install, Recover, InstallTrans
<1>4. \/ phase = "install" /\ phase' = "install" /\ tail' < Len(lh)
      \/ phase = "install" /\ phase' = "clear" /\ tail' = Len(lh)
      \/ phase = "recover" /\ phase' = "recover" /\ tail' < Len(lh)
      \/ phase = "recover" /\ phase' = "recover_clear" /\ tail' = Len(lh)
  <2>1. \/ phase = "install" /\ phase' = IF tail + 1 = Len(lh) THEN "clear" ELSE phase
        \/ phase = "recover" /\ phase' = IF tail + 1 = Len(lh) THEN "recover_clear" ELSE phase
    BY Zenon DEF Install, Recover
  <2>2. tail \in Int /\ Len(lh) \in Int
    BY SizeAssumption DEF Types
  <2> QED BY <1>1, <1>3, <2>1, <2>2
<1>5. Control'
  BY <1>2, <1>3, <1>4, Zenon DEF Control, Types, logvars, CommitPhase, RecoveryPhase
<1> QED BY <1>2, <1>5, Zenon

(* Erasing the header, in commit() or in recovery, keeps the types and the *)
(* control facts.                                                          *)
LEMMA ClearTypesControl ==
  ASSUME Types, Control, Clear \/ RecoverClear
  PROVE  Types' /\ Control'
<1>1. <<>> \in Seq(Block) /\ Len(<<>>) = 0
  OBVIOUS
<1>2. Ops' = Ops
  BY SamePc, Zenon DEF Clear, RecoverClear, ClearHead
<1>3. Types'
  <2>1. /\ head' \in Seq(Block) /\ Len(head') <= LOGSIZE
        /\ lh' \in Seq(Block) /\ Len(lh') <= LOGSIZE
        /\ tail' \in 0..LOGSIZE
    <3>1. head' = <<>> /\ lh' = <<>> /\ tail' = 0
      BY Zenon DEF Clear, RecoverClear, ClearHead
    <3> QED BY <3>1, SizeAssumption
  <2>2. phase' \in Phase
    BY Zenon DEF Clear, RecoverClear, Phase, CommitPhase
  <2>3. UNCHANGED <<disk, logblk, cache, pins, outstanding, committing, pc, buf, wrote>>
    BY Zenon DEF Clear, RecoverClear, ClearHead
  <2> QED BY <1>2, <2>1, <2>2, <2>3, Zenon DEF Types
<1>4. Control'
  BY <1>1, <1>2, Zenon DEF Types, Control, Clear, RecoverClear, ClearHead, CommitPhase, RecoveryPhase
<1> QED BY <1>3, <1>4, Zenon

(* The tail of end_op() keeps the types and the control facts.             *)
LEMMA FinishTypesControl ==
  ASSUME Types, Control, NEW p \in Proc, Finish(p)
  PROVE  Types' /\ Control'
<1>1. \A q \in Proc : pc'[q] \in PC /\ (InOp(q)' <=> InOp(q)) /\ (pc'[q] = "locked" <=> pc[q] = "locked")
  BY Zenon DEF Finish, Types, Wakeup, PC
<1>2. Ops' = Ops
  BY <1>1, Zenon DEF Ops
<1>3. Types'
  <2>1. pc' \in [Proc -> PC]
    BY <1>1, Zenon DEF Finish, Wakeup
  <2> QED BY <1>2, <2>1, Zenon DEF Finish, Types, durable, Phase
<1>4. Control'
  BY <1>1, <1>2 DEF Types, Control, Finish, durable, CommitPhase, RecoveryPhase
<1> QED BY <1>3, <1>4, Zenon

(* Reads and buffer recycling keep the types and the control facts.        *)
LEMMA CacheTypesControl ==
  ASSUME Types, Control, NEW b \in Block, Read(b) \/ Recycle(b)
  PROVE  Types' /\ Control'
<1>1. Ops' = Ops
  BY SamePc, Zenon DEF Read, Recycle
<1>2. Types'
  BY <1>1, ViewType, Zenon DEF Types, Read, Recycle, durable, logvars
<1>3. Control'
  BY <1>1, Zenon DEF Types, Control, Read, Recycle, durable, logvars
<1> QED BY <1>2, <1>3, Zenon

(* read_head() keeps the types and the control facts.                      *)
LEMMA ReadHeadTypesControl ==
  ASSUME Types, Control, ReadHead
  PROVE  Types' /\ Control'
<1>1. Ops' = Ops
  BY SamePc, Zenon DEF ReadHead
<1>2. head # <<>> => 0 < Len(head)
  BY DEF Types
<1>3. Types'
  BY <1>1, Zenon DEF Types, ReadHead, durable, Phase, RecoveryPhase
<1>4. Len(<<>>) = 0
  BY Zenon
<1>5. Control'
  BY <1>1, <1>2, <1>4, Zenon DEF Control, Types, ReadHead, durable, RecoveryPhase, CommitPhase
<1> QED BY <1>3, <1>5

INSTANCE FiniteSetTheorems

(* The facts about finite sets hold.                                       *)
LEMMA SetFactsHold == SetFacts
<1>1. \A S : IsFiniteSet(S) => Cardinality(S) \in Nat /\ (Cardinality(S) = 0 <=> S = {})
  BY FS_CardinalityType, FS_EmptySet, Zenon
<1>2. IsFiniteSet({}) /\ Cardinality({}) = 0
  BY FS_EmptySet, Zenon
<1>3. ASSUME NEW S, NEW T \in SUBSET S, IsFiniteSet(S)
      PROVE  IsFiniteSet(T) /\ Cardinality(T) <= Cardinality(S)
  BY <1>3, FS_Subset, Zenon
<1>4. ASSUME NEW S, NEW x, IsFiniteSet(S)
      PROVE  /\ IsFiniteSet(S \cup {x})
             /\ Cardinality(S \cup {x}) = IF x \in S THEN Cardinality(S) ELSE Cardinality(S) + 1
  BY <1>4, FS_AddElement, Zenon
<1>5. ASSUME NEW S, NEW x, IsFiniteSet(S)
      PROVE  /\ IsFiniteSet(S \ {x})
             /\ Cardinality(S \ {x}) = IF x \in S THEN Cardinality(S) - 1 ELSE Cardinality(S)
  BY <1>5, FS_RemoveElement, Zenon
<1>6. ASSUME NEW S, NEW T, IsFiniteSet(S), IsFiniteSet(T)
      PROVE  IsFiniteSet(S \cup T) /\ Cardinality(S \cup T) <= Cardinality(S) + Cardinality(T)
  <2>1. Cardinality(S) \in Nat /\ Cardinality(T) \in Nat /\ Cardinality(S \cap T) \in Nat
    BY <1>6, FS_CardinalityType, FS_Intersection, Zenon
  <2>2. IsFiniteSet(S \cup T) /\ Cardinality(S \cup T) = Cardinality(S) + Cardinality(T) - Cardinality(S \cap T)
    BY <1>6, FS_Union, Zenon
  <2> QED BY <2>1, <2>2
<1>7. ASSUME NEW S, IsFiniteSet(S)
      PROVE  /\ IsFiniteSet(S \X (1..MAXOPBLOCKS))
             /\ Cardinality(S \X (1..MAXOPBLOCKS)) = Cardinality(S) * MAXOPBLOCKS
  <2>1. IsFiniteSet(1..MAXOPBLOCKS) /\ Cardinality(1..MAXOPBLOCKS) = MAXOPBLOCKS
    BY FS_Interval, SizeAssumption
  <2> QED BY <1>7, <2>1, FS_Product, Zenon
<1>8. \A x : IsFiniteSet({x}) /\ Cardinality({x}) = 1
  BY FS_Singleton, Zenon
<1> QED BY <1>1, <1>2, <1>3, <1>4, <1>5, <1>6, <1>7, <1>8, Zenon DEF SetFacts

USE SetFactsHold

(* Types and Control are inductive together.                               *)
LEMMA TypesControlStep ==
  ASSUME Types, Control, [Next]_vars
  PROVE  Types' /\ Control'
<1>1. CASE UNCHANGED vars
  <2>1. Ops' = Ops
    BY <1>1, SamePc, Zenon DEF vars
  <2> QED BY <1>1, <2>1, Zenon DEF vars, Types, Control
<1>2. CASE Crash
  BY <1>2, CrashTypesControl, Zenon
<1>3. CASE ~Panicked /\ \E p \in Proc : OpStep(p)
BY <1>3, BeginOpTypesControl, BreadTypesControl, LogWriteTypesControl, BrelseTypesControl,
     EndOpTypesControl, Zenon DEF OpStep
<1>4. CASE CommitStep
BY <1>4, WriteLogTypesControl, WriteHeadTypesControl, InstallTypesControl, ClearTypesControl,
     FinishTypesControl, Zenon DEF CommitStep
<1>5. CASE RecoveryStep
  BY <1>5, ReadHeadTypesControl, InstallTypesControl, ClearTypesControl, Zenon DEF RecoveryStep
<1>6. CASE CacheStep
  BY <1>6, CacheTypesControl, Zenon DEF CacheStep
<1> QED BY <1>1, <1>2, <1>3, <1>4, <1>5, <1>6, Zenon DEF Next

-----------------------------------------------------------------------------
(* The inductive invariant holds in every reachable state.                 *)
LEMMA Invariant == Spec => []Inv
<1>1. Init => Inv
  BY InitData, InitCInv, Zenon DEF Inv
<1>2. Inv /\ [Next]_vars => Inv'
  BY TypesControlStep, CountStep, LostWakeupStep, DataStep, Zenon DEF Inv, CInv
<1> QED BY <1>1, <1>2, PTL DEF Spec

(* The control part of the invariant holds in every reachable state.       *)
LEMMA ControlInvariant == Spec => []CInv
<1>1. Init => CInv
  BY InitCInv, Zenon
<1>2. CInv /\ [Next]_vars => CInv'
  BY TypesControlStep, CountStep, LostWakeupStep, Zenon DEF CInv
<1> QED BY <1>1, <1>2, PTL DEF Spec

(* No wakeup of begin_op() is lost, whatever the sizes.                    *)
THEOREM LostWakeupFree == Spec => []NoLostWakeup
BY ControlInvariant, PTL DEF CInv

(* commit() never runs beside a call in progress.                          *)
THEOREM CommitRunsAlone == Spec => []CommitAlone
<1>1. CInv => CommitAlone
  BY Zenon DEF CInv, Control, CommitAlone, Ops
<1> QED BY <1>1, ControlInvariant, PTL

(* What a call has not logged of its reservation is part of Credit.        *)
LEMMA UnspentFits ==
  ASSUME CInv, NEW p \in Proc, InOp(p)
  PROVE  /\ Cardinality(wrote[p]) \in Nat
         /\ Len(lh) + (MAXOPBLOCKS - Cardinality(wrote[p])) <= LOGSIZE
<1> DEFINE n == Cardinality(wrote[p])
           Mine == {p} \X ((n + 1)..MAXOPBLOCKS)
<1>1. Types /\ Count
  BY Zenon DEF CInv
<1>2. n \in Nat /\ n <= OPBLOCKS
  BY <1>1, FS_CardinalityType, Zenon DEF Count
<1>3. Mine \in SUBSET Credit
  BY <1>2, SizeAssumption DEF Credit
<1>4. /\ IsFiniteSet((n + 1)..MAXOPBLOCKS)
      /\ Cardinality((n + 1)..MAXOPBLOCKS) = MAXOPBLOCKS - n
  <2> HIDE DEF n
  <2> QED BY <1>2, FS_Interval, SizeAssumption
<1>5. IsFiniteSet({p}) /\ Cardinality({p}) = 1
  BY FS_Singleton, Zenon
<1>6. Cardinality(Mine) = 1 * (MAXOPBLOCKS - n)
  <2> HIDE DEF n
  <2> QED BY <1>4, <1>5, FS_Product, ZenonT(30)
<1>7. Cardinality(Mine) <= Cardinality(Credit)
  <2> HIDE DEF Mine
  <2> QED BY <1>1, <1>3, CreditFinite, FS_Subset, Zenon
<1>8. Cardinality(Credit) \in Nat /\ Len(lh) \in Nat /\ Len(lh) + Cardinality(Credit) <= LOGSIZE
  BY <1>1, CreditFinite, LenNat, Zenon DEF Count
<1> HIDE DEF Mine, n
<1>9. Len(lh) + (MAXOPBLOCKS - n) <= LOGSIZE
  BY <1>2, <1>6, <1>7, <1>8, SizeAssumption
<1> QED BY <1>2, <1>9 DEF n

(* Whatever the sizes and however many blocks the calls log, log.c panics  *)
(* only in log_write() on a full log, and not before every call in         *)
(* progress has logged all it reserved but for Lacking blocks.             *)
THEOREM LogPanicsOnlySpent == Spec => PanicsOnlySpent
<1> DEFINE Spent == /\ TooBig /\ outstanding > 0 /\ committing = 0
                    /\ \A p \in Proc : InOp(p) => Cardinality(wrote[p]) + Lacking >= MAXOPBLOCKS
           Good == ~Panicked /\ Panicked' => Spent
<1>1. CInv /\ [Next]_vars => [Good]_vars
  <2> SUFFICES ASSUME CInv, [Next]_vars, ~Panicked, Panicked' PROVE Spent
    BY Zenon
  <2>1. ASSUME NEW p \in Proc, NEW v \in Val, LogWrite(p, v) PROVE Spent
    <3>1. InOp(p) /\ p \in Ops
      BY <2>1, Zenon DEF LogWrite, Ops
    <3>2. outstanding \in Nat /\ outstanding # 0
      BY <3>1, OpsFinite, FS_CardinalityType, FS_EmptySet, Zenon DEF CInv, Types
    <3>3. outstanding > 0 /\ ~(outstanding < 1)
      BY <3>2
    <3>4. TooBig
      BY <2>1, <3>3, Zenon DEF LogWrite
    <3>5. committing = 0
      BY <3>1, Zenon DEF CInv, Types, Control
    <3>6. ASSUME NEW q \in Proc, InOp(q) PROVE Cardinality(wrote[q]) + Lacking >= MAXOPBLOCKS
      <4>1. PICK k : k = Cardinality(wrote[q])
        BY Zenon
      <4>2. PICK n : n = Len(lh)
        BY Zenon
      <4>3. k \in Nat /\ n \in Nat /\ n + (MAXOPBLOCKS - k) <= LOGSIZE
        BY <3>6, <4>1, <4>2, UnspentFits, LenNat, Zenon DEF CInv
      <4>4. n >= LOGSIZE \/ n >= NLOG - 1
        BY <3>4, <4>2, Zenon DEF TooBig
      <4>5. k + Lacking >= MAXOPBLOCKS
        BY <4>3, <4>4, SizeAssumption DEF Lacking
      <4> QED BY <4>1, <4>5, Zenon
    <3> QED BY <3>3, <3>4, <3>5, <3>6, Zenon
  <2>2. ASSUME NEW p \in Proc, EndOp(p) PROVE FALSE
    <3>1. committing = 0
      BY <2>2, Zenon DEF EndOp, CInv, Types, Control, Phase, RecoveryPhase, CommitPhase, Ops
    <3> QED BY <2>2, <3>1 DEF EndOp, CommitStart
  <2>3. CASE \E p \in Proc : BeginOp(p) \/ Brelse(p) \/ \E b \in Block : Bread(p, b)
    BY <2>3, Zenon DEF BeginOp, Brelse, Bread
  <2>4. CASE CommitStep
    BY <2>4, Zenon DEF CommitStep, WriteLog, WriteHead, Install, Clear, Finish
  <2>5. CASE RecoveryStep \/ CacheStep \/ Crash \/ UNCHANGED vars
    BY <2>5, Zenon DEF RecoveryStep, ReadHead, Recover, RecoverClear, CacheStep, Read, Recycle, Crash, vars
  <2> QED BY <2>1, <2>2, <2>3, <2>4, <2>5, Zenon DEF Next, OpStep
<1> QED BY <1>1, ControlInvariant, PTL DEF Spec, PanicsOnlySpent

(* struct log, the on-disk header and the buffers keep their types; no     *)
(* bunpin() goes below zero and no header grows past LOGSIZE entries.      *)
THEOREM TypeCorrect == Spec => []TypeOK
<1>1. Inv => TypeOK
  <2> SUFFICES ASSUME Inv PROVE TypeOK
    BY Zenon
  <2>1. pins \in [Block -> Nat]
    <3>1. \A b \in Block : pins[b] \in Nat
      BY DEF Inv, DInv, PinExact
    <3> QED BY <3>1, Zenon DEF Inv, CInv, Types
  <2> QED BY <2>1, OpsFinite, Zenon DEF Inv, CInv, Types, TypeOK
<1> QED BY <1>1, Invariant, PTL

(* Pinning is exact in every reachable state.                              *)
THEOREM PinsAreExact == Spec => []PinExact
<1>1. Inv => PinExact
  BY Zenon DEF Inv, DInv
<1> QED BY <1>1, Invariant, PTL

(* With no call and no commit in progress everything written is home.      *)
THEOREM QuiescenceIsDurable == Spec => []QuiescentIsDurable
<1>1. Inv => QuiescentIsDurable
  <2> SUFFICES ASSUME Inv, phase = "normal", outstanding = 0
               PROVE  lh = <<>> /\ head = <<>> /\ \A b \in Block : View(b) = disk[b]
    BY Zenon DEF QuiescentIsDurable
  <2> USE DEF Inv, CInv
  <2>1. Ops = {}
    BY OpsFinite, FS_EmptySet, Zenon DEF Types
  <2>2. lh = <<>> /\ head = <<>>
    BY <2>1, Zenon DEF Control, DInv
  <2>3. Uninstalled = {}
    BY <2>2 DEF Uninstalled
  <2> QED BY <2>2, <2>3, Zenon DEF DInv, View
<1> QED BY <1>1, Invariant, PTL

(* Crash atomicity: the log implements the atomic disk.                    *)
THEOREM LogIsCrashAtomic == Spec => CrashAtomic
<1>1. Inv /\ [Next]_vars /\ Inv' => [AD!Next]_(AD!advars)
  <2> SUFFICES ASSUME Inv, [Next]_vars, Inv' PROVE [AD!Next]_(AD!advars)
    BY Zenon
  <2>1. CASE UNCHANGED vars
    <3>1. Recovered' = Recovered
      BY <2>1, SameRecovered, Zenon DEF vars, durable
    <3> QED BY <2>1, <3>1, Zenon DEF vars, AD!advars, Current, Active, View
  <2>2. CASE Crash
    <3>1. Recovered' = Recovered
      BY <2>2, SameRecovered, Zenon DEF Crash
    <3>2. Current' = Recovered /\ Active' = {}
      BY <2>2, <3>1, Zenon DEF Crash, Current, Active, RecoveryPhase
    <3> QED BY <3>1, <3>2, Zenon DEF AD!Next, AD!Crash
  <2>3. CASE ~Panicked /\ \E p \in Proc : OpStep(p)
    BY <2>3, OpRefines, Zenon
  <2>4. CASE CommitStep
    BY <2>4, CommitRefines, Zenon
  <2>5. CASE RecoveryStep
    BY <2>5, RecoveryRefines, Zenon
  <2>6. CASE ~Panicked /\ CacheStep
    BY <2>6, CacheRefines, Zenon
  <2> QED BY <2>1, <2>2, <2>3, <2>4, <2>5, <2>6, Zenon DEF Next
<1> QED BY <1>1, InitRefines, Invariant, PTL DEF Spec, CrashAtomic, AD!Spec
=============================================================================
