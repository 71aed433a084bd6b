--------------------------- MODULE Ergasia1Proofs ---------------------------
(***************************************************************************)
(* Project 1, for any number of names, children, lines and steps: one      *)
(* process at a time has the turn, the table of semaphores is that of the  *)
(* live children, and the parent is released by the child it woke.         *)
(***************************************************************************)
EXTENDS Ergasia1, TLAPS

(* Where the parent waits for par_sem, and where it has the turn.          *)
Waits == {"waitS", "waitT", "waitM"}
Turn == {"command", "message", "error"}
(* The child being terminated.                                             *)
Going == IF par = "waitT" THEN {to} ELSE {}
Staying == Live \ Going

Types ==
  /\ step \in Nat /\ par \in Waits \cup Turn \cup {"post", "reap", "done", "undefined"}
  /\ table \in Seq([pid : Nat, name : Nat])
  /\ running \in Int /\ active \subseteq Name /\ to \in Nat /\ k \in Nat
  /\ doubled \in BOOLEAN
  /\ slots \in [Slot -> Nat] /\ command \in Int
  /\ sem \in [Slot -> Nat] /\ par_sem \in Nat
  /\ child \in [Pid -> {"unborn", "born", "posting", "idle", "woken", "leaving", "dead"}]
  /\ index \in [Pid -> Slot] /\ DOMAIN printed = Pid

(* child_pid_name: the j-th child forked has the j-th entry, until its name*)
(* is terminated, and lives as long as it has it.                          *)
TableOK ==
  /\ Len(table) <= IF par = "command" THEN step ELSE step + 1
  /\ Len(table) <= MaxStep + 1 /\ Len(table) <= MAX_CHILDREN
  /\ ~Ended => \A c \in Pid : child[c] = "unborn" <=> c > Len(table)
  /\ \A j \in DOMAIN table : table[j].pid \in {0, j} /\ (table[j].pid = 0 => table[j].name = 0)
  /\ \A j \in DOMAIN table : table[j].pid = j /\ ~Ended => j \in Staying

(* The names the commands leave active are those of the entries, and their *)
(* number is the count of children unless one was started twice.  Only an  *)
(* active C0 can send a line astray.                                       *)
NamesOK ==
  /\ IsFiniteSet(active)
  /\ ~Ended => \A nm \in Name : nm \in active <=> Entries(nm) # {}
  /\ ~doubled => /\ par # "error" => running = Cardinality(active)
                 /\ par = "undefined" => Len(table) = MAX_CHILDREN
  /\ par = "waitM" /\ 0 \notin active =>
       to \in DOMAIN table /\ table[to].pid = to /\ table[to].name \in active

(* A child that has registered and is not being terminated has one slot,   *)
(* and no other child has any.                                             *)
OwnersOK ==
  ~Ended =>
    /\ \A s \in Slot : slots[s] # 0 =>
         slots[s] \in Staying /\ child[slots[s]] # "born" /\ index[slots[s]] = s
    /\ \A c \in Staying : child[c] # "born" => slots[index[c]] = c
    /\ par = "waitT" => to \in Pid /\ slots[index[to]] = 0
    /\ par # "error" => running = Cardinality(Staying)

(* Who has the turn: the parent; or, while it waits, one busy child, or its*)
(* own semaphore, or the semaphore of the child it woke, or a semaphore    *)
(* that is no child's, and then the turn is lost.                          *)
AllQuiet == par_sem = 0 /\ \A s \in Slot : sem[s] = 0
ChildTurn(c) ==
  /\ Busy = {c} /\ AllQuiet
  /\ par = "waitS" => child[c] \in {"born", "posting"} /\ command = 0
  /\ par = "waitM" => /\ c = to /\ command = 0 /\ child[c] \in {"woken", "posting"}
                      /\ child[c] = "posting" => printed[to] = text
  /\ par = "waitT" => /\ c = to
                      /\ \/ child[c] = "woken" /\ command = to
                         \/ child[c] = "leaving" /\ command = 0
Released ==
  /\ Busy = {} /\ par_sem = 1 /\ (\A s \in Slot : sem[s] = 0) /\ command = 0
  /\ par = "waitM" => to \in Pid /\ printed[to] = text /\ child[to] = "idle"
  /\ par = "waitT" => to \in Pid /\ child[to] = "dead"
Woke ==
  /\ par # "waitS" /\ Busy = {} /\ par_sem = 0
  /\ to \in Pid /\ child[to] = "idle"
  /\ \A s \in Slot : sem[s] = IF s = index[to] THEN 1 ELSE 0
  /\ command = IF par = "waitT" THEN to ELSE 0
WokeNobody ==
  /\ Stray /\ Busy = {} /\ par_sem = 0 /\ command = 0
  /\ \E s \in Slot : slots[s] = 0 /\ \A r \in Slot : sem[r] = IF r = s THEN 1 ELSE 0
TurnOK ==
  /\ par \in Turn => Busy = {} /\ AllQuiet /\ command = 0
  /\ par \in Waits => (\E c \in Pid : ChildTurn(c)) \/ Released \/ Woke \/ WokeNobody

IInv == Types /\ TableOK /\ NamesOK /\ OwnersOK /\ TurnOK

-----------------------------------------------------------------------------
(* What the proofs use of finite sets; SetFactsHold below proves it.       *)
SetFacts ==
  /\ IsFiniteSet(Pid) /\ Cardinality({}) = 0
  /\ \A S : \A T \in SUBSET S : IsFiniteSet(S) => IsFiniteSet(T)
  /\ \A S, x : IsFiniteSet(S) =>
       /\ IsFiniteSet(S \cup {x})
       /\ Cardinality(S \cup {x}) = IF x \in S THEN Cardinality(S) ELSE Cardinality(S) + 1
  /\ \A S, x : IsFiniteSet(S) =>
       /\ IsFiniteSet(S \ {x})
       /\ Cardinality(S \ {x}) = IF x \in S THEN Cardinality(S) - 1 ELSE Cardinality(S)
  /\ \A n \in Nat : \A S \in SUBSET (1..n) : S # {} => Max(S) \in S

(* A sequence is a function, and a function on 1..n a sequence.            *)
LEMMA Sequence ==
  ASSUME NEW S, NEW n \in Nat
  PROVE  /\ \A s \in Seq(S) : \A j \in DOMAIN s : s[j] \in S
         /\ \A f \in [1..n -> S] : f \in Seq(S) /\ Len(f) = n
OBVIOUS

(* Pids and slots are numbers; no pid is 0.                                *)
LEMMA Consts == Pid \subseteq Nat \ {0} /\ Slot \subseteq Nat /\ 0 \in Slot
BY ErgasiaAssumption DEF Pid, Slot

(* There are finitely many children.                                       *)
LEMMA Finite ==
  ASSUME SetFacts PROVE IsFiniteSet(Live)
<1>1. Live \in SUBSET Pid
  BY Zenon DEF Live
<1> QED BY <1>1, Zenon DEF SetFacts

(* The entry a name is looked up by is that of a living child.             *)
LEMMA LastEntry ==
  ASSUME SetFacts, IInv, NEW nm \in Name, Entries(nm) # {}
  PROVE  \E c \in Pid : /\ c \in Entries(nm) /\ c = Max(Entries(nm))
                        /\ table[c].pid = c /\ table[c].name = nm /\ (~Ended => c \in Staying)
<1>1. Len(table) \in Nat /\ DOMAIN table = 1..Len(table) /\ Len(table) <= MaxStep + 1
  BY DEF IInv, Types, TableOK
<1>2. Entries(nm) \in SUBSET (1..Len(table))
  BY <1>1, Zenon DEF Entries
<1>3. PICK c : c = Max(Entries(nm)) /\ c \in Entries(nm)
  BY <1>1, <1>2, Zenon DEF SetFacts
<1>4. c \in DOMAIN table /\ table[c].pid = c /\ table[c].name = nm
  BY <1>1, <1>3, Zenon DEF Entries, IInv, TableOK
<1>5. ~Ended => c \in Staying
  BY <1>4, Zenon DEF IInv, TableOK
<1>6. c \in Pid
  BY <1>1, <1>4, ErgasiaAssumption DEF Pid
<1> QED BY <1>3, <1>4, <1>5, <1>6, Zenon

(* When the parent has the turn every living child is idle.                *)
LEMMA AllIdle ==
  ASSUME IInv, par \in Turn
  PROVE  /\ Busy = {} /\ Staying = Live /\ par_sem = 0 /\ command = 0 /\ ~Ended
         /\ \A s \in Slot : sem[s] = 0
         /\ \A c \in Live : c \in Pid /\ child[c] = "idle" /\ slots[index[c]] = c
<1>1. Busy = {} /\ par_sem = 0 /\ command = 0 /\ \A s \in Slot : sem[s] = 0
  BY Zenon DEF IInv, TurnOK, AllQuiet
<1>2. Staying = Live /\ ~Ended
  BY Zenon DEF Staying, Going, Turn, Ended
<1>3. \A c \in Live : c \in Pid /\ child[c] = "idle"
  BY <1>1, Zenon DEF Live, Busy, IInv, Types
<1>4. \A c \in Live : slots[index[c]] = c
  BY <1>2, <1>3, Zenon DEF IInv, OwnersOK
<1> QED BY <1>1, <1>2, <1>3, <1>4, Zenon

(* While no child moves and the table stays, so do the sets made of them.  *)
LEMMA Same ==
  /\ child' = child => Live' = Live /\ Busy' = Busy
  /\ table' = table => \A nm : Entries(nm)' = Entries(nm)
BY Zenon DEF Live, Busy, Entries

-----------------------------------------------------------------------------
(* The parent.  Between two commands or lines it keeps the turn.           *)
LEMMA KeepsTurn ==
  ASSUME IInv, par \in {"command", "message"}, par' \in Turn, par' # "error" => running' = running,
         UNCHANGED <<table, slots, command, sem, par_sem, child, index>>
  PROVE  OwnersOK' /\ TurnOK' /\ Staying' = Staying /\ ~Ended'
<1>1. par \in Turn /\ par # "error"
  BY Zenon DEF Turn
<1>2. Staying' = Live /\ ~Ended' /\ par' \notin Waits
  BY Same, Zenon DEF Staying, Going, Turn, Ended, Waits
<1>3. TurnOK'
  BY <1>1, <1>2, AllIdle, Same, Zenon DEF TurnOK, AllQuiet
<1>4. OwnersOK'
  <2>1. ~Ended /\ Staying = Live
    BY <1>1, AllIdle, Zenon
  <2>2. par' # "waitT"
    BY <1>2, Zenon DEF Waits
  <2> QED BY <1>1, <1>2, <2>1, <2>2, Zenon DEF OwnersOK, IInv
<1> QED BY <1>1, <1>2, <1>3, <1>4, AllIdle, Zenon

(* The names stay what they are while the parent keeps the turn.           *)
LEMMA KeepsNames ==
  ASSUME IInv, ~Ended, par' \in Turn, par' # "error" => par # "error" /\ running' = running,
         UNCHANGED <<table, active, doubled>>
  PROVE  NamesOK'
<1>1. par' # "waitM" /\ par' # "undefined"
  BY Zenon DEF Turn
<1> QED BY <1>1, Same, Zenon DEF IInv, NamesOK

(* A step without a command: the parent goes on to the line.               *)
LEMMA NoCommandKeeps == ASSUME IInv, NoCommand PROVE IInv'
<1>1. /\ par = "command" /\ par' = "message"
      /\ UNCHANGED <<step, table, running, active, to, k, doubled, slots, command, text>>
      /\ UNCHANGED <<sem, par_sem, child, index, printed>>
  BY Zenon DEF NoCommand, AtCommand, Quiet, shared
<1>2. OwnersOK' /\ TurnOK' /\ Staying' = Staying /\ ~Ended' /\ ~Ended
  BY <1>1, KeepsTurn, AllIdle, Zenon DEF Turn
<1>3. Types'
  BY <1>1, Zenon DEF IInv, Types, Turn
<1>4. TableOK'
  BY <1>1, <1>2 DEF IInv, TableOK, Types
<1>5. NamesOK'
  BY <1>1, <1>2, KeepsNames, Zenon DEF Turn
<1> QED BY <1>2, <1>3, <1>4, <1>5, Zenon DEF IInv

(* A start that fails: the count is one too high, and nothing else.        *)
LEMMA StartErrorKeeps == ASSUME IInv, StartError PROVE IInv'
<1>1. /\ par = "command" /\ par' = "error" /\ running' = running + 1
      /\ UNCHANGED <<step, table, active, to, k, doubled, slots, command, text>>
      /\ UNCHANGED <<sem, par_sem, child, index, printed>>
  BY Zenon DEF StartError, AtCommand, Quiet, shared
<1>2. OwnersOK' /\ TurnOK' /\ Staying' = Staying /\ ~Ended' /\ ~Ended
  BY <1>1, KeepsTurn, AllIdle, Zenon DEF Turn
<1>3. Types'
  BY <1>1 DEF IInv, Types, Turn
<1>4. TableOK'
  BY <1>1, <1>2 DEF IInv, TableOK, Types
<1>5. NamesOK'
  BY <1>1, <1>2, KeepsNames, Zenon DEF Turn
<1> QED BY <1>2, <1>3, <1>4, <1>5 DEF IInv

(* T of a name without an entry: the name was not active either.           *)
LEMMA TerminateNoneKeeps == ASSUME IInv, NEW nm \in Name, TerminateNone(nm) PROVE IInv'
<1>1. /\ par = "command" /\ Entries(nm) = {} /\ active' = active \ {nm} /\ step' = step + 1
      /\ UNCHANGED <<par, table, running, to, k, doubled, slots, command, text>>
      /\ UNCHANGED <<sem, par_sem, child, index, printed>>
  BY Zenon DEF TerminateNone, AtCommand, Quiet, shared
<1>2. OwnersOK' /\ TurnOK' /\ Staying' = Staying /\ ~Ended' /\ ~Ended
  BY <1>1, KeepsTurn, AllIdle, Zenon DEF Turn
<1>3. active' = active
  BY <1>1, <1>2, Zenon DEF IInv, NamesOK
<1>4. Types'
  BY <1>1, <1>3 DEF IInv, Types
<1>5. TableOK'
  BY <1>1, <1>2 DEF IInv, TableOK, Types
<1>6. NamesOK'
  BY <1>1, <1>2, <1>3, KeepsNames, Zenon DEF Turn
<1> QED BY <1>2, <1>4, <1>5, <1>6, Zenon DEF IInv

(* No child to write to: the next step, with the turn kept.                *)
LEMMA NoMessageKeeps == ASSUME IInv, NoMessage PROVE IInv'
<1>1. /\ par = "message" /\ par' = "command" /\ step' = step + 1
      /\ UNCHANGED <<table, running, active, to, k, doubled, slots, command, text>>
      /\ UNCHANGED <<sem, par_sem, child, index, printed>>
  BY Zenon DEF NoMessage, Quiet, shared
<1>2. OwnersOK' /\ TurnOK' /\ Staying' = Staying /\ ~Ended' /\ ~Ended
  BY <1>1, KeepsTurn, AllIdle, Zenon DEF Turn
<1>3. Types'
  BY <1>1 DEF IInv, Types, Turn
<1>4. TableOK'
  BY <1>1, <1>2, Zenon DEF IInv, TableOK, Types
<1>5. NamesOK'
  BY <1>1, <1>2, KeepsNames, Zenon DEF Turn
<1> QED BY <1>2, <1>3, <1>4, <1>5 DEF IInv

(* Once the parent has ended only the types, the table and the names count.*)
LEMMA EndedKeeps ==
  ASSUME IInv, Ended', UNCHANGED <<table, active, running, doubled>>, step' = step,
         Types', par # "error", ~doubled => par' # "undefined" \/ Len(table) = MAX_CHILDREN
  PROVE  IInv'
<1>1. par' \notin Waits \cup Turn \cup {"command", "waitM"}
  BY Zenon DEF Ended, Waits, Turn
<1>2. TurnOK' /\ OwnersOK'
  BY <1>1, Zenon DEF TurnOK, OwnersOK
<1>3. NamesOK'
  BY <1>1, Zenon DEF IInv, NamesOK
<1>4. TableOK'
  BY <1>1 DEF IInv, TableOK, Types
<1> QED BY <1>2, <1>3, <1>4, Zenon DEF IInv

(* No name to choose although children run: some name was doubled.         *)
LEMMA MessageUndefinedKeeps == ASSUME SetFacts, IInv, MessageUndefined PROVE IInv'
<1>1. /\ par = "message" /\ par' = "undefined" /\ running > 0 /\ active = {}
      /\ UNCHANGED <<step, table, running, active, to, k, doubled, slots, command, text>>
      /\ UNCHANGED <<sem, par_sem, child, index, printed>>
  BY Zenon DEF MessageUndefined, Quiet, shared
<1>2. doubled
  <2>1. Cardinality(active) = 0
    BY <1>1, Zenon DEF SetFacts
  <2> QED BY <1>1, <2>1 DEF IInv, NamesOK
<1>3. Types' /\ Ended'
  BY <1>1, Zenon DEF IInv, Types, Ended
<1> QED BY <1>1, <1>2, <1>3, EndedKeeps, Zenon

(* The end: what is said of the turn and the slots ends here.              *)
LEMMA ShutdownKeeps == ASSUME IInv, Shutdown PROVE IInv'
<1>1. /\ par = "command" /\ par' = "post" /\ command' = -1 /\ k' = 0
      /\ UNCHANGED <<step, table, running, active, to, doubled, slots, text>>
      /\ UNCHANGED <<sem, par_sem, child, index, printed>>
  BY Zenon DEF Shutdown, Quiet
<1>2. Types' /\ Ended'
  BY <1>1 DEF IInv, Types, Ended
<1> QED BY <1>1, <1>2, EndedKeeps, Zenon

(* The loop that posts every semaphore.                                    *)
LEMMA PostAllKeeps == ASSUME IInv, PostAll PROVE IInv'
<1>1. /\ par = "post" /\ par' \in {"post", "reap"} /\ k' \in {1, k + 1}
      /\ sem' = [sem EXCEPT ![k] = @ + 1]
      /\ UNCHANGED <<step, table, running, active, to, doubled, slots, command, text>>
      /\ UNCHANGED <<par_sem, child, index, printed>>
  BY Zenon DEF PostAll, Post, shared
<1>2. sem' \in [Slot -> Nat]
  <2>1. CASE k \in Slot
    BY <1>1, <2>1 DEF IInv, Types
  <2>2. CASE k \notin Slot
    BY <1>1, <2>2, Zenon DEF IInv, Types
  <2> QED BY <2>1, <2>2, Zenon
<1>3. Types' /\ Ended' /\ par' # "undefined"
  BY <1>1, <1>2 DEF IInv, Types, Ended
<1> QED BY <1>1, <1>3, EndedKeeps, Zenon

(* The loop that waits for the children.                                   *)
LEMMA ReapKeeps == ASSUME IInv, Reap PROVE IInv'
<1>1. /\ par = "reap" /\ par' \in {"reap", "done"} /\ k' \in {k, k + 1}
      /\ UNCHANGED <<step, table, running, active, to, doubled, slots, command, text>>
      /\ UNCHANGED <<sem, par_sem, child, index, printed>>
  BY Zenon DEF Reap, Quiet, shared
<1>2. Types' /\ Ended'
  BY <1>1 DEF IInv, Types, Ended
<1> QED BY <1>1, <1>2, EndedKeeps, Zenon

(* One child more than child_pid_name has entries.                         *)
LEMMA StartOverflows ==
  ASSUME SetFacts, IInv, NEW nm \in Name, Start(nm), Len(table) + 1 > MAX_CHILDREN
  PROVE  IInv'
<1>1. PICK c : /\ c = Len(table) + 1
               /\ par = "command" /\ par' = "undefined" /\ step <= MaxStep
               /\ child' = [child EXCEPT ![c] = "born"] /\ table' = table
               /\ running' = running + 1 /\ active' = active \cup {nm}
               /\ doubled' = (doubled \/ nm \in active)
               /\ UNCHANGED <<step, to, k, slots, command, text, sem, par_sem, index, printed>>
  <2>1. Len(table) \in Nat /\ ~(Len(table) + 1 <= MAX_CHILDREN)
    BY ErgasiaAssumption DEF IInv, Types
  <2> QED BY <2>1, Zenon DEF Start, AtCommand, SetChild, shared
<1>2. Len(table) = MAX_CHILDREN
  BY ErgasiaAssumption DEF IInv, Types, TableOK
<1>3. Types'
  <2>1. active' \subseteq Name /\ doubled' \in BOOLEAN
    BY <1>1, Zenon DEF IInv, Types
  <2>2. child' \in [Pid -> {"unborn", "born", "posting", "idle", "woken", "leaving", "dead"}]
    BY <1>1, Zenon DEF IInv, Types
  <2>3. running' \in Int
    BY <1>1 DEF IInv, Types
  <2> QED BY <1>1, <2>1, <2>2, <2>3, Zenon DEF IInv, Types
<1>4. Ended' /\ par' \notin Waits /\ par' \notin Turn /\ par' # "waitM" /\ par' # "command"
  BY <1>1, Zenon DEF Ended, Waits, Turn
<1>5. TurnOK' /\ OwnersOK'
  BY <1>4, Zenon DEF TurnOK, OwnersOK
<1>6. TableOK'
  BY <1>1, <1>4 DEF IInv, Types, TableOK
<1>7. NamesOK'
  <2>1. IsFiniteSet(active) /\ IsFiniteSet(active')
        /\ Cardinality(active') = IF nm \in active THEN Cardinality(active) ELSE Cardinality(active) + 1
    BY <1>1, Zenon DEF SetFacts, IInv, NamesOK
  <2>2. ~doubled' => running' = Cardinality(active')
    <3>1. ~doubled' => ~doubled /\ nm \notin active
      BY <1>1, Zenon
    <3>2. ~doubled => running = Cardinality(active)
      BY <1>1, Zenon DEF IInv, NamesOK
    <3> QED BY <1>1, <2>1, <3>1, <3>2, Zenon
  <2> QED BY <1>1, <1>2, <1>4, <2>1, <2>2, Zenon DEF NamesOK
<1> QED BY <1>3, <1>5, <1>6, <1>7, Zenon DEF IInv

(* Starting a child: it takes the next entry and the turn.                 *)
LEMMA StartKeeps ==
  ASSUME SetFacts, IInv, NEW nm \in Name, Start(nm), Len(table) + 1 <= MAX_CHILDREN
  PROVE  IInv'
<1>1. PICK c : /\ c = Len(table) + 1
               /\ par = "command" /\ par' = "waitS" /\ step <= MaxStep
               /\ child' = [child EXCEPT ![c] = "born"]
               /\ table' = Append(table, [pid |-> c, name |-> nm])
               /\ running' = running + 1 /\ active' = active \cup {nm}
               /\ doubled' = (doubled \/ nm \in active)
               /\ UNCHANGED <<step, to, k, slots, command, text, sem, par_sem, index, printed>>
  BY Zenon DEF Start, AtCommand, AfterFork, SetChild, shared
<1>2. /\ Busy = {} /\ Staying = Live /\ par_sem = 0 /\ command = 0 /\ ~Ended
      /\ \A s \in Slot : sem[s] = 0
      /\ \A q \in Live : q \in Pid /\ child[q] = "idle" /\ slots[index[q]] = q
  BY <1>1, AllIdle, Zenon DEF Turn
<1>3. /\ Len(table) \in Nat /\ DOMAIN table = 1..Len(table) /\ Len(table) <= step
      /\ Len(table') = c /\ DOMAIN table' = 1..c
      /\ table'[c] = [pid |-> c, name |-> nm] /\ \A j \in DOMAIN table : table'[j] = table[j]
  BY <1>1 DEF IInv, Types, TableOK
<1>4. c \in Pid /\ child[c] = "unborn" /\ c # 0
  <2>1. c \in Pid
    BY <1>1, <1>3, ErgasiaAssumption DEF IInv, Types, Pid
  <2>2. c > Len(table)
    BY <1>1, <1>3
  <2>3. child[c] = "unborn"
    BY <1>2, <2>1, <2>2, Zenon DEF IInv, TableOK
  <2> QED BY <2>1, <2>3, Consts, Zenon
<1>5. c \notin Live /\ Live' = Live \cup {c} /\ Busy' = {c}
  BY <1>1, <1>2, <1>4 DEF IInv, Types, Live, Busy
<1>6. Staying' = Live \cup {c} /\ ~Ended' /\ par' \in Waits
  BY <1>1, <1>5, Zenon DEF Staying, Going, Ended, Waits
<1>7. Types'
  <2>1. table' \in Seq([pid : Nat, name : Nat])
    BY <1>1, <1>3, ErgasiaAssumption DEF IInv, Types
  <2>2. active' \subseteq Name /\ doubled' \in BOOLEAN
    BY <1>1, Zenon DEF IInv, Types
  <2>3. child' \in [Pid -> {"unborn", "born", "posting", "idle", "woken", "leaving", "dead"}]
    BY <1>1, <1>4, Zenon DEF IInv, Types
  <2> QED BY <1>1, <1>6, <2>1, <2>2, <2>3 DEF IInv, Types
<1>8. TableOK'
  <2>1. \A q \in Pid : child'[q] = "unborn" <=> q > Len(table')
    <3> TAKE q \in Pid
    <3>1. CASE q = c
      BY <1>1, <1>3, <1>4, <3>1 DEF IInv, Types
    <3>2. CASE q # c
      <4>1. child'[q] = child[q]
        BY <1>1, <3>2, Zenon DEF IInv, Types
      <4>2. q > Len(table) <=> q > Len(table')
        BY <1>1, <1>3, <3>2, Consts
      <4>3. child[q] = "unborn" <=> q > Len(table)
        BY <1>2, Zenon DEF IInv, TableOK
      <4> QED BY <4>1, <4>2, <4>3, Zenon
    <3> QED BY <3>1, <3>2, Zenon
  <2>2. ASSUME NEW j \in DOMAIN table'
        PROVE  /\ table'[j].pid \in {0, j} /\ (table'[j].pid = j => j \in Staying')
               /\ table'[j].pid = 0 => table'[j].name = 0
    <3>1. CASE j = c
      BY <1>3, <1>4, <1>6, <3>1
    <3>2. CASE j # c
      <4>1. j \in DOMAIN table /\ table'[j] = table[j]
        BY <1>1, <1>3, <3>2
      <4> QED BY <4>1, <1>2, <1>6, Zenon DEF IInv, TableOK
    <3> QED BY <3>1, <3>2, Zenon
  <2>3. /\ Len(table') <= step' + 1 /\ Len(table') <= MaxStep + 1 /\ par' # "command"
        /\ Len(table') <= MAX_CHILDREN
    BY <1>1, <1>3, ErgasiaAssumption DEF IInv, Types
  <2> QED BY <2>1, <2>2, <2>3, Zenon DEF TableOK
<1>9. NamesOK'
  <2>1. IsFiniteSet(active) /\ IsFiniteSet(active')
        /\ Cardinality(active') = IF nm \in active THEN Cardinality(active) ELSE Cardinality(active) + 1
    BY <1>1, Zenon DEF SetFacts, IInv, NamesOK
  <2>2. ASSUME NEW n \in Name PROVE n \in active' <=> Entries(n)' # {}
    <3>1. CASE n = nm
      <4>1. c \in Entries(n)'
        BY <1>3, <1>4, <3>1 DEF Entries
      <4> QED BY <4>1, <1>1, <3>1, Zenon
    <3>2. CASE n # nm
      <4>1. Entries(n)' = Entries(n)
        <5>1. ASSUME NEW j PROVE j \in Entries(n)' <=> j \in Entries(n)
          <6>1. CASE j \in DOMAIN table
            BY <1>1, <1>3, <6>1 DEF Entries
          <6>2. CASE j \notin DOMAIN table
            BY <1>1, <1>3, <3>2, <6>2 DEF Entries
          <6> QED BY <6>1, <6>2, Zenon
        <5> QED BY <5>1, Zenon
      <4> QED BY <4>1, <1>1, <1>2, <3>2, Zenon DEF IInv, NamesOK
    <3> QED BY <3>1, <3>2, Zenon
  <2>3. ~doubled' => running' = Cardinality(active') /\ par' # "undefined"
    <3>1. ~doubled' => ~doubled /\ nm \notin active
      BY <1>1, Zenon
    <3>2. ~doubled => running = Cardinality(active)
      BY <1>1, Zenon DEF IInv, NamesOK
    <3> QED BY <1>1, <2>1, <3>1, <3>2, Zenon
  <2>4. par' # "waitM"
    BY <1>1, Zenon
  <2> QED BY <2>1, <2>2, <2>3, <2>4, Zenon DEF NamesOK
<1>10. OwnersOK'
  <2>1. running' = Cardinality(Staying')
    <3>1. Cardinality(Live \cup {c}) = Cardinality(Live) + 1
      BY <1>5, Finite, Zenon DEF SetFacts
    <3>2. running = Cardinality(Live)
      BY <1>1, <1>2, Zenon DEF IInv, OwnersOK
    <3> QED BY <1>1, <1>6, <3>1, <3>2, Zenon
  <2>2. child'[c] = "born" /\ \A q \in Live : child'[q] = child[q]
    BY <1>1, <1>2, <1>4, <1>5, Zenon DEF IInv, Types
  <2>3. ASSUME NEW s \in Slot, slots'[s] # 0
        PROVE  slots'[s] \in Staying' /\ child'[slots'[s]] # "born" /\ index'[slots'[s]] = s
    BY <1>1, <1>2, <1>6, <2>2, <2>3, Zenon DEF IInv, OwnersOK
  <2>4. ASSUME NEW q \in Staying', child'[q] # "born" PROVE slots'[index'[q]] = q
    BY <1>1, <1>2, <1>6, <2>2, <2>4, Zenon
  <2> QED BY <1>1, <2>1, <2>3, <2>4, Zenon DEF OwnersOK
<1>11. TurnOK'
  <2>1. ChildTurn(c)'
    BY <1>1, <1>2, <1>4, <1>5, Zenon DEF ChildTurn, AllQuiet, IInv, Types
  <2>2. par' \notin Turn
    BY <1>1, Zenon DEF Turn
  <2> QED BY <1>4, <2>1, <2>2, Zenon DEF TurnOK
<1> QED BY <1>7, <1>8, <1>9, <1>10, <1>11, Zenon DEF IInv

(* Waking a child: the semaphore of its slot is the one that is posted.    *)
LEMMA WakesChild ==
  ASSUME IInv, par \in Turn, NEW c \in Live, NEW s \in Slot, slots[s] = c,
         sem' = [sem EXCEPT ![s] = @ + 1], to' = c, par' \in {"waitT", "waitM"},
         command' = IF par' = "waitT" THEN c ELSE 0, UNCHANGED <<child, index, par_sem>>
  PROVE  s = index[c] /\ TurnOK' /\ sem' \in [Slot -> Nat]
<1>1. /\ Busy = {} /\ Staying = Live /\ par_sem = 0 /\ command = 0 /\ ~Ended
      /\ \A r \in Slot : sem[r] = 0
      /\ \A q \in Live : q \in Pid /\ child[q] = "idle" /\ slots[index[q]] = q
  BY AllIdle, Zenon
<1>2. s = index[c]
  BY <1>1, Consts, Zenon DEF IInv, OwnersOK
<1>3. \A r \in Slot : sem'[r] = IF r = s THEN 1 ELSE 0
  BY <1>1 DEF IInv, Types
<1>4. sem' \in [Slot -> Nat]
  BY DEF IInv, Types
<1>5. Woke'
  BY <1>1, <1>2, <1>3, Same DEF Woke
<1>6. par' \notin Turn
  BY Zenon DEF Turn
<1> QED BY <1>2, <1>4, <1>5, <1>6, Zenon DEF TurnOK

(* T: the slot is given up and the turn goes to the child's semaphore.     *)
LEMMA TerminateKeeps == ASSUME SetFacts, IInv, NEW nm \in Name, Terminate(nm) PROVE IInv'
<1>1. PICK c \in Pid : /\ c \in Entries(nm) /\ c = Max(Entries(nm))
                       /\ table[c].pid = c /\ table[c].name = nm /\ (~Ended => c \in Staying)
  BY LastEntry, Zenon DEF Terminate
<1>2. PICK s \in Slot : /\ slots[s] = c /\ slots' = [slots EXCEPT ![s] = 0]
                        /\ sem' = [sem EXCEPT ![s] = @ + 1]
  BY <1>1, Zenon DEF Terminate, Release, Post
<1>3. /\ par = "command" /\ par' = "waitT" /\ command' = c /\ to' = c
      /\ table' = Forget(Entries(nm)) /\ active' = active \ {nm} /\ running' = running - 1
      /\ UNCHANGED <<step, k, doubled, text, par_sem, child, index, printed>>
  BY <1>1, Zenon DEF Terminate, AtCommand, OneLess
<1>4. /\ Busy = {} /\ Staying = Live /\ par_sem = 0 /\ command = 0 /\ ~Ended
      /\ \A q \in Live : q \in Pid /\ child[q] = "idle" /\ slots[index[q]] = q
  BY <1>3, AllIdle, Zenon DEF Turn
<1>5. c \in Live /\ Live' = Live /\ Staying' = Live \ {c} /\ ~Ended' /\ c # 0
  BY <1>1, <1>3, <1>4, Same, Consts, Zenon DEF Staying, Going, Ended
<1>6. s = index[c] /\ TurnOK' /\ sem' \in [Slot -> Nat]
  BY <1>2, <1>3, <1>5, WakesChild, Zenon DEF Turn
<1>7. /\ DOMAIN table' = DOMAIN table /\ Len(table') = Len(table)
      /\ table' \in Seq([pid : Nat, name : Nat])
      /\ \A j \in DOMAIN table :
           table'[j] = IF j \in Entries(nm) THEN [pid |-> 0, name |-> 0] ELSE table[j]
  <2>1. PICK n \in Nat : DOMAIN table = 1..n /\ n = Len(table)
    BY DEF IInv, Types
  <2>2. table' = [j \in 1..n |-> IF j \in Entries(nm) THEN [pid |-> 0, name |-> 0] ELSE table[j]]
    BY <1>3, <2>1, Zenon DEF Forget
  <2>3. \A j \in 1..n : table[j] \in [pid : Nat, name : Nat]
    BY <2>1, Sequence, Zenon DEF IInv, Types
  <2>4. table' \in [1..n -> [pid : Nat, name : Nat]]
    BY <2>2, <2>3, Zenon
  <2>5. table' \in Seq([pid : Nat, name : Nat]) /\ Len(table') = n /\ DOMAIN table' = 1..n
    BY <2>4, Sequence, Zenon
  <2> QED BY <2>1, <2>2, <2>5, Zenon
<1>8. Types'
  <2>1. slots' \in [Slot -> Nat]
    BY <1>2, Zenon DEF IInv, Types
  <2>2. command' \in Pid \cup {0} /\ to' \in Pid \cup {0}
    BY <1>3, Zenon
  <2>3. running' \in Int /\ command' \in Int /\ to' \in Nat
    BY <1>3, <2>2, Consts DEF IInv, Types
  <2>4. active' \subseteq Name
    BY <1>3, Zenon DEF IInv, Types
  <2> QED BY <1>3, <1>6, <1>7, <2>1, <2>3, <2>4, Zenon DEF IInv, Types, Waits
<1>9. TableOK'
  <2>1. ASSUME NEW j \in DOMAIN table'
        PROVE  /\ table'[j].pid \in {0, j} /\ (table'[j].pid = j => j \in Staying')
               /\ table'[j].pid = 0 => table'[j].name = 0
    <3>1. CASE j \in Entries(nm)
      <4>1. j # 0
        BY <1>7 DEF IInv, Types
      <4>2. table'[j] = [pid |-> 0, name |-> 0]
        BY <1>7, <3>1, Zenon
      <4> QED BY <4>1, <4>2, SMTT(30)
    <3>2. CASE j \notin Entries(nm)
      <4>1. j \in DOMAIN table /\ table'[j] = table[j] /\ j # c
        BY <1>1, <1>7, <3>2, Zenon
      <4> QED BY <4>1, <1>4, <1>5, Zenon DEF IInv, TableOK
    <3> QED BY <3>1, <3>2, Zenon
  <2>2. Len(table) <= step + 1 /\ par' # "command"
    BY <1>3 DEF IInv, TableOK, Types
  <2>3. \A q \in Pid : child'[q] = "unborn" <=> q > Len(table')
    BY <1>3, <1>4, <1>7, Zenon DEF IInv, TableOK
  <2> QED BY <1>3, <1>7, <2>1, <2>2, <2>3, Zenon DEF IInv, TableOK
<1>10. NamesOK'
  <2>1. nm \in active
    BY <1>1, <1>4, Zenon DEF IInv, NamesOK
  <2>2. IsFiniteSet(active') /\ Cardinality(active') = Cardinality(active) - 1
    BY <1>3, <2>1, Zenon DEF SetFacts, IInv, NamesOK
  <2>3. ASSUME NEW n \in Name PROVE n \in active' <=> Entries(n)' # {}
    <3>1. CASE n = nm
      <4>1. ASSUME NEW j \in DOMAIN table PROVE j \notin Entries(nm)'
        <5>1. CASE j \in Entries(nm)
          BY <1>7, <5>1 DEF Entries
        <5>2. CASE j \notin Entries(nm)
          BY <1>7, <5>2, Zenon DEF Entries
        <5> QED BY <5>1, <5>2, Zenon
      <4>2. Entries(nm)' \subseteq DOMAIN table
        BY <1>7, Zenon DEF Entries
      <4> QED BY <1>3, <3>1, <4>1, <4>2, Zenon
    <3>2. CASE n # nm
      <4>1. Entries(n)' = Entries(n)
        BY <1>7, <3>2, SMTT(30) DEF Entries
      <4> QED BY <4>1, <1>3, <1>4, <3>2, Zenon DEF IInv, NamesOK
    <3> QED BY <3>1, <3>2, Zenon
  <2>4. ~doubled' => running' = Cardinality(active') /\ par' # "undefined"
    BY <1>3, <2>2, Zenon DEF IInv, NamesOK
  <2>5. par' # "waitM"
    BY <1>3, Zenon
  <2> QED BY <2>2, <2>3, <2>4, <2>5, Zenon DEF NamesOK
<1>11. OwnersOK'
  <2>1. running' = Cardinality(Staying')
    <3>1. Cardinality(Live \ {c}) = Cardinality(Live) - 1
      BY <1>5, Finite, Zenon DEF SetFacts
    <3>2. running = Cardinality(Live)
      BY <1>3, <1>4, Zenon DEF IInv, OwnersOK
    <3> QED BY <1>3, <1>5, <3>1, <3>2, Zenon
  <2>2. slots'[s] = 0 /\ \A r \in Slot : r # s => slots'[r] = slots[r]
    BY <1>2, Zenon DEF IInv, Types
  <2>3. ASSUME NEW r \in Slot, slots'[r] # 0
        PROVE  slots'[r] \in Staying' /\ child'[slots'[r]] # "born" /\ index'[slots'[r]] = r
    <3>1. slots'[r] = slots[r] /\ r # s
      BY <2>2, <2>3, Zenon
    <3>2. slots[r] \in Staying /\ child[slots[r]] # "born" /\ index[slots[r]] = r
      BY <1>4, <2>3, <3>1, Zenon DEF IInv, OwnersOK
    <3> QED BY <3>1, <3>2, <1>3, <1>4, <1>5, <1>6, Zenon
  <2>4. ASSUME NEW q \in Staying' PROVE slots'[index'[q]] = q
    <3>1. q \in Live /\ q # c /\ slots[index[q]] = q /\ q \in Pid
      BY <1>4, <1>5, Zenon
    <3>2. index[q] \in Slot /\ index[q] # s
      BY <3>1, <1>2, Zenon DEF IInv, Types
    <3> QED BY <3>1, <3>2, <2>2, <1>3, Zenon
  <2> QED BY <1>3, <1>6, <2>1, <2>2, <2>3, <2>4, Zenon DEF OwnersOK
<1> QED BY <1>6, <1>8, <1>9, <1>10, <1>11, Zenon DEF IInv

(* A line: the turn goes to the semaphore of a child, or to nobody's.      *)
LEMMA MessageKeeps == ASSUME SetFacts, IInv, NEW nm \in Name, NEW l \in Line, Message(nm, l) PROVE IInv'
<1>1. PICK s \in Slot : SlotOf(Found(nm), nm, s) /\ to' = slots[s] /\ sem' = [sem EXCEPT ![s] = @ + 1]
  BY Zenon DEF Message, Post
<1>2. /\ par = "message" /\ par' = "waitM" /\ nm \in active
      /\ UNCHANGED <<step, table, running, active, k, doubled, slots, command, par_sem, child, index, printed>>
  BY Zenon DEF Message
<1>3. /\ Busy = {} /\ Staying = Live /\ par_sem = 0 /\ command = 0 /\ ~Ended
      /\ \A r \in Slot : sem[r] = 0
      /\ \A q \in Live : q \in Pid /\ child[q] = "idle" /\ slots[index[q]] = q
  BY <1>2, AllIdle, Zenon DEF Turn
<1>4. Live' = Live /\ Staying' = Live /\ ~Ended' /\ par' \notin Turn
  BY <1>2, Same, Zenon DEF Staying, Going, Ended, Turn
<1>5. TurnOK' /\ sem' \in [Slot -> Nat]
  <2>1. CASE slots[s] = 0
    <3>1. \A r \in Slot : sem'[r] = IF r = s THEN 1 ELSE 0
      BY <1>1, <1>3 DEF IInv, Types
    <3>2. sem' \in [Slot -> Nat]
      BY <1>1 DEF IInv, Types
    <3>3. WokeNobody'
      BY <1>1, <1>2, <1>3, <2>1, <3>1, Same, Zenon DEF WokeNobody, Stray
    <3> QED BY <1>4, <3>2, <3>3, Zenon DEF TurnOK
  <2>2. CASE slots[s] # 0
    <3>1. slots[s] \in Live
      BY <1>3, <2>2, Zenon DEF IInv, OwnersOK
    <3> QED BY <1>1, <1>2, <1>3, <3>1, WakesChild, Zenon DEF Turn
  <2> QED BY <2>1, <2>2, Zenon
<1>6. Types'
  <2>1. to' \in Nat
    BY <1>1, Zenon DEF IInv, Types
  <2> QED BY <1>2, <1>5, <2>1, Zenon DEF IInv, Types, Waits
<1>7. TableOK'
  BY <1>2, <1>3, <1>4, Zenon DEF IInv, TableOK, Types
<1>8. NamesOK'
  <2>1. ASSUME 0 \notin active PROVE to' \in DOMAIN table /\ table[to'].pid = to' /\ table[to'].name \in active
    <3>1. PICK c \in Pid : /\ c \in Entries(nm) /\ c = Max(Entries(nm))
                           /\ table[c].pid = c /\ table[c].name = nm /\ (~Ended => c \in Staying)
      BY <1>2, <1>3, LastEntry, Zenon DEF IInv, NamesOK
    <3>2. {j \in DOMAIN table : table[j].name = nm} = Entries(nm)
      BY <1>2, <2>1, Zenon DEF Entries, IInv, TableOK
    <3>3. Found(nm) = c
      BY <3>1, <3>2, Zenon DEF Found
    <3>4. index[c] \in Slot /\ slots[index[c]] = c
      BY <1>3, <3>1, Zenon DEF IInv, Types
    <3>5. to' = c
      BY <1>1, <3>3, <3>4, Zenon DEF SlotOf
    <3> QED BY <1>2, <3>1, <3>5, Zenon DEF Entries
  <2> QED BY <1>2, <1>3, <2>1, Same, Zenon DEF IInv, NamesOK
<1>9. OwnersOK'
  BY <1>2, <1>3, <1>4, Zenon DEF IInv, OwnersOK
<1> QED BY <1>5, <1>6, <1>7, <1>8, <1>9, Zenon DEF IInv

(* The parent has the turn again, and what it waited for is done.          *)
LEMMA ParentWakesKeeps == ASSUME IInv, ParentWakes PROVE IInv'
<1>1. /\ par \in Waits /\ par_sem > 0 /\ par_sem' = par_sem - 1
      /\ par' = IF par = "waitM" THEN "command" ELSE "message"
      /\ step' = IF par = "waitM" THEN step + 1 ELSE step
      /\ UNCHANGED <<table, running, active, to, k, doubled, slots, command, text, sem, child, index, printed>>
  BY Zenon DEF ParentWakes, Waits, shared
<1>2. Released
  BY <1>1 DEF IInv, TurnOK, ChildTurn, AllQuiet, Woke, WokeNobody
<1>3. ~Ended /\ ~Ended' /\ par' \in Turn /\ par' \notin Waits /\ par' # "error" /\ par # "error" /\ par # "command"
  BY <1>1, Zenon DEF Waits, Turn, Ended
<1>4. Staying' = Staying
  <2>1. Staying' = Live
    BY <1>3, <1>1, Same, Zenon DEF Staying, Going, Waits
  <2>2. CASE par = "waitT"
    <3>1. to \notin Live
      BY <1>2, <2>2, Zenon DEF Released, Live
    <3> QED BY <2>1, <2>2, <3>1, Zenon DEF Staying, Going
  <2>3. CASE par # "waitT"
    BY <2>1, <2>3, Zenon DEF Staying, Going
  <2> QED BY <2>2, <2>3, Zenon
<1>5. Types'
  BY <1>1, <1>2, <1>3 DEF IInv, Types, Released
<1>6. TableOK'
  BY <1>1, <1>3, <1>4, Zenon DEF IInv, TableOK, Types
<1>7. NamesOK'
  <2>1. par' # "waitM"
    BY <1>1, Zenon
  <2> QED BY <1>1, <1>3, <2>1, Same, Zenon DEF IInv, NamesOK
<1>8. OwnersOK'
  <2>1. par' # "waitT"
    BY <1>3, Zenon DEF Waits
  <2> QED BY <1>1, <1>3, <1>4, <2>1, Zenon DEF IInv, OwnersOK
<1>9. TurnOK'
  BY <1>1, <1>2, <1>3, Same DEF TurnOK, Released, AllQuiet
<1> QED BY <1>5, <1>6, <1>7, <1>8, <1>9, Zenon DEF IInv

-----------------------------------------------------------------------------
(* The children.  Before the end a busy child is the one that has the turn.*)
LEMMA BusyHasTurn ==
  ASSUME IInv, ~Ended, NEW c \in Pid, child[c] \in {"born", "posting", "woken", "leaving"}
  PROVE  par \in Waits /\ par \notin Turn /\ ChildTurn(c) /\ c \in Live
<1>1. c \in Busy /\ c \in Live
  BY Zenon DEF Busy, Live
<1>2. par \in Waits /\ par \notin Turn
  BY <1>1, Zenon DEF IInv, TurnOK, Types, Ended, Waits, Turn
<1>3. \E q \in Pid : ChildTurn(q)
  BY <1>1, <1>2, Zenon DEF IInv, TurnOK, Released, Woke, WokeNobody
<1>4. PICK q \in Pid : ChildTurn(q) /\ Busy = {q}
  BY <1>3, Zenon DEF ChildTurn
<1>5. q = c
  BY <1>1, <1>4, Zenon
<1> QED BY <1>1, <1>2, <1>4, <1>5, Zenon

(* A child's step leaves the parent, the table and the names as they are.  *)
LEMMA ChildKeeps ==
  ASSUME IInv, UNCHANGED parent, Types', NEW c \in Pid, child[c] # "unborn", NEW l, l # "unborn",
         child' = [child EXCEPT ![c] = l],
         ~Ended => Staying' = Staying /\ OwnersOK' /\ TurnOK'
  PROVE  IInv'
<1>1. UNCHANGED <<step, par, table, running, active, to, k, doubled>>
  BY Zenon DEF parent
<1>2. \A q \in Pid : child'[q] = "unborn" <=> child[q] = "unborn"
  BY Zenon DEF IInv, Types
<1>3. Ended' <=> Ended
  BY <1>1, Zenon DEF Ended
<1>4. CASE Ended
  <2>1. par # "error" /\ (~doubled => par' # "undefined" \/ Len(table) = MAX_CHILDREN)
    BY <1>1, <1>4, Zenon DEF Ended, IInv, NamesOK
  <2> QED BY <1>1, <1>3, <1>4, <2>1, EndedKeeps, Zenon
<1>5. CASE ~Ended
  <2>1. TableOK'
    BY <1>1, <1>2, <1>3, <1>5, Zenon DEF IInv, TableOK
  <2>2. NamesOK'
    BY <1>1, <1>3, <1>5, Same, Zenon DEF IInv, NamesOK
  <2> QED BY <1>5, <2>1, <2>2, Zenon DEF IInv
<1> QED BY <1>4, <1>5, Zenon

(* A step between two places of the living keeps the owners, if it keeps   *)
(* the slots.                                                              *)
LEMMA Lives ==
  ASSUME IInv, UNCHANGED <<par, to, running, slots, index>>, NEW c \in Live, NEW l \in {"posting", "idle", "woken", "leaving"},
         child[c] # "born", child' = [child EXCEPT ![c] = l]
  PROVE  /\ Live' = Live /\ Staying' = Staying
         /\ Busy' = IF l = "idle" THEN Busy \ {c} ELSE Busy \cup {c}
         /\ OwnersOK'
<1>1. c \in Pid /\ Live' = Live /\ \A q \in Pid : child'[q] = IF q = c THEN l ELSE child[q]
  BY Zenon DEF Live, IInv, Types
<1>2. Staying' = Staying
  BY <1>1, Zenon DEF Staying, Going
<1>3. Busy' = IF l = "idle" THEN Busy \ {c} ELSE Busy \cup {c}
  BY <1>1, Zenon DEF Busy
<1>4. Staying \subseteq Pid
  BY Zenon DEF Staying, Live
<1>5. OwnersOK'
  <2>1. \A q \in Pid : child'[q] = "born" <=> child[q] = "born"
    BY <1>1, Zenon
  <2>2. Ended' <=> Ended
    BY Zenon DEF Ended
  <2> QED BY <1>2, <1>4, <2>1, <2>2, Zenon DEF IInv, OwnersOK
<1> QED BY <1>1, <1>2, <1>3, <1>5, Zenon

(* A forked child takes a slot nobody owns.                                *)
LEMMA RegisterKeeps == ASSUME IInv, NEW c \in Pid, Register(c) PROVE IInv'
<1>1. PICK s \in Slot : slots[s] = 0 /\ slots' = [slots EXCEPT ![s] = c] /\ index' = [index EXCEPT ![c] = s]
  BY Zenon DEF Register
<1>2. /\ child[c] = "born" /\ child' = [child EXCEPT ![c] = "posting"]
      /\ UNCHANGED <<step, par, table, running, active, to, k, doubled, command, text, sem, par_sem, printed>>
  BY Zenon DEF Register, SetChild, parent
<1>3. Types'
  <2>1. slots' \in [Slot -> Nat] /\ index' \in [Pid -> Slot]
    BY <1>1, Consts, Zenon DEF IInv, Types
  <2> QED BY <1>2, <2>1, Zenon DEF IInv, Types
<1>4. ASSUME ~Ended PROVE Staying' = Staying /\ OwnersOK' /\ TurnOK'
  <2>1. ChildTurn(c) /\ c \in Live /\ par = "waitS" /\ par \notin Turn
    BY <1>2, <1>4, BusyHasTurn, Zenon DEF ChildTurn, Waits
  <2>2. Live' = Live /\ Busy' = {c} /\ \A q \in Pid : child'[q] = IF q = c THEN "posting" ELSE child[q]
    BY <1>2, <2>1, Zenon DEF ChildTurn, Live, Busy, IInv, Types
  <2>3. Staying = Live /\ Staying' = Live /\ Live \subseteq Pid
    BY <1>2, <2>1, <2>2, Zenon DEF Staying, Going, Live
  <2>4. TurnOK'
    <3>1. ChildTurn(c)'
      BY <1>2, <2>1, <2>2, Zenon DEF ChildTurn, AllQuiet
    <3> QED BY <1>2, <2>1, <3>1, Zenon DEF TurnOK
  <2>5. OwnersOK'
    <3>1. /\ slots'[s] = c /\ index'[c] = s /\ c # 0
          /\ \A r \in Slot : r # s => slots'[r] = slots[r]
          /\ \A q \in Pid : q # c => index'[q] = index[q] /\ index[q] \in Slot
      BY <1>1, Consts, Zenon DEF IInv, Types
    <3>2. ASSUME NEW r \in Slot, slots'[r] # 0
          PROVE  slots'[r] \in Staying' /\ child'[slots'[r]] # "born" /\ index'[slots'[r]] = r
      <4>1. CASE r = s
        BY <2>1, <2>2, <2>3, <3>1, <4>1, Zenon
      <4>2. CASE r # s
        <5>1. slots[r] \in Live /\ child[slots[r]] # "born" /\ index[slots[r]] = r
          BY <1>4, <2>3, <3>1, <3>2, <4>2, Zenon DEF IInv, OwnersOK
        <5>2. slots[r] # c /\ slots[r] \in Pid
          BY <5>1, <1>2, <2>3, Zenon
        <5> QED BY <5>1, <5>2, <2>2, <2>3, <3>1, <4>2, Zenon
      <4> QED BY <4>1, <4>2, Zenon
    <3>3. ASSUME NEW q \in Staying', child'[q] # "born" PROVE slots'[index'[q]] = q
      <4>1. CASE q = c
        BY <3>1, <4>1, Zenon
      <4>2. CASE q # c
        <5>1. q \in Live /\ q \in Pid /\ child[q] # "born" /\ slots[index[q]] = q
          BY <1>4, <2>2, <2>3, <3>3, <4>2, Zenon DEF IInv, OwnersOK
        <5>2. index[q] # s
          BY <5>1, <1>1, Consts, Zenon
        <5> QED BY <5>1, <5>2, <3>1, <4>2, Zenon
      <4> QED BY <4>1, <4>2, Zenon
    <3>4. running' = Cardinality(Staying')
      BY <1>2, <1>4, <2>1, <2>3, Zenon DEF IInv, OwnersOK
    <3> QED BY <1>2, <2>1, <3>2, <3>3, <3>4, Zenon DEF OwnersOK
  <2> QED BY <2>3, <2>4, <2>5, Zenon
<1> QED BY <1>2, <1>3, <1>4, ChildKeeps, Zenon DEF parent

(* A child gives the turn back to the parent.                              *)
LEMMA PostParentKeeps == ASSUME IInv, NEW c \in Pid, PostParent(c) PROVE IInv'
<1>1. PICK l : /\ l = IF child[c] = "posting" THEN "idle" ELSE "dead"
               /\ child[c] \in {"posting", "leaving"} /\ child' = [child EXCEPT ![c] = l]
               /\ par_sem' = par_sem + 1
               /\ UNCHANGED <<step, par, table, running, active, to, k, doubled>>
               /\ UNCHANGED <<slots, command, text, sem, index, printed>>
  BY Zenon DEF PostParent, SetChild, parent, shared
<1>2. Types'
  BY <1>1 DEF IInv, Types
<1>3. ASSUME ~Ended PROVE Staying' = Staying /\ OwnersOK' /\ TurnOK'
  <2>1. ChildTurn(c) /\ c \in Live /\ par \in Waits /\ par \notin Turn
    BY <1>1, <1>3, BusyHasTurn, Zenon
  <2>2. \A q \in Pid : child'[q] = IF q = c THEN l ELSE child[q]
    BY <1>1, Zenon DEF IInv, Types
  <2>3. Busy' = {}
    BY <1>1, <2>1, <2>2 DEF ChildTurn, Busy
  <2>4. Released'
    <3>1. par_sem' = 1 /\ (\A s \in Slot : sem'[s] = 0)
      BY <1>1, <2>1 DEF ChildTurn, AllQuiet
    <3>2. CASE par = "waitS"
      BY <1>1, <2>1, <2>3, <3>1, <3>2, Zenon DEF ChildTurn, Released
    <3>3. CASE par = "waitM"
      BY <1>1, <2>1, <2>2, <2>3, <3>1, <3>3, Zenon DEF ChildTurn, Released
    <3>4. CASE par = "waitT"
      BY <1>1, <2>1, <2>2, <2>3, <3>1, <3>4, Zenon DEF ChildTurn, Released
    <3> QED BY <2>1, <3>2, <3>3, <3>4, Zenon DEF Waits
  <2>5. TurnOK'
    BY <1>1, <2>1, <2>4, Zenon DEF TurnOK
  <2>6. CASE child[c] = "posting"
    BY <1>1, <2>1, <2>5, <2>6, Lives, ZenonT(30)
  <2>7. CASE child[c] = "leaving"
    <3>1. l = "dead" /\ par = "waitT" /\ to = c
      BY <1>1, <2>1, <2>7, Zenon DEF ChildTurn, Waits
    <3>2. Staying' = Staying /\ Staying \subseteq Pid \ {c}
      BY <1>1, <2>2, <3>1 DEF Staying, Going, Live
    <3>3. \A q \in Staying : child'[q] = child[q]
      BY <2>2, <3>2, Zenon
    <3>4. ~Ended'
      BY <1>1, <1>3, Zenon DEF Ended
    <3>5. OwnersOK'
      BY <1>1, <1>3, <3>2, <3>3, <3>4, Zenon DEF IInv, OwnersOK
    <3> QED BY <2>5, <3>2, <3>5, Zenon
  <2> QED BY <1>1, <2>6, <2>7, Zenon
<1>4. child[c] # "unborn" /\ l # "unborn"
  BY <1>1, Zenon
<1> QED BY <1>1, <1>2, <1>3, <1>4, ChildKeeps, Zenon DEF parent

(* The child the parent woke takes the turn from its semaphore.            *)
LEMMA ChildWakesKeeps == ASSUME IInv, NEW c \in Pid, ChildWakes(c) PROVE IInv'
<1>1. /\ child[c] = "idle" /\ child' = [child EXCEPT ![c] = "woken"]
      /\ sem[index[c]] > 0 /\ sem' = [sem EXCEPT ![index[c]] = @ - 1]
      /\ UNCHANGED <<step, par, table, running, active, to, k, doubled>>
      /\ UNCHANGED <<slots, command, text, par_sem, index, printed>>
  BY Zenon DEF ChildWakes, SetChild, parent, shared
<1>2. index[c] \in Slot /\ c \in Live
  BY <1>1, Zenon DEF IInv, Types, Live
<1>3. Types'
  <2>1. sem' \in [Slot -> Nat]
    BY <1>1, <1>2 DEF IInv, Types
  <2> QED BY <1>1, <2>1, Zenon DEF IInv, Types
<1>4. ASSUME ~Ended PROVE Staying' = Staying /\ OwnersOK' /\ TurnOK'
  <2>1. par \in Waits /\ par \notin Turn /\ Woke
    <3>0. sem[index[c]] # 0
      BY <1>1
    <3>1. ~AllQuiet /\ ~Released
      BY <3>0, <1>2, Zenon DEF AllQuiet, Released
    <3>2. par \notin Turn /\ par \in Waits
      BY <1>4, <3>1, Zenon DEF IInv, TurnOK, Types, Ended
    <3>3. ~WokeNobody
      <4> SUFFICES ASSUME WokeNobody PROVE FALSE
        BY Zenon
      <4>1. PICK s \in Slot : slots[s] = 0 /\ \A r \in Slot : sem[r] = IF r = s THEN 1 ELSE 0
        BY Zenon DEF WokeNobody
      <4>2. index[c] = s /\ par = "waitM"
        BY <1>2, <3>0, <4>1, Zenon DEF WokeNobody, Stray
      <4>3. slots[index[c]] = c
        BY <1>1, <1>2, <1>4, <4>2, Zenon DEF IInv, OwnersOK, Staying, Going
      <4> QED BY <4>1, <4>2, <4>3, Consts, Zenon
    <3> QED BY <3>1, <3>2, <3>3, Zenon DEF IInv, TurnOK, ChildTurn
  <2>2. index[c] = index[to]
    BY <1>1, <1>2, <2>1 DEF Woke
  <2>3. c = to
    <3>1. CASE par = "waitT"
      <4>1. slots[index[c]] = 0
        BY <1>4, <2>2, <3>1, Zenon DEF IInv, OwnersOK
      <4>2. c \notin Staying
        BY <1>1, <1>4, <4>1, Consts, Zenon DEF IInv, OwnersOK
      <4> QED BY <1>2, <3>1, <4>2, Zenon DEF Staying, Going
    <3>2. CASE par # "waitT"
      <4>1. c \in Staying /\ to \in Staying
        BY <1>2, <2>1, <3>2, Zenon DEF Staying, Going, Woke, Live
      <4> QED BY <1>1, <1>4, <2>1, <2>2, <4>1, Zenon DEF IInv, OwnersOK, Woke
    <3> QED BY <3>1, <3>2, Zenon
  <2>4. Staying' = Staying /\ Busy' = Busy \cup {c} /\ OwnersOK'
    BY <1>1, <1>2, Lives, Zenon
  <2>5. \A s \in Slot : sem'[s] = 0
    BY <1>1, <1>2, <2>1, <2>2, SMTT(30) DEF Woke, IInv, Types
  <2>6. child'[c] = "woken"
    BY <1>1, Zenon DEF IInv, Types
  <2>7. ChildTurn(c)'
    BY <1>1, <2>1, <2>3, <2>4, <2>5, <2>6, Zenon DEF ChildTurn, AllQuiet, Woke
  <2> QED BY <1>1, <2>1, <2>4, <2>7, Zenon DEF TurnOK
<1> QED BY <1>1, <1>3, <1>4, ChildKeeps, Zenon DEF parent

(* The woken child prints the line or takes its command back.              *)
LEMMA ObeyKeeps == ASSUME IInv, NEW c \in Pid, Obey(c) PROVE IInv'
<1>1. /\ child[c] = "woken"
      /\ UNCHANGED <<step, par, table, running, active, to, k, doubled>>
      /\ UNCHANGED <<slots, text, sem, par_sem, index>>
  BY Zenon DEF Obey, parent
<1>2. c \in Live
  BY <1>1, Zenon DEF Live
<1>3. CASE ForMe(c)
  <2>1. /\ child' = [child EXCEPT ![c] = "leaving"] /\ printed' = printed
        /\ command' = IF command = -1 THEN -1 ELSE 0
    BY <1>3, Zenon DEF Obey, SetChild
  <2>2. Types'
    BY <1>1, <2>1 DEF IInv, Types
  <2>3. Staying' = Staying /\ Busy' = Busy \cup {c} /\ OwnersOK'
    BY <1>1, <1>2, <2>1, Lives, Zenon
  <2>4. ASSUME ~Ended PROVE TurnOK'
    <3>1. par \in Waits /\ par \notin Turn /\ ChildTurn(c)
      BY <1>1, <2>4, BusyHasTurn, Zenon
    <3>2. par = "waitT" /\ command = c /\ to = c
      BY <1>1, <1>3, <3>1, Consts DEF ChildTurn, Waits, ForMe
    <3>3. child'[c] = "leaving" /\ command' = 0 /\ Busy' = {c}
      BY <2>1, <2>3, <3>1, <3>2, Consts DEF IInv, Types, ChildTurn
    <3>4. ChildTurn(c)'
      BY <1>1, <3>1, <3>2, <3>3, Zenon DEF ChildTurn, AllQuiet
    <3> QED BY <1>1, <3>1, <3>4, Zenon DEF TurnOK
  <2> QED BY <1>1, <2>1, <2>2, <2>3, <2>4, ChildKeeps, Zenon DEF parent
<1>4. CASE ~ForMe(c)
  <2>1. /\ child' = [child EXCEPT ![c] = "posting"] /\ printed' = [printed EXCEPT ![c] = text]
        /\ command' = command
    BY <1>4, Zenon DEF Obey, SetChild
  <2>2. Types'
    BY <1>1, <2>1, Zenon DEF IInv, Types
  <2>3. Staying' = Staying /\ Busy' = Busy \cup {c} /\ OwnersOK'
    BY <1>1, <1>2, <2>1, Lives, Zenon
  <2>4. ASSUME ~Ended PROVE TurnOK'
    <3>1. par \in Waits /\ par \notin Turn /\ ChildTurn(c)
      BY <1>1, <2>4, BusyHasTurn
    <3>2. par = "waitM" /\ to = c /\ command = 0
      BY <1>1, <1>4, <3>1, Zenon DEF ChildTurn, Waits, ForMe
    <3>3. child'[c] = "posting" /\ printed'[c] = text /\ Busy' = {c}
      BY <2>1, <2>3, <3>1, Zenon DEF IInv, Types, ChildTurn
    <3>4. ChildTurn(c)'
      BY <1>1, <2>1, <3>1, <3>2, <3>3, Zenon DEF ChildTurn, AllQuiet
    <3> QED BY <1>1, <3>1, <3>4 DEF TurnOK
  <2> QED BY <1>1, <2>1, <2>2, <2>3, <2>4, ChildKeeps, Zenon DEF parent
<1> QED BY <1>3, <1>4, Zenon

-----------------------------------------------------------------------------
(* Facts of the library, needed only from here on.                         *)
INSTANCE FiniteSetTheorems

(* A nonempty set of numbers has a least, and below a bound a greatest.    *)
LEMMA LeastIn ==
  ASSUME NEW S \in SUBSET Nat, S # {} PROVE \E x \in S : \A y \in S : x <= y
<1>1. PICK T : T = {0..x : x \in S}
  BY Zenon
<1>2. \A x \in Nat : 0..x \subseteq Nat /\ IsFiniteSet(0..x)
  BY FS_Interval
<1>3. T \subseteq FiniteSubsetsOf(Nat) /\ T # {}
  BY <1>1, <1>2, Zenon DEF FiniteSubsetsOf
<1>4. PICK U \in T : \A V \in T : ~(<<V, U>> \in StrictSubsetOrdering(Nat))
  BY <1>3, FS_StrictSubsetOrderingWellFounded, WFMin, Zenon
<1>5. PICK x \in S : U = 0..x
  BY <1>1, Zenon
<1>6. ASSUME NEW y \in S, y < x PROVE FALSE
  <2>1. 0..y \in T /\ 0..y \subseteq U /\ x \in U /\ x \notin 0..y
    BY <1>1, <1>5, <1>6
  <2>2. U \subseteq Nat
    BY <1>5
  <2> QED BY <2>1, <2>2, <1>4, Zenon DEF StrictSubsetOrdering
<1> QED BY <1>6

(* A set of numbers that is bounded and not empty has a maximum.           *)
LEMMA MaxIn ==
  ASSUME NEW n \in Nat, NEW S \in SUBSET (1..n), S # {} PROVE Max(S) \in S
<1>1. PICK T : T = {n - x : x \in S}
  BY Zenon
<1>2. \A x \in S : n - x \in Nat
  OBVIOUS
<1>3. T \in SUBSET Nat /\ T # {}
  BY <1>1, <1>2, Zenon
<1>4. PICK z \in T : \A y \in T : z <= y
  BY <1>3, LeastIn, Zenon
<1>5. PICK u \in S : z = n - u
  BY <1>1, Zenon
<1>6. \A y \in S : n - u <= n - y
  BY <1>1, <1>4, <1>5, Zenon
<1>7. \A y \in S : u >= y
  BY <1>6
<1> QED BY <1>7, Zenon DEF Max

(* The facts about finite sets.                                            *)
LEMMA SetFactsHold == SetFacts
<1>1. IsFiniteSet(Pid) /\ Cardinality({}) = 0
  BY ErgasiaAssumption, FS_Interval, FS_EmptySet DEF Pid
<1>2. \A S : \A T \in SUBSET S : IsFiniteSet(S) => IsFiniteSet(T)
  BY FS_Subset, Zenon
<1>3. ASSUME NEW S, NEW x, IsFiniteSet(S)
      PROVE  /\ IsFiniteSet(S \cup {x})
             /\ Cardinality(S \cup {x}) = IF x \in S THEN Cardinality(S) ELSE Cardinality(S) + 1
  BY <1>3, FS_AddElement, Zenon
<1>4. ASSUME NEW S, NEW x, IsFiniteSet(S)
      PROVE  /\ IsFiniteSet(S \ {x})
             /\ Cardinality(S \ {x}) = IF x \in S THEN Cardinality(S) - 1 ELSE Cardinality(S)
  BY <1>4, FS_RemoveElement, Zenon
<1>5. \A n \in Nat : \A S \in SUBSET (1..n) : S # {} => Max(S) \in S
  BY MaxIn, Zenon
<1> QED BY <1>1, <1>2, <1>3, <1>4, <1>5, Zenon DEF SetFacts

(* The invariant holds before the first step.                              *)
LEMMA InitIInv == Init => IInv
<1> SUFFICES ASSUME Init PROVE IInv
  BY Zenon
<1>1. Live = {} /\ Busy = {} /\ Staying = {} /\ Cardinality(Staying) = 0
  <2>1. Live = {} /\ Busy = {}
    BY Zenon DEF Init, Live, Busy
  <2> QED BY <2>1, FS_EmptySet, Zenon DEF Staying
<1>2. IsFiniteSet(active) /\ Cardinality(active) = 0
  BY FS_EmptySet, Zenon DEF Init
<1>3. table = <<>> /\ Len(table) = 0 /\ DOMAIN table = {} /\ par = "command" /\ step = 0
  BY DEF Init
<1>4. Types
  BY <1>3, Consts DEF Init, Types, Turn
<1>5. TableOK
  BY <1>3, Consts, ErgasiaAssumption DEF Init, TableOK
<1>6. NamesOK
  BY <1>2, <1>3, Zenon DEF Init, NamesOK, Entries
<1>7. OwnersOK
  BY <1>1, Zenon DEF Init, OwnersOK
<1>8. TurnOK
  BY <1>1, Zenon DEF Init, TurnOK, AllQuiet, Waits
<1> QED BY <1>4, <1>5, <1>6, <1>7, <1>8, Zenon DEF IInv

(* Every step keeps the invariant.                                         *)
LEMMA IInvStep == IInv /\ [Next]_vars => IInv'
<1> SUFFICES ASSUME IInv, [Next]_vars PROVE IInv'
  BY Zenon
<1>1. CASE UNCHANGED vars
  <2>1. /\ UNCHANGED <<step, par, table, running, active, to, k, doubled, slots, command, text>>
        /\ UNCHANGED <<sem, par_sem, child, index, printed>>
    BY <1>1, Zenon DEF vars
  <2>2. Live' = Live /\ Busy' = Busy /\ (Ended' <=> Ended) /\ Going' = Going /\ \A nm : Entries(nm)' = Entries(nm)
    BY <2>1, Same, Zenon DEF Ended, Going
  <2>3. Staying' = Staying
    BY <2>2, ZenonT(30) DEF Staying
  <2>4. Types' /\ TableOK'
    BY <2>1, <2>2, <2>3, Zenon DEF IInv, Types, TableOK
  <2>5. NamesOK' /\ OwnersOK'
    BY <2>1, <2>2, <2>3, Zenon DEF IInv, NamesOK, OwnersOK
  <2>6. TurnOK'
    <3>1. /\ (Released' <=> Released) /\ (Woke' <=> Woke) /\ (AllQuiet' <=> AllQuiet)
          /\ WokeNobody' <=> WokeNobody
      BY <2>1, <2>2, Zenon DEF Released, Woke, WokeNobody, Stray, AllQuiet
    <3>2. \A c \in Pid : ChildTurn(c)' <=> ChildTurn(c)
      BY <2>1, <2>2, <3>1, Zenon DEF ChildTurn
    <3> QED BY <2>1, <2>2, <3>1, <3>2, ZenonT(30) DEF IInv, TurnOK
  <2> QED BY <2>4, <2>5, <2>6, Zenon DEF IInv
<1>2. CASE CommandStep
  <2>1. ASSUME NEW nm \in Name, Start(nm) PROVE IInv'
    <3>1. Len(table) + 1 <= MAX_CHILDREN \/ Len(table) + 1 > MAX_CHILDREN
      BY ErgasiaAssumption DEF IInv, Types
    <3> QED BY <2>1, <3>1, SetFactsHold, StartKeeps, StartOverflows, Zenon
  <2> QED BY <1>2, <2>1, SetFactsHold, NoCommandKeeps, StartErrorKeeps, ShutdownKeeps, TerminateNoneKeeps, TerminateKeeps, Zenon
          DEF CommandStep, TooManyError, ForkFails
<1>3. CASE \E nm \in Name, l \in Line : Message(nm, l)
  BY <1>3, SetFactsHold, MessageKeeps, Zenon
<1>4. CASE MessageUndefined \/ NoMessage \/ ParentWakes \/ PostAll \/ Reap
  BY <1>4, SetFactsHold, MessageUndefinedKeeps, NoMessageKeeps, ParentWakesKeeps, PostAllKeeps, ReapKeeps, Zenon
<1>5. CASE \E c \in Pid : ChildStep(c)
  BY <1>5, RegisterKeeps, PostParentKeeps, ChildWakesKeeps, ObeyKeeps, Zenon DEF ChildStep
<1> QED BY <1>1, <1>2, <1>3, <1>4, <1>5, Zenon DEF Next, ParentStep

(* The invariant holds throughout.                                         *)
LEMMA InvHolds == Spec => []IInv
BY InitIInv, IInvStep, PTL DEF Spec

(* Until the end one process at a time runs: the parent, a child past its  *)
(* sem_wait(), or the one whose semaphore is posted.                       *)
THEOREM OneRunsAtATime == Spec => []Baton
<1>1. IInv => Baton
  <2> SUFFICES ASSUME IInv, ~Ended
               PROVE  /\ \A s \in Slot : sem[s] <= 1
                      /\ (IF par \in {"command", "message", "error"} THEN 1 ELSE 0)
                         + Cardinality(Busy) + par_sem + Cardinality(Posted) = 1
    BY Zenon DEF Baton
  <2>0. Cardinality({}) = 0 /\ \A x : Cardinality({x}) = 1
    BY FS_EmptySet, FS_Singleton, Zenon
  <2>1. (\A s \in Slot : sem[s] = 0) => Posted = {}
    BY DEF Posted
  <2>2. CASE par \in Turn
    BY <2>0, <2>1, <2>2, AllIdle DEF Turn
  <2>3. CASE par \in Waits
    <3>1. par \notin {"command", "message", "error"}
      BY <2>3, Zenon DEF Waits
    <3>2. CASE \E c \in Pid : ChildTurn(c)
      <4>1. PICK c \in Pid : Busy = {c} /\ AllQuiet
        BY <3>2, Zenon DEF ChildTurn
      <4>2. Cardinality(Busy) = 1 /\ Cardinality(Posted) = 0
        BY <2>0, <2>1, <4>1, Zenon DEF AllQuiet
      <4> QED BY <3>1, <4>1, <4>2 DEF AllQuiet
    <3>3. CASE Released
      BY <2>0, <2>1, <3>1, <3>3 DEF Released
    <3>4. CASE Woke
      <4>1. Posted = {index[to]} /\ Busy = {} /\ par_sem = 0 /\ \A s \in Slot : sem[s] <= 1
        BY <3>4 DEF Woke, Posted, IInv, Types
      <4>2. Cardinality(Posted) = 1 /\ Cardinality(Busy) = 0
        BY <2>0, <4>1, Zenon
      <4> QED BY <3>1, <4>1, <4>2
    <3>5. CASE WokeNobody
      <4>1. PICK s \in Slot : \A r \in Slot : sem[r] = IF r = s THEN 1 ELSE 0
        BY <3>5, Zenon DEF WokeNobody
      <4>2. Posted = {s} /\ Busy = {} /\ par_sem = 0 /\ \A r \in Slot : sem[r] <= 1
        BY <3>5, <4>1 DEF WokeNobody, Posted
      <4>3. Cardinality(Posted) = 1 /\ Cardinality(Busy) = 0
        BY <2>0, <4>2, Zenon
      <4> QED BY <3>1, <4>2, <4>3
    <3> QED BY <2>3, <3>2, <3>3, <3>4, <3>5, Zenon DEF IInv, TurnOK
  <2> QED BY <2>2, <2>3, Zenon DEF IInv, Types, Ended
<1> QED BY <1>1, InvHolds, PTL

(* Whenever the parent has the turn, the slots it searches are exactly     *)
(* those of the live children, and its count is their number; unless a     *)
(* name is started twice, or too many children are, it finds a child; and  *)
(* only when C0 is active can the line miss it.                            *)
THEOREM SlotsAreExact == Spec => []SlotsMatch
<1>1. IInv => SlotsMatch
  <2> SUFFICES ASSUME IInv PROVE SlotsMatch
    BY Zenon
  <2>1. ASSUME par \in {"command", "message"}
        PROVE  /\ \A c \in Live : child[c] = "idle" /\ {s \in Slot : slots[s] = c} = {index[c]}
               /\ {slots[s] : s \in Slot} \ {0} = Live
               /\ running = Cardinality(Live)
    <3>1. /\ Staying = Live /\ ~Ended /\ par # "error"
          /\ \A c \in Live : c \in Pid /\ child[c] = "idle" /\ slots[index[c]] = c
      BY <2>1, AllIdle, Zenon DEF Turn
    <3>2. \A c \in Live : index[c] \in Slot /\ c # 0
      BY <3>1, Consts, Zenon DEF IInv, Types
    <3>3. \A s \in Slot : slots[s] # 0 => slots[s] \in Live /\ index[slots[s]] = s
      BY <3>1, Zenon DEF IInv, OwnersOK
    <3>4. running = Cardinality(Live)
      BY <3>1, Zenon DEF IInv, OwnersOK
    <3>5. {slots[s] : s \in Slot} \ {0} = Live
      BY <3>1, <3>2, <3>3
    <3>6. ASSUME NEW c \in Live PROVE {s \in Slot : slots[s] = c} = {index[c]}
      BY <3>1, <3>2, <3>3
    <3> QED BY <3>1, <3>4, <3>5, <3>6, Zenon
  <2>2. ASSUME par = "waitM", 0 \notin active PROVE to \in Live /\ table[to].name \in active
    <3>1. ~Ended /\ Staying = Live
      BY <2>2, Zenon DEF Ended, Staying, Going
    <3> QED BY <2>2, <3>1, Zenon DEF IInv, NamesOK, TableOK
  <2> QED BY <2>1, <2>2, Zenon DEF SlotsMatch, IInv, NamesOK
<1> QED BY <1>1, InvHolds, PTL

(* par_sem is posted only by the child the parent woke: after it printed   *)
(* the line, or after it took its command back and left.                   *)
THEOREM ParentIsAnswered == Spec => []Answered
<1>1. IInv => Answered
  <2> SUFFICES ASSUME IInv, par_sem > 0, par \in {"waitM", "waitT"} PROVE Released
    BY Zenon DEF Answered, Released
  <2> QED BY DEF IInv, TurnOK, Waits, ChildTurn, AllQuiet, Woke, WokeNobody
<1> QED BY <1>1, InvHolds, PTL
=============================================================================
