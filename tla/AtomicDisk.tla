----------------------------- MODULE AtomicDisk -----------------------------
(***************************************************************************)
(* What kernel/log.c promises to the file system: system calls change the  *)
(* blocks of a disk, and a crash leaves exactly the updates of complete    *)
(* system calls behind.  `current' is what a reader sees through the       *)
(* buffer cache, `stable' what survives a crash, `active' the system calls *)
(* between begin_op() and end_op().                                        *)
(***************************************************************************)
CONSTANTS Proc, Block, Val

VARIABLES stable, current, active

advars == <<stable, current, active>>

Init ==
  /\ stable \in [Block -> Val]
  /\ current = stable
  /\ active = {}

Begin(p) ==
  /\ p \notin active
  /\ active' = active \cup {p}
  /\ UNCHANGED <<stable, current>>

Write(p, b, v) ==
  /\ p \in active
  /\ current' = [current EXCEPT ![b] = v]
  /\ UNCHANGED <<stable, active>>

End(p) ==
  /\ p \in active
  /\ active' = active \ {p}
  /\ UNCHANGED <<stable, current>>

(* Group commit: everything written so far becomes durable at once, and    *)
(* only when no system call is half done.                                  *)
Commit ==
  /\ active = {}
  /\ stable' = current
  /\ UNCHANGED <<current, active>>

Crash ==
  /\ current' = stable
  /\ active' = {}
  /\ UNCHANGED stable

Next ==
  \/ \E p \in Proc : Begin(p) \/ End(p)
  \/ \E p \in Proc, b \in Block, v \in Val : Write(p, b, v)
  \/ Commit
  \/ Crash

Spec == Init /\ [][Next]_advars
=============================================================================
