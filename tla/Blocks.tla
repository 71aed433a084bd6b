------------------------------- MODULE Blocks -------------------------------
(***************************************************************************)
(* What the buffer cache promises ("only one process at a time can use a   *)
(* buffer"): each block has one current content, seen and changed only by  *)
(* the process that has the block locked.                                  *)
(***************************************************************************)
CONSTANTS Proc, Block, Val, None

VARIABLES
  cur,   \* the current content of each block
  held   \* the process that holds the block's buffer, or None

Init == cur \in [Block -> Val] /\ held = [k \in Block |-> None]

Lock(p, k) ==
  /\ held[k] = None
  /\ held' = [held EXCEPT ![k] = p]
  /\ UNCHANGED cur

Change(p, k, v) ==
  /\ held[k] = p
  /\ cur' = [cur EXCEPT ![k] = v]
  /\ UNCHANGED held

Unlock(p, k) ==
  /\ held[k] = p
  /\ held' = [held EXCEPT ![k] = None]
  /\ UNCHANGED cur

Next == \E p \in Proc, k \in Block :
  Lock(p, k) \/ Unlock(p, k) \/ \E v \in Val : Change(p, k, v)

Spec == Init /\ [][Next]_<<cur, held>>
=============================================================================
