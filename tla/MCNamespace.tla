---------------------------- MODULE MCNamespace -----------------------------
(* Paths, initial file systems and symmetry for the model of Namespace.    *)
EXTENDS Namespace, TLC
MCPath == {<<"/", "a">>, <<"..", "b">>, <<"/", "a", "b">>}
MCSecond == {<<"..", "b">>, <<"/", "a", "b">>}
MCLong == {<<"/", "a", "b">>}
Dir(n, up, a, b) ==
  [type |-> "dir", nlink |-> n, ents |-> ("a" :> a) @@ ("b" :> b) @@ (".." :> up), target |-> <<>>]
Leaf(t) == [FreeInode EXCEPT !.type = t, !.nlink = 1]
(* An empty /a and a free inode; a file /a/b; processes in a directory     *)
(* /a/b.                                                                   *)
MCStart ==
  {[disk |-> <<Dir(2, 1, 2, 0), Dir(1, 1, 0, 0), FreeInode>>, cwd |-> {1}],
   [disk |-> <<Dir(2, 1, 2, 0), Dir(1, 1, 0, 3), Leaf("file")>>, cwd |-> {1}],
   [disk |-> <<Dir(2, 1, 2, 0), Dir(2, 1, 0, 3), Dir(1, 2, 0, 0)>>, cwd |-> {3}]}
Symm == Permutations(Proc)
=============================================================================
