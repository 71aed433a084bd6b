-------------------------------- MODULE Tty --------------------------------
(***************************************************************************)
(* What the console promises of its input: the line being typed can still  *)
(* be edited and cannot be read; a line that was ended is read once, in    *)
(* the order typed, and nothing typed or erased later changes it.          *)
(***************************************************************************)
EXTENDS Naturals, Sequences

CONSTANTS
  Char, Ender,   \* all characters, and those that end a line
  Size           \* how many the console holds

VARIABLES
  ready,   \* the characters a read() may return
  edit     \* the line being typed

Init == ready = <<>> /\ edit = <<>>

(* A character arrives; the line is done if the character ends it or fills *)
(* the console.                                                            *)
Type(c) ==
  /\ Len(ready) + Len(edit) < Size
  /\ IF c \in Ender \/ Len(ready) + Len(edit) + 1 = Size
     THEN ready' = ready \o Append(edit, c) /\ edit' = <<>>
     ELSE edit' = Append(edit, c) /\ UNCHANGED ready

Erase(k) ==
  /\ edit' = SubSeq(edit, 1, Len(edit) - k)
  /\ UNCHANGED ready

Take ==
  /\ ready # <<>>
  /\ ready' = Tail(ready)
  /\ UNCHANGED edit

Next ==
  \/ \E c \in Char : Type(c)
  \/ \E k \in 1..Len(edit) : Erase(k)
  \/ Take

Spec == Init /\ [][Next]_<<ready, edit>>
=============================================================================
