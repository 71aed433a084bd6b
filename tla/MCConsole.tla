----------------------------- MODULE MCConsole ------------------------------
(* Console for TLC: lines that are erased back over two characters, that   *)
(* overrun the ring, that are edited when there is nothing left to erase,  *)
(* and the end of file.                                                    *)
EXTENDS Console

MCTyped == {<<"a", "a", "U", "nl">>, <<"a", "a", "a", "a", "H">>, <<"nl", "U", "H", "D">>,
            <<"a", "H", "P", "D">>, <<"nl", "a", "nl", "D">>}
=============================================================================
