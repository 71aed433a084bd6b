------------------------------ MODULE MCShell ------------------------------
(* Every line of up to three tokens, and longer ones that nest.            *)
EXTENDS Shell

MCLonger ==
  {<<"a", "|", "a", "|", "a">>,                \* a | b | c
   <<"a", "|", "a", "|", "a", "|", "a">>,      \* a | b | c | d
   <<"a", "|", "(", "a", "&", ";", "a", ")">>, \* a | (b & ; c)
   <<"(", "(", "a", ")", "|", "a", ")", "|", "a">>, \* ((a) | b) | c
   <<"(", "a", "|", "a", ")", ">", "a">>,      \* (a | b) > c
   <<"(", "a", ";", "a", ")", "|", "a">>,      \* (a ; b) | c
   <<"a", "<", "a", "|", "a", "&">>,           \* a < b | c &
   <<"a", "|", "a", ";", "a">>,                \* a | b ; c
   <<"a", "&", ";", "a", "|", "a">>,           \* a & ; b | c
   <<"a", "<", "a", ">", "a", "+", "a">>}      \* a < b > c >> d
=============================================================================
