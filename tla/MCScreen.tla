------------------------------ MODULE MCScreen ------------------------------
EXTENDS Screen

Long == [i \in 1 .. 19 |-> IF i % 5 = 4 THEN NL ELSE IF i % 2 = 0 THEN "a" ELSE "b"]

SomeFlushes ==
  {<<"a">>, <<NL>>, <<"b", NL>>, <<"a", "b", NL, "b">>, <<"b", "a", "b", "a", "a">>,
   <<HT>>, <<"b", HT, "a">>, <<NUL, "a">>, <<"a", NL, NL, "b", NL>>, Long}
=============================================================================
