---------------------------- MODULE MCFlushAfter ----------------------------
EXTENDS FlushAfter

\* A string that is empty, that just fills the buffer, and that overfills it.
SomeStrings == {<<>>, <<"a", "LF", "b">>, <<"a", "b", "LF", "a">>}

L(s, fs) == [string |-> s, flags |-> fs]

\* Blocks that fit, one that is longer than the buffer, one that fills it with its
\* newline, and one with a flush in it.
SomeBlocks == {
  <<L(<<"a">>, {}), L(<<"b">>, {})>>,
  <<L(<<"a">>, {"NEWLINE"})>>,
  <<L(<<"a", "b", "c">>, {}), L(<<"d", "e">>, {})>>,
  <<L(<<"a", "b">>, {"NEWLINE"}), L(<<"d">>, {"NEWLINE"})>>,
  <<L(<<"a", "b">>, {"FLUSH"}), L(<<"d">>, {})>> }
=============================================================================
