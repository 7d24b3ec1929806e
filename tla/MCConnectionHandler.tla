-------------------------- MODULE MCConnectionHandler --------------------------
EXTENDS ConnectionHandler

\* All short texts, and some long enough for a line to span several segments
\* and several reads.
MCTexts ==
  [1..3 -> Bytes] \union
  {<<"/", "Q", " ", "Q", "CR", "LF">>, <<"Q", "CR", "LF", "LF", "/", "LF">>,
   <<"Q", "Q", "Q", " ", "Q", "LF">>, <<"/", " ", " ", "LF", "Q", "LF">>}

\* Patterns with and without overlaps with themselves, up to four bytes long.
MCPatterns ==
  {<<>>, <<"CR", "LF">>, <<"Q", "Q">>, <<"Q", "Q", " ">>,
   <<"Q", " ", "Q">>, <<" ", "Q", "CR", "LF">>}
===============================================================================
