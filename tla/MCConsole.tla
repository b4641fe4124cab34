----------------------------- MODULE MCConsole -----------------------------
EXTENDS Console

a == Character("a")
b == Character("b")

\* Conversions of none up to seven cells, where a line has three.
SmallFormats ==
  {<<a>>, <<a, b, NewLine>>, <<NewLine, a, NewLine>>, <<b, printInt(0), NewLine>>, <<printInt(-7), b>>,
   <<printInt(12), a, a, a>>, <<String(<<"c", "d", "e">>), a>>, <<String(<<"c", "d">>)>>,
   <<String(<<>>), a>>, <<printHex(31), NewLine>>, <<printPointer(0), b>>, <<printPointer(10)>>,
   <<String(<<"c", "d", "e", "f", "g", "h", "i">>)>>}
=============================================================================
