----------------------------- MODULE MCManager -----------------------------
\* Manager with fields of one byte but for the names, which have two, so that a
\* read out of step takes a piece of one and what follows it.
EXTENDS Manager

NarrowFields ==
  [k \in {"code", "list"} |->
     IF k = "code" THEN <<0, 1, 2, 3, 4, 5>> ELSE <<0, 1, 2, 3, 4, 6, 7, 8, 9, 10, 11, 12>>]

\* A table without boxes, and tables of one to four boxes: for two the array
\* grows, and again for four.
ShortLists == {<<0>>, <<1>>, <<2, 1>>, <<1, 3, 2>>, <<3, 2, 1>>, <<4, 1, 3, 2>>}
=============================================================================
