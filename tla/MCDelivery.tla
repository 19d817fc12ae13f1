----------------------------- MODULE MCDelivery -----------------------------
\* Delivery with a file of a few bytes and the shortest lines that differ.
EXTENDS Delivery

\* An empty line, which is its zero byte, and two of one byte.
ShortLines == {<<>>, <<"a">>, <<"b">>}
=============================================================================
