------------------------------ MODULE MCBoxes ------------------------------
\* Boxes on a few names, which the program does not tell apart.
EXTENDS Boxes, TLC

Renamed == Permutations(Names)
=============================================================================
