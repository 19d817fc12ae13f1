---------------------------- MODULE MCTecnicoFS ----------------------------
\* TecnicoFS with tables so small that each of them fills up.
EXTENDS TecnicoFS, TLC

\* The modes mbroker.c opens files with.
BrokerModes == {{}, {"CREAT"}, {"APPEND"}}

\* The modes that matter to what a handle of the same file finds.
LibraryModes == {{"CREAT"}, {"APPEND"}, {"TRUNC"}}

\* Names and bytes are only compared with each other.
DataSymmetry == Permutations(Names) \cup Permutations(Bytes)
\* All that a later call depends on: everything but ret.
Kept == <<inodes, blocks, dir, openFiles, halted>>
============================================================================
