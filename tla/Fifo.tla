-------------------------------- MODULE Fifo --------------------------------
(***************************************************************************)
(* A named pipe between a client and its worker, as the programs use it:   *)
(* each has at most one descriptor of it at a time.                        *)
(*                                                                         *)
(* open waits for an opener of the other mode, one that waits itself       *)
(* included, and both go on.  read gives what was written first; with      *)
(* nothing left it waits for a writer, or is at the end of the file if     *)
(* there is none.  A write without a reader raises SIGPIPE.  What is in    *)
(* the pipe is lost when nobody has it open.                               *)
(***************************************************************************)
EXTENDS Naturals, Sequences

Ends == {"client", "broker"}
Modes == {"closed", "waits_R", "waits_W", "R", "W"}
Peer(x) == IF x = "client" THEN "broker" ELSE "client"

\* mkfifo of a path that is free.
Mkfifo == [path |-> TRUE, end |-> [x \in Ends |-> "closed"], buffer |-> <<>>]

ReadsOrWaits(f, x) == f.end[x] \in {"R", "waits_R"}
WritesOrWaits(f, x) == f.end[x] \in {"W", "waits_W"}

\* open for reading, and for writing, while the path is there.
OpenRead(f, x) ==
  IF WritesOrWaits(f, Peer(x)) THEN [f EXCEPT !.end[x] = "R", !.end[Peer(x)] = "W"]
  ELSE [f EXCEPT !.end[x] = "waits_R"]

OpenWrite(f, x) ==
  IF ReadsOrWaits(f, Peer(x)) THEN [f EXCEPT !.end[x] = "W", !.end[Peer(x)] = "R"]
  ELSE [f EXCEPT !.end[x] = "waits_W"]

Close(f, x) ==
  [f EXCEPT !.end[x] = "closed",
            !.buffer = IF f.end[Peer(x)] = "closed" THEN <<>> ELSE @]

Unlink(f) == [f EXCEPT !.path = FALSE]
Write(f, item) == [f EXCEPT !.buffer = Append(@, item)]
Read(f) == [f EXCEPT !.buffer = Tail(@)]

\* write and read of several bytes.
WriteAll(f, bytes) == [f EXCEPT !.buffer = @ \o bytes]
ReadSome(f, n) == [f EXCEPT !.buffer = SubSeq(@, n + 1, Len(@))]

Opened(f, x) == f.end[x] \in {"R", "W"}
HasData(f, x) == f.end[x] = "R" /\ f.buffer # <<>>
AtEnd(f, x) == f.end[x] = "R" /\ f.buffer = <<>> /\ ~WritesOrWaits(f, Peer(x))
NoReader(f, x) == f.end[x] = "W" /\ ~ReadsOrWaits(f, Peer(x))
HasRoom(f, x, size) == f.end[x] = "W" /\ ReadsOrWaits(f, Peer(x)) /\ Len(f.buffer) < size

\* write puts all the bytes or waits: there are never more than PIPE_BUF.
HasRoomFor(f, x, n, size) ==
  f.end[x] = "W" /\ ReadsOrWaits(f, Peer(x)) /\ Len(f.buffer) + n <= size
=============================================================================
