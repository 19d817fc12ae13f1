---------------------------- MODULE RegisterPipe ----------------------------
(***************************************************************************)
(* The bytes of the register pipe: the requests that the client programs   *)
(* write with one call each (create_register), and what main and           *)
(* process_entry of mbroker/mbroker.c take from them with reads of fixed   *)
(* lengths.  A list request is written one byte short.  At the end of the  *)
(* file main closes the pipe and opens it again.                           *)
(*                                                                         *)
(* There is one reader at a time, main or the worker it has chosen, which  *)
(* Dispatch shows; here it is one process.                                 *)
(***************************************************************************)
EXTENDS Integers, Sequences, SequencesExt

CONSTANTS
  Clients,          \* the client programs, each with one request
  NameBytes,        \* the bytes of pipe names and box names
  PIPE_NAME_SIZE, BOX_NAME_SIZE

OpCodes == {"1", "3", "7"}  \* of a link, of a create or remove, and of a list
IsList(code) == code = "7"

ASSUME RegisterAssumption ==
  /\ PIPE_NAME_SIZE \in Nat \ {0} /\ BOX_NAME_SIZE \in Nat \ {0}
  /\ "|" \notin NameBytes \cup OpCodes

VARIABLES
  client,    \* where each client's program is
  bytes,     \* what is in the pipe: the request, the place in it, the byte
  reader,    \* where main, or its worker, is
  code,      \* op_code
  taken,     \* ghost: what process_entry has read of the entry
  overrun,   \* ghost: the entry of a list has taken a byte of another request
  lost       \* ghost: the requests that were in the pipe when it was closed

vars == <<client, bytes, reader, code, taken, overrun, lost>>

Init ==
  /\ client = [c \in Clients |-> "start"]
  /\ bytes = <<>>
  /\ reader = "open"
  /\ code = "none"
  /\ taken = <<>>
  /\ overrun = FALSE
  /\ lost = {}

Writers == {c \in Clients : client[c] \in {"waits", "opened", "written"}}
ClientGoes(c, here, there) == client[c] = here /\ client' = [client EXCEPT ![c] = there]

-----------------------------------------------------------------------------
(* The clients *)

\* Waits for main to open the pipe.
ClientOpen(c) ==
  /\ ClientGoes(c, "start", IF reader = "open" THEN "waits" ELSE "opened")
  /\ UNCHANGED <<bytes, reader, code, taken, overrun, lost>>

\* create_register, cut to what is written.
Length(op) == IF IsList(op) THEN PIPE_NAME_SIZE + 1 ELSE PIPE_NAME_SIZE + BOX_NAME_SIZE + 3

Request(c, op, name) ==
  [k \in 1 .. Length(op) |->
     [of |-> c, at |-> k, byte |-> IF k = 1 THEN op
                                   ELSE IF k \in {2, PIPE_NAME_SIZE + 3} THEN "|" ELSE name]]

\* One write, which no other request divides.
ClientWrite(c, op, name) ==
  /\ reader # "open"
  /\ ClientGoes(c, "opened", "written")
  /\ bytes' = bytes \o Request(c, op, name)
  /\ UNCHANGED <<reader, code, taken, overrun, lost>>

\* The last close of a pipe drops what is in it.
ClosedByAll(writers, readers) ==
  IF writers = {} /\ ~readers
    THEN bytes' = <<>> /\ lost' = lost \cup {b.of : b \in ToSet(bytes)}
    ELSE UNCHANGED <<bytes, lost>>

\* SIGPIPE: main has closed the pipe since.
ClientDies(c) ==
  /\ reader = "open" /\ ClientGoes(c, "opened", "dead")
  /\ ClosedByAll(Writers \ {c}, FALSE)
  /\ UNCHANGED <<reader, code, taken, overrun>>

ClientClose(c) ==
  /\ ClientGoes(c, "written", "closed")
  /\ ClosedByAll(Writers \ {c}, reader # "open")
  /\ UNCHANGED <<reader, code, taken, overrun>>

-----------------------------------------------------------------------------
(* main and process_entry *)

\* read: as many bytes as there are, none at the end of the file.
Readable == bytes # <<>> \/ Writers = {}
Got(n) == SubSeq(bytes, 1, IF n < Len(bytes) THEN n ELSE Len(bytes))
Left(n) == SubSeq(bytes, n + 1, Len(bytes))

\* Waits for a client to open the pipe.
MainOpen ==
  /\ reader = "open" /\ Writers # {}
  /\ reader' = "read"
  /\ client' = [c \in Clients |-> IF client[c] = "waits" THEN "opened" ELSE client[c]]
  /\ UNCHANGED <<bytes, code, taken, overrun, lost>>

\* A byte that is no op code is passed over.
MainRead ==
  /\ reader = "read" /\ bytes # <<>>
  /\ LET first == Head(bytes)
         known == first.byte \in OpCodes
     IN /\ code' = IF known THEN first.byte ELSE code
        /\ taken' = IF known THEN <<first>> ELSE taken
        /\ reader' = IF known THEN "bar" ELSE "read"
  /\ bytes' = Tail(bytes)
  /\ UNCHANGED <<client, overrun, lost>>

MainEnd ==
  /\ reader = "read" /\ bytes = <<>> /\ Writers = {}
  /\ reader' = "close"
  /\ UNCHANGED <<client, bytes, code, taken, overrun, lost>>

\* Mutant: main does not open the pipe again.
MainClose_Stops ==
  /\ reader = "close" /\ reader' = "stopped"
  /\ UNCHANGED <<client, bytes, code, taken, overrun, lost>>

\* What was written since is lost, unless a client has the pipe open.
MainClose ==
  /\ reader = "close" /\ reader' = "open"
  /\ ClosedByAll(Writers, FALSE)
  /\ UNCHANGED <<client, code, taken, overrun>>

\* One read of process_entry, of n bytes, of which there may be fewer.
Take(here, n, there) ==
  /\ reader = here /\ Readable /\ reader' = there
  /\ bytes' = Left(n)
  /\ taken' = taken \o Got(n)
  /\ UNCHANGED <<client, code, lost>>

ReadBar == Take("bar", 1, "name") /\ UNCHANGED overrun

\* Mutant: the zero byte at the name's end is not read.
ReadName_Short ==
  /\ Take("name", PIPE_NAME_SIZE - 1, IF IsList(code) THEN "read" ELSE "bar_2")
  /\ overrun' = (overrun \/ (IsList(code) /\ \E b \in ToSet(taken') : b.of # Head(taken).of))

\* process_entry is done with a list here.
ReadName ==
  /\ Take("name", PIPE_NAME_SIZE, IF IsList(code) THEN "read" ELSE "bar_2")
  /\ overrun' = (overrun \/ (IsList(code) /\ \E b \in ToSet(taken') : b.of # Head(taken).of))

ReadBar2 == Take("bar_2", 1, "box") /\ UNCHANGED overrun
ReadBox == Take("box", BOX_NAME_SIZE, "read") /\ UNCHANGED overrun

-----------------------------------------------------------------------------
ReaderStep ==
  \/ MainOpen \/ MainRead \/ MainEnd \/ MainClose
  \/ ReadBar \/ ReadName \/ ReadBar2 \/ ReadBox

ClientStep(c) ==
  \/ ClientOpen(c) \/ ClientDies(c) \/ ClientClose(c)
  \/ \E op \in OpCodes, name \in NameBytes : ClientWrite(c, op, name)

Next == ReaderStep \/ \E c \in Clients : ClientStep(c)

\* The broker's threads and the clients that have begun go on when they can.
Spec == Init /\ [][Next]_vars
FairSpec ==
  /\ Spec
  /\ WF_vars(ReaderStep)
  /\ \A c \in Clients : WF_vars(client[c] # "start" /\ ClientStep(c))

-----------------------------------------------------------------------------
(* Properties *)

\* As long as no list request was followed at once by another, main takes the
\* first byte of a request for its op code, and process_entry all the others of
\* that request and none of the next, whatever was written while they read,
\* whatever bytes are in the names, and although main closes and opens the pipe.
FramesKept ==
  ~overrun => /\ \A k \in DOMAIN taken : taken[k].of = taken[1].of /\ taken[k].at = k
              /\ (reader = "read" /\ taken # <<>>) => Len(taken) = Length(code)

\* A request in the pipe is taken by main, whole, or was in it when the pipe's
\* last end was closed, or comes after a list's overrun.
RequestsAreTaken ==
  \A c \in Clients :
    (\E b \in ToSet(bytes) : b.of = c /\ b.at = 1)
      ~> (overrun \/ c \in lost \/ (taken # <<>> /\ Last(taken).of = c /\ reader = "read"))
=============================================================================
