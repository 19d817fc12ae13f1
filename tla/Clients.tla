------------------------------ MODULE Clients ------------------------------
(***************************************************************************)
(* The programs publisher/pub.c and subscriber/sub.c, each with the        *)
(* session of mbroker/mbroker.c that serves it, over the client's named    *)
(* pipe: the opens that wait for each other, the answer, the second open,  *)
(* and how each end learns that the other has gone.  One client is in a    *)
(* behaviour, of either kind; clients share nothing but the broker, which  *)
(* SIGPIPE ends for all.                                                   *)
(*                                                                         *)
(* Which requests are accepted is in Boxes, what a subscriber finds in the *)
(* box in Delivery, when a request has a worker in Dispatch, and manager.c *)
(* in Manager.                                                             *)
(***************************************************************************)
EXTENDS Integers, Sequences, Fifo

CONSTANTS
  Kinds,       \* which clients there are
  Lines,       \* bound: the messages a publisher types or a box holds, in order
  PIPE_SIZE,   \* how many messages the pipe holds
  Interrupts,  \* whether a subscriber may be interrupted (SIGINT)
  Crashes      \* whether a client may be killed

Answers == {"OK", "ER"}

ASSUME ClientsAssumption ==
  /\ Kinds \subseteq {"publisher", "subscriber"}
  /\ Lines \in Seq(STRING \ Answers)
  /\ PIPE_SIZE \in Nat \ {0}
  /\ Interrupts \in BOOLEAN /\ Crashes \in BOOLEAN

VARIABLES
  kind,        \* of the client
  pipe,        \* the client's named pipe
  client,      \* where the client's program is
  worker,      \* where the session is
  box,         \* whether the box's file is there
  sent,        \* how many of the lines have been
  received,    \* what the other end has taken out
  killed       \* SIGPIPE has ended the broker

vars == <<kind, pipe, client, worker, box, sent, received, killed>>

Init ==
  /\ kind \in Kinds
  /\ pipe = Mkfifo
  /\ client = "start" /\ worker = "start"
  /\ box = TRUE
  /\ sent = 0
  /\ received = <<>>
  /\ killed = FALSE

ClientGoes(here, there) == client = here /\ client' = there
WorkerGoes(here, there) == worker = here /\ worker' = there

rest == <<kind, box, sent, received, killed>>
todo == SubSeq(Lines, sent + 1, Len(Lines))

-----------------------------------------------------------------------------
(* start_publisher and start_subscriber up to their loops *)

\* The worker opens the pipe to answer: no client removes it before it has one.
BrokerOpen ==
  /\ pipe.path
  /\ WorkerGoes("start", "answer")
  /\ pipe' = OpenWrite(pipe, "broker")
  /\ UNCHANGED <<client, rest>>

\* SIGPIPE ends the broker wherever it writes without a reader.
BrokerDies ==
  /\ worker \in {"answer", "send"} /\ NoReader(pipe, "broker")
  /\ killed' = TRUE
  /\ UNCHANGED <<kind, pipe, client, worker, box, sent, received>>

BrokerAnswer ==
  /\ HasRoom(pipe, "broker", PIPE_SIZE)
  /\ \/ WorkerGoes("answer", "close_OK") /\ pipe' = Write(pipe, "OK")
     \/ WorkerGoes("answer", "close_ER") /\ pipe' = Write(pipe, "ER")
  /\ UNCHANGED <<client, rest>>

BrokerClose ==
  /\ \/ WorkerGoes("close_OK", "reopen")
     \/ WorkerGoes("close_ER", "ended")
  /\ pipe' = Close(pipe, "broker")
  /\ UNCHANGED <<client, rest>>

\* Mutant: the subscriber's pipe is opened again for reading.
BrokerReopen_Reads ==
  /\ WorkerGoes("reopen", "run")
  /\ pipe' = OpenRead(pipe, "broker")
  /\ UNCHANGED <<client, rest>>

\* The pipe is opened again, in the direction of the messages.
BrokerReopen ==
  /\ IF pipe.path
       THEN /\ WorkerGoes("reopen", "run")
            /\ pipe' = IF kind = "publisher" THEN OpenRead(pipe, "broker")
                       ELSE OpenWrite(pipe, "broker")
       ELSE WorkerGoes("reopen", "ended") /\ UNCHANGED pipe
  /\ UNCHANGED <<client, rest>>

\* pub.c and sub.c: the answer is read from a descriptor of its own.
ClientOpen ==
  /\ ClientGoes("start", "reply")
  /\ pipe' = OpenRead(pipe, "client")
  /\ UNCHANGED <<worker, rest>>

\* Mutant: the read takes all there is.
ClientReply_TakesAll ==
  /\ client = "reply" /\ HasData(pipe, "client")
  /\ client' = IF Head(pipe.buffer) = "OK" THEN "close" ELSE "refused"
  /\ pipe' = [pipe EXCEPT !.buffer = <<>>]
  /\ UNCHANGED <<worker, rest>>

\* Mutant: the read does not wait for the answer.
ClientReply_NoWait ==
  /\ client = "reply" /\ Opened(pipe, "client")
  /\ client' = IF HasData(pipe, "client") /\ Head(pipe.buffer) = "OK" THEN "close" ELSE "refused"
  /\ pipe' = [pipe EXCEPT !.buffer = <<>>]
  /\ UNCHANGED <<worker, rest>>

ClientReply ==
  /\ client = "reply" /\ HasData(pipe, "client")
  /\ client' = IF Head(pipe.buffer) = "OK" THEN "close" ELSE "refused"
  /\ pipe' = Read(pipe)
  /\ UNCHANGED <<worker, rest>>

ClientClose ==
  /\ ClientGoes("close", "reopen")
  /\ pipe' = Close(pipe, "client")
  /\ UNCHANGED <<worker, rest>>

ClientRefused ==
  /\ ClientGoes("refused", "ended")
  /\ pipe' = Unlink(Close(pipe, "client"))
  /\ UNCHANGED <<worker, rest>>

ClientReopen ==
  /\ IF pipe.path
       THEN /\ ClientGoes("reopen", IF kind = "publisher" THEN "input" ELSE "run")
            /\ pipe' = IF kind = "publisher" THEN OpenWrite(pipe, "client")
                       ELSE OpenRead(pipe, "client")
       ELSE ClientGoes("reopen", "ended") /\ UNCHANGED pipe
  /\ UNCHANGED <<worker, rest>>

\* mkfifo succeeds when the other end has removed the path; what it makes is
\* removed again.
Probe == ~pipe.path

-----------------------------------------------------------------------------
(* The loops of pub.c and start_publisher *)

\* A line, or end of file: the pipe is closed, then removed.
PubInput ==
  /\ Opened(pipe, "client")
  /\ \/ ClientGoes("input", "probe") /\ todo # <<>> /\ UNCHANGED pipe
     \/ ClientGoes("input", "unlink") /\ pipe' = Close(pipe, "client")
  /\ UNCHANGED <<worker, rest>>

PubProbe ==
  /\ kind = "publisher"
  /\ IF Probe THEN ClientGoes("probe", "ended") /\ pipe' = Close(pipe, "client")
              ELSE ClientGoes("probe", "write") /\ UNCHANGED pipe
  /\ UNCHANGED <<worker, rest>>

PubWrite ==
  /\ HasRoom(pipe, "client", PIPE_SIZE)
  /\ ClientGoes("write", "input")
  /\ pipe' = Write(pipe, Head(todo))
  /\ sent' = sent + 1
  /\ UNCHANGED <<worker, kind, box, received, killed>>

\* SIGPIPE: the broker has closed its end.
PubDies ==
  /\ NoReader(pipe, "client")
  /\ ClientGoes("write", "dead")
  /\ pipe' = Close(pipe, "client")
  /\ UNCHANGED <<worker, rest>>

ClientUnlink ==
  /\ ClientGoes("unlink", "ended")
  /\ pipe' = Unlink(pipe)
  /\ UNCHANGED <<worker, rest>>

\* A line is stored; or the box is gone, and the pipe is closed and then
\* removed; or the box is full, and the session ends with its pipe open.
PubRead ==
  /\ kind = "publisher" /\ HasData(pipe, "broker")
  /\ \/ box /\ WorkerGoes("run", "run") /\ pipe' = Read(pipe)
     \/ ~box /\ WorkerGoes("run", "unlink") /\ pipe' = Close(Read(pipe), "broker")
     \/ box /\ WorkerGoes("run", "full") /\ pipe' = Read(pipe)
  /\ received' = Append(received, Head(pipe.buffer))
  /\ UNCHANGED <<client, kind, box, sent, killed>>

\* The session ends and leaves its descriptor open.
PubEnd ==
  /\ kind = "publisher" /\ AtEnd(pipe, "broker")
  /\ WorkerGoes("run", "leaked")
  /\ UNCHANGED <<pipe, client, rest>>

\* Mutant: the path is left to the client.
BrokerUnlink_Left ==
  /\ WorkerGoes("unlink", "ended")
  /\ UNCHANGED <<pipe, client, rest>>

BrokerUnlink ==
  /\ WorkerGoes("unlink", "ended")
  /\ pipe' = Unlink(pipe)
  /\ UNCHANGED <<client, rest>>
-----------------------------------------------------------------------------
(* The loops of sub.c and start_subscriber *)

\* A scan that opens the box, or does not: then the pipe is closed and removed.
SubScan ==
  /\ kind = "subscriber" /\ Opened(pipe, "broker")
  /\ \/ box /\ WorkerGoes("run", "probe") /\ UNCHANGED pipe
     \/ ~box /\ WorkerGoes("run", "unlink") /\ pipe' = Close(pipe, "broker")
  /\ UNCHANGED <<client, rest>>

\* Mutant: the worker does not look whether the client has gone.
SubProbe_Skipped ==
  /\ worker = "probe"
  /\ worker' = IF todo = <<>> THEN "run" ELSE "send"
  /\ UNCHANGED <<pipe, client, rest>>

\* A client that has gone has removed its pipe; if not, what the scan has found
\* is sent.
SubProbe ==
  /\ IF Probe THEN WorkerGoes("probe", "ended") /\ pipe' = Close(pipe, "broker")
              ELSE WorkerGoes("probe", IF todo = <<>> THEN "run" ELSE "send") /\ UNCHANGED pipe
  /\ UNCHANGED <<client, rest>>

BrokerSend ==
  /\ HasRoom(pipe, "broker", PIPE_SIZE)
  /\ WorkerGoes("send", "run")
  /\ pipe' = Write(pipe, Head(todo))
  /\ sent' = sent + 1
  /\ UNCHANGED <<client, kind, box, received, killed>>

\* The client prints a message, or goes round at the end of the file.
SubRead ==
  /\ kind = "subscriber" /\ ClientGoes("run", "probe")
  /\ \/ /\ HasData(pipe, "client")
        /\ pipe' = Read(pipe)
        /\ received' = Append(received, Head(pipe.buffer))
     \/ AtEnd(pipe, "client") /\ UNCHANGED <<pipe, received>>
  /\ UNCHANGED <<worker, kind, box, sent, killed>>

SubClientProbe ==
  /\ kind = "subscriber"
  /\ IF Probe THEN ClientGoes("probe", "ended") /\ pipe' = Close(pipe, "client")
              ELSE ClientGoes("probe", "run") /\ UNCHANGED pipe
  /\ UNCHANGED <<worker, rest>>

\* sig_handler: the pipe is closed, then removed.
Interrupt ==
  /\ Interrupts /\ kind = "subscriber" /\ Opened(pipe, "client")
  /\ ClientGoes("run", "unlink") \/ ClientGoes("probe", "unlink")
  /\ pipe' = Close(pipe, "client")
  /\ UNCHANGED <<worker, rest>>

-----------------------------------------------------------------------------
(* Others *)

\* remove_box, in a session of its own.
RemoveBox ==
  /\ box /\ box' = FALSE
  /\ UNCHANGED <<kind, pipe, client, worker, sent, received, killed>>

\* The client's program is killed: its pipe is closed and stays.
Crash ==
  /\ Crashes /\ client \notin {"ended", "dead"}
  /\ client' = "dead"
  /\ pipe' = Close(pipe, "client")
  /\ UNCHANGED <<worker, rest>>

-----------------------------------------------------------------------------
BrokerStep ==
  \/ BrokerOpen \/ BrokerDies \/ BrokerAnswer \/ BrokerClose \/ BrokerReopen
  \/ PubRead \/ PubEnd \/ BrokerUnlink \/ SubScan \/ SubProbe \/ BrokerSend

ClientStep ==
  \/ ClientOpen \/ ClientReply \/ ClientClose \/ ClientRefused \/ ClientReopen
  \/ PubProbe \/ PubWrite \/ PubDies \/ ClientUnlink
  \/ SubRead \/ SubClientProbe

Next == /\ ~killed
        /\ BrokerStep \/ ClientStep \/ PubInput \/ Interrupt \/ RemoveBox \/ Crash

Spec == Init /\ [][Next]_vars

\* The worker and the client's program go on when they can.  Nobody need type a
\* line, interrupt a subscriber or remove the box.
FairSpec == Spec /\ WF_vars(~killed /\ BrokerStep) /\ WF_vars(~killed /\ ClientStep)

-----------------------------------------------------------------------------
(* Properties *)

WorkerOver == worker \in {"ended", "leaked", "full"}
ClientOver == client \in {"ended", "dead"}
Sent == SubSeq(Lines, 1, sent)

\* What is in the pipe behind the answer.  Its code tells it from a message.
Behind(buffer) ==
  IF buffer # <<>> /\ Head(buffer) \in Answers THEN Tail(buffer) ELSE buffer

\* While a session reads lines, or a subscriber messages, none is lost, doubled
\* or out of order, although the pipe is closed and opened again before them and
\* the first message may lie behind the answer.
NothingLost ==
  (\/ kind = "publisher" /\ worker = "run"
   \/ kind = "subscriber" /\ client \in {"run", "probe"} /\ Opened(pipe, "client"))
  => received \o Behind(pipe.buffer) = Sent

\* SIGPIPE ends the broker only when it sends to a subscriber: no publisher does
\* that is not killed, although the broker writes to it too.
OnlySubscribersEndBroker == killed => client = "dead" \/ kind = "subscriber"

\* A worker that waits for its client to open the pipe is not left there, unless
\* the client is killed, or interrupted when its own open has met the descriptor
\* the worker is about to close.
WorkerIsMet ==
  pipe.end["broker"] \in {"waits_R", "waits_W"} ~> (Opened(pipe, "broker") \/ ClientOver)

\* A worker that has the pipe open comes back from a client that has ended.
WorkerComesBack ==
  (client = "ended" /\ Opened(pipe, "broker")) ~> (WorkerOver \/ killed)

\* A subscriber that reads messages learns that its box has been removed.
SubscriberLearns ==
  (kind = "subscriber" /\ client = "run" /\ Opened(pipe, "client") /\ ~box)
    ~> (ClientOver \/ killed)
=============================================================================
