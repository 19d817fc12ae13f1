--------------------------- MODULE ClientsProofs ---------------------------
(***************************************************************************)
(* Proofs about the clients and their sessions over a named pipe: that no  *)
(* line or message is lost between the answer and the end of the session,  *)
(* and who can end the broker by SIGPIPE.                                  *)
(*                                                                         *)
(* The invariant ties the place of each program to the mode in which it    *)
(* has the pipe; says that the answer is in front of all else; and that    *)
(* what has been sent is in the pipe or has come out of it.                *)
(***************************************************************************)
EXTENDS Clients, SequenceTheorems, TLAPS

-----------------------------------------------------------------------------
(* The inductive invariant *)

\* What a pipe carries: answers and messages.
Data == STRING \cup Answers
\* The pipes there can be.
Pipe == [path : BOOLEAN, end : [Ends -> Modes], buffer : Seq(Data)]
\* The client's end of it.
CEnd == pipe.end["client"]
\* The session's end.
BEnd == pipe.end["broker"]

\* Every variable stays in its range.
TypeOK ==
  /\ kind \in Kinds
  /\ pipe \in Pipe
  /\ client \in {"start", "reply", "close", "refused", "reopen", "input", "probe", "write",
                 "unlink", "run", "ended", "dead"}
  /\ worker \in {"start", "answer", "close_OK", "close_ER", "reopen", "run", "probe", "send",
                 "unlink", "full", "leaked", "ended"}
  /\ sent \in Nat /\ received \in Seq(Data)
  /\ box \in BOOLEAN /\ killed \in BOOLEAN

\* Before the pipe is opened again for messages.
Early == {"start", "answer", "close_OK", "close_ER", "reopen"}

\* In which mode a worker has the pipe.
WorkerEnd ==
  /\ worker \in {"start", "reopen", "unlink", "ended"} => BEnd = "closed"
  /\ worker = "answer" => BEnd \in {"W", "waits_W"}
  /\ worker \in {"close_OK", "close_ER"} => BEnd = "W"
  /\ worker = "run" =>
       \/ kind = "publisher" /\ BEnd \in {"R", "waits_R"}
       \/ kind = "subscriber" /\ BEnd \in {"W", "waits_W"}
  /\ worker \in {"probe", "send"} => kind = "subscriber" /\ BEnd = "W"
  /\ worker \in {"full", "leaked"} => kind = "publisher" /\ BEnd = "R"

\* In which mode a client has it.
ClientEnd ==
  /\ client \in {"start", "reopen", "unlink", "ended", "dead"} => CEnd = "closed"
  /\ client = "reply" => CEnd \in {"R", "waits_R"}
  /\ client \in {"close", "refused"} => CEnd = "R"
  /\ client = "input" => kind = "publisher" /\ CEnd \in {"W", "waits_W"}
  /\ client = "write" => kind = "publisher" /\ CEnd = "W"
  /\ client = "run" => kind = "subscriber" /\ CEnd \in {"R", "waits_R"}
  /\ client = "probe" => \/ kind = "publisher" /\ CEnd = "W"
                         \/ kind = "subscriber" /\ CEnd = "R"

\* The answer is read before all else.
AnswerFirst ==
  /\ worker \in {"start", "answer"} =>
       /\ pipe.path /\ pipe.buffer = <<>> /\ client \in {"start", "reply", "dead"}
       /\ worker = "answer" /\ BEnd = "W" => client # "start"
       /\ worker = "start" => CEnd \in {"closed", "waits_R"}
  /\ worker \notin {"start", "answer"} =>
       /\ client # "start"
       /\ client = "reply" => pipe.buffer # <<>> /\ Head(pipe.buffer) \in Answers
  /\ pipe.buffer # <<>> /\ Head(pipe.buffer) \in Answers =>
       /\ client \in {"reply", "dead"}
       /\ kind = "publisher" => BEnd # "R"

\* What has been sent is in the pipe or has come out of it.
InPipe ==
  /\ Behind(pipe.buffer) \in Seq(STRING \ Answers) /\ received \in Seq(STRING \ Answers)
  /\ worker \in Early => sent = 0 /\ received = <<>> /\ Behind(pipe.buffer) = <<>>
  /\ worker \in Early \cup {"run", "probe", "send"}
       \/ (kind = "subscriber" /\ worker \in {"unlink", "ended"} /\ CEnd = "R")
     => received \o Behind(pipe.buffer) = Sent
  /\ client \in {"probe", "write"} /\ kind = "publisher" => sent < Len(Lines)
  /\ worker = "send" => sent < Len(Lines)

-----------------------------------------------------------------------------
(* What a use of the pipe does to it *)

\* What each use of the pipe does to its parts.
LEMMA PipeParts ==
  ASSUME pipe \in Pipe
  PROVE  /\ CEnd \in Modes /\ BEnd \in Modes /\ pipe.path \in BOOLEAN /\ pipe.buffer \in Seq(Data)
         /\ UNCHANGED pipe => CEnd' = CEnd /\ BEnd' = BEnd
  BY DEF Pipe, CEnd, BEnd, Ends

\* open for reading meets a writer, or waits.
LEMMA OpenReadParts ==
  ASSUME pipe \in Pipe
  PROVE  /\ pipe' = OpenRead(pipe, "client") =>
              /\ pipe' \in Pipe /\ pipe'.path = pipe.path /\ pipe'.buffer = pipe.buffer
              /\ CEnd' = IF BEnd \in {"W", "waits_W"} THEN "R" ELSE "waits_R"
              /\ BEnd' = IF BEnd \in {"W", "waits_W"} THEN "W" ELSE BEnd
         /\ pipe' = OpenRead(pipe, "broker") =>
              /\ pipe' \in Pipe /\ pipe'.path = pipe.path /\ pipe'.buffer = pipe.buffer
              /\ BEnd' = IF CEnd \in {"W", "waits_W"} THEN "R" ELSE "waits_R"
              /\ CEnd' = IF CEnd \in {"W", "waits_W"} THEN "W" ELSE CEnd
<1>1. ASSUME NEW x \in Ends, pipe' = OpenRead(pipe, x)
      PROVE  LET other == pipe.end[Peer(x)] \in {"W", "waits_W"}
             IN pipe' = [path |-> pipe.path, buffer |-> pipe.buffer,
                         end |-> IF other THEN [y \in Ends |-> IF y = x THEN "R" ELSE "W"]
                                 ELSE [y \in Ends |-> IF y = x THEN "waits_R" ELSE pipe.end[y]]]
  BY <1>1 DEF OpenRead, WritesOrWaits, Pipe, Ends, Peer
<1>2. "client" \in Ends /\ "broker" \in Ends /\ Peer("client") = "broker" /\ Peer("broker") = "client"
  BY DEF Ends, Peer
<1>3. ASSUME pipe' = OpenRead(pipe, "client")
      PROVE  /\ pipe' \in Pipe /\ pipe'.path = pipe.path /\ pipe'.buffer = pipe.buffer
             /\ CEnd' = IF BEnd \in {"W", "waits_W"} THEN "R" ELSE "waits_R"
             /\ BEnd' = IF BEnd \in {"W", "waits_W"} THEN "W" ELSE BEnd
  <2>1. CASE BEnd \in {"W", "waits_W"}
    BY <1>1, <1>2, <1>3, <2>1 DEF Pipe, CEnd, BEnd, Ends, Modes
  <2>2. CASE BEnd \notin {"W", "waits_W"}
    BY <1>1, <1>2, <1>3, <2>2 DEF Pipe, CEnd, BEnd, Ends, Modes
  <2> QED
    BY <2>1, <2>2
<1>4. ASSUME pipe' = OpenRead(pipe, "broker")
      PROVE  /\ pipe' \in Pipe /\ pipe'.path = pipe.path /\ pipe'.buffer = pipe.buffer
             /\ BEnd' = IF CEnd \in {"W", "waits_W"} THEN "R" ELSE "waits_R"
             /\ CEnd' = IF CEnd \in {"W", "waits_W"} THEN "W" ELSE CEnd
  <2>1. CASE CEnd \in {"W", "waits_W"}
    BY <1>1, <1>2, <1>4, <2>1 DEF Pipe, CEnd, BEnd, Ends, Modes
  <2>2. CASE CEnd \notin {"W", "waits_W"}
    BY <1>1, <1>2, <1>4, <2>2 DEF Pipe, CEnd, BEnd, Ends, Modes
  <2> QED
    BY <2>1, <2>2
<1> QED
  BY <1>3, <1>4

\* open for writing meets a reader, or waits.
LEMMA OpenWriteParts ==
  ASSUME pipe \in Pipe
  PROVE  /\ pipe' = OpenWrite(pipe, "client") =>
              /\ pipe' \in Pipe /\ pipe'.path = pipe.path /\ pipe'.buffer = pipe.buffer
              /\ CEnd' = IF BEnd \in {"R", "waits_R"} THEN "W" ELSE "waits_W"
              /\ BEnd' = IF BEnd \in {"R", "waits_R"} THEN "R" ELSE BEnd
         /\ pipe' = OpenWrite(pipe, "broker") =>
              /\ pipe' \in Pipe /\ pipe'.path = pipe.path /\ pipe'.buffer = pipe.buffer
              /\ BEnd' = IF CEnd \in {"R", "waits_R"} THEN "W" ELSE "waits_W"
              /\ CEnd' = IF CEnd \in {"R", "waits_R"} THEN "R" ELSE CEnd
<1>1. ASSUME NEW x \in Ends, pipe' = OpenWrite(pipe, x)
      PROVE  LET other == pipe.end[Peer(x)] \in {"R", "waits_R"}
             IN pipe' = [path |-> pipe.path, buffer |-> pipe.buffer,
                         end |-> IF other THEN [y \in Ends |-> IF y = x THEN "W" ELSE "R"]
                                 ELSE [y \in Ends |-> IF y = x THEN "waits_W" ELSE pipe.end[y]]]
  BY <1>1 DEF OpenWrite, ReadsOrWaits, Pipe, Ends, Peer
<1>2. "client" \in Ends /\ "broker" \in Ends /\ Peer("client") = "broker" /\ Peer("broker") = "client"
  BY DEF Ends, Peer
<1>3. ASSUME pipe' = OpenWrite(pipe, "client")
      PROVE  /\ pipe' \in Pipe /\ pipe'.path = pipe.path /\ pipe'.buffer = pipe.buffer
             /\ CEnd' = IF BEnd \in {"R", "waits_R"} THEN "W" ELSE "waits_W"
             /\ BEnd' = IF BEnd \in {"R", "waits_R"} THEN "R" ELSE BEnd
  <2>1. CASE BEnd \in {"R", "waits_R"}
    BY <1>1, <1>2, <1>3, <2>1 DEF Pipe, CEnd, BEnd, Ends, Modes
  <2>2. CASE BEnd \notin {"R", "waits_R"}
    BY <1>1, <1>2, <1>3, <2>2 DEF Pipe, CEnd, BEnd, Ends, Modes
  <2> QED
    BY <2>1, <2>2
<1>4. ASSUME pipe' = OpenWrite(pipe, "broker")
      PROVE  /\ pipe' \in Pipe /\ pipe'.path = pipe.path /\ pipe'.buffer = pipe.buffer
             /\ BEnd' = IF CEnd \in {"R", "waits_R"} THEN "W" ELSE "waits_W"
             /\ CEnd' = IF CEnd \in {"R", "waits_R"} THEN "R" ELSE CEnd
  <2>1. CASE CEnd \in {"R", "waits_R"}
    BY <1>1, <1>2, <1>4, <2>1 DEF Pipe, CEnd, BEnd, Ends, Modes
  <2>2. CASE CEnd \notin {"R", "waits_R"}
    BY <1>1, <1>2, <1>4, <2>2 DEF Pipe, CEnd, BEnd, Ends, Modes
  <2> QED
    BY <2>1, <2>2
<1> QED
  BY <1>3, <1>4

\* close: what is in the pipe goes when the other end is closed too.
LEMMA CloseParts ==
  ASSUME pipe \in Pipe
  PROVE  /\ pipe' = Close(pipe, "client") =>
              /\ pipe' \in Pipe /\ pipe'.path = pipe.path /\ CEnd' = "closed" /\ BEnd' = BEnd
              /\ pipe'.buffer = IF BEnd = "closed" THEN <<>> ELSE pipe.buffer
         /\ pipe' = Close(pipe, "broker") =>
              /\ pipe' \in Pipe /\ pipe'.path = pipe.path /\ BEnd' = "closed" /\ CEnd' = CEnd
              /\ pipe'.buffer = IF CEnd = "closed" THEN <<>> ELSE pipe.buffer
<1>1. <<>> \in Seq(Data)
  BY EmptySeq
<1>2. ASSUME NEW x \in Ends, pipe' = Close(pipe, x)
      PROVE  /\ pipe'.path = pipe.path
             /\ pipe'.buffer = IF pipe.end[Peer(x)] = "closed" THEN <<>> ELSE pipe.buffer
             /\ pipe'.end = [pipe.end EXCEPT ![x] = "closed"]
             /\ pipe' \in Pipe
  <2>1. CASE pipe.end[Peer(x)] = "closed"
    BY <1>1, <1>2, <2>1 DEF Close, Pipe, Modes
  <2>2. CASE pipe.end[Peer(x)] # "closed"
    BY <1>2, <2>2 DEF Close, Pipe, Modes
  <2> QED
    BY <2>1, <2>2
<1>3. /\ "client" \in Ends /\ "broker" \in Ends /\ pipe.end \in [Ends -> Modes]
      /\ Peer("client") = "broker" /\ Peer("broker") = "client"
  BY DEF Ends, Peer, Pipe
<1> QED
  BY <1>2, <1>3 DEF CEnd, BEnd

\* unlink leaves both ends as they are.
LEMMA UnlinkParts ==
  ASSUME pipe \in Pipe, pipe' = Unlink(pipe)
  PROVE  /\ pipe' \in Pipe /\ ~pipe'.path /\ CEnd' = CEnd /\ BEnd' = BEnd
         /\ pipe'.buffer = pipe.buffer
  BY DEF Pipe, CEnd, BEnd, Unlink

\* write puts one item behind the others.
LEMMA WriteParts ==
  ASSUME pipe \in Pipe, NEW item \in Data, pipe' = Write(pipe, item)
  PROVE  /\ pipe' \in Pipe /\ pipe'.path = pipe.path /\ CEnd' = CEnd /\ BEnd' = BEnd
         /\ pipe'.buffer = Append(pipe.buffer, item)
<1>1. pipe.buffer \in Seq(Data) /\ Append(pipe.buffer, item) \in Seq(Data)
  BY AppendProperties DEF Pipe
<1> QED
  BY <1>1 DEF Pipe, CEnd, BEnd, Write

\* read takes the first item.
LEMMA ReadParts ==
  ASSUME pipe \in Pipe, pipe.buffer # <<>>, pipe' = Read(pipe)
  PROVE  /\ pipe' \in Pipe /\ pipe'.path = pipe.path /\ CEnd' = CEnd /\ BEnd' = BEnd
         /\ pipe'.buffer = Tail(pipe.buffer) /\ Head(pipe.buffer) \in Data
<1>1. pipe.buffer \in Seq(Data)
  BY DEF Pipe
<1>2. Tail(pipe.buffer) \in Seq(Data) /\ Head(pipe.buffer) \in Data
  BY <1>1, HeadTailProperties
<1> QED
  BY <1>2 DEF Pipe, CEnd, BEnd, Read

\* Two uses of the pipe that the programs make one after the other.
LEMMA ReadCloseParts ==
  ASSUME pipe \in Pipe, pipe.buffer # <<>>, pipe' = Close(Read(pipe), "broker")
  PROVE  /\ pipe' \in Pipe /\ pipe'.path = pipe.path /\ BEnd' = "closed" /\ CEnd' = CEnd
         /\ pipe'.buffer = IF CEnd = "closed" THEN <<>> ELSE Tail(pipe.buffer)
<1>1. pipe.buffer \in Seq(Data)
  BY DEF Pipe
<1>2. Tail(pipe.buffer) \in Seq(Data) /\ <<>> \in Seq(Data)
  BY <1>1, HeadTailProperties, EmptySeq
<1>3. /\ Read(pipe).end = pipe.end /\ Read(pipe).path = pipe.path
      /\ Read(pipe).buffer = Tail(pipe.buffer) /\ Read(pipe) \in Pipe
  BY <1>2 DEF Read, Pipe
<1>4. /\ pipe'.path = pipe.path /\ pipe'.end = [pipe.end EXCEPT !["broker"] = "closed"]
      /\ pipe'.buffer = IF pipe.end["client"] = "closed" THEN <<>> ELSE Tail(pipe.buffer)
      /\ pipe' \in Pipe
  <2>1. Peer("broker") = "client"
    BY DEF Peer
  <2>2. CASE pipe.end["client"] = "closed"
    BY <1>2, <1>3, <2>1, <2>2 DEF Close, Pipe, Modes
  <2>3. CASE pipe.end["client"] # "closed"
    BY <1>2, <1>3, <2>1, <2>3 DEF Close, Pipe, Modes
  <2> QED
    BY <2>2, <2>3
<1> QED
  BY <1>4 DEF CEnd, BEnd, Pipe, Ends

\* A refused client closes its pipe, then removes it.
LEMMA CloseUnlinkParts ==
  ASSUME pipe \in Pipe, pipe' = Unlink(Close(pipe, "client"))
  PROVE  /\ pipe' \in Pipe /\ ~pipe'.path /\ CEnd' = "closed" /\ BEnd' = BEnd
         /\ pipe'.buffer = IF BEnd = "closed" THEN <<>> ELSE pipe.buffer
<1>1. <<>> \in Seq(Data) /\ Peer("client") = "broker"
  BY EmptySeq DEF Peer
<1>2. /\ ~pipe'.path /\ pipe'.end = [pipe.end EXCEPT !["client"] = "closed"]
      /\ pipe'.buffer = IF pipe.end["broker"] = "closed" THEN <<>> ELSE pipe.buffer
      /\ pipe' \in Pipe
  <2>1. CASE pipe.end["broker"] = "closed"
    BY <1>1, <2>1 DEF Close, Unlink, Pipe, Modes
  <2>2. CASE pipe.end["broker"] # "closed"
    BY <1>1, <2>2 DEF Close, Unlink, Pipe, Modes
  <2> QED
    BY <2>1, <2>2
<1> QED
  BY <1>2 DEF CEnd, BEnd, Pipe, Ends

USE ClientsAssumption DEF Answers

\* What is behind the answer, as the pipe changes.
LEMMA BehindMessages ==
  ASSUME NEW b \in Seq(STRING \ Answers)
  PROVE  /\ Behind(b) = b
         /\ b # <<>> => Head(b) \notin Answers /\ Tail(b) \in Seq(STRING \ Answers)
                        /\ Head(b) \in STRING \ Answers
<1>1. CASE b = <<>>
  BY <1>1 DEF Behind
<1>2. CASE b # <<>>
  <2>1. Head(b) \in STRING \ Answers /\ Tail(b) \in Seq(STRING \ Answers)
    BY <1>2, HeadTailProperties
  <2> QED
    BY <1>2, <2>1 DEF Behind
<1> QED
  BY <1>1, <1>2

\* A message written comes behind what is there.
LEMMA BehindAppend ==
  ASSUME NEW T, NEW b \in Seq(T), NEW item \in T, item \notin Answers
  PROVE  Behind(Append(b, item)) = Append(Behind(b), item)
<1>1. Append(b, item) # <<>>
  BY AppendProperties
<1>2. /\ Head(Append(b, item)) = IF b = <<>> THEN item ELSE Head(b)
      /\ Tail(Append(b, item)) = IF b = <<>> THEN <<>> ELSE Append(Tail(b), item)
  BY HeadTailAppend
<1>3. CASE b = <<>>
  BY <1>1, <1>2, <1>3 DEF Behind
<1>4. CASE b # <<>>
  BY <1>1, <1>2, <1>4 DEF Behind
<1> QED
  BY <1>3, <1>4

\* Nothing is behind an answer that is written first.
LEMMA BehindAnswer ==
  ASSUME NEW answer \in Answers, NEW b, b = Append(<<>>, answer)
  PROVE  b # <<>> /\ Head(b) \in Answers /\ Behind(b) = <<>>
<1>1. /\ <<>> \in Seq(Answers)
  BY EmptySeq
<1>2. b # <<>> /\ Head(b) = answer /\ Tail(b) = <<>>
  BY <1>1, AppendProperties, HeadTailAppend
<1> QED
  BY <1>2 DEF Behind

\* Taking a message out keeps what is in the pipe or came out of it.
LEMMA TakeOne ==
  ASSUME NEW T, NEW r \in Seq(T), NEW b \in Seq(T), b # <<>>
  PROVE  Append(r, Head(b)) \o Tail(b) = r \o b
<1>1. Head(b) \in T /\ Tail(b) \in Seq(T) /\ b = <<Head(b)>> \o Tail(b)
  BY HeadTailProperties
<1>2. <<Head(b)>> \in Seq(T)
  BY <1>1
<1>3. Append(r, Head(b)) = r \o <<Head(b)>>
  BY <1>1, AppendIsConcat
<1>4. (r \o <<Head(b)>>) \o Tail(b) = r \o (<<Head(b)>> \o Tail(b))
  BY <1>1, <1>2, ConcatAssociative
<1> QED
  BY <1>1, <1>3, <1>4

\* And so does putting one in.
LEMMA PutOne ==
  ASSUME NEW T, NEW r \in Seq(T), NEW b \in Seq(T), NEW item \in T
  PROVE  r \o Append(b, item) = Append(r \o b, item)
<1>1. r \o b \in Seq(T) /\ <<item>> \in Seq(T)
  BY ConcatProperties
<1>2. Append(b, item) = b \o <<item>> /\ Append(r \o b, item) = (r \o b) \o <<item>>
  BY <1>1, AppendIsConcat
<1> QED
  BY <1>1, <1>2, ConcatAssociative

-----------------------------------------------------------------------------
(* Every step keeps it: the ends of the pipe *)

\* The lines are data.
LEMMA LinesAreData == Lines \in Seq(Data)
<1>1. (STRING \ Answers) \subseteq Data
  BY DEF Data
<1> QED
  BY <1>1, SeqMonotonic

\* What is left to send, when there is something left.
LEMMA TodoHead ==
  ASSUME TypeOK, sent < Len(Lines)
  PROVE  /\ todo # <<>> /\ Head(todo) = Lines[sent + 1] /\ Head(todo) \in Data
         /\ SubSeq(Lines, 1, sent + 1) = Append(Sent, Head(todo))
         /\ Sent \in Seq(Data)
<1>1. Lines \in Seq(Data) /\ sent \in Nat /\ Len(Lines) \in Nat
  BY LinesAreData, LenProperties DEF TypeOK
<1>2. PICK n \in Nat, m \in Nat : n = sent + 1 /\ m = Len(Lines)
  BY <1>1
<1>3. n \in 1 .. m /\ m \in n .. m /\ n - 1 = sent /\ 1 \in 1 .. m /\ n \in 1 .. Len(Lines)
  BY <1>1, <1>2
<1>4. Lines[n] \in Data
  BY <1>1, <1>3, ElementOfSeq
<1>5. todo = <<Lines[n]>> \o SubSeq(Lines, n + 1, m)
  BY <1>1, <1>2, <1>3, SubSeqRecursiveFirst DEF todo
<1>6. SubSeq(Lines, n + 1, m) \in Seq(Data)
  <2>1. \A i \in n + 1 .. m : i \in 1 .. Len(Lines)
    BY <1>2
  <2>2. \A i \in n + 1 .. m : Lines[i] \in Data
    BY <1>1, <2>1, ElementOfSeq
  <2>3. n + 1 \in Int /\ m \in Int
    OBVIOUS
  <2> QED
    BY <2>2, <2>3, SubSeqProperties
<1>7. todo # <<>> /\ Head(todo) = Lines[n]
  <2> DEFINE t == SubSeq(Lines, n + 1, m)
  <2>1. t \in Seq(Data)
    BY <1>6
  <2> HIDE DEF t
  <2>2. <<Lines[n]>> \in Seq(Data) /\ Len(<<Lines[n]>>) = 1 /\ <<Lines[n]>>[1] = Lines[n]
    BY <1>4
  <2>3. PICK u : u = <<Lines[n]>> \o t
    OBVIOUS
  <2>4. /\ u \in Seq(Data) /\ Len(u) = 1 + Len(t) /\ Len(t) \in Nat
        /\ u[1] = Lines[n]
    <3>1. u \in Seq(Data) /\ Len(u) = 1 + Len(t) /\ Len(t) \in Nat
      BY <2>1, <2>2, <2>3, ConcatProperties, LenProperties
    <3>2. \A i \in 1 .. Len(<<Lines[n]>>) + Len(t) :
             (<<Lines[n]>> \o t)[i] = IF i <= Len(<<Lines[n]>>) THEN <<Lines[n]>>[i]
                                       ELSE t[i - Len(<<Lines[n]>>)]
      BY <2>1, <2>2, ConcatProperties
    <3>3. 1 \in 1 .. 1 + Len(t) /\ 1 <= 1
      BY <3>1
    <3> QED
      BY <2>2, <2>3, <3>1, <3>2, <3>3
  <2>5. u # <<>> /\ Head(u) = u[1]
    <3>1. Len(u) # 0
      BY <2>4
    <3> QED
      BY <2>4, <3>1, EmptySeq, HeadTailProperties
  <2> QED
    BY <1>5, <2>3, <2>4, <2>5 DEF t
<1>8. SubSeq(Lines, 1, n) = SubSeq(Lines, 1, sent) \o <<Lines[n]>>
  BY <1>1, <1>3, SubSeqRecursiveSecond
<1>9. Sent \in Seq(Data)
  <2>1. \A i \in 1 .. sent : i \in 1 .. Len(Lines)
    BY <1>1, <1>3, <1>2
  <2>2. \A i \in 1 .. sent : Lines[i] \in Data
    BY <1>1, <2>1, ElementOfSeq
  <2>3. 1 \in Int /\ sent \in Int
    BY <1>1
  <2> QED
    BY <2>2, <2>3, SubSeqProperties DEF Sent
<1>10. SubSeq(Lines, 1, sent + 1) = Append(Sent, Head(todo))
  BY <1>2, <1>4, <1>7, <1>8, <1>9, AppendIsConcat DEF Sent
<1> QED
  BY <1>2, <1>4, <1>7, <1>9, <1>10

\* What either end finds when it can send.
SendHasItem ==
  /\ worker = "send" => sent < Len(Lines)
  /\ client = "write" => sent < Len(Lines)

\* Every step leaves each end in the mode that fits where its program is.
LEMMA KeepsEnds ==
  ASSUME TypeOK, WorkerEnd, ClientEnd, SendHasItem, [Next]_vars
  PROVE  pipe' \in Pipe /\ WorkerEnd' /\ ClientEnd'
<1>T. /\ pipe \in Pipe /\ kind \in Kinds
  BY DEF TypeOK
<1>P. /\ CEnd \in Modes /\ BEnd \in Modes
      /\ UNCHANGED pipe => CEnd' = CEnd /\ BEnd' = BEnd
  BY <1>T, PipeParts
<1> USE DEF WorkerGoes, ClientGoes, rest, WorkerEnd, ClientEnd, Modes
<1>1. CASE UNCHANGED vars
  BY <1>T, <1>P, <1>1 DEF vars
<1>2. CASE BrokerOpen
  BY <1>T, <1>P, <1>2, OpenWriteParts DEF BrokerOpen
<1>3. CASE BrokerDies \/ PubEnd \/ RemoveBox
  BY <1>T, <1>P, <1>3 DEF BrokerDies, PubEnd, RemoveBox, AtEnd, BEnd, CEnd
<1>4. CASE BrokerAnswer
  <2>2. "OK" \in Data /\ "ER" \in Data
    BY DEF Data
  <2> QED
    BY <1>T, <1>P, <1>4, <2>2, WriteParts DEF BrokerAnswer, HasRoom, BEnd
<1>5. CASE BrokerClose
  BY <1>T, <1>P, <1>5, CloseParts DEF BrokerClose
<1>6. CASE BrokerReopen
  BY <1>T, <1>P, <1>6, OpenReadParts, OpenWriteParts DEF BrokerReopen
<1>7. CASE PubRead
  <2>1. kind = "publisher" /\ BEnd = "R" /\ pipe.buffer # <<>>
    BY <1>7 DEF PubRead, HasData, BEnd
  <2>2. CASE WorkerGoes("run", "run") /\ pipe' = Read(pipe)
    BY <1>T, <1>P, <1>7, <2>1, <2>2, ReadParts DEF PubRead
  <2>3. CASE WorkerGoes("run", "unlink") /\ pipe' = Close(Read(pipe), "broker")
    BY <1>T, <1>P, <1>7, <2>1, <2>3, ReadCloseParts DEF PubRead
  <2>4. CASE WorkerGoes("run", "full") /\ pipe' = Read(pipe)
    BY <1>T, <1>P, <1>7, <2>1, <2>4, ReadParts DEF PubRead
  <2> QED
    BY <1>7, <2>2, <2>3, <2>4 DEF PubRead
<1>8. CASE BrokerUnlink
  BY <1>T, <1>P, <1>8, UnlinkParts DEF BrokerUnlink
<1>9. CASE SubScan
  BY <1>T, <1>P, <1>9, CloseParts DEF SubScan, Opened, BEnd
<1>10. CASE SubProbe
  BY <1>T, <1>P, <1>10, CloseParts DEF SubProbe
<1>11. CASE BrokerSend
  BY <1>T, <1>P, <1>11, WriteParts, TodoHead DEF BrokerSend, SendHasItem, HasRoom, BEnd
<1>12. CASE ClientOpen
  BY <1>T, <1>P, <1>12, OpenReadParts DEF ClientOpen
<1>13. CASE ClientReply
  BY <1>T, <1>P, <1>13, ReadParts DEF ClientReply, HasData, CEnd
<1>14. CASE ClientClose \/ PubProbe \/ PubDies \/ SubClientProbe
  BY <1>T, <1>P, <1>14, CloseParts
     DEF ClientClose, PubProbe, PubDies, SubClientProbe
<1>15. CASE ClientRefused
  BY <1>T, <1>P, <1>15, CloseUnlinkParts DEF ClientRefused
<1>16. CASE ClientReopen
  BY <1>T, <1>P, <1>16, OpenReadParts, OpenWriteParts DEF ClientReopen
<1>17. CASE PubWrite
  BY <1>T, <1>P, <1>17, WriteParts, TodoHead DEF PubWrite, SendHasItem
<1>18. CASE ClientUnlink
  BY <1>T, <1>P, <1>18, UnlinkParts DEF ClientUnlink
<1>19. CASE SubRead
  BY <1>T, <1>P, <1>19, ReadParts DEF SubRead, HasData, AtEnd, CEnd
<1>21. CASE PubInput
  BY <1>T, <1>P, <1>21, CloseParts DEF PubInput, Opened, CEnd
<1>22. CASE Interrupt \/ Crash
  BY <1>T, <1>P, <1>22, CloseParts DEF Interrupt, Crash
<1> QED
  BY <1>1, <1>2, <1>3, <1>4, <1>5, <1>6, <1>7, <1>8, <1>9, <1>10, <1>11, <1>12, <1>13, <1>14,
     <1>15, <1>16, <1>17, <1>18, <1>19, <1>21, <1>22 DEF Next, BrokerStep, ClientStep

\* No step changes the kind of the client or what is to be sent.
LEMMA KindStays == ASSUME [Next]_vars PROVE UNCHANGED kind
<1>1. CASE UNCHANGED vars
  BY <1>1 DEF vars
<1>2. CASE BrokerStep
  BY <1>2, Zenon DEF BrokerStep, rest, BrokerOpen, BrokerDies, BrokerAnswer, BrokerClose, BrokerReopen,
     PubRead, PubEnd, BrokerUnlink, SubScan, SubProbe, BrokerSend
<1>3. CASE ClientStep
  BY <1>3, Zenon DEF ClientStep, rest, ClientOpen, ClientReply, ClientClose, ClientRefused, ClientReopen,
     PubProbe, PubWrite, PubDies, ClientUnlink, SubRead, SubClientProbe
<1>4. CASE PubInput \/ Interrupt \/ RemoveBox \/ Crash
  BY <1>4, Zenon DEF rest, PubInput, Interrupt, RemoveBox, Crash
<1> QED
  BY <1>1, <1>2, <1>3, <1>4 DEF Next

\* Every step leaves the variables in their ranges.
LEMMA KeepsTypeOK ==
  ASSUME TypeOK, WorkerEnd, ClientEnd, SendHasItem, [Next]_vars
  PROVE  TypeOK'
<1>S. UNCHANGED kind
  BY KindStays
<1>D. Data' = Data /\ Pipe' = Pipe
  BY DEF Data, Pipe
<1>P. pipe' \in Pipe'
  BY <1>D, KeepsEnds
<1>V. /\ UNCHANGED vars => UNCHANGED <<client, worker, sent, received, box, killed>>
      /\ UNCHANGED rest => UNCHANGED <<sent, received, box, killed>>
  BY DEF vars, rest
<1> DEFINE Clients == {"start", "reply", "close", "refused", "reopen", "input", "probe", "write",
                       "unlink", "run", "ended", "dead"}
           Workers == {"start", "answer", "close_OK", "close_ER", "reopen", "run", "probe", "send",
                       "unlink", "full", "leaked", "ended"}
<1>1. client' \in Clients
  BY <1>V DEF TypeOK, Next, BrokerStep, BrokerOpen, BrokerDies, BrokerAnswer, BrokerClose, BrokerReopen,
     PubRead, PubEnd, BrokerUnlink, SubScan, SubProbe, BrokerSend,
     ClientStep, ClientOpen, ClientReply, ClientClose, ClientRefused, ClientReopen,
     PubProbe, PubWrite, PubDies, ClientUnlink, SubRead, SubClientProbe, PubInput, Interrupt, RemoveBox, Crash, ClientGoes
<1>2. worker' \in Workers
  BY <1>V DEF TypeOK, Next, BrokerStep, BrokerOpen, BrokerDies, BrokerAnswer, BrokerClose, BrokerReopen,
     PubRead, PubEnd, BrokerUnlink, SubScan, SubProbe, BrokerSend,
     ClientStep, ClientOpen, ClientReply, ClientClose, ClientRefused, ClientReopen,
     PubProbe, PubWrite, PubDies, ClientUnlink, SubRead, SubClientProbe, PubInput, Interrupt, RemoveBox, Crash, WorkerGoes
<1>3. sent' \in Nat /\ box' \in BOOLEAN /\ killed' \in BOOLEAN
  <2>1. sent' = sent \/ sent' = sent + 1
    BY <1>V DEF Next, BrokerStep, BrokerOpen, BrokerDies, BrokerAnswer, BrokerClose, BrokerReopen,
       PubRead, PubEnd, BrokerUnlink, SubScan, SubProbe, BrokerSend,
       ClientStep, ClientOpen, ClientReply, ClientClose, ClientRefused, ClientReopen,
       PubProbe, PubWrite, PubDies, ClientUnlink, SubRead, SubClientProbe, PubInput, Interrupt, RemoveBox, Crash
  <2>2. box' = box \/ box' = FALSE
    BY <1>V, Zenon DEF Next, BrokerStep, BrokerOpen, BrokerDies, BrokerAnswer, BrokerClose, BrokerReopen,
       PubRead, PubEnd, BrokerUnlink, SubScan, SubProbe, BrokerSend,
       ClientStep, ClientOpen, ClientReply, ClientClose, ClientRefused, ClientReopen,
       PubProbe, PubWrite, PubDies, ClientUnlink, SubRead, SubClientProbe, PubInput, Interrupt, RemoveBox, Crash
  <2>3. killed' = killed \/ killed' = TRUE
    BY <1>V, Zenon DEF Next, BrokerStep, BrokerOpen, BrokerDies, BrokerAnswer, BrokerClose, BrokerReopen,
       PubRead, PubEnd, BrokerUnlink, SubScan, SubProbe, BrokerSend,
       ClientStep, ClientOpen, ClientReply, ClientClose, ClientRefused, ClientReopen,
       PubProbe, PubWrite, PubDies, ClientUnlink, SubRead, SubClientProbe, PubInput, Interrupt, RemoveBox, Crash
  <2>5. sent' \in Nat
    BY <2>1 DEF TypeOK
  <2>6. box' \in BOOLEAN /\ killed' \in BOOLEAN
    BY <2>2, <2>3, Zenon DEF TypeOK
  <2> QED
    BY <2>5, <2>6
<1>4. received' \in Seq(Data)
  <2>1. CASE PubRead \/ SubRead
    <3>1. received' = received \/ (pipe.buffer # <<>> /\ received' = Append(received, Head(pipe.buffer)))
      BY <2>1 DEF PubRead, SubRead, HasData
    <3>2. pipe.buffer \in Seq(Data) /\ received \in Seq(Data)
      BY DEF TypeOK, Pipe
    <3>3. pipe.buffer # <<>> => Head(pipe.buffer) \in Data
      BY <3>2, HeadTailProperties
    <3> QED
      BY <3>1, <3>2, <3>3, AppendProperties
  <2>2. CASE ~(PubRead \/ SubRead)
    <3>1. UNCHANGED received
      BY <1>V, <2>2 DEF Next, BrokerStep, BrokerOpen, BrokerDies, BrokerAnswer, BrokerClose, BrokerReopen,
         PubEnd, BrokerUnlink, SubScan, SubProbe, BrokerSend,
         ClientStep, ClientOpen, ClientReply, ClientClose, ClientRefused, ClientReopen,
         PubProbe, PubWrite, PubDies, ClientUnlink, SubClientProbe,
         PubInput, Interrupt, RemoveBox, Crash
    <3> QED
      BY <3>1 DEF TypeOK
  <2> QED
    BY <2>1, <2>2
<1> QED
  BY <1>S, <1>D, <1>P, <1>1, <1>2, <1>3, <1>4 DEF TypeOK

-----------------------------------------------------------------------------
(* Every step keeps it: the answer and the messages *)

\* The inductive invariant.
LinkInv == TypeOK /\ WorkerEnd /\ ClientEnd /\ AnswerFirst /\ InPipe

\* Every step keeps the answer in front, and leaves it to the client to take it.
LEMMA KeepsAnswerFirst ==
  ASSUME LinkInv, SendHasItem, [Next]_vars
  PROVE  AnswerFirst'
<1>S. kind' = kind
  BY KindStays
<1>T. /\ kind' = kind
      /\ pipe \in Pipe /\ TypeOK /\ WorkerEnd /\ ClientEnd /\ AnswerFirst /\ InPipe
  BY <1>S DEF LinkInv, TypeOK
<1>P. /\ CEnd \in Modes /\ BEnd \in Modes /\ pipe.buffer \in Seq(Data)
      /\ UNCHANGED pipe => CEnd' = CEnd /\ BEnd' = BEnd
  BY <1>T, PipeParts
<1> USE DEF WorkerGoes, ClientGoes, AnswerFirst
<1>1. CASE UNCHANGED vars \/ BrokerDies \/ RemoveBox
  BY <1>T, <1>P, <1>1 DEF vars, BrokerDies, RemoveBox
<1>2. CASE BrokerOpen
  BY <1>T, <1>P, <1>2, OpenWriteParts DEF BrokerOpen, ClientEnd
<1>4. CASE BrokerAnswer
  <2>1. PICK a \in Answers : pipe' = Write(pipe, a)
    BY <1>4 DEF BrokerAnswer
  <2>2. pipe.buffer = <<>> /\ worker = "answer" /\ worker' \in {"close_OK", "close_ER"}
    BY <1>T, <1>4 DEF BrokerAnswer
  <2>3. a \in Data
    BY DEF Data
  <2>4. /\ CEnd' = CEnd /\ BEnd' = BEnd /\ pipe'.buffer = Append(<<>>, a)
    BY <1>T, <2>1, <2>2, <2>3, WriteParts
  <2>5. pipe'.buffer # <<>> /\ Head(pipe'.buffer) \in Answers
    BY <2>4, BehindAnswer
  <2>6. client \in {"reply", "dead"} /\ client' = client /\ BEnd = "W"
    BY <1>T, <1>4, <2>2 DEF BrokerAnswer, HasRoom, BEnd
  <2> QED
    BY <2>2, <2>4, <2>5, <2>6
<1>5. CASE BrokerClose
  BY <1>T, <1>P, <1>5, CloseParts DEF BrokerClose, ClientEnd, WorkerEnd
<1>6. CASE BrokerReopen
  BY <1>T, <1>P, <1>6, OpenReadParts, OpenWriteParts DEF BrokerReopen, ClientEnd
<1>7. CASE PubRead
  <2>1. kind = "publisher" /\ BEnd = "R" /\ pipe.buffer # <<>> /\ worker = "run"
    BY <1>7 DEF PubRead, HasData, BEnd
  <2>2. Head(pipe.buffer) \notin Answers
    BY <1>T, <2>1
  <2>3. Behind(pipe.buffer) = pipe.buffer /\ pipe.buffer \in Seq(STRING \ Answers)
    BY <1>T, <2>1, <2>2 DEF Behind, InPipe
  <2>4. Tail(pipe.buffer) \in Seq(STRING \ Answers)
    BY <2>1, <2>3, BehindMessages
  <2>5. Tail(pipe.buffer) # <<>> => Head(Tail(pipe.buffer)) \notin Answers
    BY <2>4, BehindMessages
  <2>6. client' = client /\ pipe'.buffer \in {<<>>, Tail(pipe.buffer)}
    BY <1>T, <1>7, <2>1, ReadParts, ReadCloseParts DEF PubRead
  <2>7. client # "reply" /\ client # "start"
    BY <1>T, <2>1, <2>2
  <2>8. worker' \in {"run", "unlink", "full"}
    BY <1>7 DEF PubRead
  <2> QED
    BY <2>5, <2>6, <2>7, <2>8
<1>8. CASE BrokerUnlink
  BY <1>T, <1>P, <1>8, UnlinkParts DEF BrokerUnlink
<1>9. CASE SubScan \/ SubProbe
  BY <1>T, <1>P, <1>9, CloseParts DEF SubScan, SubProbe, ClientEnd
<1>10. CASE PubEnd
  BY <1>T, <1>P, <1>10 DEF PubEnd, rest
<1>11. CASE BrokerSend \/ PubWrite
  <2>1. sent < Len(Lines) /\ pipe' = Write(pipe, Head(todo))
    BY <1>T, <1>11 DEF BrokerSend, PubWrite, SendHasItem, WorkerEnd, ClientEnd
  <2>2. Head(todo) \in STRING \ Answers
    <3>1. Lines \in Seq(STRING \ Answers) /\ Head(todo) = Lines[sent + 1] /\ sent \in Nat
      BY <1>T, <2>1, TodoHead DEF TypeOK
    <3>2. Len(Lines) \in Nat
      BY <3>1, LenProperties
    <3>3. sent + 1 \in 1 .. Len(Lines)
      BY <2>1, <3>1, <3>2
    <3> QED
      BY <3>1, <3>3, ElementOfSeq
  <2>3. Head(todo) \in Data
    BY <1>T, <2>1, TodoHead
  <2>4. /\ CEnd' = CEnd /\ BEnd' = BEnd /\ pipe'.path = pipe.path
        /\ pipe'.buffer = Append(pipe.buffer, Head(todo))
    BY <1>T, <2>1, <2>3, WriteParts
  <2>5. /\ pipe'.buffer # <<>>
        /\ Head(pipe'.buffer) = IF pipe.buffer = <<>> THEN Head(todo) ELSE Head(pipe.buffer)
    BY <1>P, <2>3, <2>4, AppendProperties, HeadTailAppend
  <2>6. CASE BrokerSend
    <3>1. worker = "send" /\ worker' = "run" /\ client' = client
      BY <2>6 DEF BrokerSend
    <3> QED
      BY <1>T, <2>2, <2>4, <2>5, <3>1
  <2>7. CASE PubWrite
    <3>1. client = "write" /\ client' = "input" /\ worker' = worker
      BY <2>7 DEF PubWrite
    <3> QED
      BY <1>T, <2>2, <2>4, <2>5, <3>1
  <2> QED
    BY <1>11, <2>6, <2>7
<1>12. CASE ClientOpen
  BY <1>T, <1>P, <1>12, OpenReadParts DEF ClientOpen, WorkerEnd
<1>13. CASE ClientReply
  <2>1. /\ client = "reply" /\ client' \in {"close", "refused"} /\ pipe.buffer # <<>>
        /\ pipe' = Read(pipe) /\ worker' = worker
    BY <1>13 DEF ClientReply, HasData, rest
  <2>2. worker \notin {"start", "answer"} /\ Head(pipe.buffer) \in Answers
    BY <1>T, <2>1
  <2>3. Tail(pipe.buffer) \in Seq(STRING \ Answers)
    BY <1>T, <2>1, <2>2 DEF InPipe, Behind
  <2>4. pipe'.buffer = Tail(pipe.buffer)
    BY <1>T, <2>1, ReadParts
  <2>5. Tail(pipe.buffer) # <<>> => Head(Tail(pipe.buffer)) \notin Answers
    BY <2>3, BehindMessages
  <2> QED
    BY <2>1, <2>2, <2>4, <2>5
<1>14. CASE ClientClose \/ PubProbe \/ PubDies \/ SubClientProbe
  BY <1>T, <1>P, <1>14, CloseParts DEF ClientClose, PubProbe, PubDies, SubClientProbe, rest
<1>15. CASE ClientRefused
  BY <1>T, <1>P, <1>15, CloseUnlinkParts DEF ClientRefused, rest
<1>16. CASE ClientReopen
  BY <1>T, <1>P, <1>16, OpenReadParts, OpenWriteParts DEF ClientReopen, WorkerEnd, rest
<1>18. CASE ClientUnlink
  BY <1>T, <1>P, <1>18, UnlinkParts DEF ClientUnlink, rest
<1>19. CASE SubRead
  <2>1. client = "run" /\ client' = "probe" /\ worker' = worker
    BY <1>19 DEF SubRead
  <2>2. CASE UNCHANGED pipe
    BY <1>T, <1>P, <2>1, <2>2
  <2>3. CASE HasData(pipe, "client") /\ pipe' = Read(pipe)
    <3>1. pipe.buffer # <<>> /\ Head(pipe.buffer) \notin Answers /\ worker \notin {"start", "answer"}
      BY <1>T, <2>1, <2>3 DEF HasData
    <3>2. pipe.buffer \in Seq(STRING \ Answers)
      BY <1>T, <3>1 DEF InPipe, Behind
    <3>3. Tail(pipe.buffer) # <<>> => Head(Tail(pipe.buffer)) \notin Answers
      BY <3>1, <3>2, BehindMessages
    <3>4. pipe'.buffer = Tail(pipe.buffer)
      BY <1>T, <2>3, <3>1, ReadParts
    <3> QED
      BY <2>1, <3>1, <3>3, <3>4
  <2> QED
    BY <1>19, <2>2, <2>3 DEF SubRead
<1>21. CASE PubInput
  BY <1>T, <1>P, <1>21, CloseParts DEF PubInput, rest
<1>22. CASE Interrupt
  BY <1>T, <1>P, <1>22, CloseParts DEF Interrupt, rest
<1>23. CASE Crash
  BY <1>T, <1>P, <1>23, CloseParts DEF Crash, rest
<1> QED
  BY <1>1, <1>2, <1>4, <1>5, <1>6, <1>7, <1>8, <1>9, <1>10, <1>11, <1>12, <1>13, <1>14,
     <1>15, <1>16, <1>18, <1>19, <1>21, <1>22, <1>23 DEF Next, BrokerStep, ClientStep

\* Sequences of messages.
Messages == Seq(STRING \ Answers)

\* A step that moves no message.
LEMMA NothingMoved ==
  ASSUME LinkInv, UNCHANGED <<kind, sent, received>>,
         Behind(pipe'.buffer) = Behind(pipe.buffer)
           \/ (Behind(pipe'.buffer) = <<>> /\ worker' \in {"unlink", "ended", "full", "leaked"}
                 /\ CEnd' # "R"),
         worker' \in Early => worker \in Early,
         worker' \in {"run", "probe", "send"} => worker \in Early \cup {"run", "probe", "send"},
         kind = "subscriber" /\ worker' \in {"unlink", "ended"} /\ CEnd' = "R"
           => \/ worker \in Early \cup {"run", "probe", "send"}
              \/ worker \in {"unlink", "ended"} /\ CEnd = "R",
         client' \in {"probe", "write"} /\ kind = "publisher"
           => client \in {"probe", "write"} \/ sent < Len(Lines),
         worker' = "send" => worker = "send" \/ sent < Len(Lines)
  PROVE  InPipe'
<1>1. Sent' = Sent
  BY DEF Sent
<1>2. <<>> \in Messages
  BY EmptySeq DEF Messages
<1>3. InPipe /\ \A x : x \in {"unlink", "ended", "full", "leaked"} =>
                           x \notin Early \cup {"run", "probe", "send"}
  BY DEF LinkInv, Early
<1>4. CASE Behind(pipe'.buffer) = Behind(pipe.buffer)
  BY <1>1, <1>3, <1>4 DEF InPipe
<1>5. CASE Behind(pipe'.buffer) = <<>> /\ worker' \in {"unlink", "ended", "full", "leaked"}
             /\ CEnd' # "R"
  BY <1>1, <1>2, <1>3, <1>5 DEF InPipe, Messages
<1> QED
  BY <1>4, <1>5

\* What is left to send is empty when all is sent.
LEMMA TodoLeft == TypeOK /\ todo # <<>> => sent < Len(Lines)
<1> SUFFICES ASSUME TypeOK, todo # <<>> PROVE sent < Len(Lines)
  OBVIOUS
<1>1. PICK n \in Nat, m \in Nat : n = sent /\ m = Len(Lines)
  BY LinesAreData, LenProperties DEF TypeOK
<1>2. ASSUME ~(n < m) PROVE FALSE
  <2>1. m < n + 1 /\ n + 1 \in Int /\ m \in Int
    BY <1>2
  <2>2. SubSeq(Lines, n + 1, m) = <<>>
    BY <2>1, SubSeqEmpty
  <2> QED
    BY <1>1, <2>2 DEF todo
<1> QED
  BY <1>1, <1>2

\* Every step leaves what has been sent in the pipe, or takes it out in order.
LEMMA KeepsInPipe ==
  ASSUME LinkInv, SendHasItem, [Next]_vars
  PROVE  InPipe'
<1>S. UNCHANGED kind
  BY KindStays
<1>T. /\ pipe \in Pipe /\ TypeOK /\ WorkerEnd /\ ClientEnd /\ AnswerFirst /\ InPipe
      /\ Lines \in Messages /\ <<>> \in Messages
  BY EmptySeq DEF LinkInv, TypeOK, Messages
<1>P. /\ CEnd \in Modes /\ BEnd \in Modes /\ pipe.buffer \in Seq(Data)
      /\ UNCHANGED pipe => CEnd' = CEnd /\ BEnd' = BEnd
  BY <1>T, PipeParts
<1>M. Behind(pipe.buffer) \in Messages /\ received \in Messages
  BY <1>T DEF InPipe, Messages
<1>E. Behind(<<>>) = <<>>
  BY DEF Behind
<1> USE DEF WorkerGoes, ClientGoes, Early
<1>1. CASE UNCHANGED vars \/ BrokerDies \/ RemoveBox
  <2>1. UNCHANGED <<sent, received, pipe, worker, client>>
    BY <1>1, Zenon DEF vars, BrokerDies, RemoveBox
  <2> QED
    BY <1>S, <1>P, <2>1, NothingMoved
<1>2. CASE BrokerOpen
  <2>1. worker = "start" /\ pipe.path /\ client' = client /\ UNCHANGED received
    BY <1>T, <1>2 DEF BrokerOpen, AnswerFirst, rest
  <2>2. worker' = "answer" /\ pipe' = OpenWrite(pipe, "broker") /\ UNCHANGED sent
    BY <1>2, <2>1 DEF BrokerOpen, rest
  <2>3. pipe'.buffer = pipe.buffer
    BY <1>T, <2>2, OpenWriteParts
  <2> QED
    BY <1>S, <2>1, <2>2, <2>3, NothingMoved
<1>4. CASE BrokerAnswer
  <2>1. PICK a \in Answers : pipe' = Write(pipe, a)
    BY <1>4 DEF BrokerAnswer
  <2>2. /\ pipe.buffer = <<>> /\ worker = "answer" /\ worker' \in {"close_OK", "close_ER"}
        /\ UNCHANGED <<client, sent, received>>
    BY <1>T, <1>4 DEF BrokerAnswer, AnswerFirst, rest
  <2>3. pipe'.buffer = Append(<<>>, a)
    <3>1. a \in Data
      BY DEF Data
    <3> QED
      BY <1>T, <2>1, <2>2, <3>1, WriteParts
  <2>4. Behind(pipe'.buffer) = <<>>
    BY <2>3, BehindAnswer
  <2> QED
    BY <1>S, <1>E, <2>2, <2>4, NothingMoved
<1>5. CASE BrokerClose
  <2>1. /\ worker \in {"close_OK", "close_ER"} /\ worker' \in {"reopen", "ended"}
        /\ worker = "close_ER" <=> worker' = "ended"
        /\ UNCHANGED <<client, sent, received>> /\ pipe' = Close(pipe, "broker")
    BY <1>T, <1>5 DEF BrokerClose, rest, WorkerEnd
  <2>2. pipe'.buffer \in {<<>>, pipe.buffer} /\ CEnd' = CEnd
    BY <1>T, <2>1, CloseParts
  <2>3. Behind(pipe.buffer) = <<>>
    BY <1>T, <2>1 DEF InPipe
  <2>4. Behind(pipe'.buffer) = Behind(pipe.buffer)
    BY <1>E, <2>2, <2>3
  <2> QED
    BY <1>S, <2>1, <2>2, <2>4, NothingMoved
<1>6. CASE BrokerReopen
  <2>1. worker = "reopen" /\ worker' \in {"run", "ended"} /\ UNCHANGED <<client, sent, received>>
    BY <1>6 DEF BrokerReopen, rest
  <2>2. pipe'.buffer = pipe.buffer
    BY <1>T, <1>6, OpenReadParts, OpenWriteParts DEF BrokerReopen
  <2> QED
    BY <1>S, <2>1, <2>2, NothingMoved
<1>7. CASE PubRead
  <2>1. kind = "publisher" /\ BEnd = "R" /\ pipe.buffer # <<>> /\ worker = "run"
    BY <1>7 DEF PubRead, HasData, BEnd
  <2>2. Behind(pipe.buffer) = pipe.buffer /\ pipe.buffer \in Messages
    BY <1>T, <2>1 DEF AnswerFirst, InPipe, Behind, Messages
  <2>3. /\ Head(pipe.buffer) \in STRING \ Answers /\ Tail(pipe.buffer) \in Messages
        /\ Behind(Tail(pipe.buffer)) = Tail(pipe.buffer)
    BY <2>1, <2>2, BehindMessages DEF Messages
  <2>4. /\ received' = Append(received, Head(pipe.buffer)) /\ UNCHANGED <<client, sent>>
        /\ worker' \in {"run", "unlink", "full"}
    BY <1>7 DEF PubRead
  <2>5. received' \in Messages
    BY <1>M, <2>3, <2>4, AppendProperties DEF Messages
  <2>6. pipe'.buffer \in {<<>>, Tail(pipe.buffer)} /\ (worker' = "run" => pipe'.buffer = Tail(pipe.buffer))
    BY <1>T, <1>7, <2>1, ReadParts, ReadCloseParts DEF PubRead
  <2>7. received' \o Tail(pipe.buffer) = received \o pipe.buffer
    BY <1>M, <2>1, <2>2, <2>4, TakeOne DEF Messages
  <2>8. worker' = "run" => received' \o Behind(pipe'.buffer) = Sent'
    BY <1>T, <1>S, <2>1, <2>2, <2>3, <2>4, <2>6, <2>7 DEF InPipe, Sent
  <2>9. Behind(pipe'.buffer) \in Messages
    BY <1>E, <1>T, <2>3, <2>6
  <2>10. client' \in {"probe", "write"} => sent' < Len(Lines)
    BY <1>T, <1>S, <2>1, <2>4 DEF InPipe
  <2> QED
    BY <1>S, <2>1, <2>4, <2>5, <2>8, <2>9, <2>10 DEF InPipe, Messages
<1>8. CASE BrokerUnlink
  <2>1. /\ worker = "unlink" /\ worker' = "ended" /\ UNCHANGED <<client, sent, received>>
    BY <1>8 DEF BrokerUnlink, rest
  <2>2. pipe'.buffer = pipe.buffer /\ CEnd' = CEnd
    BY <1>T, <1>8, UnlinkParts DEF BrokerUnlink
  <2> QED
    BY <1>S, <2>1, <2>2, NothingMoved
<1>9. CASE SubScan \/ SubProbe
  <2>1. /\ UNCHANGED <<client, sent, received>> /\ worker \in {"run", "probe"}
        /\ worker' \in {"run", "probe", "send", "unlink", "ended"}
        /\ UNCHANGED pipe \/ (pipe' = Close(pipe, "broker") /\ worker' \in {"unlink", "ended"})
        /\ worker' = "send" => todo # <<>>
    BY <1>9 DEF SubScan, SubProbe, rest
  <2>2. CASE UNCHANGED pipe
    BY <1>S, <1>T, <1>P, <2>1, <2>2, NothingMoved, TodoLeft
  <2>3. CASE pipe' = Close(pipe, "broker") /\ worker' \in {"unlink", "ended"}
    <3>1. /\ CEnd' = CEnd
          /\ pipe'.buffer = pipe.buffer \/ (pipe'.buffer = <<>> /\ CEnd' = "closed")
      BY <1>T, <2>3, CloseParts
    <3>2. CASE pipe'.buffer = pipe.buffer
      BY <1>S, <2>1, <2>3, <3>1, <3>2, NothingMoved
    <3>3. CASE pipe'.buffer = <<>> /\ CEnd' = "closed"
      BY <1>S, <1>E, <2>1, <2>3, <3>1, <3>3, NothingMoved
    <3> QED
      BY <3>1, <3>2, <3>3
  <2> QED
    BY <2>1, <2>2, <2>3
<1>10. CASE PubEnd
  BY <1>S, <1>P, <1>10, NothingMoved DEF PubEnd, rest
<1>11. CASE BrokerSend \/ PubWrite
  <2>1. /\ sent < Len(Lines) /\ pipe' = Write(pipe, Head(todo)) /\ sent' = sent + 1
        /\ UNCHANGED received
    BY <1>T, <1>11 DEF BrokerSend, PubWrite, SendHasItem, WorkerEnd, ClientEnd
  <2>2. Head(todo) \in STRING \ Answers
    <3>1. Lines \in Seq(STRING \ Answers) /\ Head(todo) = Lines[sent + 1] /\ sent \in Nat
      BY <1>T, <2>1, TodoHead DEF TypeOK, Messages
    <3>2. Len(Lines) \in Nat
      BY <3>1, LenProperties
    <3>3. sent + 1 \in 1 .. Len(Lines)
      BY <2>1, <3>1, <3>2
    <3> QED
      BY <3>1, <3>3, ElementOfSeq
  <2>3. Head(todo) \in Data
    BY <1>T, <2>1, TodoHead
  <2>4. /\ CEnd' = CEnd /\ BEnd' = BEnd
        /\ pipe'.buffer = Append(pipe.buffer, Head(todo))
    BY <1>T, <2>1, <2>3, WriteParts
  <2>5. Behind(pipe'.buffer) = Append(Behind(pipe.buffer), Head(todo))
    BY <1>P, <2>2, <2>3, <2>4, BehindAppend
  <2>6. Behind(pipe'.buffer) \in Messages
    BY <1>M, <2>2, <2>5, AppendProperties DEF Messages
  <2>7. received \o Behind(pipe'.buffer) = Append(received \o Behind(pipe.buffer), Head(todo))
    BY <1>M, <2>2, <2>5, PutOne DEF Messages
  <2>8. Sent' = Append(Sent, Head(todo))
    BY <1>S, <1>T, <2>1, TodoHead DEF Sent
  <2>9. CASE BrokerSend
    <3>1. /\ worker = "send" /\ worker' = "run" /\ client' = client /\ kind = "subscriber"
      BY <1>T, <2>9 DEF BrokerSend, WorkerEnd
    <3>2. received' \o Behind(pipe'.buffer) = Sent'
      BY <1>T, <2>1, <2>7, <2>8, <3>1 DEF InPipe
    <3> QED
      BY <1>M, <1>S, <2>1, <2>6, <3>1, <3>2 DEF InPipe, Messages
  <2>10. CASE PubWrite
    <3>1. /\ client = "write" /\ client' = "input" /\ worker' = worker /\ kind = "publisher"
          /\ BEnd \in {"R", "waits_R"}
      BY <1>T, <2>10 DEF PubWrite, ClientEnd, HasRoom, ReadsOrWaits, BEnd, Peer
    <3>2. worker \in {"run", "full", "leaked"}
      BY <1>T, <3>1 DEF WorkerEnd, TypeOK
    <3>3. worker = "run" => received' \o Behind(pipe'.buffer) = Sent'
      BY <1>T, <2>1, <2>7, <2>8, <3>1 DEF InPipe
    <3> QED
      BY <1>M, <1>S, <2>1, <2>6, <3>1, <3>2, <3>3 DEF InPipe, Messages
  <2> QED
    BY <1>11, <2>9, <2>10
<1>12. CASE ClientOpen
  <2>1. /\ client = "start" /\ client' = "reply" /\ UNCHANGED <<worker, sent, received>>
        /\ pipe' = OpenRead(pipe, "client")
    BY <1>12 DEF ClientOpen, rest
  <2>2. worker \in Early
    BY <1>T, <2>1 DEF AnswerFirst
  <2>3. pipe'.buffer = pipe.buffer
    BY <1>T, <2>1, OpenReadParts
  <2> QED
    BY <1>S, <2>1, <2>2, <2>3, NothingMoved
<1>13. CASE ClientReply
  <2>1. /\ client = "reply" /\ client' \in {"close", "refused"} /\ pipe.buffer # <<>>
        /\ pipe' = Read(pipe) /\ UNCHANGED <<worker, sent, received>> /\ CEnd = "R"
    BY <1>13 DEF ClientReply, HasData, rest, CEnd
  <2>2. Head(pipe.buffer) \in Answers
    BY <1>T, <2>1 DEF AnswerFirst
  <2>3. Behind(pipe.buffer) = Tail(pipe.buffer)
    BY <2>1, <2>2 DEF Behind
  <2>4. pipe'.buffer = Tail(pipe.buffer) /\ CEnd' = CEnd
    BY <1>T, <2>1, ReadParts
  <2>5. Behind(pipe'.buffer) = Behind(pipe.buffer)
    BY <1>M, <2>3, <2>4, BehindMessages DEF Messages
  <2> QED
    BY <1>S, <2>1, <2>4, <2>5, NothingMoved
<1>14. CASE ClientClose \/ PubProbe \/ PubDies \/ SubClientProbe \/ PubInput \/ Interrupt \/ Crash
               \/ ClientRefused
  <2>1. /\ UNCHANGED <<worker, sent, received>>
        /\ client' \in {"probe", "write"} /\ kind = "publisher"
             => client \in {"probe", "write"} \/ todo # <<>>
        /\ \/ UNCHANGED pipe
           \/ pipe' = Close(pipe, "client") \/ pipe' = Unlink(Close(pipe, "client"))
    BY <1>14 DEF ClientClose, PubProbe, PubDies, SubClientProbe, PubInput, Interrupt, Crash,
       ClientRefused, rest
  <2>2. CASE UNCHANGED pipe
    BY <1>S, <1>T, <1>P, <2>1, <2>2, NothingMoved, TodoLeft
  <2>3. CASE pipe' = Close(pipe, "client") \/ pipe' = Unlink(Close(pipe, "client"))
    <3>1. /\ CEnd' = "closed"
          /\ pipe'.buffer = IF BEnd = "closed" THEN <<>> ELSE pipe.buffer
      BY <1>T, <2>3, CloseParts, CloseUnlinkParts
    <3>2. CASE pipe'.buffer = pipe.buffer
      BY <1>S, <1>T, <2>1, <3>1, <3>2, NothingMoved, TodoLeft
    <3>3. CASE pipe'.buffer = <<>> /\ BEnd = "closed"
      <4>1. worker \in {"start", "reopen", "unlink", "ended"}
        BY <1>T, <3>3 DEF WorkerEnd, TypeOK
      <4>2. CASE worker \in {"start", "reopen"}
        <5>1. Behind(pipe.buffer) = <<>>
          BY <1>T, <4>2 DEF InPipe
        <5> QED
          BY <1>S, <1>E, <1>T, <2>1, <3>1, <3>3, <5>1, NothingMoved, TodoLeft
      <4>3. CASE worker \in {"unlink", "ended"}
        BY <1>S, <1>E, <1>T, <2>1, <3>1, <3>3, <4>3, NothingMoved, TodoLeft
      <4> QED
        BY <4>1, <4>2, <4>3
    <3> QED
      BY <3>1, <3>2, <3>3
  <2> QED
    BY <2>1, <2>2, <2>3
<1>16. CASE ClientReopen
  <2>1. client = "reopen" /\ client' \in {"input", "run", "ended"} /\ UNCHANGED <<worker, sent, received>>
    BY <1>16 DEF ClientReopen, rest
  <2>2. /\ pipe'.buffer = pipe.buffer
        /\ CEnd' = "R" => BEnd \in {"W", "waits_W"}
    BY <1>T, <1>P, <1>16, <2>1, OpenReadParts, OpenWriteParts DEF ClientReopen, ClientEnd
  <2>3. CEnd' = "R" => worker \notin {"unlink", "ended"}
    BY <1>T, <2>2 DEF WorkerEnd
  <2> QED
    BY <1>S, <2>1, <2>2, <2>3, NothingMoved
<1>18. CASE ClientUnlink
  <2>1. client = "unlink" /\ client' = "ended" /\ UNCHANGED <<worker, sent, received>>
    BY <1>18 DEF ClientUnlink, rest
  <2>2. pipe'.buffer = pipe.buffer /\ CEnd' = CEnd
    BY <1>T, <1>18, UnlinkParts DEF ClientUnlink
  <2> QED
    BY <1>S, <2>1, <2>2, NothingMoved
<1>19. CASE SubRead
  <2>1. /\ client = "run" /\ client' = "probe" /\ UNCHANGED <<worker, sent>>
        /\ kind = "subscriber"
    BY <1>19 DEF SubRead
  <2>2. CASE UNCHANGED <<pipe, received>>
    BY <1>S, <1>P, <2>1, <2>2, NothingMoved
  <2>3. CASE /\ HasData(pipe, "client") /\ pipe' = Read(pipe)
             /\ received' = Append(received, Head(pipe.buffer))
    <3>1. pipe.buffer # <<>> /\ Head(pipe.buffer) \notin Answers /\ CEnd = "R"
      BY <1>T, <2>1, <2>3 DEF HasData, AnswerFirst, CEnd
    <3>2. Behind(pipe.buffer) = pipe.buffer /\ pipe.buffer \in Messages
      BY <1>M, <3>1 DEF Behind
    <3>3. /\ Head(pipe.buffer) \in STRING \ Answers /\ Tail(pipe.buffer) \in Messages
          /\ Behind(Tail(pipe.buffer)) = Tail(pipe.buffer)
      BY <3>1, <3>2, BehindMessages DEF Messages
    <3>4. pipe'.buffer = Tail(pipe.buffer) /\ CEnd' = CEnd
      BY <1>T, <2>3, <3>1, ReadParts
    <3>5. received' \in Messages
      BY <1>M, <2>3, <3>3, AppendProperties DEF Messages
    <3>6. received' \o Tail(pipe.buffer) = received \o pipe.buffer
      BY <1>M, <2>3, <3>1, <3>2, TakeOne DEF Messages
    <3>7. worker \notin Early
      <4>1. ASSUME worker \in Early PROVE FALSE
        <5>1. pipe.buffer = <<>>
          BY <1>T, <3>2, <4>1 DEF InPipe
        <5> QED
          BY <3>1, <5>1
      <4> QED
        BY <4>1
    <3>8. \/ worker \in {"run", "probe", "send"}
          \/ (kind = "subscriber" /\ worker \in {"unlink", "ended"} /\ CEnd = "R")
          => received' \o Behind(pipe'.buffer) = Sent'
      BY <1>S, <1>T, <2>1, <3>2, <3>3, <3>4, <3>6 DEF InPipe, Sent
    <3> QED
      BY <1>S, <1>T, <2>1, <3>3, <3>4, <3>5, <3>7, <3>8 DEF InPipe, Messages
  <2> QED
    BY <1>19, <2>2, <2>3 DEF SubRead
<1> QED
  BY <1>1, <1>2, <1>4, <1>5, <1>6, <1>7, <1>8, <1>9, <1>10, <1>11, <1>12, <1>13, <1>14,
     <1>16, <1>18, <1>19 DEF Next, BrokerStep, ClientStep

-----------------------------------------------------------------------------
(* The invariant, and what follows from it *)

\* Under it nobody writes when there is nothing left to send.
LEMMA SomethingToSend ==
  ASSUME LinkInv
  PROVE  SendHasItem
BY DEF LinkInv, SendHasItem, InPipe, ClientEnd

\* It holds at the start,
LEMMA InitLinkInv == Init => LinkInv
<1> SUFFICES ASSUME Init PROVE LinkInv
  OBVIOUS
<1>1. /\ kind \in Kinds /\ client = "start" /\ worker = "start" /\ sent = 0 /\ received = <<>>
      /\ box = TRUE /\ killed = FALSE
  BY DEF Init
<1>2. /\ pipe.path = TRUE /\ pipe.buffer = <<>> /\ CEnd = "closed" /\ BEnd = "closed"
      /\ pipe \in Pipe
  <2>1. <<>> \in Seq(Data)
    BY EmptySeq
  <2> QED
    BY <2>1 DEF Init, Mkfifo, Pipe, CEnd, BEnd, Ends, Modes
<1>3. Sent = <<>>
  <2>1. 0 \in Int /\ 1 \in Int /\ 1 > 0
    OBVIOUS
  <2> QED
    BY <1>1, <2>1, SubSeqEmpty DEF Sent
<1>4. TypeOK
  <2>1. <<>> \in Seq(Data)
    BY EmptySeq
  <2> QED
    BY <1>1, <1>2, <2>1 DEF TypeOK
<1>5. WorkerEnd /\ ClientEnd /\ AnswerFirst
  BY <1>1, <1>2 DEF WorkerEnd, ClientEnd, AnswerFirst
<1>6. InPipe
  <2>1. Behind(<<>>) = <<>> /\ <<>> \in Seq(STRING \ Answers) /\ <<>> \o <<>> = <<>>
    BY EmptySeq, ConcatEmptySeq DEF Behind
  <2> QED
    BY <1>1, <1>2, <1>3, <2>1 DEF InPipe
<1> QED
  BY <1>4, <1>5, <1>6 DEF LinkInv

\* and every step keeps it,
LEMMA KeepsLinkInv == LinkInv /\ [Next]_vars => LinkInv'
<1> SUFFICES ASSUME LinkInv, [Next]_vars PROVE LinkInv'
  OBVIOUS
<1>1. SendHasItem
  BY SomethingToSend
<1>2. TypeOK' /\ WorkerEnd' /\ ClientEnd'
  BY <1>1, KeepsTypeOK, KeepsEnds DEF LinkInv
<1>3. AnswerFirst' /\ InPipe'
  BY <1>1, KeepsAnswerFirst, KeepsInPipe
<1> QED
  BY <1>2, <1>3 DEF LinkInv

\* so it holds throughout: every place of the two programs fits the mode in which
\* they have the pipe, and what the pipe carries.
THEOREM Invariance == Spec => []LinkInv
BY InitLinkInv, KeepsLinkInv, PTL DEF Spec

\* No line of a publisher (start_publisher's reads) and no message to a subscriber
\* (sub.c's) is lost, doubled or out of order while the session goes on, although
\* the pipe is closed and opened again between the answer and the first of them.
THEOREM Lossless == Spec => []NothingLost
<1>1. LinkInv => NothingLost
  <2> SUFFICES ASSUME LinkInv, \/ kind = "publisher" /\ worker = "run"
                            \/ /\ kind = "subscriber" /\ client \in {"run", "probe"}
                               /\ Opened(pipe, "client")
               PROVE  received \o Behind(pipe.buffer) = Sent
    BY DEF NothingLost
  <2>1. LinkInv /\ TypeOK /\ WorkerEnd /\ ClientEnd /\ AnswerFirst /\ InPipe
    BY DEF LinkInv
  <2>2. CASE kind = "publisher" /\ worker = "run"
    BY <2>1, <2>2 DEF InPipe
  <2>3. CASE /\ kind = "subscriber" /\ client \in {"run", "probe"}
             /\ Opened(pipe, "client")
    <3>1. CEnd = "R"
      BY <2>1, <2>3 DEF ClientEnd, Opened, CEnd
    <3>2. worker \in Early \cup {"run", "probe", "send", "unlink", "ended"}
      BY <2>1, <2>3 DEF TypeOK, WorkerEnd, Early
    <3> QED
      BY <2>1, <2>3, <3>1, <3>2 DEF InPipe
  <2> QED
    BY <2>2, <2>3
<1> QED
  BY <1>1, Invariance, PTL

\* SIGPIPE ends the broker only where a worker writes messages to a subscriber, or
\* when the client was killed: the answer is written while its reader has the pipe
\* open, or waits for it, and nothing else is written to a publisher.
THEOREM BrokerOutlives == Spec => []OnlySubscribersEndBroker
<1>1. Init => OnlySubscribersEndBroker
  BY DEF Init, OnlySubscribersEndBroker
<1>2. LinkInv /\ OnlySubscribersEndBroker /\ [Next]_vars => OnlySubscribersEndBroker'
  <2> SUFFICES ASSUME LinkInv, OnlySubscribersEndBroker, [Next]_vars, killed'
               PROVE  client' = "dead" \/ kind' = "subscriber"
    BY DEF OnlySubscribersEndBroker
  <2>1. UNCHANGED kind
    BY KindStays
  <2>2. TypeOK /\ WorkerEnd /\ ClientEnd /\ AnswerFirst /\ CEnd \in Modes
    BY PipeParts DEF LinkInv, TypeOK
  <2>3. CASE killed
    <3>1. UNCHANGED vars
      BY <2>3 DEF Next
    <3> QED
      BY <2>1, <2>3, <3>1 DEF OnlySubscribersEndBroker, vars
  <2>4. CASE ~killed
    <3>1. BrokerDies
      <4> SUFFICES ASSUME ~BrokerDies PROVE killed' = killed
        BY <2>4
      <4>1. CASE UNCHANGED vars
        BY <4>1 DEF vars
      <4>2. CASE BrokerStep
        BY <4>2, Zenon DEF BrokerStep, rest, BrokerOpen, BrokerAnswer, BrokerClose, BrokerReopen,
           PubRead, PubEnd, BrokerUnlink, SubScan, SubProbe, BrokerSend
      <4>3. CASE ClientStep
        BY <4>3, Zenon DEF ClientStep, rest, ClientOpen, ClientReply, ClientClose, ClientRefused,
           ClientReopen, PubProbe, PubWrite, PubDies, ClientUnlink, SubRead, SubClientProbe
      <4>4. CASE PubInput \/ Interrupt \/ RemoveBox \/ Crash
        BY <4>4, Zenon DEF rest, PubInput, Interrupt, RemoveBox, Crash
      <4> QED
        BY <4>1, <4>2, <4>3, <4>4 DEF Next
    <3>2. /\ worker \in {"answer", "send"} /\ BEnd = "W" /\ CEnd \notin {"R", "waits_R"}
          /\ client' = client
      BY <3>1 DEF BrokerDies, NoReader, ReadsOrWaits, BEnd, CEnd, Peer
    <3>3. CASE worker = "answer"
      BY <2>2, <3>2, <3>3 DEF AnswerFirst, WorkerEnd, ClientEnd
    <3>4. CASE worker = "send"
      BY <2>1, <2>2, <3>4 DEF WorkerEnd
    <3> QED
      BY <3>2, <3>3, <3>4
  <2> QED
    BY <2>3, <2>4
<1> QED
  BY <1>1, <1>2, Invariance, PTL DEF Spec
=============================================================================
