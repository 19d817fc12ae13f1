------------------------------ MODULE Delivery ------------------------------
(***************************************************************************)
(* mbroker/mbroker.c: the sessions of one box once they are linked.  The   *)
(* loop of start_publisher appends each message, ended by a zero byte, to  *)
(* the box's file; the loop of start_subscriber reads the file from its    *)
(* beginning again and again, one byte a call, looking for the message     *)
(* after those it has sent.                                                *)
(*                                                                         *)
(* The file is what FileStore promises of it.  remove_box takes no lock of *)
(* the box, so the file may be removed at any step; sessions that have it  *)
(* open go on with its bytes.  The counters of the box are not kept here.  *)
(***************************************************************************)
EXTENDS Integers, Sequences, SequencesExt

CONSTANTS
  Publishers, Subscribers,  \* the sessions
  Chars, Nul,               \* the bytes of messages, and the one that ends them
  Messages,                 \* the lines a publisher may send
  BLOCK_SIZE,               \* the longest a file can be
  OldSize,                  \* what boxes[box_index].size was before the box
  TablesFill,               \* whether TecnicoFS may have no handle or block left
  NoOne                     \* holds a lock that is free

ASSUME DeliveryAssumption ==
  /\ Publishers \cap Subscribers = {}
  /\ NoOne \notin Publishers \cup Subscribers
  /\ Nul \notin Chars /\ Messages \subseteq Seq(Chars)
  /\ BLOCK_SIZE \in Nat \ {0} /\ OldSize \in Nat
  /\ TablesFill \in BOOLEAN

VARIABLES
  file, exists,     \* the bytes of the box's file; whether it is in the directory
  size,             \* boxes[box_index].size
  lock,             \* who holds boxes[box_index].lock
  pc,
  message,          \* of a publisher: the line it has read,
  offset, bytes_written, \* the offset of its handle, what tfs_write returned
  bytes_processed,  \* of a subscriber, as are those that follow
  buffer, count, bytes_read,
  client,           \* the subscriber's program: "here", "closed" or "gone"
  killed,           \* SIGPIPE has ended the broker
  ends,             \* ghost: the offset after each complete message of the file
  received          \* ghost: what each subscriber has been sent

box == <<file, exists, size>>
publisherVars == <<message, offset, bytes_written>>
subscriberVars == <<bytes_processed, buffer, count, bytes_read>>
ghosts == <<ends, received>>
vars == <<box, lock, pc, publisherVars, subscriberVars, client, killed, ghosts>>

Sessions == Publishers \cup Subscribers
Least(m, n) == IF m <= n THEN m ELSE n
Goto(s, here, there) == pc[s] = here /\ pc' = [pc EXCEPT ![s] = there]

\* create_box leaves the slot's size as the box before it, if any, left it.
Init ==
  /\ file = <<>> /\ exists = TRUE /\ size = OldSize
  /\ lock = NoOne
  /\ pc = [s \in Sessions |-> "ended"]
  /\ message = [p \in Publishers |-> <<>>]
  /\ offset = [p \in Publishers |-> 0]
  /\ bytes_written = [p \in Publishers |-> 0]
  /\ bytes_processed = [s \in Subscribers |-> 0]
  /\ buffer = [s \in Subscribers |-> <<>>]
  /\ count = [s \in Subscribers |-> 0]
  /\ bytes_read = [s \in Subscribers |-> 0]
  /\ client = [s \in Subscribers |-> "here"]
  /\ killed = FALSE
  /\ ends = <<>>
  /\ received = [s \in Subscribers |-> <<>>]

\* tfs_open finds no file, or no free entry for a handle.
OpenFails == ~exists \/ TablesFill

-----------------------------------------------------------------------------
(* start_publisher *)

\* What is local to one turn of the loop is cleared when the turn is over.
Forget(p) == /\ message' = [message EXCEPT ![p] = <<>>]
             /\ offset' = [offset EXCEPT ![p] = 0]

PubStart(p) ==
  /\ exists /\ Goto(p, "ended", "read")
  /\ UNCHANGED <<box, lock, publisherVars, subscriberVars, client, killed, ghosts>>

\* A message, or end of file, or an error.
PubRead(p) ==
  /\ \/ /\ Goto(p, "read", "open")
        /\ \E m \in Messages : message' = [message EXCEPT ![p] = m]
     \/ Goto(p, "read", "ended") /\ UNCHANGED message
  /\ UNCHANGED <<box, lock, offset, bytes_written, subscriberVars, client, killed, ghosts>>

\* Mutant: the file is opened before the box is locked.
PubOpen_Unlocked(p) ==
  /\ exists
  /\ Goto(p, "open", "write")
  /\ lock' = IF lock = NoOne THEN p ELSE lock
  /\ offset' = [offset EXCEPT ![p] = Len(file)]
  /\ UNCHANGED <<box, message, bytes_written, subscriberVars, client, killed, ghosts>>

\* Locks the box and opens its file; nothing comes between the two but a
\* removal, which may as well come before.
PubOpen(p) ==
  /\ lock = NoOne
  /\ \/ /\ exists
        /\ Goto(p, "open", "write")
        /\ lock' = p
        /\ offset' = [offset EXCEPT ![p] = Len(file)]
        /\ UNCHANGED message
     \/ OpenFails /\ Goto(p, "open", "ended") /\ Forget(p) /\ UNCHANGED lock
  /\ UNCHANGED <<box, bytes_written, subscriberVars, client, killed, ghosts>>

\* What tfs_write leaves of a file when data is written offset bytes into it.
Overwrite(content, start, data) ==
  SubSeq(content, 1, start) \o data \o SubSeq(content, start + Len(data) + 1, Len(content))

\* Mutant: only the offset is compared with the block's size.
PubWrite_NoLimit(p) ==
  LET line == Append(message[p], Nul)
  IN /\ offset[p] < BLOCK_SIZE
     /\ Goto(p, "write", "close")
     /\ file' = Overwrite(file, offset[p], line)
     /\ bytes_written' = [bytes_written EXCEPT ![p] = Len(line)]
     /\ ends' = Append(ends, offset[p] + Len(line))
     /\ UNCHANGED <<exists, size, lock, message, offset, subscriberVars, client,
                    killed, received>>

\* tfs_write of the line and its zero byte: what does not fit is left out.
PubWrite(p) ==
  LET line == Append(message[p], Nul)
      n == Least(Len(line), BLOCK_SIZE - offset[p])
  IN /\ n > 0
     /\ Goto(p, "write", "close")
     /\ file' = Overwrite(file, offset[p], SubSeq(line, 1, n))
     /\ bytes_written' = [bytes_written EXCEPT ![p] = n]
     /\ ends' = IF n = Len(line) THEN Append(ends, offset[p] + n) ELSE ends
     /\ UNCHANGED <<exists, size, lock, message, offset, subscriberVars, client,
                    killed, received>>

\* The block is full, or there is none for the first byte: the session ends.
PubWriteFails(p) ==
  /\ offset[p] = BLOCK_SIZE \/ (TablesFill /\ file = <<>>)
  /\ Goto(p, "write", "ended")
  /\ lock' = NoOne /\ Forget(p)
  /\ UNCHANGED <<box, bytes_written, subscriberVars, client, killed, ghosts>>

\* Mutant: the box grows by what was to be written.
PubClose_AddsAll(p) ==
  /\ Goto(p, "close", "read")
  /\ size' = size + Len(message[p]) + 1
  /\ lock' = NoOne /\ Forget(p)
  /\ bytes_written' = [bytes_written EXCEPT ![p] = 0]
  /\ UNCHANGED <<file, exists, subscriberVars, client, killed, ghosts>>

PubClose(p) ==
  /\ Goto(p, "close", "read")
  /\ size' = size + bytes_written[p]
  /\ lock' = NoOne /\ Forget(p)
  /\ bytes_written' = [bytes_written EXCEPT ![p] = 0]
  /\ UNCHANGED <<file, exists, subscriberVars, client, killed, ghosts>>

-----------------------------------------------------------------------------
(* start_subscriber *)

SubStart(s) ==
  /\ exists /\ Goto(s, "ended", "open")
  /\ UNCHANGED <<box, lock, publisherVars, subscriberVars, client, killed, ghosts>>

\* The locals of a session that is over, and its client.
SubEnd(s) ==
  /\ bytes_processed' = [bytes_processed EXCEPT ![s] = 0]
  /\ client' = [client EXCEPT ![s] = "here"]
  /\ received' = [received EXCEPT ![s] = <<>>]

\* Mutant: the file is scanned without the box's lock.
SubOpen_Unlocked(s) ==
  /\ exists
  /\ Goto(s, "open", "scan")
  /\ UNCHANGED <<box, lock, publisherVars, subscriberVars, client, killed, ghosts>>

\* Locks the box and opens its file from the beginning.
SubOpen(s) ==
  /\ lock = NoOne
  /\ \/ /\ exists
        /\ Goto(s, "open", "scan")
        /\ lock' = s
        /\ UNCHANGED <<bytes_processed, client, received>>
     \/ OpenFails /\ Goto(s, "open", "ended") /\ SubEnd(s) /\ UNCHANGED lock
  /\ UNCHANGED <<box, publisherVars, buffer, count, bytes_read, killed, ends>>

\* The read that meets the end of the file is counted like the others.
ScanEnd(s) ==
  /\ count[s] = Len(file)
  /\ Goto(s, "scan", "probe")
  /\ count' = [count EXCEPT ![s] = @ + 1]
  /\ bytes_read' = [bytes_read EXCEPT ![s] = 0]
  /\ bytes_processed' = [bytes_processed EXCEPT ![s] = count'[s]]
  /\ UNCHANGED <<box, lock, publisherVars, buffer, client, killed, ghosts>>

\* Mutant: a byte is taken only past the count of the last scan.
ScanByte_Strict(s) ==
  LET n == count[s] + 1
      aux_char == file[n]
      found == aux_char = Nul /\ bytes_processed[s] < n
  IN /\ count[s] < Len(file)
     /\ Goto(s, "scan", IF found THEN "probe" ELSE "scan")
     /\ count' = [count EXCEPT ![s] = n]
     /\ bytes_read' = [bytes_read EXCEPT ![s] = 1]
     /\ buffer' = [buffer EXCEPT ![s] = IF bytes_processed[s] < n /\ aux_char # Nul
                                          THEN Append(@, aux_char) ELSE @]
     /\ bytes_processed' = [bytes_processed EXCEPT ![s] = IF found THEN n ELSE @]
     /\ UNCHANGED <<box, lock, publisherVars, client, killed, ghosts>>

\* One turn of the scan: bytes before the count of the last scan are passed
\* over, a zero byte after it ends the message.
ScanByte(s) ==
  LET n == count[s] + 1
      aux_char == file[n]
      found == aux_char = Nul /\ bytes_processed[s] < n
  IN /\ count[s] < Len(file)
     /\ Goto(s, "scan", IF found THEN "probe" ELSE "scan")
     /\ count' = [count EXCEPT ![s] = n]
     /\ bytes_read' = [bytes_read EXCEPT ![s] = 1]
     /\ buffer' = [buffer EXCEPT ![s] = IF bytes_processed[s] <= n /\ aux_char # Nul
                                          THEN Append(@, aux_char) ELSE @]
     /\ bytes_processed' = [bytes_processed EXCEPT ![s] = IF found THEN n ELSE @]
     /\ UNCHANGED <<box, lock, publisherVars, client, killed, ghosts>>

\* Mutant: the box is unlocked only when there is a message to send.
SubProbe_KeepsLock(s) ==
  LET sends == client[s] # "gone" /\ bytes_read[s] > 0
  IN /\ \/ client[s] = "gone" /\ Goto(s, "probe", "ended") /\ SubEnd(s)
        \/ /\ client[s] # "gone" /\ Goto(s, "probe", IF sends THEN "send" ELSE "open")
           /\ UNCHANGED <<bytes_processed, client, received>>
     /\ lock' = IF sends THEN NoOne ELSE lock
     /\ buffer' = [buffer EXCEPT ![s] = IF sends THEN @ ELSE <<>>]
     /\ count' = [count EXCEPT ![s] = 0]
     /\ bytes_read' = [bytes_read EXCEPT ![s] = 0]
     /\ UNCHANGED <<box, publisherVars, killed, ends>>

\* mkfifo succeeds if the client has removed its pipe.  A message is sent after
\* the unlock; what was gathered before the end of the file is dropped.
SubProbe(s) ==
  LET sends == client[s] # "gone" /\ bytes_read[s] > 0
  IN /\ \/ client[s] = "gone" /\ Goto(s, "probe", "ended") /\ SubEnd(s)
        \/ /\ client[s] # "gone" /\ Goto(s, "probe", IF sends THEN "send" ELSE "open")
           /\ UNCHANGED <<bytes_processed, client, received>>
     /\ lock' = NoOne
     /\ buffer' = [buffer EXCEPT ![s] = IF sends THEN @ ELSE <<>>]
     /\ count' = [count EXCEPT ![s] = 0]
     /\ bytes_read' = [bytes_read EXCEPT ![s] = 0]
     /\ UNCHANGED <<box, publisherVars, killed, ends>>

\* Writing to a pipe nobody reads raises SIGPIPE.
SubSend(s) ==
  /\ IF client[s] = "here"
       THEN /\ Goto(s, "send", "open")
            /\ received' = [received EXCEPT ![s] = Append(@, buffer[s])]
            /\ buffer' = [buffer EXCEPT ![s] = <<>>]
            /\ UNCHANGED killed
       ELSE pc[s] = "send" /\ killed' = TRUE /\ UNCHANGED <<pc, received, buffer>>
  /\ UNCHANGED <<box, lock, publisherVars, bytes_processed, count, bytes_read,
                 client, ends>>

-----------------------------------------------------------------------------
(* Others *)

\* The subscriber's program ends: it closes its pipe and then removes it.
Leave(s) ==
  /\ pc[s] # "ended" /\ client[s] # "gone"
  /\ client' = [client EXCEPT ![s] = IF @ = "here" THEN "closed" ELSE "gone"]
  /\ UNCHANGED <<box, lock, pc, publisherVars, subscriberVars, killed, ghosts>>

\* remove_box, in a session of its own.
RemoveBox ==
  /\ exists /\ exists' = FALSE
  /\ UNCHANGED <<file, size, lock, pc, publisherVars, subscriberVars, client, killed,
                 ghosts>>

-----------------------------------------------------------------------------
PubWorks(p) == PubWrite(p) \/ PubWriteFails(p) \/ PubClose(p)
SubWorks(s) == ScanEnd(s) \/ ScanByte(s) \/ SubProbe(s) \/ SubSend(s)

PublisherStep(p) == PubStart(p) \/ PubRead(p) \/ PubOpen(p) \/ PubWorks(p)
SubscriberStep(s) == SubStart(s) \/ SubOpen(s) \/ SubWorks(s) \/ Leave(s)

Next == /\ ~killed
        /\ \/ \E p \in Publishers : PublisherStep(p)
           \/ \E s \in Subscribers : SubscriberStep(s)
           \/ RemoveBox

Spec == Init /\ [][Next]_vars

\* A session that can run does.  Sessions that take and free the box's lock all
\* the time do not keep another one from it for ever.  Nobody need send a
\* message, join or leave.
FairSpec ==
  /\ Spec
  /\ WF_vars(~killed /\ \E p \in Publishers : PubWorks(p))
  /\ \A s \in Subscribers :
       WF_vars(~killed /\ SubWorks(s)) /\ SF_vars(~killed /\ SubOpen(s))

-----------------------------------------------------------------------------
(* Properties *)

\* Every variable stays in its range.
TypeOK ==
  /\ file \in Seq(Chars \cup {Nul}) /\ Len(file) <= BLOCK_SIZE
  /\ exists \in BOOLEAN /\ size \in Nat
  /\ lock \in Sessions \cup {NoOne}
  /\ pc \in [Sessions -> {"ended", "read", "open", "write", "close", "scan", "probe",
                          "send"}]
  /\ message \in [Publishers -> Messages \cup {<<>>}]
  /\ offset \in [Publishers -> 0 .. BLOCK_SIZE]
  /\ bytes_written \in [Publishers -> 0 .. BLOCK_SIZE]
  /\ bytes_processed \in [Subscribers -> 0 .. BLOCK_SIZE + 1]
  /\ buffer \in [Subscribers -> Seq(Chars)]
  /\ count \in [Subscribers -> 0 .. BLOCK_SIZE + 1]
  /\ bytes_read \in [Subscribers -> {0, 1}]
  /\ client \in [Subscribers -> {"here", "closed", "gone"}]
  /\ killed \in BOOLEAN
  /\ ends \in Seq(1 .. BLOCK_SIZE)
  /\ received \in [Subscribers -> Seq(Seq(Chars))]

\* A scan sees a file nobody is writing: while a subscriber is in its scan no
\* publisher is between its tfs_open and its last update of the box.
ScansSeeWholeLines ==
  \A s \in Subscribers, p \in Publishers :
    pc[s] = "scan" => pc[p] \notin {"write", "close"}

\* Publishers linked to the same box append: no message overwrites another,
\* although each finds the end of the file with a call of its own.
BoxOnlyGrows == [][IsPrefix(file, file')]_file

\* Whenever the box is not locked its size has grown by what the file has, each
\* publisher's bytes counted once.  It is the file's size only in a slot that no
\* box with messages has used: nothing ever sets it back.
SizeFollowsFile == lock = NoOne => size = OldSize + Len(file)

\* The lines stored whole, and without the empty ones, which a subscriber that
\* has seen the end of the file passes over.
Line(k) == SubSeq(file, IF k = 1 THEN 1 ELSE ends[k - 1] + 1, ends[k] - 1)
Full(lines) ==
  LET upTo[k \in 0 .. Len(lines)] ==
        IF k = 0 THEN <<>>
        ELSE IF lines[k] = <<>> THEN upTo[k - 1] ELSE Append(upTo[k - 1], lines[k])
  IN upTo[Len(lines)]

Stored == Full([k \in DOMAIN ends |-> Line(k)])

Log == INSTANCE MessageLog WITH
  log <- Stored,
  received <- [s \in Subscribers |-> Full(received[s])]

\* Each subscriber is sent each message stored whole once, in order, whether it
\* was published before it came, while it scanned or between two scans.
ImplementsMessageLog == Log!Spec

\* A subscriber catches up with the box: whatever is stored whole by then is
\* sent to it, unless its session ends or the broker does.
EveryMessageArrives ==
  \A s \in Subscribers :
    pc[s] # "ended" ~> (Full(received[s]) = Stored \/ pc[s] = "ended" \/ killed)
=============================================================================
