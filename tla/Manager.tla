------------------------------ MODULE Manager ------------------------------
(***************************************************************************)
(* manager/manager.c from its open of its pipe on, with the session of     *)
(* mbroker/mbroker.c that answers it.  The session opens the pipe, writes  *)
(* an answer field by field and closes it again, once for a create or a    *)
(* remove ("code") and once for each box of a list ("list").  A turn of    *)
(* the manager's loop is one read for each field, of which only the last   *)
(* one's result is looked at.                                              *)
(*                                                                         *)
(* A byte is the number of its place among all the bytes of the answers:   *)
(* what matters of it is which answer and which field it belongs to.       *)
(***************************************************************************)
EXTENDS Integers, Sequences, Functions, Fifo, BoxList

CONSTANTS
  Kinds,       \* "code", "list" or both
  Begins,      \* of each kind: where the fields of an answer begin, and its end
  Lists,       \* the answers of list_boxes: the names, each a number
  PIPE_SIZE,   \* how many bytes the pipe holds
  Crashes,     \* whether a manager may be killed
  CHUNK        \* by how much the manager's array of boxes grows

\* The fields of an answer that are looked at: last and name of a box.
LAST == 3
NAME == 5

NoBoxes == <<0>>  \* the answer without a name, of a table without boxes

ASSUME ManagerAssumption ==
  /\ Kinds \subseteq {"code", "list"}
  /\ \A k \in Kinds :
       /\ Begins[k] \in Seq(Nat) /\ Len(Begins[k]) > NAME /\ Begins[k][1] = 0
       /\ \A f, g \in DOMAIN Begins[k] : f < g => Begins[k][f] < Begins[k][g]
       /\ \A f \in 1 .. Len(Begins[k]) - 1 : Begins[k][f + 1] - Begins[k][f] <= PIPE_SIZE
       /\ Begins[k][NAME] <= PIPE_SIZE
  /\ Lists \subseteq (Seq(Nat \ {0}) \ {<<>>}) \cup {NoBoxes}
  /\ PIPE_SIZE \in Nat /\ CHUNK \in Nat \ {0}
  /\ Crashes \in BOOLEAN

VARIABLES
  kind,        \* of the request
  script,      \* the names to be sent, one an answer; one answer to a "code"
  pipe,        \* the manager's named pipe
  worker,      \* where the session is
  sent, field, \* how many answers have been, or were passed over; the next field
  client,      \* where the manager is
  reading,     \* the field its next read is for
  entry,       \* the locals its reads fill, by field
  bytes_read,  \* what its last read returned
  received,    \* the entry of each turn gone round: a list keeps them in boxes
  allocated,   \* the length of boxes
  outcome,     \* "printed", or "none" for NO BOXES FOUND
  step,        \* ghost: "in" step, at the "end" of the file, or "out" of step
  killed       \* SIGPIPE has ended the broker

brokerVars == <<worker, sent, field>>
results == <<received, allocated, outcome>>
managerVars == <<client, reading, entry, bytes_read, results, step>>
vars == <<kind, script, pipe, brokerVars, managerVars, killed>>

At == Begins[kind]
FieldCount == Len(At) - 1
Fields == 1 .. FieldCount
Width(f) == At[f + 1] - At[f]
Length == At[Len(At)]

\* The numbers of n bytes after the first so many, and of the a-th answer.
Bytes(first, n) == [i \in 1 .. n |-> first + i]
Answer(a) == [f \in Fields |-> Bytes((a - 1) * Length + At[f], Width(f))]

Least(m, n) == IF m <= n THEN m ELSE n

Init ==
  /\ kind \in Kinds
  /\ script \in IF kind = "list" THEN Lists ELSE {NoBoxes}
  /\ pipe = Mkfifo
  /\ worker = "start" /\ sent = 0 /\ field = 1
  /\ client = "start" /\ reading = 1
  /\ entry = [f \in Fields |-> [i \in 1 .. Width(f) |-> 0]]
  /\ bytes_read = 0
  /\ received = <<>> /\ allocated = 0 /\ outcome = "waits"
  /\ step = "in"
  /\ killed = FALSE

WorkerGoes(here, there) == worker = here /\ worker' = there
ClientGoes(here, there) == client = here /\ client' = there

-----------------------------------------------------------------------------
(* send_message_manager, send_box_manager and the loop of list_boxes *)

\* A path that is gone passes the answer over.
BrokerOpen ==
  /\ IF pipe.path
       THEN /\ WorkerGoes("start", "write")
            /\ pipe' = OpenWrite(pipe, "broker")
            /\ UNCHANGED sent
       ELSE /\ WorkerGoes("start", IF sent + 1 < Len(script) THEN "start" ELSE "ended")
            /\ sent' = sent + 1
            /\ UNCHANGED pipe
  /\ UNCHANGED <<kind, script, field, managerVars, killed>>

\* One write for each field, but for the first four of a box.
NextField == IF kind = "list" /\ field = 1 THEN NAME ELSE field + 1

BrokerWrite ==
  LET n == At[NextField] - At[field]
  IN /\ WorkerGoes("write", IF NextField \in Fields THEN "write" ELSE "close")
     /\ HasRoomFor(pipe, "broker", n, PIPE_SIZE)
     /\ pipe' = WriteAll(pipe, Bytes(sent * Length + At[field], n))
     /\ field' = NextField
     /\ UNCHANGED <<kind, script, sent, managerVars, killed>>

\* SIGPIPE: the manager has gone.
BrokerDies ==
  /\ worker = "write" /\ NoReader(pipe, "broker")
  /\ killed' = TRUE
  /\ UNCHANGED <<kind, script, pipe, brokerVars, managerVars>>

\* Mutant: the pipe is left open.
BrokerClose_Open ==
  /\ WorkerGoes("close", IF sent + 1 < Len(script) THEN "start" ELSE "ended")
  /\ sent' = sent + 1 /\ field' = 1
  /\ UNCHANGED <<kind, script, pipe, managerVars, killed>>

BrokerClose ==
  /\ WorkerGoes("close", IF sent + 1 < Len(script) THEN "start" ELSE "ended")
  /\ pipe' = Close(pipe, "broker")
  /\ sent' = sent + 1 /\ field' = 1
  /\ UNCHANGED <<kind, script, managerVars, killed>>

-----------------------------------------------------------------------------
(* manager.c *)

ManagerOpen ==
  /\ ClientGoes("start", "read")
  /\ pipe' = OpenRead(pipe, "client")
  /\ allocated' = IF kind = "list" THEN CHUNK ELSE 0
  /\ UNCHANGED <<kind, script, brokerVars, reading, entry, bytes_read, received,
                 outcome, step, killed>>

\* What a read leaves of a local it does not fill.
Overlay(old, bytes, n) == [i \in DOMAIN old |-> IF i <= n THEN bytes[i] ELSE old[i]]

\* Data after the end of the file, in one turn, is read into the wrong locals.
StepAfter(n) ==
  IF n = 0 /\ step = "in" THEN "end"
  ELSE IF n > 0 /\ step = "end" THEN "out" ELSE step

\* One of the reads of a turn: as many bytes as there are for its field, or
\* none at the end of the file, and the turn goes on.
ManagerRead ==
  LET n == Least(Width(reading), Len(pipe.buffer))
  IN /\ client = "read" /\ reading \in Fields
     /\ HasData(pipe, "client") \/ AtEnd(pipe, "client")
     /\ pipe' = ReadSome(pipe, n)
     /\ entry' = [entry EXCEPT ![reading] = Overlay(@, pipe.buffer, n)]
     /\ bytes_read' = n
     /\ reading' = reading + 1
     /\ step' = StepAfter(n)
     /\ UNCHANGED <<kind, script, brokerVars, client, results, killed>>

TurnIsOver == client = "read" /\ reading = FieldCount + 1

\* The answer a local holds the first byte of, if it is in its own field.
From(f) == {a \in DOMAIN script : entry[f][1] = Answer(a)[f][1]}

\* What last == '1' and name[0] == '\0' can be: any byte is in the place of
\* another when the entry is out of step.
LastIsOne ==
  IF From(LAST) = {} THEN BOOLEAN ELSE {a = Len(script) : a \in From(LAST)}
NameIsEmpty ==
  IF From(NAME) = {} THEN BOOLEAN ELSE {script[a] = 0 : a \in From(NAME)}

\* The last read gave something: there is another turn.  A list counts the box.
ManagerCollect ==
  LET found == Append(received, entry)
  IN /\ TurnIsOver /\ bytes_read > 0
     /\ kind = "list" => FALSE \in LastIsOne \cup NameIsEmpty
     /\ reading' = 1
     /\ received' = found
     /\ allocated' = IF kind = "list" THEN Grown(Len(found), allocated, CHUNK) ELSE 0
     /\ UNCHANGED <<kind, script, pipe, brokerVars, client, entry, bytes_read, outcome,
                    step, killed>>

\* Mutant: the name is looked at as soon as it has been read.
ManagerNone_Early ==
  /\ client = "read" /\ reading = NAME + 1 /\ bytes_read > 0
  /\ kind = "list" /\ TRUE \in LastIsOne /\ TRUE \in NameIsEmpty
  /\ client' = "unlink" /\ outcome' = "none"
  /\ UNCHANGED <<kind, script, pipe, brokerVars, reading, entry, bytes_read, received,
                 allocated, step, killed>>

\* NO BOXES FOUND.
ManagerNone ==
  /\ TurnIsOver /\ bytes_read > 0
  /\ kind = "list" /\ TRUE \in LastIsOne /\ TRUE \in NameIsEmpty
  /\ client' = "unlink" /\ outcome' = "none"
  /\ UNCHANGED <<kind, script, pipe, brokerVars, reading, entry, bytes_read, received,
                 allocated, step, killed>>

\* strcpy of a name put together from several fields may find no end of it.
ManagerOverruns ==
  /\ TurnIsOver /\ bytes_read > 0
  /\ kind = "list" /\ \A a \in DOMAIN script : entry[NAME] # Answer(a)[NAME]
  /\ client' = "dead"
  /\ pipe' = Close(pipe, "client")
  /\ UNCHANGED <<kind, script, brokerVars, reading, entry, bytes_read, results, step,
                 killed>>

\* The last read met the end of the file: what has come is printed.
ManagerPrint ==
  /\ TurnIsOver /\ bytes_read = 0
  /\ client' = "unlink" /\ outcome' = "printed"
  /\ UNCHANGED <<kind, script, pipe, brokerVars, reading, entry, bytes_read, received,
                 allocated, step, killed>>

\* A name that is no box's counts as the empty one.
NameOf(e) ==
  IF \E a \in DOMAIN script : e[NAME] = Answer(a)[NAME]
    THEN script[CHOOSE a \in DOMAIN script : e[NAME] = Answer(a)[NAME]] ELSE 0

\* The names a list prints, in the order it prints them.
Printed == bubbleSort([k \in DOMAIN received |-> NameOf(received[k])])

\* Mutant: the path is left there.
ManagerUnlink_Left ==
  /\ ClientGoes("unlink", "exit")
  /\ UNCHANGED <<kind, script, pipe, brokerVars, reading, entry, bytes_read, results,
                 step, killed>>

ManagerUnlink ==
  /\ ClientGoes("unlink", "exit")
  /\ pipe' = Unlink(pipe)
  /\ UNCHANGED <<kind, script, brokerVars, reading, entry, bytes_read, results, step,
                 killed>>

ManagerExit ==
  /\ ClientGoes("exit", "ended")
  /\ pipe' = Close(pipe, "client")
  /\ UNCHANGED <<kind, script, brokerVars, reading, entry, bytes_read, results, step,
                 killed>>

\* The manager is killed: its pipe is closed and stays.
Crash ==
  /\ Crashes /\ client \notin {"ended", "dead"}
  /\ client' = "dead"
  /\ pipe' = Close(pipe, "client")
  /\ UNCHANGED <<kind, script, brokerVars, reading, entry, bytes_read, results, step,
                 killed>>

-----------------------------------------------------------------------------
BrokerStep == BrokerOpen \/ BrokerWrite \/ BrokerDies \/ BrokerClose

ManagerStep ==
  \/ ManagerOpen \/ ManagerRead \/ ManagerCollect \/ ManagerNone \/ ManagerPrint
  \/ ManagerUnlink \/ ManagerExit

Next == ~killed /\ (BrokerStep \/ ManagerStep \/ ManagerOverruns \/ Crash)

Spec == Init /\ [][Next]_vars

\* The session and the manager go on when they can.
FairSpec == Spec /\ WF_vars(~killed /\ BrokerStep) /\ WF_vars(~killed /\ ManagerStep)

-----------------------------------------------------------------------------
(* Properties *)

ManagerOver == client \in {"ended", "dead"}

\* Every variable stays in its range: a read never fills more than its local.
TypeOK ==
  /\ kind \in Kinds /\ script \in Lists \cup {NoBoxes}
  /\ pipe.path \in BOOLEAN /\ pipe.end \in [Ends -> Modes] /\ pipe.buffer \in Seq(Nat)
  /\ worker \in {"start", "write", "close", "ended"}
  /\ sent \in 0 .. Len(script) /\ field \in 1 .. FieldCount + 1
  /\ client \in {"start", "read", "unlink", "exit", "ended", "dead"}
  /\ reading \in 1 .. FieldCount + 1
  /\ DOMAIN entry = Fields /\ \A f \in Fields : entry[f] \in [1 .. Width(f) -> Nat]
  /\ bytes_read \in Nat /\ allocated \in Nat
  /\ outcome \in {"waits", "printed", "none"} /\ step \in {"in", "end", "out"}
  /\ killed \in BOOLEAN

\* Names in their order, and the same names in another order.
Ordered(names) == \A i, j \in DOMAIN names : i < j => names[i] <= names[j]
SameNames(names, others) ==
  /\ DOMAIN names = DOMAIN others
  /\ \E from \in Injection(DOMAIN names, DOMAIN others) :
       \A i \in DOMAIN names : names[i] = others[from[i]]

\* A manager stores no box past its array.  Its reads get out of step with the
\* answers only in a list of more than one box, where the session closes the pipe
\* between two boxes; while they have not, a create or a remove prints the whole
\* answer it was sent, and a list prints, in order, boxes it was sent whole,
\* the first ones of the answer, or says that there are none if there are none.
ManagerPrintsAnswer ==
  /\ kind = "list" => Len(received) <= allocated
  /\ step = "out" => kind = "list" /\ Len(script) > 1
  /\ outcome = "printed" /\ step # "out" =>
       /\ kind = "code" => entry = Answer(1)
       /\ received # <<>> /\ Len(received) <= Len(script)
       /\ \A k \in DOMAIN received : received[k] = Answer(k)
       /\ Ordered(Printed) /\ SameNames(Printed, SubSeq(script, 1, Len(received)))
  /\ outcome = "none" /\ step # "out" => script = NoBoxes

\* SIGPIPE ends the broker only when it answers a manager that was killed, or one
\* that lists more than one box: no create or remove does, and no list of one.
OnlyLongListsEndBroker == killed => client = "dead" \/ Len(script) > 1

\* A manager gets an answer, in step or not, and ends.
ManagerEnds == <>(ManagerOver \/ killed)

\* The session that answers a manager comes to its end, unless that is killed.
AnswersEnd == <>(worker = "ended" \/ killed \/ client = "dead")
=============================================================================
