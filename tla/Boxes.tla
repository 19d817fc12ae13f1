------------------------------- MODULE Boxes -------------------------------
(***************************************************************************)
(* mbroker/mbroker.c: the table of boxes and what every session does to it *)
(* without a lock.  Publishers and subscribers look a box up in the file   *)
(* system, search the table for its slot, and count themselves in and out; *)
(* managers create, remove and list boxes.  A counter is read and written  *)
(* in two steps.  A name is compared and copied in one: a search that meets*)
(* half a copy finds no match, as before it, or no empty slot, as after.   *)
(*                                                                         *)
(* What goes through a linked session is in Delivery, its pipe in Clients. *)
(***************************************************************************)
EXTENDS Integers, Sequences, FiniteSets

CONSTANTS
  Names, NoName,                      \* the boxes' names, and the empty one
  Publishers, Subscribers, Managers,  \* the sessions
  max_sessions,                       \* the workers, and the slots of the table
  MAX_OPEN_FILES,                     \* the file system's handles
  UINT64_MAX,                         \* what a counter at zero becomes
  MaxLost                             \* bound: sessions that end still counted

Clients == Publishers \cup Subscribers
Sessions == Clients \cup Managers
Slots == 0 .. max_sessions - 1

ASSUME BoxesAssumption ==
  /\ NoName \notin Names
  /\ MAX_OPEN_FILES \in Nat /\ UINT64_MAX \in Nat
  /\ max_sessions \in 1 .. UINT64_MAX \* an int
  /\ Publishers \cap Subscribers = {} /\ Clients \cap Managers = {}
  /\ MaxLost \in 0 .. UINT64_MAX - 2

VARIABLES
  files,      \* the names in the file system's directory
  n_boxes, boxes,
  pc, box_name,
  index,      \* box_index of a client, i of a manager's loops
  counter,    \* what a session has read of a counter it is to write
  count,      \* of list_boxes
  answer      \* what a list has sent: pairs of last and name

table == <<n_boxes, boxes>>
vars == <<files, table, pc, box_name, index, counter, count, answer>>

Init ==
  /\ files = {}
  /\ n_boxes = 0
  /\ boxes = [k \in Slots |-> [name |-> NoName, n_publishers |-> 0, n_subscribers |-> 0]]
  /\ pc = [s \in Sessions |-> "idle"]
  /\ box_name = [s \in Sessions |-> NoName]
  /\ index = [s \in Sessions |-> 0]
  /\ counter = [s \in Sessions |-> 0]
  /\ count = [m \in Managers |-> 0]
  /\ answer = [m \in Managers |-> <<>>]

Goto(s, here, there) == pc[s] = here /\ pc' = [pc EXCEPT ![s] = there]

\* The session's stack frame is gone.
Forget(s) == /\ box_name' = [box_name EXCEPT ![s] = NoName]
             /\ index' = [index EXCEPT ![s] = 0]
             /\ counter' = [counter EXCEPT ![s] = 0]

End(s, here) == Goto(s, here, "idle") /\ Forget(s)

\* A session needs a worker of its own.
WorkerLeft == Cardinality({s \in Sessions : pc[s] # "idle"}) < max_sessions

\* It has one handle at a time: with as many handles as workers they last.
HandlesRunOut == max_sessions > MAX_OPEN_FILES
MayOpen(b) == b \in files
MayNotOpen(b) == b \notin files \/ HandlesRunOut

-----------------------------------------------------------------------------
(* start_publisher and start_subscriber *)

Kind(s) == IF s \in Publishers THEN "n_publishers" ELSE "n_subscribers"

\* Another session is leaving a removed box, whose lock it holds.
Locked(k) == \E s \in Clients : index[s] = k /\ pc[s] \in {"removed", "uncount_removed"}

\* register_entry up to the search: a client of a box that cannot be opened is
\* refused.
Start(s, b) ==
  /\ WorkerLeft /\ MayOpen(b)
  /\ Goto(s, "idle", "search")
  /\ box_name' = [box_name EXCEPT ![s] = b]
  /\ UNCHANGED <<files, table, index, counter, count, answer>>

\* One turn of the search for the slot; after the last the client is refused.
Search(s) ==
  /\ IF index[s] = max_sessions
       THEN End(s, "search")
       ELSE /\ IF boxes[index[s]].name = box_name[s]
                 THEN /\ Goto(s, "search", IF s \in Publishers THEN "test" ELSE "answer")
                      /\ UNCHANGED index
                 ELSE /\ pc[s] = "search" /\ UNCHANGED pc
                      /\ index' = [index EXCEPT ![s] = @ + 1]
            /\ UNCHANGED <<box_name, counter>>
  /\ UNCHANGED <<files, table, count, answer>>

\* The box is refused to a publisher while the counter is one.
Test(s) ==
  /\ pc[s] = "test"
  /\ IF boxes[index[s]].n_publishers = 1
       THEN End(s, "test")
       ELSE Goto(s, "test", "answer") /\ UNCHANGED <<box_name, index, counter>>
  /\ UNCHANGED <<files, table, count, answer>>

\* The counter is read, to be written in a step of its own.
Load(s, here, there) ==
  /\ Goto(s, here, there)
  /\ counter' = [counter EXCEPT ![s] = boxes[index[s]][Kind(s)]]
  /\ UNCHANGED <<files, table, box_name, index, count, answer>>

\* The client takes its answer, or has left.
Answer(s) ==
  \/ Load(s, "answer", "counted")
  \/ End(s, "answer") /\ UNCHANGED <<files, table, count, answer>>

Counted(s) ==
  /\ Goto(s, "counted", "linked")
  /\ boxes' = [boxes EXCEPT ![index[s]][Kind(s)] = counter[s] + 1]
  /\ counter' = [counter EXCEPT ![s] = 0]
  /\ UNCHANGED <<files, n_boxes, box_name, index, count, answer>>

\* The second open of the pipe fails, or tfs_write does: the session ends and
\* stays counted.
Abandon(s) ==
  /\ End(s, "linked")
  /\ boxes[index[s]][Kind(s)] <= MaxLost
  /\ UNCHANGED <<files, table, count, answer>>

\* The publisher's end of file, or the subscriber's pipe that is gone.
Leave(s) == Load(s, "linked", "uncount")

\* The file cannot be opened: the slot's lock is held up to the end.
BoxGone(s) ==
  /\ MayNotOpen(box_name[s]) /\ ~Locked(index[s])
  /\ Goto(s, "linked", "removed")
  /\ UNCHANGED <<files, table, box_name, index, counter, count, answer>>

UncountRemoved(s) == Load(s, "removed", "uncount_removed")

Uncount(s) ==
  /\ End(s, "uncount") \/ End(s, "uncount_removed")
  /\ boxes' = [boxes EXCEPT ![index[s]][Kind(s)] =
                 IF counter[s] = 0 THEN UINT64_MAX ELSE counter[s] - 1]
  /\ UNCHANGED <<files, n_boxes, count, answer>>

-----------------------------------------------------------------------------
(* create_box *)

\* Mutant: a box that exists is created again.
CreateStart_Again(m, b) ==
  /\ WorkerLeft
  /\ Goto(m, "idle", "creat")
  /\ box_name' = [box_name EXCEPT ![m] = b]
  /\ UNCHANGED <<files, table, index, counter, count, answer>>

\* A box that can be opened exists, and is refused.
CreateStart(m, b) ==
  /\ WorkerLeft /\ MayNotOpen(b)
  /\ Goto(m, "idle", "creat")
  /\ box_name' = [box_name EXCEPT ![m] = b]
  /\ UNCHANGED <<files, table, index, counter, count, answer>>

\* tfs_open with TFS_O_CREAT; without a handle the file it makes stays.
CreateFile(m) ==
  /\ \/ /\ Goto(m, "creat", "space")
        /\ files' = files \cup {box_name[m]}
        /\ UNCHANGED <<box_name, index, counter>>
     \/ /\ End(m, "creat")
        /\ files' \in {files} \cup (IF HandlesRunOut THEN {files \cup {box_name[m]}} ELSE {})
  /\ UNCHANGED <<table, count, answer>>

\* Mutant: the table is not tested for space.
CreateSpace_Untested(m) ==
  /\ Goto(m, "space", "find")
  /\ UNCHANGED <<files, table, box_name, index, counter, count, answer>>

\* Without a slot the box is refused, and its file stays.
CreateSpace(m) ==
  /\ IF n_boxes = max_sessions
       THEN End(m, "space")
       ELSE Goto(m, "space", "find") /\ UNCHANGED <<box_name, index, counter>>
  /\ UNCHANGED <<files, table, count, answer>>

\* One turn of the search for an empty slot; n_boxes is read when one is found.
CreateFind(m) ==
  /\ \/ /\ index[m] = max_sessions
        /\ Goto(m, "find", "created")
        /\ UNCHANGED <<index, counter>>
     \/ /\ index[m] < max_sessions /\ boxes[index[m]].name = NoName
        /\ Goto(m, "find", "take")
        /\ counter' = [counter EXCEPT ![m] = n_boxes]
        /\ UNCHANGED index
     \/ /\ index[m] < max_sessions /\ boxes[index[m]].name # NoName
        /\ index' = [index EXCEPT ![m] = @ + 1]
        /\ pc[m] = "find" /\ UNCHANGED <<pc, counter>>
  /\ UNCHANGED <<files, table, box_name, count, answer>>

CreateTake(m) ==
  /\ Goto(m, "take", "name")
  /\ n_boxes' = counter[m] + 1
  /\ UNCHANGED <<files, boxes, box_name, index, counter, count, answer>>

CreateName(m) ==
  /\ Goto(m, "name", "created")
  /\ boxes' = [boxes EXCEPT ![index[m]].name = box_name[m]]
  /\ UNCHANGED <<files, n_boxes, box_name, index, counter, count, answer>>

-----------------------------------------------------------------------------
(* remove_box *)

\* A box that cannot be opened does not exist, and the removal is refused.
RemoveStart(m, b) ==
  /\ WorkerLeft /\ MayOpen(b)
  /\ Goto(m, "idle", "unlink")
  /\ box_name' = [box_name EXCEPT ![m] = b]
  /\ UNCHANGED <<files, table, index, counter, count, answer>>

RemoveUnlink(m) ==
  /\ IF box_name[m] \in files
       THEN /\ Goto(m, "unlink", "clear")
            /\ files' = files \ {box_name[m]}
            /\ UNCHANGED <<box_name, index, counter>>
       ELSE End(m, "unlink") /\ UNCHANGED files
  /\ UNCHANGED <<table, count, answer>>

\* One turn of the search for the box's slot; n_boxes is read when it is found.
RemoveFind(m) ==
  /\ \/ /\ index[m] = max_sessions
        /\ Goto(m, "clear", "cleared")
        /\ UNCHANGED <<index, counter>>
     \/ /\ index[m] < max_sessions /\ boxes[index[m]].name = box_name[m]
        /\ Goto(m, "clear", "untake")
        /\ counter' = [counter EXCEPT ![m] = n_boxes]
        /\ UNCHANGED index
     \/ /\ index[m] < max_sessions /\ boxes[index[m]].name # box_name[m]
        /\ index' = [index EXCEPT ![m] = @ + 1]
        /\ pc[m] = "clear" /\ UNCHANGED <<pc, counter>>
  /\ UNCHANGED <<files, table, box_name, count, answer>>

RemoveUntake(m) ==
  /\ Goto(m, "untake", "unname")
  /\ n_boxes' = counter[m] - 1
  /\ UNCHANGED <<files, boxes, box_name, index, counter, count, answer>>

\* Mutant: the slot keeps its name.
RemoveUnname_Kept(m) ==
  /\ Goto(m, "unname", "cleared")
  /\ UNCHANGED <<files, table, box_name, index, counter, count, answer>>

\* Mutant: the slot is cleared with its counters.
RemoveUnname_Resets(m) ==
  /\ Goto(m, "unname", "cleared")
  /\ boxes' = [boxes EXCEPT ![index[m]] =
                 [name |-> NoName, n_publishers |-> 0, n_subscribers |-> 0]]
  /\ UNCHANGED <<files, n_boxes, box_name, index, counter, count, answer>>

\* The counters and the size of the slot stay.
RemoveUnname(m) ==
  /\ Goto(m, "unname", "cleared")
  /\ boxes' = [boxes EXCEPT ![index[m]].name = NoName]
  /\ UNCHANGED <<files, n_boxes, box_name, index, counter, count, answer>>

-----------------------------------------------------------------------------
(* list_boxes *)

Send(m, last, b) == answer' = [answer EXCEPT ![m] = Append(@, <<last, b>>)]

\* Without boxes one empty name is sent, and the loop is entered all the same.
List(m) ==
  /\ WorkerLeft
  /\ Goto(m, "idle", "list")
  /\ IF n_boxes = 0 THEN Send(m, "1", NoName) ELSE UNCHANGED answer
  /\ UNCHANGED <<files, table, box_name, index, counter, count>>

\* Mutant: the number of boxes is compared before the box is counted.
ListTurn_CountsLate(m) ==
  LET b == boxes[index[m]].name
  IN /\ index[m] < max_sessions
     /\ index' = [index EXCEPT ![m] = @ + 1]
     /\ IF b = NoName
          THEN pc[m] = "list" /\ UNCHANGED <<pc, count, answer>>
          ELSE /\ count' = [count EXCEPT ![m] = @ + 1]
               /\ Send(m, IF count[m] = n_boxes THEN "1" ELSE "0", b)
               /\ Goto(m, "list", IF count[m] = n_boxes THEN "listed" ELSE "list")
     /\ UNCHANGED <<files, table, box_name, counter>>

\* One turn of the loop: a box is the last when as many as n_boxes are sent.
ListTurn(m) ==
  LET b == boxes[index[m]].name
  IN /\ index[m] < max_sessions
     /\ index' = [index EXCEPT ![m] = @ + 1]
     /\ IF b = NoName
          THEN pc[m] = "list" /\ UNCHANGED <<pc, count, answer>>
          ELSE /\ count' = [count EXCEPT ![m] = @ + 1]
               /\ Send(m, IF count'[m] = n_boxes THEN "1" ELSE "0", b)
               /\ Goto(m, "list", IF count'[m] = n_boxes THEN "listed" ELSE "list")
     /\ UNCHANGED <<files, table, box_name, counter>>

ListStop(m) ==
  /\ index[m] = max_sessions /\ Goto(m, "list", "listed")
  /\ UNCHANGED <<files, table, box_name, index, counter, count, answer>>

\* The manager has its answer: the session is over.
Answered(m) ==
  /\ End(m, "created") \/ End(m, "cleared") \/ End(m, "listed")
  /\ count' = [count EXCEPT ![m] = 0]
  /\ answer' = [answer EXCEPT ![m] = <<>>]
  /\ UNCHANGED <<files, table>>

-----------------------------------------------------------------------------
ClientStep(s) ==
  \/ \E b \in Names : Start(s, b)
  \/ Search(s) \/ Test(s) \/ Answer(s)
  \/ Counted(s) \/ Abandon(s) \/ Leave(s)
  \/ BoxGone(s) \/ UncountRemoved(s) \/ Uncount(s)

ManagerStep(m) ==
  \/ \E b \in Names : CreateStart(m, b) \/ RemoveStart(m, b)
  \/ CreateFile(m) \/ CreateSpace(m)
  \/ CreateFind(m) \/ CreateTake(m) \/ CreateName(m)
  \/ RemoveUnlink(m) \/ RemoveFind(m)
  \/ RemoveUntake(m) \/ RemoveUnname(m)
  \/ List(m) \/ ListTurn(m) \/ ListStop(m) \/ Answered(m)

Next == \/ \E s \in Clients : ClientStep(s)
        \/ \E m \in Managers : ManagerStep(m)

Spec == Init /\ [][Next]_vars

-----------------------------------------------------------------------------
(* Properties *)

Boxed == {k \in Slots : boxes[k].name # NoName}
Counter == 0 .. UINT64_MAX

\* Every variable stays in its range; a counter at its largest has wrapped.
TypeOK ==
  /\ files \subseteq Names
  /\ n_boxes \in 0 .. max_sessions
  /\ boxes \in [Slots -> [name : Names \cup {NoName}, n_publishers : Counter,
                          n_subscribers : Counter]]
  /\ pc \in [Sessions -> {"idle", "search", "test", "answer", "counted", "linked",
       "uncount", "removed", "uncount_removed", "creat", "space", "find", "take", "name",
       "created", "unlink", "clear", "untake", "unname", "cleared", "list", "listed"}]
  /\ box_name \in [Sessions -> Names \cup {NoName}]
  /\ index \in [Sessions -> 0 .. max_sessions]
  /\ counter \in [Sessions -> Counter]
  /\ count \in [Managers -> 0 .. max_sessions]
  /\ answer \in [Managers -> Seq({"0", "1"} \X (Names \cup {NoName}))]

\* Sessions that are in a box's counter.
CountedIn(s) == pc[s] \in {"linked", "uncount", "removed", "uncount_removed"}

\* Whatever is removed and created in its slot meanwhile, a session that is
\* linked is in the counter of the slot it will count itself out of: with one
\* publisher and one subscriber at a time no counter goes below zero.
LinkedIsCounted ==
  \A s \in Clients : CountedIn(s) => boxes[index[s]][Kind(s)] \in 1 .. MaxLost + 1

\* When nobody creates or removes a box, the table and the directory agree:
\* each box has one slot and a file, and n_boxes is the number of boxes.
TableIsSound ==
  (\A m \in Managers : pc[m] \in {"idle", "list", "listed", "created", "cleared"}) =>
    /\ n_boxes = Cardinality(Boxed)
    /\ \A k \in Boxed : boxes[k].name \in files
    /\ \A j, k \in Boxed : boxes[j].name = boxes[k].name => j = k

\* create_box answers that a box is there when it is, in the table and in the
\* directory, and remove_box that it is gone when it is gone from both.
AnswersAreTrue ==
  \A m \in Managers :
    /\ pc[m] = "created" =>
         box_name[m] \in files /\ \E k \in Slots : boxes[k].name = box_name[m]
    /\ pc[m] = "cleared" =>
         box_name[m] \notin files /\ \A k \in Slots : boxes[k].name # box_name[m]

\* The boxes up to a slot: as many as the place its own has in a list.
Place(k) == Cardinality({j \in Boxed : j <= k})

\* What list_boxes is to send: the boxes in the order of their slots, the last
\* one marked; or one empty name.
IsListing(sent) ==
  IF Boxed = {} THEN sent = <<<<"1", NoName>>>>
  ELSE LET last == Cardinality(Boxed)
       IN /\ Len(sent) = last
          /\ \A k \in Boxed : sent[Place(k)] =
               <<IF Place(k) = last THEN "1" ELSE "0", boxes[k].name>>

\* A list has every box once and its end is marked, whatever boxes came, went
\* and were refused before.
ListIsComplete == \A m \in Managers : pc[m] = "listed" => IsListing(answer[m])

\* A box has one publisher at a time: a second one is refused, because the box
\* is "already linked" (mbroker.c:216).
OnePublisherPerBox ==
  \A p, q \in Publishers :
    CountedIn(p) /\ CountedIn(q) /\ index[p] = index[q] => p = q
=============================================================================
