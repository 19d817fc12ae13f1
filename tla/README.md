# A message broker over named pipes: models, checks and proofs

`mbroker` is a publish/subscribe broker. Publishers send messages to a *box*,
subscribers receive what a box holds and what is added to it, managers create,
remove and list boxes. Every client is a process of its own and talks to the
broker through named pipes; the boxes are files of TecnicoFS, a file system in
the broker's memory.

## Inventory

| Component | Source | State | Operations | Model |
|---|---|---|---|---|
| Producer-consumer queue | `producer-consumer/` | a buffer that is shifted, size, tail, five mutexes, two condition variables | `pcq_enqueue`, `pcq_dequeue` | `PCQueue` |
| Request dispatch | `mbroker/mbroker.c`: `main`, `function`, `session_worker`, `process_entry` | the register pipe and its lock; opcode, to_execute, lock and condition of each worker | read a code, pick a worker, hand the pipe over, read the rest | `Dispatch` |
| TecnicoFS | `fs/` | inodes, blocks, root directory, open files, each table with its free map | `tfs_open`, `tfs_close`, `tfs_write`, `tfs_read`, `tfs_unlink` | `TecnicoFS` |
| Boxes and sessions | `mbroker.c`: `start_publisher` ... `list_boxes` | `boxes[]`, `n_boxes`, a mutex for each box | count and uncount sessions, create, remove, list | `Boxes` |
| Register pipe framing | `mbroker.c`, `create_register` of the clients | the bytes in the pipe | write a request, read it in parts, close and open again | `RegisterPipe` |
| Delivery | `mbroker.c`: the loops of `start_publisher` and `start_subscriber` | a box's file, size and lock; bytes processed by each subscriber | append a message, scan for the next one, send it | `Delivery` |
| Publishers and subscribers | `publisher/`, `subscriber/` and the sessions that serve them | one FIFO per client | open, answer, close, reopen, probe with `mkfifo` | `Clients` over `Fifo` |
| Manager | `manager/`, `send_message_manager`, `send_box_manager`, `list_boxes` | its FIFO, the locals it reads into, an array of boxes | open, read field by field, collect, grow, sort, print | `Manager` over `Fifo` and `BoxList` |
| Shutdown | `mbroker.c`: `sig_handler`, `destroy_server` | everything | free it all | not modelled |
| Logging, build, archive | `utils/`, `Makefile`, `so_project.zip` | none | none | not modelled |

How they interact. `main` reads one operation code from the register pipe and
calls `function`, which picks a worker thread by looking at `to_execute`
without a lock, enqueues it in the producer-consumer queue, fills in the code,
locks the register pipe **for** the worker and signals it. The worker takes an
element out of the queue (and ignores which), reads the rest of the request
from the same pipe, and unlocks the pipe `main` has been waiting for. It then
serves the session, which may last for ever, on the client's own pipe. Sessions
share `boxes[]`, whose locks are taken in part, and TecnicoFS, whose one mutex
is held through every call.

What makes each part correct, and what is hard about it:

- *Queue*: bounded, FIFO, a call that can proceed does. Hard: the size is read
  without its lock, both waits use a mutex nobody locks, the result is read
  after the last unlock.
- *Dispatch*: one request, one reader, one idle worker; `main` never waits for
  a session. Hard: the unlocked search, a mutex locked by one thread and
  unlocked by another, failing reads that skip the unlock and may then wait for
  a client, no worker left, a queue buffer of `max_sessions` bytes.
- *TecnicoFS*: directory, inodes and blocks agree after every failure; a file
  reads back what was written. Hard: tables that fill up halfway through a
  call, files removed while they are open, `size_t` differences.
- *Delivery*: each subscriber gets every message of its box once and in order,
  whenever it came. Hard: a position kept as a count of bytes that is off by one
  after the end of the file, several publishers, a box that fills up in the
  middle of a message or is removed, clients that leave between probe and write.
- *Boxes*: one publisher for a box, counters that match the sessions, box table
  and directory in step. Hard: test and increment on either side of a blocking
  open, error paths that skip the decrement, slots reused with their counters.
- *Framing*: a reader reads what a writer wrote. Hard: a list request is one
  byte shorter than it is read.
- *Clients*: nobody waits for an end of a pipe that never comes, nobody is
  killed by SIGPIPE. Hard: every pipe is opened twice.
- *Manager*: it prints what it was sent. Hard: a turn is eleven reads of which the
  last is judged, and the session closes the pipe between two boxes, so that the
  end of the file may come anywhere in a turn.

`PROJECT.json` lists the hazards line by line, with the properties that look
for each.

## Modules

`BoundedBuffer`, `SessionPool`, `FileStore` and `MessageLog` are abstract: what
the callers of a component may rely on. Each is implemented by a detailed module:

    PCQueue   implements BoundedBuffer   (ImplementsBoundedBuffer)
    Dispatch  implements SessionPool     (ImplementsSessionPool), uses BoundedBuffer as its queue
    TecnicoFS implements FileStore       (ImplementsFileStore)
    Delivery  implements MessageLog      (ImplementsMessageLog)

`Clients` and `Manager` compose `Fifo`, a named pipe with its two ends, with the
programs at the ends; `Manager` also takes in `BoxList`, the manager's array and
sort. `Boxes` and `RegisterPipe` stand alone. Together the modules follow a request: `RegisterPipe`
its bytes, `Dispatch` the threads that read them, `Boxes` the table it is about,
`Delivery` and `TecnicoFS` the box's file, `Clients` and `Manager` the client's
pipe.

The modules whose names begin with `MC` hold the definitions the `.cfg` files
need. `PCQueueProofs`, `DispatchProofs`, `TecnicoFSProofs`, `DeliveryProofs`,
`BoxesProofs`, `RegisterPipeProofs`, `ClientsProofs` and `ManagerProofs` hold the
proofs. A definition whose comment
starts with *Mutant* is not part of a specification: it is a plausible slip in
the definition that follows it, kept to see that a property notices.

### PCQueue

One step per lock operation, per read of shared memory outside a lock, and per
write under one. `pc` is where a thread is in its call; `elem`, `slot` and
`result` are its argument and locals. `pthread_cond_wait` on a mutex that the
caller has not locked is undefined in POSIX; the model does what the default
mutex of the build does: the wait frees the mutex whoever holds it, and the
return takes it. Wakeups may be spurious. Capacity and `size_t` wrap-around are
parameters. The ghosts `removed` and `undisturbed` record which element a
dequeue took out and whether anybody has touched the queue since. A pthread
call that returns an error is not modelled. The buffer has `pcq_capacity` slots,
as `producer-consumer.h` means it; that the broker allocates fewer bytes than
that takes (`mbroker.c:94`) is not in the model.

Contents, the abstract state, are the stored elements: an enqueue happens when
its shift ends, a dequeue when it decrements the size.

### Dispatch

`main` is where the main thread is and `pc` where each worker is, with a step
for each lock, unlock, read, signal and test. The register pipe is an
environment: a read of a code yields any byte, end of file or, with
`ReadsFail`, an error; a worker's read yields something or an error. Which
bytes a request has is in `RegisterPipe`. `register_pipe_lock` is a
Boolean, because the thread that unlocks it is not the one that locked it. The
queue is `BoundedBuffer`, and a worker takes whatever is in it. `workers[-1]`
is memory of something else: using it ends the process or goes unnoticed. A
session is one step with no promise that it is ever taken; that SIGPIPE may end
the process in the middle of one is in `Clients`, `Delivery` and `Manager`.

A read of `process_entry` that fails leaves the lock as it is. A create, a remove
or a list then returns; a publisher's or a subscriber's session (`LinkOps`) goes
on to turn its client away, which is `WorkerRefuse`: it opens the pipe for writing,
which may never return, and writes, which may end the process.

### TecnicoFS

A call is one step, because `g_library_mutex` is held through all of it, and
the callers interleave between calls. The inode, block and open-file tables,
the directory's entries and the bytes of the blocks are the variables; `ret` is
what the last call returned. A file name is a member of `Names`, or of
`BadNames` if `valid_pathname` refuses it; box names are shorter than
`MAX_FILE_NAME`, so truncation does not arise. Differences of `size_t` are
taken modulo `Word`. A failed `ALWAYS_ASSERT`, and a `memcpy` of a wrapped
length, set `halted`. `tfs_link`, `tfs_sym_link` and
`tfs_copy_from_external_fs` are declared in `operations.h` and defined nowhere.

`UnlinkWhileOpen` says whether the callers remove files that are open: the
broker does, since `remove_box` takes no lock of the box.

### Delivery

The sessions of one box from the moment they are linked, over a file that
behaves as `FileStore` says. A publisher's turn is four steps: it reads a line
from its pipe, locks the box and opens its file, writes, and counts and
unlocks. A subscriber's turn is one step for the lock and the open, one for
each byte it reads, one for the probe and the unlock, and one for the write,
which is made without the lock. The ghost `ends` keeps where each message that
was stored whole ends, and `received` what each subscriber of the moment has
been sent. The log of `MessageLog` is the messages between those ends. `boxes[i].size`
begins with `OldSize`, what the slot's last box left there: neither `create_box`
nor `remove_box` sets it back.

- *Several publishers.* The code means a box to have one publisher, but tests
  that before two blocking opens and counts after them, so more may be linked;
  the model lets any number in.
- *Removal.* `remove_box` takes no lock, so `RemoveBox` may come at any step; a
  session with the file open goes on with its bytes. The box does not come back
  in the model, and no other box takes the freed inode: what happens then is in
  `TecnicoFS` (run `fs_panic`).
- *Failures.* `TablesFill` lets `tfs_open` and the first write of a file fail
  for lack of a handle or a block; the sessions take that for a removal. A full
  block cuts a message short, and the next one ends its publisher's session.
- *Clients.* A subscriber's program may close its pipe and then remove it at
  any step. A write between the two, or after, raises SIGPIPE, which the broker
  does not handle: `killed`.
- *Empty messages.* A scan that meets the end of the file counts the read that
  failed, so the next byte is compared for equality, and a zero byte there is
  passed over. An empty message is thus delivered or not, depending on when the
  scans come. `Full` leaves the empty ones out of both sides; it is a recursive
  function, of which the proofs use one step at a time.

### Boxes

The table and the directory as a set of names, with a step for each unlocked
read and each write: a counter is loaded in one step and stored in another,
`n_boxes` too, and every turn of a search is a step. A session is over when
`End` forgets its locals; a linked one leaves in three ways (its client has gone,
the box has, an error that skips the decrement), each an action.

- *Names.* `strcpy` and `strcmp` of a name are one step. A search that meets
  half a copy matches nothing, as it would have before the copy, or takes the
  slot for a used one, as it would after.
- *Order.* `UncountRemoved` and `Uncount` stand for the same decrement with and
  without the slot's lock; that the publisher's path unlocks before it removes
  its pipe and the subscriber's after is in `Clients`.
- *Handles.* A session has one handle at a time, so that they run out only with
  more workers than handles (`HandlesRunOut`). With fewer, "cannot be opened" is
  "is not there"; with more `TableIsSound` fails: a box can get two slots.
- *Sessions at once.* At most `max_sessions` sessions are at work. The runs have
  one manager at a time: two can take the same slot, and nothing in the
  repository says they may not. A publisher and a subscriber have a counter
  each: two subscribers that count themselves at once lose an update.

### Clients and Fifo

One publisher or subscriber and the session that serves it. `Fifo` has the pipe's
path, its two ends and what is in it. An open waits for an opener of the other
mode, and the two go on together; an end may therefore meet a descriptor that its
owner is about to close, which the code does on every link, as each side opens,
closes and opens again. `leaked` and `full` are ends of a publisher's session that
leave its descriptor open. A message or an answer is one item: it is written and
read by one call each, and is shorter than `PIPE_BUF`.

`SubProbe`, `PubProbe` and `SubClientProbe` are the `mkfifo` calls by which each
side learns that the other has removed the path. `Interrupt` is SIGINT in the
subscriber, `Crash` a client killed at any step, `RemoveBox` a removal by
another session, `killed` a SIGPIPE in the broker. Opens, reads and writes that
fail for other reasons are left out, and so are the two signals before their
handler is installed.

The answer of a session and the messages go through the same pipe. The program
tells them apart by the code in front of a message (`create_message`), the model
by keeping `Lines` apart from `Answers`; `Behind` is what a pipe holds but for the
answer.

### Manager and BoxList

`manager.c` from the open of its pipe on, with the session that answers it. Here an
answer is not one item: the session writes it field by field and the manager reads
it field by field, each call a step of its own (`BrokerWrite`, `ManagerRead`), and
the session opens and closes the pipe for each box of a list. A turn of the
manager's loop is one read for each field, whatever they return, and only then a
look at what the *last* one returned (`ManagerCollect`, `ManagerNone`,
`ManagerPrint`). A read at the end of the file leaves its local as it was.

A byte is its number among all the bytes of the answers, so that a byte that has
got into the wrong local can be told from the right one. The fields are given by
where they begin (`Begins`); the first four of a box are one write, and five reads
or eleven make a turn. A list's locals are those of the loop's body; as in the
build, they keep their place and what is in it from turn to turn. Before the first
read they hold 0 in the model, which is no byte of an answer.

The ghost `step` says whether the manager is `in` step, has met the `end` of the
file, or has read data after that in the same turn and is `out` of step. Out of
step, `last` and the name may be made of anything: `ManagerNone` and
`ManagerCollect` are then both possible, and `strcpy` of a name that is no box's
may end the program (`ManagerOverruns`).

`BoxList` gives `realloc`'s growth and `bubbleSort` with its early exit; a name
is a number in the order of `strcmp`, and following `indexes[]` is the identity.

### RegisterPipe

A byte of the pipe is the client it is from, its place in the request, and its
value, so that a byte of a name may look like an operation code. A request is
put into the pipe by one write, which the kernel does not divide. `main` takes a
byte, passes over what is no code, and hands over to the reads of
`process_entry`, each of which takes as many bytes as there are up to its
length; main and the worker are one process here, since `Dispatch` shows that
they take turns. The pipe keeps its bytes while any end is open, so that what
was written between `main`'s last read and its close is read after the next
open, or lost. Link, create and remove requests have one shape and one code.

## Runs

| Run | Bounds | Shows |
|---|---|---|
| `pcq` | 2 producers, 2 consumers, 2 elements, capacity 2 | the queue stays within its bounds, acts on no stale test, keeps at most one sleeper on each side, never blocks a woken thread, and stores elements as a FIFO buffer does |
| `pcq_full` | 1 and 1, capacity 1, fair | **violated**: a producer may sleep on although the queue has space (lost wakeup); the consumer's code mirrors it |
| `dispatch` | 2 workers, reads may fail, fair | one reader of the pipe at a time, at most one element in the queue, one idle worker for every request; `main` always gets past the worker's lock, and the pipe's lock comes back unless a read failed or no worker was left |
| `fs` | 3 names, 4 inodes, 3 blocks of 1 byte, 2 handles, 2 entries | the directory and the inodes agree and no two files share a block, whatever table fills up and whatever is removed or truncated while open |
| `filestore` | 2 names, 3 inodes, 3 blocks of 2 bytes, 2 handles, 2 byte values | with no open file removed: a set of named byte sequences, no assertion reached |
| `fs_panic` | 2 names, 4 inodes | **violated** once open files are removed: the assertion on block numbers |
| `delivery` | 2 publishers, 1 subscriber, a block of 4 bytes, lines of 0 and 1 byte, fair | whoever writes, whatever fails and whenever the scans come, the file only grows, scans see no half-written message, the size grows with the file, and each message arrives once and in order, at every subscriber that stays |
| `boxes` | 1 publisher, 1 subscriber, 1 manager, 2 workers and slots, 3 names | whoever is linked keeps being counted, a list is complete, and table, counters and directory agree after every create and remove, the refused ones included |
| `boxes_linked` | 2 publishers, 1 manager | **violated**: two publishers linked to one box |
| `clients` | a publisher or a subscriber, a pipe of 2 items, 3 lines, fair | no message is lost, doubled or reordered over the two opens; no session and no client that could go on waits for ever; only a subscriber can end the broker by SIGPIPE, or a client that is killed |
| `manager` | one answer to a create or a remove, lists of 0 to 4 boxes, fields of 1 byte and names of 2, a pipe of 28 bytes, array growing by 2, fair | a manager in step prints what it was sent, in order and within its array; only lists of more than one box take it out of step or end the broker; the manager ends, and so does the session |
| `register` | 3 clients, names of 2 bytes, boxes of 1, fair | every request is read from its first byte to its last, unless one follows a list at once; none is left in the pipe |

Why the bounds are enough. Two threads on a side are what it takes to contend
for a side's mutex, and the properties of three are those of two, since all but
one wait at its lock; two slots let the queue be empty, full and in between,
and make the shift move an element. Two workers let a request arrive with one
busy and one idle, and with none left. Each table of the file system is small
enough to fill up and large enough to hold two files; the directory is smaller
than the inode table in `fs` so that it fills up first; a block of two bytes has
a first, an interior and an end offset, and `MaxOffset` lets a handle pass the
end by one. A block of four bytes holds two lines, or one and empty ones, or a
line cut short, so that a scan stops at a message, at the end, and at a piece;
two publishers contend with it for the lock. Two slots with three names make
the table fill up, a file exist without a slot, and a slot be taken by another
name while a session of the old one is linked to it. A pipe of two items is full
before three lines are written. A list of four boxes makes an array of two grow
twice; three boxes are what it takes for a manager that has lost step to meet a
whole answer again; a name of two bytes can be taken for other fields in part, and
a pipe of 28 bytes holds two boxes of a list (12 each) and the beginning of a
third. Of three requests the last can come before the second is read, after
it, or while `main` is between its close and its open.

Names and bytes are symmetric in the runs without temporal properties, and in
`filestore`, whose temporal properties are safety properties of a state machine
that treats them alike. `filestore` also counts states that differ only in what
the last call returned as one: no later call looks at it.

Deadlock is checked in `pcq`, `pcq_full`, `filestore`, `boxes` and
`boxes_linked`. The broker really stops in `dispatch` (a failed read, or no
worker left), in `delivery`, `clients` and `manager` (SIGPIPE, or everything is
over), the
clients of `register` are finite in number, and the process ends in `fs` and
`fs_panic` when an assertion fails. In the queue's runs a sleeper may always be
woken spuriously, so that the deadlock check says little there: lost wakeups are
what `pcq_full` looks for.

The bounds: `Word` (values of a `size_t`), `MaxLen` (length of a buffer),
`MaxOffset` (offset of a handle; it only cuts off reads past the end of a file)
and `MaxLost` (sessions of a kind that end still counted, in one slot).
Nothing else is cut off.

### Fairness

`PCQueue!FairSpec` has weak fairness for each thread: a runnable thread runs.
Spurious wakeups are never owed. `pcq_full` is violated in spite of it.

`Dispatch!FairSpec` has weak fairness for `main` and each worker, except for
what depends on others: a client need not send (`MainOpen`, `MainFirstRead`,
`MainRead`), a session need not end (`WorkerSession`), and one that turns its
client away may wait for it (`WorkerRefuse`). `MainLockWorker` has
strong fairness: a worker that is woken spuriously again and again takes and
frees its lock each time, and a mutex that starved `main` for ever in that case
is not one the code could be asked to survive.

`Delivery!FairSpec` has weak fairness for what a session does once it has the
lock, or to send, and strong fairness for a subscriber's taking the box's lock:
subscribers free it and take it again all the time, and a mutex that never let
one of the others in would leave that one without an answer whatever the code
does. Nobody need publish, join, leave or remove.

`Clients!FairSpec` has weak fairness for the session and for the client's
program: each goes on when it can. Nobody need type a line, interrupt a
subscriber, be killed, or remove the box. `Manager!FairSpec` is the same for the
session and the manager; `ManagerOverruns` is what undefined behaviour may do and
is not owed. `RegisterPipe!FairSpec` has it for the
reader and for each client that has begun; none need begin.

## What is proved

`PCQueueProofs`, from `QueueAssumption` alone (any finite or infinite sets of
threads and elements, any capacity that fits a `size_t`):

- `TypeCorrect`, `OneSleeper`, `QueueBounded`, `ChecksStayValid`,
  `WakeNeverBlocks`, `UndisturbedDequeueIsRight`: the six invariants of run
  `pcq`;
- `Refinement`: `Spec => ImplementsBoundedBuffer`.

The argument. `Ownership` says that whoever is between the lock and the unlock
of a mutex owns it; a sleeper keeps its side's mutex, so there is one sleeper
on a side. Only the owner of the head mutex makes the queue longer and only the
owner of the tail mutex makes it shorter, so the unlocked test of one side can
only be made *more* true by the other: `ChecksStillHold`, and with it
`SizeWithinCapacity`, is inductive together with `Ownership`. `TailFollows`
relates tail and size, `Undisturbed` what a consumer that nobody overtakes
knows of its slot. For the refinement `ShiftAppends` and `DropTakesOldest` show
what the two visible steps do to `Contents`, and `OthersStutter` that no other
step changes it.

`DispatchProofs`, from `DispatchAssumption` alone (any number of workers, any
operation codes, failing reads or not):

- `InvariantHolds`: the inductive invariant `IInv`;
- `TypeCorrect`, `ReadersExclude`, `QueueIsSmall`: the three invariants of run
  `dispatch`;
- `Refinement`: `Spec => ImplementsSessionPool`.

`IInv` names who owns each worker's lock (`LockOwners`), how long `to_execute`
stays set (`FlagKept`), and, as its core, `OneOwes`: only the worker picked
last owes `main` the pipe's lock, it is locked while one does, and `main` is
then at the end of `function` or waits. Without it the invariants are not
inductive: that the pipe is locked says nothing of who may still read from it.
`OneQueued` ties the queue to the worker that has not dequeued yet.

`TecnicoFSProofs`, from `FSAssumption` (any sizes of the tables and of a block,
any names and bytes):

- `TypeCorrect`, `DirectoryAgrees`, `BlocksAreExclusive`, whatever the callers
  do. `TypeOK`, `DirectorySound` and `LiveBlocksExclusive` are inductive
  together. A search of a table finds the first free place, which exists because
  a set of numbers has a least one; a write fits its block although its length
  is a `size_t` difference that wraps, because a wrapped one is longer than any
  buffer and is cut off at the end of the block.
- `NothingLeaked`, if no caller removes an open file (`NeverRemovesOpen`): the
  strengthening is `OpenFilesLive`, every handle is of a file that is there.
- `CallsNeverHalt` and `ReadsStop`, if no caller truncates either
  (`NeverTruncates`): a handle's offset is then within its file
  (`OffsetsInFile`). The broker never truncates, and does remove open files:
  that is why its assertion can fail (`fs_panic`).

And, from `NoNameAssumption` as well (the value that stands for a closed handle is
not a handle's record):

- `FilesKeepTheirBytes`: `Spec => ImplementsFileStore`, for the same callers.

A file is seen as the bytes of its block up to its size, by name, and a handle
as a name and an offset. Over the invariants above, each call is a step of the
store: `Lookup` finds the one entry of a name (`EntriesFound`), so that what a
call does to a table changes one name at most; that `LiveBlocksExclusive` holds
is why a write changes no other file. Both assumptions on the callers are needed,
as for the halting: a handle of a removed file has no name to be seen under.

`DeliveryProofs`, from `DeliveryAssumption` (any number of publishers and
subscribers, any lengths of lines and of a block):

- `TypeCorrect`, `ScansAreExclusive`, `SizeKeepsUp`: the three invariants of run
  `delivery`, the last from any size that the slot's last box has left;
- `NothingOverwritten`: its action property `BoxOnlyGrows`;
- `SubscribersFollowTheLog`: `Spec => ImplementsMessageLog`.

`HolderLocks` says that whoever is at a step within the lock holds it,
`WritesAtEnd` that a publisher's handle is at the end of the file, which only
the lock makes true of two publishers, and `SizeFollows` what the size lacks
while one has written and not counted yet. `OverwriteAtEnd` shows that a write at
the end appends. `CountInFile` bounds a subscriber's count.

For the log, `LogInv` adds what is in the file (`EndsSound`: whole lines, each
ended by one zero byte, and a piece after them only if the file is full) and, for
each subscriber, the number `k` of lines it has passed (`Follows`). `At` is the
heart of it: the count of bytes processed is where the line `k + 1` begins, or
the byte before, or past a full file, which is all that the count that is one too
high can do. `Sent` and `Gathered` tie the messages sent and the bytes of the
scan under way to the same `k`. What `Full` does to the lines is proved without
unfolding its recursion further than one line (`Gathers`).

`BoxesProofs`, from `BoxesAssumption` (any number of slots and names):

- `CountersHoldTheLinked`, with one publisher and one subscriber at a time
  (`OneOfEach`) and any number of managers, racing or not;
- `TheTableIsSound`, `TheAnswersAreTrue` and `TheListIsComplete`, with one
  manager at a time (`OneManager`), no more workers than handles (`HandlesLast`),
  and any number of clients, so that counters may be wrong and the table is still
  right;
- `TypeCorrect`, with both: the ranges are a matter of the clients (no counter
  wraps) and of the manager (`n_boxes` fits the table).

`LooseTypes` holds of everybody, and `ClientLocal` and `LocalsKept` say how little
a session's step touches of the others. `Accounts` gives each counter the session
that is counted in and those lost before it. `TInv` says what a manager knows at
each step of the box it creates or removes, by how much `n_boxes` is off in
between (`Miscount`), and which box has no file any more (`Doomed`). `ListKnows`
says what a list has sent: the boxes below its index, each at the place that the
number of boxes up to it gives (`Place`), none marked, and fewer than `n_boxes`;
the one that makes them as many is the last because a part of a finite set that
has as many elements is all of it. Each assumption is needed: TLC finds
`LinkedIsCounted` violated with two subscribers or two publishers, and the table
and the answers with two managers or with a handle too few.

`RegisterPipeProofs`, from `RegisterAssumption` (any number of clients, any
lengths and bytes of the names):

- `FramesAreKept`: the invariant `FramesKept` of run `register`.

The inductive invariant says, for some assignment of operation codes to the
clients, that the pipe holds whole requests behind what is left of the one being
read (`Framed`). It is stated by positions (`WholeRequests`: every byte is
followed by the rest of its request, and that by a first byte), so that dropping
bytes at the head (`DropWhole`) and adding a request at the end (`AppendWhole`)
keep it without induction over the pipe's contents.

`ClientsProofs`, from `ClientsAssumption` (any lines, a pipe of any size, killed
and interrupted clients or not):

- `Invariance`: the inductive invariant `LinkInv`;
- `Lossless`, `BrokerOutlives`: the two invariants of run `clients`.

`LinkInv` has to say more than the properties, because a pipe that is opened twice
looks alike both times. `WorkerEnd` and `ClientEnd` give the mode in which either
program has the pipe at each place; `AnswerFirst` says that the answer is in front
of everything and that nobody opens the pipe for messages while it is there, which
is what a client that reads three bytes and closes goes by; `InPipe` that what was
sent is what came out followed by what is in the pipe, as long as one of the two
still reads.

`ManagerProofs`, from `ManagerAssumption` (fields of any widths, lists of any
length, an array that grows by any chunk, and a pipe that holds each write of an
answer):

- `BubbleSortSorts`: for every list of names, `bubbleSort` gives the same names in
  order;
- `Invariance`: the inductive invariant `IInv`;
- `TypeCorrect`: no read fills more than its local and no index leaves the answers;
- `ManagerPrints`, `BrokerOutlives`: the two invariants of run `manager`.

The sort is an induction over the rounds and the turns of a round, and its
functions are recursive. It is done with `SetInduction`, which takes the *set* of
the numbers a fact holds for and not an operator: after each round
the least names of the rest are in place (`SortedUpTo`), a round keeps the
names, and a round that swaps nothing has met a sorted list, so that the ones left
out by the early exit change nothing (`RoundsAlike`).

`IInv` counts bytes. `Written` is how many the session has written and `Taken` how
many the manager has read; `Stream` says that the pipe holds those between.
`InStep` says that a manager in step has taken exactly the answers it has kept and
the fields it has read of the next one. From the two, and from the session writing
whole fields in one call, the pipe begins with *all* of the next field or is empty
(`Whole`), so that no read is short; and it is at the end of the file only between
two answers, so that in step the end is met by the first read of a turn and
no later one of the turn finds data unless the session opens the pipe again.
With one answer it does not: `AtTheEnd`. `Kept` follows for what is printed, and
`OnlyLongListsEndBroker` from the manager's being there until the last read has met
the end.

Only model-checked: the liveness properties (`PickedWorkerIsFree`,
`PipeLockComesBack`, `EveryMessageArrives`, `WorkerIsMet`, `WorkerComesBack`,
`SubscriberLearns`, `ManagerEnds`, `AnswersEnd`, `RequestsAreTaken`), which are out of the
prover's reach. Every invariant, action property and refinement that a passing run
checks is the statement of a theorem. `NothingLeaked`, `ReadsStop` and the type
invariants of `Clients` and `Manager` are proved and have no run of their own.

## Findings

1. `producer-consumer.c:69` and `:100`: lost wakeups (`pcq_full`).
   The broker never has a thread wait there: it never has more than one element
   in the queue (`QueueNeverWaits`, proved).
2. `state.c:449`: a read through a handle whose file was removed and whose inode
   was taken again ends the process (`fs_panic`). The broker does remove boxes
   that subscribers have open. The same `size_t` difference at `operations.c:264`
   can read bytes past the new file's size, and the assertions at
   `operations.c:202` and `:261` cannot see the deleted inode.
3. `mbroker.c:215`: two publishers linked to one box (`boxes_linked`).

Without a document that says otherwise, and so no more than notes: the element
`pcq_dequeue` returns is read after its last unlock, and the broker ignores it;
the queue's buffer has `max_sessions` *bytes* (`mbroker.c:94`), so that with fewer
than eight sessions the one pointer that is ever in it is written past its end; a
read of the register pipe that fails leaves `main` waiting for ever; a box made in
a slot that another has used begins with that one's size and counters; a list of
more than one box may be read out of step, or cut, and may end the broker, since
the session closes the manager's pipe after each box; a list request directly followed by another puts `main` out of step for good; the
worker's `mkfifo` (`mbroker.c:382`) looks at the path only, takes a subscriber between
its two opens for one that is there, and may end the broker by SIGPIPE; a publisher's session leaves its descriptor open; a box removed while a subscriber
is being linked leaves the subscriber waiting; two managers at once can lose a
box.

## Not modelled

- *Shutdown*. `destroy_server` frees the queue, the table and the file system in
  whichever thread takes SIGINT while the workers go on. What follows is
  undefined, and nothing in the repository says what must still hold.
- *Logging, assertions as such, the build.* They keep no state.
- System calls that fail for reasons of the machine (out of memory, a
  `pthread_` call that returns an error), except where a table of the program
  is what fills up, and reads of the register pipe.

## Plan

What is left to prove is what stays with TLC: liveness. What would add to the
models is a second manager in `Boxes`, once a document says what two managers may
expect, and the removal of open files in `FileStore`, for which the refinement
would need a name for a file without one.
