------------------------------ MODULE Dispatch ------------------------------
(***************************************************************************)
(* mbroker/mbroker.c: main reads operation codes from the register pipe    *)
(* and assigns each to a worker thread; the worker reads the rest of the   *)
(* request from the same pipe (process_entry) and serves it.               *)
(*                                                                         *)
(* register_pipe_lock is handed over: function() locks it for the worker   *)
(* and process_entry unlocks it.  What a worker does once it has read its  *)
(* request is one "session" here; the pipe is an environment that answers  *)
(* each read with any byte, with end of file or with an error.  "crashed"  *)
(* is where a memory error or SIGPIPE leaves main.                         *)
(***************************************************************************)
EXTENDS Integers, Sequences

CONSTANTS
  max_sessions, \* the number of workers, and of slots in the queue
  BoxOps,       \* codes of requests that name a pipe and a box
  LinkOps,      \* of those, OP_CODE_PUBLISHER and OP_CODE_SUBSCRIBER
  ListOp,       \* OP_CODE_BOX_LIST: a request that names a pipe only
  NoOp,         \* a byte that is no operation code
  ReadsFail     \* whether read() may return an error

ASSUME DispatchAssumption ==
  /\ max_sessions \in Nat \ {0}
  /\ NoOp \notin BoxOps \cup {ListOp} /\ LinkOps \subseteq BoxOps
  /\ ReadsFail \in BOOLEAN

Workers == 0 .. max_sessions - 1
NoSession == -1
OpCodes == BoxOps \cup {ListOp}

VARIABLES
  queue,              \* the contents of the pc_queue_t
  opcode, to_execute, \* the fields of each worker_t
  lock,               \* who holds each worker's lock: "free", "main" or "worker"
  asleep,             \* workers waiting on their cond, unsignalled
  register_pipe_lock, \* whether it is locked: it has no owner
  main, pc,           \* where main and each worker are
  op_code, bytes_read, \* locals of main()
  session_id          \* in function(): the index searched, then the session

workerVars == <<opcode, to_execute>>
locals == <<op_code, bytes_read, session_id>>
vars == <<queue, workerVars, lock, asleep, register_pipe_lock, main, pc, locals>>

\* The queue as PCQueue implements it: session_worker ignores what
\* pcq_dequeue returns.
PCQ == INSTANCE BoundedBuffer WITH
         contents <- queue, Capacity <- max_sessions,
         Elements <- Workers \cup {NoSession}

MainGoto(here, there) == main = here /\ main' = there
Goto(w, here, there) == pc[w] = here /\ pc' = [pc EXCEPT ![w] = there]

Init ==
  /\ queue = <<>>
  /\ opcode = [w \in Workers |-> NoOp]
  /\ to_execute = [w \in Workers |-> FALSE]
  /\ lock = [w \in Workers |-> "free"]
  /\ asleep = {}
  /\ register_pipe_lock = FALSE
  /\ main = "open" /\ pc = [w \in Workers |-> "lock"]
  /\ op_code = NoOp /\ bytes_read = 0 /\ session_id = NoSession

-----------------------------------------------------------------------------
(* main and function *)

\* A failing open unlinks the pipe and ends the process.
MainOpen ==
  /\ main = "open" /\ main' \in {"first_read", "exited"}
  /\ UNCHANGED <<queue, workerVars, lock, asleep, register_pipe_lock, pc, locals>>

\* read(register_pipe, &op_code, 1), retried on EINTR.
ReadOpCode ==
  \/ bytes_read' = 1 /\ op_code' \in OpCodes \cup {NoOp}
  \/ bytes_read' = 0 /\ UNCHANGED op_code
  \/ ReadsFail /\ bytes_read' = -1 /\ UNCHANGED op_code

\* Where main goes with what it has read.
AfterRead(bytes, op) ==
  IF bytes > 0 THEN (IF op \in OpCodes THEN "scan" ELSE "lock_pipe")
  ELSE IF bytes = 0 THEN "close" ELSE "exited"

\* The first read after an open takes no lock.
MainFirstRead ==
  /\ ReadOpCode
  /\ MainGoto("first_read", AfterRead(bytes_read', op_code'))
  /\ session_id' = IF main' = "scan" THEN 0 ELSE session_id
  /\ UNCHANGED <<queue, workerVars, lock, asleep, register_pipe_lock, pc>>

\* Mutant: the first worker, whether or not it is serving a session.
MainScan_Any ==
  /\ MainGoto("scan", "enqueue") /\ session_id' = 0
  /\ UNCHANGED <<queue, workerVars, lock, asleep, register_pipe_lock, pc, op_code,
                 bytes_read>>

\* Mutant: the index the search stopped at is the session, found or not.
MainScan_IndexIsSession ==
  /\ main = "scan"
  /\ IF session_id < max_sessions /\ to_execute[session_id]
       THEN main' = "scan" /\ session_id' = session_id + 1
       ELSE main' = "enqueue" /\ UNCHANGED session_id
  /\ UNCHANGED <<queue, workerVars, lock, asleep, register_pipe_lock, pc, op_code,
                 bytes_read>>

\* One turn of the search for a worker, which takes no lock.  Past the last
\* one it reports "No sessions left" and goes on with workers[-1].
MainScan ==
  /\ main = "scan"
  /\ IF session_id = max_sessions
       THEN main' = "enqueue" /\ session_id' = NoSession
     ELSE IF to_execute[session_id]
       THEN main' = "scan" /\ session_id' = session_id + 1
     ELSE main' = "enqueue" /\ UNCHANGED session_id
  /\ UNCHANGED <<queue, workerVars, lock, asleep, register_pipe_lock, pc, op_code,
                 bytes_read>>

MainEnqueue ==
  /\ MainGoto("enqueue", "lock_worker")
  /\ PCQ!Enqueue(session_id)
  /\ UNCHANGED <<workerVars, lock, asleep, register_pipe_lock, pc, locals>>

\* What lies at workers[-1] is memory of somebody else: using it ends the
\* process or is not noticed.
MainLockWorker ==
  /\ \/ /\ session_id \in Workers /\ lock[session_id] = "free"
        /\ lock' = [lock EXCEPT ![session_id] = "main"]
        /\ MainGoto("lock_worker", "fill")
     \/ /\ session_id = NoSession
        /\ main = "lock_worker" /\ main' \in {"fill", "crashed"}
        /\ UNCHANGED lock
  /\ UNCHANGED <<queue, workerVars, asleep, register_pipe_lock, pc, locals>>

\* parser_fn is NULL in every call.
MainFill ==
  /\ MainGoto("fill", "lock_handoff")
  /\ opcode' = [w \in Workers |-> IF w = session_id THEN op_code ELSE opcode[w]]
  /\ UNCHANGED <<queue, to_execute, lock, asleep, register_pipe_lock, pc, locals>>

\* Mutant: main does not lock the pipe for the worker.
MainLockHandoff_Skipped ==
  /\ MainGoto("lock_handoff", "signal")
  /\ UNCHANGED <<queue, workerVars, lock, asleep, register_pipe_lock, pc, locals>>

\* Locked here for the worker, which unlocks it in process_entry.
MainLockHandoff ==
  /\ MainGoto("lock_handoff", "signal")
  /\ ~register_pipe_lock /\ register_pipe_lock' = TRUE
  /\ UNCHANGED <<queue, workerVars, lock, asleep, pc, locals>>

\* Mutant: to_execute is set but the worker is not signalled.
MainSignal_Lost ==
  /\ MainGoto("signal", "unlock_worker")
  /\ to_execute' = [w \in Workers |-> to_execute[w] \/ w = session_id]
  /\ UNCHANGED <<queue, opcode, lock, asleep, register_pipe_lock, pc, locals>>

MainSignal ==
  /\ MainGoto("signal", "unlock_worker")
  /\ to_execute' = [w \in Workers |-> to_execute[w] \/ w = session_id]
  /\ asleep' = asleep \ {session_id}
  /\ UNCHANGED <<queue, opcode, lock, register_pipe_lock, pc, locals>>

MainUnlockWorker ==
  /\ MainGoto("unlock_worker", "lock_pipe")
  /\ lock' = [w \in Workers |-> IF w = session_id THEN "free" ELSE lock[w]]
  /\ UNCHANGED <<queue, workerVars, asleep, register_pipe_lock, pc, locals>>

\* Mutant: main reads the next code without waiting for the worker.
MainLockPipe_NoWait ==
  /\ MainGoto("lock_pipe", "read")
  /\ register_pipe_lock' = TRUE
  /\ UNCHANGED <<queue, workerVars, lock, asleep, pc, locals>>

\* Back in main: waits until the worker has read the rest of the request.
MainLockPipe ==
  /\ MainGoto("lock_pipe", "read")
  /\ ~register_pipe_lock /\ register_pipe_lock' = TRUE
  /\ UNCHANGED <<queue, workerVars, lock, asleep, pc, locals>>

MainRead ==
  /\ ReadOpCode
  /\ MainGoto("read", "unlock_pipe")
  /\ UNCHANGED <<queue, workerVars, lock, asleep, register_pipe_lock, pc, session_id>>

MainUnlockPipe ==
  /\ MainGoto("unlock_pipe", AfterRead(bytes_read, op_code))
  /\ register_pipe_lock' = FALSE
  /\ session_id' = IF main' = "scan" THEN 0 ELSE session_id
  /\ UNCHANGED <<queue, workerVars, lock, asleep, pc, op_code, bytes_read>>

\* End of file: the pipe is closed and opened again for the next writer.
MainClose ==
  /\ main = "close" /\ main' \in {"open", "exited"}
  /\ UNCHANGED <<queue, workerVars, lock, asleep, register_pipe_lock, pc, locals>>

-----------------------------------------------------------------------------
(* session_worker and process_entry *)

Lock(w) == lock[w] = "free" /\ lock' = [lock EXCEPT ![w] = "worker"]

WorkerLock(w) ==
  /\ Goto(w, "lock", "check") /\ Lock(w)
  /\ UNCHANGED <<queue, workerVars, asleep, register_pipe_lock, main, locals>>

\* pthread_cond_wait unlocks and sleeps in one step.
WorkerCheck(w) ==
  /\ IF to_execute[w]
       THEN Goto(w, "check", "dequeue") /\ UNCHANGED <<lock, asleep>>
       ELSE /\ Goto(w, "check", "asleep")
            /\ lock' = [lock EXCEPT ![w] = "free"]
            /\ asleep' = asleep \cup {w}
  /\ UNCHANGED <<queue, workerVars, register_pipe_lock, main, locals>>

WorkerWake(w) ==
  /\ w \notin asleep
  /\ Goto(w, "asleep", "check") /\ Lock(w)
  /\ UNCHANGED <<queue, workerVars, asleep, register_pipe_lock, main, locals>>

SpuriousWake(w) ==
  /\ w \in asleep /\ asleep' = asleep \ {w}
  /\ UNCHANGED <<queue, workerVars, lock, register_pipe_lock, main, pc, locals>>

\* Takes any element out, and goes to process_entry if opcode is one it knows.
WorkerDequeue(w) ==
  /\ Goto(w, "dequeue", IF opcode[w] \in OpCodes THEN "read_client" ELSE "done")
  /\ PCQ!Dequeue
  /\ UNCHANGED <<workerVars, lock, asleep, register_pipe_lock, main, locals>>

\* A failed read leaves process_entry with the pipe locked: a create, a remove
\* or a list returns, a publisher's or a subscriber's session turns its client
\* away.
AfterFailure(w) == IF opcode[w] \in LinkOps THEN "refuse" ELSE "done"

WorkerReadClient(w) ==
  /\ \/ Goto(w, "read_client", IF opcode[w] = ListOp THEN "unlock_pipe"
                                                     ELSE "read_box")
     \/ ReadsFail /\ Goto(w, "read_client", AfterFailure(w))
  /\ UNCHANGED <<queue, workerVars, lock, asleep, register_pipe_lock, main, locals>>

WorkerReadBox(w) ==
  /\ \/ Goto(w, "read_box", "unlock_pipe")
     \/ ReadsFail /\ Goto(w, "read_box", AfterFailure(w))
  /\ UNCHANGED <<queue, workerVars, lock, asleep, register_pipe_lock, main, locals>>

\* The client's pipe, or what the failed read left as its path, is opened for
\* writing, which may wait for ever, and "ER" is written: SIGPIPE ends the
\* process if the reader has gone by then.
WorkerRefuse(w) ==
  /\ \/ Goto(w, "refuse", "done") /\ UNCHANGED main
     \/ pc[w] = "refuse" /\ main' = "crashed" /\ UNCHANGED pc
  /\ UNCHANGED <<queue, workerVars, lock, asleep, register_pipe_lock, locals>>

WorkerUnlockPipe(w) ==
  /\ Goto(w, "unlock_pipe", "session")
  /\ register_pipe_lock' = FALSE
  /\ UNCHANGED <<queue, workerVars, lock, asleep, main, locals>>

\* start_publisher, start_subscriber, create_box, remove_box, list_boxes.
WorkerSession(w) ==
  /\ Goto(w, "session", "done")
  /\ UNCHANGED <<queue, workerVars, lock, asleep, register_pipe_lock, main, locals>>

WorkerDone(w) ==
  /\ Goto(w, "done", "unlock")
  /\ to_execute' = [to_execute EXCEPT ![w] = FALSE]
  /\ UNCHANGED <<queue, opcode, lock, asleep, register_pipe_lock, main, locals>>

WorkerUnlock(w) ==
  /\ Goto(w, "unlock", "lock")
  /\ lock' = [lock EXCEPT ![w] = "free"]
  /\ UNCHANGED <<queue, workerVars, asleep, register_pipe_lock, main, locals>>

-----------------------------------------------------------------------------
MainWorks ==
  \/ MainScan \/ MainEnqueue \/ MainLockWorker \/ MainFill \/ MainLockHandoff
  \/ MainSignal \/ MainUnlockWorker \/ MainLockPipe \/ MainUnlockPipe \/ MainClose

MainStep == MainOpen \/ MainFirstRead \/ MainRead \/ MainWorks

\* What a worker does between two sessions.
WorkerWorks(w) ==
  \/ WorkerLock(w) \/ WorkerCheck(w) \/ WorkerWake(w) \/ WorkerDequeue(w)
  \/ WorkerReadClient(w) \/ WorkerReadBox(w) \/ WorkerUnlockPipe(w)
  \/ WorkerDone(w) \/ WorkerUnlock(w)

WorkerStep(w) == WorkerWorks(w) \/ WorkerRefuse(w) \/ WorkerSession(w) \/ SpuriousWake(w)

Running == main \notin {"exited", "crashed"}

\* No thread runs once the process has ended.
Next == \/ MainStep
        \/ Running /\ \E w \in Workers : WorkerStep(w)

Spec == Init /\ [][Next]_vars

\* Threads that can run do; a client need not send another request, a session
\* need not end, and one that turns its client away may wait for it.  A worker
\* that keeps being woken for nothing does not keep main from its lock for ever.
FairSpec == /\ Spec
            /\ WF_vars(MainWorks) /\ SF_vars(MainLockWorker)
            /\ \A w \in Workers : WF_vars(Running /\ WorkerWorks(w))

-----------------------------------------------------------------------------
(* Properties *)

MainHoldsWorker == {"fill", "lock_handoff", "signal", "unlock_worker"}
Assigning == MainHoldsWorker \cup {"scan", "enqueue", "lock_worker"}
ReadsEntry == {"read_client", "read_box"}
WorkerHolds == ReadsEntry \cup {"check", "dequeue", "refuse", "unlock_pipe",
                                "session", "done", "unlock"}

\* Every variable stays in its range.
TypeOK ==
  /\ queue \in Seq(Workers \cup {NoSession})
  /\ opcode \in [Workers -> OpCodes \cup {NoOp}]
  /\ to_execute \in [Workers -> BOOLEAN]
  /\ lock \in [Workers -> {"free", "main", "worker"}]
  /\ asleep \in SUBSET Workers
  /\ register_pipe_lock \in BOOLEAN
  /\ main \in Assigning \cup {"open", "first_read", "lock_pipe", "read",
                              "unlock_pipe", "close", "exited", "crashed"}
  /\ pc \in [Workers -> WorkerHolds \cup {"lock", "asleep"}]
  /\ op_code \in OpCodes \cup {NoOp} /\ bytes_read \in {-1, 0, 1}
  /\ session_id \in NoSession .. max_sessions

\* The bytes of one request go to one reader: while a worker reads its entry
\* no other worker reads one, and main neither reads the pipe, locked or not,
\* nor closes it.
PipeReadersExclusive ==
  \A w \in Workers : pc[w] \in ReadsEntry =>
    /\ main \notin {"open", "first_read", "read", "close"}
    /\ \A v \in Workers \ {w} : pc[v] \notin ReadsEntry

\* Of the capacity max_sessions that init_server gives the queue one element is
\* ever used and a call never waits: pcq_enqueue finds room and pcq_dequeue an
\* element.  It is not said that the buffer holds that element: a pointer
\* does not fit in the max_sessions bytes allocated if there are fewer than 8.
QueueNeverWaits ==
  /\ Len(queue) <= 1
  /\ main = "enqueue" => queue = <<>>
  /\ \A w \in Workers : pc[w] = "dequeue" => queue # <<>>

\* The accepted request, until its worker has read all of it, and the request
\* each session is serving.
Pending == IF \/ main \in Assigning \cup {"crashed"}
              \/ main = "lock_pipe" /\ register_pipe_lock
             THEN op_code ELSE NoOp
Serving == [w \in Workers |-> IF pc[w] = "session" THEN opcode[w] ELSE NoOp]

Pool == INSTANCE SessionPool WITH
          Sessions <- Workers, None <- NoOp, pending <- Pending,
          serving <- Serving

\* Each operation code main reads is served once, by one worker.
ImplementsSessionPool == Pool!Spec

\* Main gets register_pipe_lock back from the worker it gave the request to,
\* however long the sessions last, unless that worker failed to read its entry:
\* then it is done, or turns its client away, with the pipe still locked.
PipeLockComesBack ==
  \A w \in Workers :
    (main = "lock_pipe" /\ session_id = w /\ to_execute[w])
       ~> (main # "lock_pipe" \/ (register_pipe_lock /\ pc[w] \in {"refuse", "done"}))

\* The worker main picks without a lock is free to take the request: main is
\* not held up by a session that does not end.
PickedWorkerIsFree == main = "lock_worker" ~> main # "lock_worker"
=============================================================================
