--------------------------- MODULE DispatchProofs ---------------------------
(***************************************************************************)
(* For every number of workers and every set of operation codes: main and  *)
(* the workers never read the register pipe at the same time, the queue    *)
(* between them holds one element at most, and the dispatch implements     *)
(* SessionPool.                                                            *)
(***************************************************************************)
EXTENDS Dispatch, SequenceTheorems, TLAPS

\* A worker owes main the pipe from the moment main sets its to_execute until
\* it has read its entry, or has turned its client away without.
Undequeued == {"lock", "asleep", "check", "dequeue"}
Entry == ReadsEntry \cup {"refuse", "unlock_pipe"}
Owes(w) == pc[w] \in Entry \/ (to_execute[w] /\ pc[w] \in Undequeued)

Picked == {"enqueue", "lock_worker", "fill", "lock_handoff", "signal"}
Between == {"open", "first_read", "read", "unlock_pipe", "close", "scan"}

\* The search yields a worker or NoSession, and a worker it yields is idle.
PickInRange ==
  /\ main = "scan" => session_id \in 0 .. max_sessions
  /\ main \in Picked \cup {"unlock_worker"} => session_id \in Workers \cup {NoSession}
  /\ main \in Picked /\ session_id \in Workers => ~to_execute[session_id]

\* The owner of each worker's lock.
LockOwners ==
  \A w \in Workers :
    /\ lock[w] = "worker" <=> pc[w] \in WorkerHolds
    /\ lock[w] = "main" <=> main \in MainHoldsWorker /\ session_id = w

\* to_execute stays set while the worker serves the request.
FlagKept ==
  \A w \in Workers :
    /\ pc[w] \in WorkerHolds \ {"check", "unlock"} => to_execute[w]
    /\ pc[w] = "unlock" => ~to_execute[w]

\* Only the worker main picked last owes it the pipe, which is locked then.
OneOwes ==
  \A w \in Workers : Owes(w) => /\ w = session_id
                                /\ register_pipe_lock
                                /\ main \in {"unlock_worker", "lock_pipe", "crashed"}
                                /\ opcode[w] = op_code

\* register_pipe_lock against main's position.
PipeLock ==
  /\ main \in {"signal", "unlock_worker", "read", "unlock_pipe"} => register_pipe_lock
  /\ main \in {"open", "first_read", "close", "scan", "enqueue", "lock_worker",
               "fill", "lock_handoff"} => ~register_pipe_lock

\* What main passes on is an operation code.
CodeKnown ==
  /\ main \in Assigning \cup {"crashed"} => op_code \in OpCodes
  /\ main = "lock_pipe" /\ register_pipe_lock => op_code \in OpCodes
  /\ main \in {"lock_handoff", "signal", "unlock_worker"} /\ session_id \in Workers
       => opcode[session_id] = op_code
  /\ \A w \in Workers : pc[w] = "session" => opcode[w] \in OpCodes

\* The queue is empty unless a worker has been picked and has not dequeued.
OneQueued ==
  /\ Len(queue) <= 1
  /\ main \in Between \cup {"enqueue"} => queue = <<>>
  /\ main = "lock_pipe" /\ ~register_pipe_lock => queue = <<>>
  /\ main \in Picked \ {"enqueue"} => queue # <<>>
  /\ \A w \in Workers : Owes(w) => (queue = <<>> <=> pc[w] \in Entry)

IInv == /\ TypeOK /\ PickInRange /\ LockOwners /\ FlagKept /\ OneOwes
        /\ PipeLock /\ CodeKnown /\ OneQueued

-----------------------------------------------------------------------------
USE DispatchAssumption DEF Workers, NoSession, OpCodes, Assigning,
    MainHoldsWorker, ReadsEntry, WorkerHolds, Undequeued, Entry, Picked, Between

\* The broker starts inside the invariant.
LEMMA InitHolds == Init => IInv
BY DEF Init, IInv, TypeOK, PickInRange, LockOwners, FlagKept, OneOwes, Owes,
       PipeLock, CodeKnown, OneQueued

\* Every step keeps the variables in their ranges.
LEMMA KeepsTypeOK == IInv /\ [Next]_vars => TypeOK'
<1> SUFFICES ASSUME IInv, [Next]_vars PROVE TypeOK'
  OBVIOUS
<1> USE DEF IInv, TypeOK, PickInRange, LockOwners, FlagKept, OneOwes, Owes,
            PipeLock, CodeKnown, OneQueued, workerVars, locals, MainGoto, Goto
<1>1. CASE MainOpen
  BY <1>1 DEF MainOpen
<1>2. CASE MainFirstRead
  BY <1>2 DEF MainFirstRead, ReadOpCode, AfterRead
<1>3. CASE MainRead
  BY <1>3 DEF MainRead, ReadOpCode
<1>4. CASE MainScan
  BY <1>4 DEF MainScan
<1>5. CASE MainEnqueue
  BY <1>5 DEF MainEnqueue, PCQ!Enqueue
<1>6. CASE MainLockWorker
  BY <1>6 DEF MainLockWorker
<1>7. CASE MainFill
  BY <1>7 DEF MainFill
<1>8. CASE MainLockHandoff
  BY <1>8 DEF MainLockHandoff
<1>9. CASE MainSignal
  BY <1>9 DEF MainSignal
<1>10. CASE MainUnlockWorker
  BY <1>10 DEF MainUnlockWorker
<1>11. CASE MainLockPipe
  BY <1>11 DEF MainLockPipe
<1>12. CASE MainUnlockPipe
  <2>1. /\ main' = AfterRead(bytes_read, op_code)
        /\ register_pipe_lock' = FALSE
        /\ session_id' \in {0, session_id}
        /\ UNCHANGED <<queue, opcode, to_execute, lock, asleep, pc, op_code, bytes_read>>
    BY ONLY <1>12 DEF MainUnlockPipe, MainGoto, workerVars
  <2>2. session_id' \in NoSession .. max_sessions
    BY ONLY TypeOK, <2>1, DispatchAssumption DEF TypeOK, NoSession
  <2> QED
    BY ONLY TypeOK, <2>1, <2>2 DEF TypeOK, AfterRead, Assigning
<1>13. CASE MainClose
  BY <1>13 DEF MainClose
<1>14. ASSUME NEW w \in Workers, WorkerLock(w) PROVE TypeOK'
  BY <1>14 DEF WorkerLock, Lock
<1>15. ASSUME NEW w \in Workers, WorkerCheck(w) PROVE TypeOK'
  <2>1. CASE to_execute[w]
    <3>1. /\ pc' = [pc EXCEPT ![w] = "dequeue"]
          /\ UNCHANGED <<queue, opcode, to_execute, lock, asleep, register_pipe_lock,
                         main, op_code, bytes_read, session_id>>
      BY ONLY <1>15, <2>1 DEF WorkerCheck, Goto, workerVars, locals
    <3> QED
      BY ONLY TypeOK, <3>1, w \in Workers DEF TypeOK
  <2>2. CASE ~to_execute[w]
    <3>1. /\ pc' = [pc EXCEPT ![w] = "asleep"]
          /\ lock' = [lock EXCEPT ![w] = "free"]
          /\ asleep' = asleep \cup {w}
          /\ UNCHANGED <<queue, opcode, to_execute, register_pipe_lock, main,
                         op_code, bytes_read, session_id>>
      BY ONLY <1>15, <2>2 DEF WorkerCheck, Goto, workerVars, locals
    <3> QED
      BY ONLY TypeOK, <3>1, w \in Workers DEF TypeOK
  <2> QED
    BY <2>1, <2>2
<1>16. ASSUME NEW w \in Workers, WorkerWake(w) PROVE TypeOK'
  BY <1>16 DEF WorkerWake, Lock
<1>17. ASSUME NEW w \in Workers, WorkerDequeue(w) PROVE TypeOK'
  BY <1>17 DEF WorkerDequeue, PCQ!Dequeue
<1>18. ASSUME NEW w \in Workers, WorkerReadClient(w) PROVE TypeOK'
  BY <1>18 DEF WorkerReadClient, AfterFailure
<1>19. ASSUME NEW w \in Workers, WorkerReadBox(w) PROVE TypeOK'
  BY <1>19 DEF WorkerReadBox, AfterFailure
<1>20. ASSUME NEW w \in Workers, WorkerUnlockPipe(w) PROVE TypeOK'
  BY <1>20 DEF WorkerUnlockPipe
<1>21. ASSUME NEW w \in Workers, WorkerSession(w) PROVE TypeOK'
  BY <1>21 DEF WorkerSession
<1>22. ASSUME NEW w \in Workers, WorkerDone(w) PROVE TypeOK'
  BY <1>22 DEF WorkerDone
<1>23. ASSUME NEW w \in Workers, WorkerUnlock(w) PROVE TypeOK'
  BY <1>23 DEF WorkerUnlock
<1>24. ASSUME NEW w \in Workers, SpuriousWake(w) PROVE TypeOK'
  BY <1>24 DEF SpuriousWake
<1>25. ASSUME Running, NEW w \in Workers, WorkerRefuse(w) PROVE TypeOK'
  BY <1>25 DEF WorkerRefuse, Running
<1>26. CASE UNCHANGED vars
  BY <1>26 DEF vars
<1> QED
  BY <1>1, <1>2, <1>3, <1>4, <1>5, <1>6, <1>7, <1>8, <1>9, <1>10, <1>11,
     <1>12, <1>13, <1>14, <1>15, <1>16, <1>17, <1>18, <1>19, <1>20,
     <1>21, <1>22, <1>23, <1>24, <1>25, <1>26 DEF Next, MainStep, MainWorks,
     WorkerStep, WorkerWorks

\* Every step keeps the session main has picked a worker, and an idle one,
\* or NoSession.
LEMMA KeepsPickInRange == IInv /\ [Next]_vars => PickInRange'
<1> SUFFICES ASSUME IInv, [Next]_vars PROVE PickInRange'
  OBVIOUS
<1> USE DEF IInv, TypeOK, PickInRange, LockOwners, FlagKept, OneOwes, Owes,
            PipeLock, CodeKnown, OneQueued, workerVars, locals, MainGoto, Goto
<1>1. CASE MainOpen
  BY <1>1 DEF MainOpen
<1>2. CASE MainFirstRead
  BY <1>2 DEF MainFirstRead, ReadOpCode, AfterRead
<1>3. CASE MainRead
  BY <1>3 DEF MainRead, ReadOpCode
<1>4. CASE MainScan
  BY <1>4 DEF MainScan
<1>5. CASE MainEnqueue
  BY <1>5 DEF MainEnqueue, PCQ!Enqueue
<1>6. CASE MainLockWorker
  BY <1>6 DEF MainLockWorker
<1>7. CASE MainFill
  BY <1>7 DEF MainFill
<1>8. CASE MainLockHandoff
  BY <1>8 DEF MainLockHandoff
<1>9. CASE MainSignal
  BY <1>9 DEF MainSignal
<1>10. CASE MainUnlockWorker
  BY <1>10 DEF MainUnlockWorker
<1>11. CASE MainLockPipe
  BY <1>11 DEF MainLockPipe
<1>12. CASE MainUnlockPipe
  BY <1>12 DEF MainUnlockPipe, AfterRead
<1>13. CASE MainClose
  BY <1>13 DEF MainClose
<1>14. ASSUME NEW w \in Workers, WorkerLock(w) PROVE PickInRange'
  BY <1>14 DEF WorkerLock, Lock
<1>15. ASSUME NEW w \in Workers, WorkerCheck(w) PROVE PickInRange'
  BY <1>15 DEF WorkerCheck
<1>16. ASSUME NEW w \in Workers, WorkerWake(w) PROVE PickInRange'
  BY <1>16 DEF WorkerWake, Lock
<1>17. ASSUME NEW w \in Workers, WorkerDequeue(w) PROVE PickInRange'
  BY <1>17 DEF WorkerDequeue, PCQ!Dequeue
<1>18. ASSUME NEW w \in Workers, WorkerReadClient(w) PROVE PickInRange'
  BY <1>18 DEF WorkerReadClient, AfterFailure
<1>19. ASSUME NEW w \in Workers, WorkerReadBox(w) PROVE PickInRange'
  BY <1>19 DEF WorkerReadBox, AfterFailure
<1>20. ASSUME NEW w \in Workers, WorkerUnlockPipe(w) PROVE PickInRange'
  BY <1>20 DEF WorkerUnlockPipe
<1>21. ASSUME NEW w \in Workers, WorkerSession(w) PROVE PickInRange'
  BY <1>21 DEF WorkerSession
<1>22. ASSUME NEW w \in Workers, WorkerDone(w) PROVE PickInRange'
  BY <1>22 DEF WorkerDone
<1>23. ASSUME NEW w \in Workers, WorkerUnlock(w) PROVE PickInRange'
  BY <1>23 DEF WorkerUnlock
<1>24. ASSUME NEW w \in Workers, SpuriousWake(w) PROVE PickInRange'
  BY <1>24 DEF SpuriousWake
<1>25. ASSUME Running, NEW w \in Workers, WorkerRefuse(w) PROVE PickInRange'
  BY <1>25 DEF WorkerRefuse, Running
<1>26. CASE UNCHANGED vars
  BY <1>26 DEF vars
<1> QED
  BY <1>1, <1>2, <1>3, <1>4, <1>5, <1>6, <1>7, <1>8, <1>9, <1>10, <1>11,
     <1>12, <1>13, <1>14, <1>15, <1>16, <1>17, <1>18, <1>19, <1>20,
     <1>21, <1>22, <1>23, <1>24, <1>25, <1>26 DEF Next, MainStep, MainWorks,
     WorkerStep, WorkerWorks

\* Every step keeps the owners of the workers' locks.
LEMMA KeepsLockOwners == IInv /\ [Next]_vars => LockOwners'
<1> SUFFICES ASSUME IInv, [Next]_vars PROVE LockOwners'
  OBVIOUS
<1> USE DEF IInv, TypeOK, PickInRange, LockOwners, FlagKept, OneOwes, Owes,
            PipeLock, CodeKnown, OneQueued, workerVars, locals, MainGoto, Goto
<1>1. CASE MainOpen
  BY <1>1 DEF MainOpen
<1>2. CASE MainFirstRead
  BY <1>2 DEF MainFirstRead, ReadOpCode, AfterRead
<1>3. CASE MainRead
  BY <1>3 DEF MainRead, ReadOpCode
<1>4. CASE MainScan
  BY <1>4 DEF MainScan
<1>5. CASE MainEnqueue
  BY <1>5 DEF MainEnqueue, PCQ!Enqueue
<1>6. CASE MainLockWorker
  BY <1>6 DEF MainLockWorker
<1>7. CASE MainFill
  BY <1>7 DEF MainFill
<1>8. CASE MainLockHandoff
  BY <1>8 DEF MainLockHandoff
<1>9. CASE MainSignal
  BY <1>9 DEF MainSignal
<1>10. CASE MainUnlockWorker
  BY <1>10 DEF MainUnlockWorker
<1>11. CASE MainLockPipe
  BY <1>11 DEF MainLockPipe
<1>12. CASE MainUnlockPipe
  BY <1>12 DEF MainUnlockPipe, AfterRead
<1>13. CASE MainClose
  BY <1>13 DEF MainClose
<1>14. ASSUME NEW w \in Workers, WorkerLock(w) PROVE LockOwners'
  BY <1>14 DEF WorkerLock, Lock
<1>15. ASSUME NEW w \in Workers, WorkerCheck(w) PROVE LockOwners'
  BY <1>15 DEF WorkerCheck
<1>16. ASSUME NEW w \in Workers, WorkerWake(w) PROVE LockOwners'
  BY <1>16 DEF WorkerWake, Lock
<1>17. ASSUME NEW w \in Workers, WorkerDequeue(w) PROVE LockOwners'
  BY <1>17 DEF WorkerDequeue, PCQ!Dequeue
<1>18. ASSUME NEW w \in Workers, WorkerReadClient(w) PROVE LockOwners'
  BY <1>18 DEF WorkerReadClient, AfterFailure
<1>19. ASSUME NEW w \in Workers, WorkerReadBox(w) PROVE LockOwners'
  BY <1>19 DEF WorkerReadBox, AfterFailure
<1>20. ASSUME NEW w \in Workers, WorkerUnlockPipe(w) PROVE LockOwners'
  BY <1>20 DEF WorkerUnlockPipe
<1>21. ASSUME NEW w \in Workers, WorkerSession(w) PROVE LockOwners'
  BY <1>21 DEF WorkerSession
<1>22. ASSUME NEW w \in Workers, WorkerDone(w) PROVE LockOwners'
  BY <1>22 DEF WorkerDone
<1>23. ASSUME NEW w \in Workers, WorkerUnlock(w) PROVE LockOwners'
  BY <1>23 DEF WorkerUnlock
<1>24. ASSUME NEW w \in Workers, SpuriousWake(w) PROVE LockOwners'
  BY <1>24 DEF SpuriousWake
<1>25. ASSUME Running, NEW w \in Workers, WorkerRefuse(w) PROVE LockOwners'
  BY <1>25 DEF WorkerRefuse, Running
<1>26. CASE UNCHANGED vars
  BY <1>26 DEF vars
<1> QED
  BY <1>1, <1>2, <1>3, <1>4, <1>5, <1>6, <1>7, <1>8, <1>9, <1>10, <1>11,
     <1>12, <1>13, <1>14, <1>15, <1>16, <1>17, <1>18, <1>19, <1>20,
     <1>21, <1>22, <1>23, <1>24, <1>25, <1>26 DEF Next, MainStep, MainWorks,
     WorkerStep, WorkerWorks

\* Only the worker itself clears to_execute, and only when it is done.
LEMMA KeepsFlagKept == IInv /\ [Next]_vars => FlagKept'
<1> SUFFICES ASSUME IInv, [Next]_vars PROVE FlagKept'
  OBVIOUS
<1> USE DEF IInv, TypeOK, PickInRange, LockOwners, FlagKept, OneOwes, Owes,
            PipeLock, CodeKnown, OneQueued, workerVars, locals, MainGoto, Goto
<1>1. CASE MainOpen
  BY <1>1 DEF MainOpen
<1>2. CASE MainFirstRead
  BY <1>2 DEF MainFirstRead, ReadOpCode, AfterRead
<1>3. CASE MainRead
  BY <1>3 DEF MainRead, ReadOpCode
<1>4. CASE MainScan
  BY <1>4 DEF MainScan
<1>5. CASE MainEnqueue
  BY <1>5 DEF MainEnqueue, PCQ!Enqueue
<1>6. CASE MainLockWorker
  BY <1>6 DEF MainLockWorker
<1>7. CASE MainFill
  BY <1>7 DEF MainFill
<1>8. CASE MainLockHandoff
  BY <1>8 DEF MainLockHandoff
<1>9. CASE MainSignal
  BY <1>9 DEF MainSignal
<1>10. CASE MainUnlockWorker
  BY <1>10 DEF MainUnlockWorker
<1>11. CASE MainLockPipe
  BY <1>11 DEF MainLockPipe
<1>12. CASE MainUnlockPipe
  BY <1>12 DEF MainUnlockPipe, AfterRead
<1>13. CASE MainClose
  BY <1>13 DEF MainClose
<1>14. ASSUME NEW w \in Workers, WorkerLock(w) PROVE FlagKept'
  BY <1>14 DEF WorkerLock, Lock
<1>15. ASSUME NEW w \in Workers, WorkerCheck(w) PROVE FlagKept'
  BY <1>15 DEF WorkerCheck
<1>16. ASSUME NEW w \in Workers, WorkerWake(w) PROVE FlagKept'
  BY <1>16 DEF WorkerWake, Lock
<1>17. ASSUME NEW w \in Workers, WorkerDequeue(w) PROVE FlagKept'
  BY <1>17 DEF WorkerDequeue, PCQ!Dequeue
<1>18. ASSUME NEW w \in Workers, WorkerReadClient(w) PROVE FlagKept'
  BY <1>18 DEF WorkerReadClient, AfterFailure
<1>19. ASSUME NEW w \in Workers, WorkerReadBox(w) PROVE FlagKept'
  BY <1>19 DEF WorkerReadBox, AfterFailure
<1>20. ASSUME NEW w \in Workers, WorkerUnlockPipe(w) PROVE FlagKept'
  BY <1>20 DEF WorkerUnlockPipe
<1>21. ASSUME NEW w \in Workers, WorkerSession(w) PROVE FlagKept'
  BY <1>21 DEF WorkerSession
<1>22. ASSUME NEW w \in Workers, WorkerDone(w) PROVE FlagKept'
  BY <1>22 DEF WorkerDone
<1>23. ASSUME NEW w \in Workers, WorkerUnlock(w) PROVE FlagKept'
  BY <1>23 DEF WorkerUnlock
<1>24. ASSUME NEW w \in Workers, SpuriousWake(w) PROVE FlagKept'
  BY <1>24 DEF SpuriousWake
<1>25. ASSUME Running, NEW w \in Workers, WorkerRefuse(w) PROVE FlagKept'
  BY <1>25 DEF WorkerRefuse, Running
<1>26. CASE UNCHANGED vars
  BY <1>26 DEF vars
<1> QED
  BY <1>1, <1>2, <1>3, <1>4, <1>5, <1>6, <1>7, <1>8, <1>9, <1>10, <1>11,
     <1>12, <1>13, <1>14, <1>15, <1>16, <1>17, <1>18, <1>19, <1>20,
     <1>21, <1>22, <1>23, <1>24, <1>25, <1>26 DEF Next, MainStep, MainWorks,
     WorkerStep, WorkerWorks

\* A second worker cannot come to owe main the pipe: to pick one main needs
\* the pipe back.
LEMMA KeepsOneOwes == IInv /\ [Next]_vars => OneOwes'
<1> SUFFICES ASSUME IInv, [Next]_vars PROVE OneOwes'
  OBVIOUS
<1> USE DEF IInv, TypeOK, PickInRange, LockOwners, FlagKept, OneOwes, Owes,
            PipeLock, CodeKnown, OneQueued, workerVars, locals, MainGoto, Goto
<1>1. CASE MainOpen
  BY <1>1 DEF MainOpen
<1>2. CASE MainFirstRead
  BY <1>2 DEF MainFirstRead, ReadOpCode, AfterRead
<1>3. CASE MainRead
  BY <1>3 DEF MainRead, ReadOpCode
<1>4. CASE MainScan
  BY <1>4 DEF MainScan
<1>5. CASE MainEnqueue
  BY <1>5 DEF MainEnqueue, PCQ!Enqueue
<1>6. CASE MainLockWorker
  BY <1>6 DEF MainLockWorker
<1>7. CASE MainFill
  BY <1>7 DEF MainFill
<1>8. CASE MainLockHandoff
  BY <1>8 DEF MainLockHandoff
<1>9. CASE MainSignal
  BY <1>9 DEF MainSignal
<1>10. CASE MainUnlockWorker
  BY <1>10 DEF MainUnlockWorker
<1>11. CASE MainLockPipe
  BY <1>11 DEF MainLockPipe
<1>12. CASE MainUnlockPipe
  BY <1>12 DEF MainUnlockPipe, AfterRead
<1>13. CASE MainClose
  BY <1>13 DEF MainClose
<1>14. ASSUME NEW w \in Workers, WorkerLock(w) PROVE OneOwes'
  BY <1>14 DEF WorkerLock, Lock
<1>15. ASSUME NEW w \in Workers, WorkerCheck(w) PROVE OneOwes'
  BY <1>15 DEF WorkerCheck
<1>16. ASSUME NEW w \in Workers, WorkerWake(w) PROVE OneOwes'
  BY <1>16 DEF WorkerWake, Lock
<1>17. ASSUME NEW w \in Workers, WorkerDequeue(w) PROVE OneOwes'
  BY <1>17 DEF WorkerDequeue, PCQ!Dequeue
<1>18. ASSUME NEW w \in Workers, WorkerReadClient(w) PROVE OneOwes'
  BY <1>18 DEF WorkerReadClient, AfterFailure
<1>19. ASSUME NEW w \in Workers, WorkerReadBox(w) PROVE OneOwes'
  BY <1>19 DEF WorkerReadBox, AfterFailure
<1>20. ASSUME NEW w \in Workers, WorkerUnlockPipe(w) PROVE OneOwes'
  BY <1>20 DEF WorkerUnlockPipe
<1>21. ASSUME NEW w \in Workers, WorkerSession(w) PROVE OneOwes'
  BY <1>21 DEF WorkerSession
<1>22. ASSUME NEW w \in Workers, WorkerDone(w) PROVE OneOwes'
  BY <1>22 DEF WorkerDone
<1>23. ASSUME NEW w \in Workers, WorkerUnlock(w) PROVE OneOwes'
  BY <1>23 DEF WorkerUnlock
<1>24. ASSUME NEW w \in Workers, SpuriousWake(w) PROVE OneOwes'
  BY <1>24 DEF SpuriousWake
<1>25. ASSUME Running, NEW w \in Workers, WorkerRefuse(w) PROVE OneOwes'
  BY <1>25 DEF WorkerRefuse, Running
<1>26. CASE UNCHANGED vars
  BY <1>26 DEF vars
<1> QED
  BY <1>1, <1>2, <1>3, <1>4, <1>5, <1>6, <1>7, <1>8, <1>9, <1>10, <1>11,
     <1>12, <1>13, <1>14, <1>15, <1>16, <1>17, <1>18, <1>19, <1>20,
     <1>21, <1>22, <1>23, <1>24, <1>25, <1>26 DEF Next, MainStep, MainWorks,
     WorkerStep, WorkerWorks

\* Every step keeps register_pipe_lock in line with main's position.
LEMMA KeepsPipeLock == IInv /\ [Next]_vars => PipeLock'
<1> SUFFICES ASSUME IInv, [Next]_vars PROVE PipeLock'
  OBVIOUS
<1> USE DEF IInv, TypeOK, PickInRange, LockOwners, FlagKept, OneOwes, Owes,
            PipeLock, CodeKnown, OneQueued, workerVars, locals, MainGoto, Goto
<1>1. CASE MainOpen
  BY <1>1 DEF MainOpen
<1>2. CASE MainFirstRead
  BY <1>2 DEF MainFirstRead, ReadOpCode, AfterRead
<1>3. CASE MainRead
  BY <1>3 DEF MainRead, ReadOpCode
<1>4. CASE MainScan
  BY <1>4 DEF MainScan
<1>5. CASE MainEnqueue
  BY <1>5 DEF MainEnqueue, PCQ!Enqueue
<1>6. CASE MainLockWorker
  BY <1>6 DEF MainLockWorker
<1>7. CASE MainFill
  BY <1>7 DEF MainFill
<1>8. CASE MainLockHandoff
  BY <1>8 DEF MainLockHandoff
<1>9. CASE MainSignal
  BY <1>9 DEF MainSignal
<1>10. CASE MainUnlockWorker
  BY <1>10 DEF MainUnlockWorker
<1>11. CASE MainLockPipe
  BY <1>11 DEF MainLockPipe
<1>12. CASE MainUnlockPipe
  BY <1>12 DEF MainUnlockPipe, AfterRead
<1>13. CASE MainClose
  BY <1>13 DEF MainClose
<1>14. ASSUME NEW w \in Workers, WorkerLock(w) PROVE PipeLock'
  BY <1>14 DEF WorkerLock, Lock
<1>15. ASSUME NEW w \in Workers, WorkerCheck(w) PROVE PipeLock'
  BY <1>15 DEF WorkerCheck
<1>16. ASSUME NEW w \in Workers, WorkerWake(w) PROVE PipeLock'
  BY <1>16 DEF WorkerWake, Lock
<1>17. ASSUME NEW w \in Workers, WorkerDequeue(w) PROVE PipeLock'
  BY <1>17 DEF WorkerDequeue, PCQ!Dequeue
<1>18. ASSUME NEW w \in Workers, WorkerReadClient(w) PROVE PipeLock'
  BY <1>18 DEF WorkerReadClient, AfterFailure
<1>19. ASSUME NEW w \in Workers, WorkerReadBox(w) PROVE PipeLock'
  BY <1>19 DEF WorkerReadBox, AfterFailure
<1>20. ASSUME NEW w \in Workers, WorkerUnlockPipe(w) PROVE PipeLock'
  BY <1>20 DEF WorkerUnlockPipe
<1>21. ASSUME NEW w \in Workers, WorkerSession(w) PROVE PipeLock'
  BY <1>21 DEF WorkerSession
<1>22. ASSUME NEW w \in Workers, WorkerDone(w) PROVE PipeLock'
  BY <1>22 DEF WorkerDone
<1>23. ASSUME NEW w \in Workers, WorkerUnlock(w) PROVE PipeLock'
  BY <1>23 DEF WorkerUnlock
<1>24. ASSUME NEW w \in Workers, SpuriousWake(w) PROVE PipeLock'
  BY <1>24 DEF SpuriousWake
<1>25. ASSUME Running, NEW w \in Workers, WorkerRefuse(w) PROVE PipeLock'
  BY <1>25 DEF WorkerRefuse, Running
<1>26. CASE UNCHANGED vars
  BY <1>26 DEF vars
<1> QED
  BY <1>1, <1>2, <1>3, <1>4, <1>5, <1>6, <1>7, <1>8, <1>9, <1>10, <1>11,
     <1>12, <1>13, <1>14, <1>15, <1>16, <1>17, <1>18, <1>19, <1>20,
     <1>21, <1>22, <1>23, <1>24, <1>25, <1>26 DEF Next, MainStep, MainWorks,
     WorkerStep, WorkerWorks

\* Only operation codes are passed on, and each worker has the one main read.
LEMMA KeepsCodeKnown == IInv /\ [Next]_vars => CodeKnown'
<1> SUFFICES ASSUME IInv, [Next]_vars PROVE CodeKnown'
  OBVIOUS
<1> USE DEF IInv, TypeOK, PickInRange, LockOwners, FlagKept, OneOwes, Owes,
            PipeLock, CodeKnown, OneQueued, workerVars, locals, MainGoto, Goto
<1>1. CASE MainOpen
  BY <1>1 DEF MainOpen
<1>2. CASE MainFirstRead
  BY <1>2 DEF MainFirstRead, ReadOpCode, AfterRead
<1>3. CASE MainRead
  BY <1>3 DEF MainRead, ReadOpCode
<1>4. CASE MainScan
  BY <1>4 DEF MainScan
<1>5. CASE MainEnqueue
  BY <1>5 DEF MainEnqueue, PCQ!Enqueue
<1>6. CASE MainLockWorker
  BY <1>6 DEF MainLockWorker
<1>7. CASE MainFill
  BY <1>7 DEF MainFill
<1>8. CASE MainLockHandoff
  BY <1>8 DEF MainLockHandoff
<1>9. CASE MainSignal
  BY <1>9 DEF MainSignal
<1>10. CASE MainUnlockWorker
  BY <1>10 DEF MainUnlockWorker
<1>11. CASE MainLockPipe
  BY <1>11 DEF MainLockPipe
<1>12. CASE MainUnlockPipe
  BY <1>12 DEF MainUnlockPipe, AfterRead
<1>13. CASE MainClose
  BY <1>13 DEF MainClose
<1>14. ASSUME NEW w \in Workers, WorkerLock(w) PROVE CodeKnown'
  BY <1>14 DEF WorkerLock, Lock
<1>15. ASSUME NEW w \in Workers, WorkerCheck(w) PROVE CodeKnown'
  BY <1>15 DEF WorkerCheck
<1>16. ASSUME NEW w \in Workers, WorkerWake(w) PROVE CodeKnown'
  BY <1>16 DEF WorkerWake, Lock
<1>17. ASSUME NEW w \in Workers, WorkerDequeue(w) PROVE CodeKnown'
  BY <1>17 DEF WorkerDequeue, PCQ!Dequeue
<1>18. ASSUME NEW w \in Workers, WorkerReadClient(w) PROVE CodeKnown'
  BY <1>18 DEF WorkerReadClient, AfterFailure
<1>19. ASSUME NEW w \in Workers, WorkerReadBox(w) PROVE CodeKnown'
  BY <1>19 DEF WorkerReadBox, AfterFailure
<1>20. ASSUME NEW w \in Workers, WorkerUnlockPipe(w) PROVE CodeKnown'
  BY <1>20 DEF WorkerUnlockPipe
<1>21. ASSUME NEW w \in Workers, WorkerSession(w) PROVE CodeKnown'
  BY <1>21 DEF WorkerSession
<1>22. ASSUME NEW w \in Workers, WorkerDone(w) PROVE CodeKnown'
  BY <1>22 DEF WorkerDone
<1>23. ASSUME NEW w \in Workers, WorkerUnlock(w) PROVE CodeKnown'
  BY <1>23 DEF WorkerUnlock
<1>24. ASSUME NEW w \in Workers, SpuriousWake(w) PROVE CodeKnown'
  BY <1>24 DEF SpuriousWake
<1>25. ASSUME Running, NEW w \in Workers, WorkerRefuse(w) PROVE CodeKnown'
  BY <1>25 DEF WorkerRefuse, Running
<1>26. CASE UNCHANGED vars
  BY <1>26 DEF vars
<1> QED
  BY <1>1, <1>2, <1>3, <1>4, <1>5, <1>6, <1>7, <1>8, <1>9, <1>10, <1>11,
     <1>12, <1>13, <1>14, <1>15, <1>16, <1>17, <1>18, <1>19, <1>20,
     <1>21, <1>22, <1>23, <1>24, <1>25, <1>26 DEF Next, MainStep, MainWorks,
     WorkerStep, WorkerWorks

\* The queue fills when main picks a worker and empties before the pipe is
\* unlocked.
LEMMA KeepsOneQueued == IInv /\ [Next]_vars => OneQueued'
<1> SUFFICES ASSUME IInv, [Next]_vars PROVE OneQueued'
  OBVIOUS
<1> USE DEF IInv, TypeOK, PickInRange, LockOwners, FlagKept, OneOwes, Owes,
            PipeLock, CodeKnown, OneQueued, workerVars, locals, MainGoto, Goto
<1>1. CASE MainOpen
  BY <1>1 DEF MainOpen
<1>2. CASE MainFirstRead
  BY <1>2 DEF MainFirstRead, ReadOpCode, AfterRead
<1>3. CASE MainRead
  BY <1>3 DEF MainRead, ReadOpCode
<1>4. CASE MainScan
  BY <1>4 DEF MainScan
<1>5. CASE MainEnqueue
  <2>1. /\ main = "enqueue" /\ main' = "lock_worker"
        /\ queue' = Append(<<>>, session_id)
    BY <1>5 DEF MainEnqueue, PCQ!Enqueue
  <2>2. Len(queue') = 1 /\ queue' # <<>>
    BY <2>1
  <2>3. \A w \in Workers : ~Owes(w) /\ ~Owes(w)'
    BY <1>5, <2>1 DEF MainEnqueue
  <2> QED
    BY ONLY <2>1, <2>2, <2>3 DEF OneQueued, Between, Picked
<1>6. CASE MainLockWorker
  BY <1>6 DEF MainLockWorker
<1>7. CASE MainFill
  BY <1>7 DEF MainFill
<1>8. CASE MainLockHandoff
  BY <1>8 DEF MainLockHandoff
<1>9. CASE MainSignal
  BY <1>9 DEF MainSignal
<1>10. CASE MainUnlockWorker
  BY <1>10 DEF MainUnlockWorker
<1>11. CASE MainLockPipe
  BY <1>11 DEF MainLockPipe
<1>12. CASE MainUnlockPipe
  BY <1>12 DEF MainUnlockPipe, AfterRead
<1>13. CASE MainClose
  BY <1>13 DEF MainClose
<1>14. ASSUME NEW w \in Workers, WorkerLock(w) PROVE OneQueued'
  BY <1>14 DEF WorkerLock, Lock
<1>15. ASSUME NEW w \in Workers, WorkerCheck(w) PROVE OneQueued'
  <2>1. UNCHANGED <<queue, to_execute, register_pipe_lock, main>>
    BY ONLY <1>15 DEF WorkerCheck, workerVars
  <2>2. ASSUME NEW v \in Workers, Owes(v)'
        PROVE  Owes(v) /\ (pc'[v] \in Entry <=> pc[v] \in Entry)
    <3>1. \/ pc'[v] = pc[v]
          \/ pc[v] = "check" /\ pc'[v] \in {"dequeue", "asleep"}
      BY ONLY <1>15, w \in Workers, v \in Workers, TypeOK
         DEF TypeOK, WorkerCheck, Goto
    <3> QED
      BY ONLY <2>1, <2>2, <3>1 DEF Owes, Entry, ReadsEntry, Undequeued
  <2> QED
    BY ONLY <2>1, <2>2, OneQueued DEF OneQueued
<1>16. ASSUME NEW w \in Workers, WorkerWake(w) PROVE OneQueued'
  BY <1>16 DEF WorkerWake, Lock
<1>17. ASSUME NEW w \in Workers, WorkerDequeue(w) PROVE OneQueued'
  <2>1. queue # <<>> /\ queue' = Tail(queue) /\ pc[w] = "dequeue"
    BY <1>17 DEF WorkerDequeue, PCQ!Dequeue
  <2>2. queue' = <<>>
    <3>1. /\ queue' \in Seq(Workers \cup {NoSession})
          /\ Len(queue') = Len(queue) - 1
      BY <2>1, HeadTailProperties
    <3> QED
      BY ONLY <2>1, <3>1, Len(queue) <= 1, queue \in Seq(Workers \cup {NoSession})
  <2>3. Owes(w) /\ register_pipe_lock /\ main \in {"lock_pipe", "crashed"}
    <3>1. Owes(w) /\ lock[w] = "worker"
      BY ONLY <2>1, w \in Workers, FlagKept, LockOwners
         DEF Owes, FlagKept, LockOwners, WorkerHolds, Undequeued
    <3> QED
      BY ONLY <3>1, w \in Workers, OneOwes, LockOwners
         DEF OneOwes, LockOwners, MainHoldsWorker
  <2>4. UNCHANGED <<main, register_pipe_lock>>
    BY <1>17 DEF WorkerDequeue
  <2>5. ASSUME NEW v \in Workers, Owes(v)' PROVE pc'[v] \in Entry
    BY <1>17, <2>1, <2>5 DEF WorkerDequeue
  <2>6. Len(<<>>) = 0
    OBVIOUS
  <2> QED
    BY <2>2, <2>3, <2>4, <2>5, <2>6
<1>18. ASSUME NEW w \in Workers, WorkerReadClient(w) PROVE OneQueued'
  BY <1>18 DEF WorkerReadClient, AfterFailure
<1>19. ASSUME NEW w \in Workers, WorkerReadBox(w) PROVE OneQueued'
  BY <1>19 DEF WorkerReadBox, AfterFailure
<1>20. ASSUME NEW w \in Workers, WorkerUnlockPipe(w) PROVE OneQueued'
  BY <1>20 DEF WorkerUnlockPipe
<1>21. ASSUME NEW w \in Workers, WorkerSession(w) PROVE OneQueued'
  BY <1>21 DEF WorkerSession
<1>22. ASSUME NEW w \in Workers, WorkerDone(w) PROVE OneQueued'
  BY <1>22 DEF WorkerDone
<1>23. ASSUME NEW w \in Workers, WorkerUnlock(w) PROVE OneQueued'
  BY <1>23 DEF WorkerUnlock
<1>24. ASSUME NEW w \in Workers, SpuriousWake(w) PROVE OneQueued'
  BY <1>24 DEF SpuriousWake
<1>25. ASSUME Running, NEW w \in Workers, WorkerRefuse(w) PROVE OneQueued'
  BY <1>25 DEF WorkerRefuse, Running
<1>26. CASE UNCHANGED vars
  BY <1>26 DEF vars
<1> QED
  BY <1>1, <1>2, <1>3, <1>4, <1>5, <1>6, <1>7, <1>8, <1>9, <1>10, <1>11,
     <1>12, <1>13, <1>14, <1>15, <1>16, <1>17, <1>18, <1>19, <1>20,
     <1>21, <1>22, <1>23, <1>24, <1>25, <1>26 DEF Next, MainStep, MainWorks,
     WorkerStep, WorkerWorks


\* Main and workers own what they lock, one worker at a time owes main the
\* pipe, and the queue holds an element exactly while one is to be dequeued.
THEOREM InvariantHolds == Spec => []IInv
<1>1. IInv /\ [Next]_vars => IInv'
  BY KeepsTypeOK, KeepsPickInRange, KeepsLockOwners, KeepsFlagKept, KeepsOneOwes,
     KeepsPipeLock, KeepsCodeKnown, KeepsOneQueued DEF IInv
<1> QED
  BY <1>1, InitHolds, PTL DEF Spec

\* Type correctness, for any number of workers.
THEOREM TypeCorrect == Spec => []TypeOK
<1>1. IInv => TypeOK
  BY DEF IInv
<1> QED
  BY <1>1, InvariantHolds, PTL

\* One reader of the register pipe at a time: a worker that reads owes main
\* the pipe, and main asks for its lock before it reads, closes or picks again.
THEOREM ReadersExclude == Spec => []PipeReadersExclusive
<1>1. IInv => PipeReadersExclusive
  BY DEF IInv, OneOwes, Owes, PipeReadersExclusive
<1> QED
  BY <1>1, InvariantHolds, PTL

\* Of max_sessions slots the queue uses one, and no call on it waits.
THEOREM QueueIsSmall == Spec => []QueueNeverWaits
<1>1. IInv => QueueNeverWaits
  BY DEF IInv, TypeOK, FlagKept, OneQueued, Owes, QueueNeverWaits
<1> QED
  BY <1>1, InvariantHolds, PTL

-----------------------------------------------------------------------------
(* Refinement of SessionPool. *)

\* A step of main accepts the request whose code it goes on to dispatch.
LEMMA MainAccepts ==
  ASSUME IInv, MainFirstRead \/ MainUnlockPipe
  PROVE  Pool!Next \/ UNCHANGED Pool!vars
<1> USE DEF IInv, TypeOK, PipeLock, CodeKnown, MainGoto, workerVars, locals
<1>1. Serving' = Serving
  BY DEF MainFirstRead, MainUnlockPipe, Serving
<1>2. Pending = NoOp
  BY DEF MainFirstRead, MainUnlockPipe, Pending
<1>3. Pending' \in OpCodes \cup {NoOp}
  BY DEF MainFirstRead, MainUnlockPipe, Pending, AfterRead, ReadOpCode
<1> QED
  BY ONLY <1>1, <1>2, <1>3 DEF Pool!Next, Pool!Accept, Pool!vars, OpCodes

\* Every other step of main leaves the requests alone.
LEMMA MainStutters ==
  ASSUME IInv, MainStep, ~MainFirstRead, ~MainUnlockPipe
  PROVE  UNCHANGED Pool!vars
<1> USE DEF IInv, TypeOK, PipeLock, CodeKnown, LockOwners, MainGoto, workerVars,
            locals
<1>1. Pending' = Pending
  BY DEF MainStep, MainWorks, MainOpen, MainRead, MainScan, MainEnqueue,
         MainLockWorker, MainFill, MainLockHandoff, MainSignal, MainUnlockWorker,
         MainLockPipe, MainClose, Pending
<1>2. UNCHANGED pc
  BY DEF MainStep, MainWorks, MainOpen, MainRead, MainScan, MainEnqueue,
         MainLockWorker, MainFill, MainLockHandoff, MainSignal, MainUnlockWorker,
         MainLockPipe, MainClose
<1>3. ASSUME NEW w \in Workers, pc[w] = "session" PROVE opcode'[w] = opcode[w]
  BY <1>3 DEF MainStep, MainWorks, MainOpen, MainRead, MainScan, MainEnqueue,
         MainLockWorker, MainFill, MainLockHandoff, MainSignal, MainUnlockWorker,
         MainLockPipe, MainClose
<1>4. Serving' = Serving
  BY ONLY <1>2, <1>3 DEF Serving
<1> QED
  BY ONLY <1>1, <1>4 DEF Pool!vars

\* Unlocking the pipe in process_entry hands the pending request over.
LEMMA UnlockHandsOver ==
  ASSUME IInv, Running, NEW w \in Workers, WorkerUnlockPipe(w)
  PROVE  Pool!HandOver(w)
<1> USE DEF WorkerUnlockPipe, Goto, locals, workerVars
<1>1. /\ w = session_id /\ register_pipe_lock /\ opcode[w] = op_code
      /\ main \in {"unlock_worker", "lock_pipe"}
  BY DEF IInv, OneOwes, Owes, Running
<1>2. main = "lock_pipe"
  BY <1>1 DEF IInv, LockOwners
<1>3. op_code \in OpCodes
  BY <1>1, <1>2 DEF IInv, CodeKnown
<1>4. Pending = op_code /\ Pending # NoOp /\ Pending' = NoOp
  BY <1>1, <1>2, <1>3 DEF Pending
<1>5. Serving[w] = NoOp
  BY DEF Serving
<1>6. Serving' = [Serving EXCEPT ![w] = op_code]
  <2>1. pc \in [Workers -> WorkerHolds \cup {"lock", "asleep"}]
    BY DEF IInv, TypeOK
  <2> QED
    BY ONLY <1>1, <2>1, WorkerUnlockPipe(w)
       DEF Serving, WorkerUnlockPipe, Goto, workerVars
<1> QED
  BY <1>4, <1>5, <1>6 DEF Pool!HandOver

\* The end of a session is the abstract Finish.
LEMMA SessionFinishes ==
  ASSUME IInv, NEW w \in Workers, WorkerSession(w)
  PROVE  Pool!Finish(w)
<1> USE DEF WorkerSession, Goto, locals, workerVars
<1>1. opcode[w] \in OpCodes /\ Serving[w] = opcode[w]
  BY DEF IInv, CodeKnown, Serving
<1>2. Serving' = [Serving EXCEPT ![w] = NoOp]
  <2>1. pc \in [Workers -> WorkerHolds \cup {"lock", "asleep"}]
    BY DEF IInv, TypeOK
  <2> QED
    BY ONLY <2>1, WorkerSession(w) DEF Serving, WorkerSession, Goto, workerVars
<1>3. Pending' = Pending
  BY DEF Pending
<1> QED
  BY <1>1, <1>2, <1>3 DEF Pool!Finish

\* A request that could not be read is not served, and stays pending.
LEMMA RefusalStutters ==
  ASSUME IInv, NEW w \in Workers, WorkerRefuse(w), Running
  PROVE  UNCHANGED Pool!vars
<1> USE DEF Goto, locals, workerVars
<1>1. Owes(w)
  BY DEF WorkerRefuse, Owes
<1>2. /\ register_pipe_lock /\ main = "lock_pipe"
      /\ w \in Workers /\ pc \in [Workers -> WorkerHolds \cup {"lock", "asleep"}]
  BY <1>1 DEF IInv, TypeOK, OneOwes, LockOwners, WorkerRefuse, Running
<1>3. /\ main' \in {"lock_pipe", "crashed"}
      /\ UNCHANGED <<register_pipe_lock, op_code, opcode>>
      /\ \A v \in Workers : pc'[v] = "session" <=> pc[v] = "session"
  BY <1>2 DEF WorkerRefuse
<1>4. Pending' = Pending
  BY ONLY <1>2, <1>3 DEF Pending
<1>5. Serving' = Serving
  BY ONLY <1>3 DEF Serving
<1> QED
  BY ONLY <1>4, <1>5 DEF Pool!vars

\* No other step of a worker changes the requests.
LEMMA WorkerStutters ==
  ASSUME IInv, NEW w \in Workers, WorkerStep(w),
         ~WorkerUnlockPipe(w), ~WorkerSession(w), ~WorkerRefuse(w)
  PROVE  UNCHANGED Pool!vars
<1> USE DEF IInv, TypeOK, Goto, Lock, locals, workerVars
<1>1. UNCHANGED <<main, register_pipe_lock, op_code, opcode>>
  BY DEF WorkerStep, WorkerWorks, WorkerLock, WorkerCheck, WorkerWake,
         WorkerDequeue, WorkerReadClient, WorkerReadBox, AfterFailure, WorkerDone,
         WorkerUnlock, SpuriousWake
<1>2. \A v \in Workers : pc'[v] = "session" <=> pc[v] = "session"
  BY DEF WorkerStep, WorkerWorks, WorkerLock, WorkerCheck, WorkerWake,
         WorkerDequeue, WorkerReadClient, WorkerReadBox, AfterFailure, WorkerDone,
         WorkerUnlock, SpuriousWake
<1>3. Pending' = Pending
  BY ONLY <1>1 DEF Pending
<1>4. Serving' = Serving
  BY ONLY <1>1, <1>2 DEF Serving
<1> QED
  BY ONLY <1>3, <1>4 DEF Pool!vars

\* Each operation code main reads is handed to one idle worker, which serves
\* that operation, before the next one is accepted.
THEOREM Refinement == Spec => ImplementsSessionPool
<1>1. Init => Pool!Init
  BY DEF Init, Pool!Init, Pending, Serving
<1>2. ASSUME IInv, [Next]_vars PROVE [Pool!Next]_(Pool!vars)
  <2>1. CASE MainFirstRead \/ MainUnlockPipe
    BY <1>2, <2>1, MainAccepts
  <2>2. CASE MainStep /\ ~MainFirstRead /\ ~MainUnlockPipe
    BY <1>2, <2>2, MainStutters
  <2>3. ASSUME Running, NEW w \in Workers, WorkerStep(w)
        PROVE  Pool!Next \/ UNCHANGED Pool!vars
    <3>1. CASE WorkerUnlockPipe(w)
      BY <1>2, <2>3, <3>1, UnlockHandsOver DEF Pool!Next
    <3>2. CASE WorkerSession(w)
      BY <1>2, <3>2, SessionFinishes DEF Pool!Next
    <3>3. CASE WorkerRefuse(w)
      BY <1>2, <2>3, <3>3, RefusalStutters
    <3>4. CASE ~WorkerUnlockPipe(w) /\ ~WorkerSession(w) /\ ~WorkerRefuse(w)
      BY <1>2, <2>3, <3>4, WorkerStutters
    <3> QED
      BY <3>1, <3>2, <3>3, <3>4
  <2>4. CASE UNCHANGED vars
    BY <2>4 DEF vars, workerVars, locals, Pool!vars, Pending, Serving
  <2> QED
    BY ONLY <1>2, <2>1, <2>2, <2>3, <2>4 DEF Next
<1> QED
  BY <1>1, <1>2, InvariantHolds, PTL DEF Spec, ImplementsSessionPool, Pool!Spec
=============================================================================
