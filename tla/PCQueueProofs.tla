--------------------------- MODULE PCQueueProofs ---------------------------
(***************************************************************************)
(* For every number of threads and every capacity: the types, the bounds   *)
(* of the queue, what its unlocked checks are worth, and that its contents *)
(* implement BoundedBuffer.                                                *)
(***************************************************************************)
EXTENDS PCQueue, SequenceTheorems, TLAPS

\* Whoever is between the lock and the unlock of a mutex owns it.
Ownership ==
  /\ \A p \in Producers : pc[p] \in ProducerSteps => pcq_head_lock = p
  /\ \A c \in Consumers : pc[c] \in ConsumerSteps => pcq_tail_lock = c
  /\ \A t \in Threads : pc[t] \in SizeSteps => pcq_current_size_lock = t
  /\ \A c \in Consumers : pc[c] \notin {"bump", "shift"}
  /\ \A p \in Producers : pc[p] \in ProducerSteps \cup {"out"}
  /\ \A p \in Producers : pc[p] \in ProducerSteps => elem[p] \in Elements

\* pcq_tail is the index of the oldest element, or where it would be.
TailFollows ==
  /\ pcq_current_size > 0 => pcq_tail = pcq_current_size - 1
  /\ \A p \in Producers : pc[p] = "shift" => pcq_current_size > 0

\* What an undisturbed consumer knows about the slot it took.
Undisturbed ==
  \A c \in Consumers : undisturbed[c] =>
    /\ pcq_current_size < Capacity
    /\ pcq_tail = Dec(pcq_current_size)
    /\ removed[c] = pcq_buffer[pcq_current_size]
    /\ pc[c] \in {"read_slot", "returned"} => slot[c] = pcq_current_size
    /\ pc[c] = "returned" => result[c] = removed[c]
    /\ pc[c] \in {"signal", "free_size", "free_side", "read_tail", "read_slot",
                  "returned"}

IInv == /\ TypeOK
        /\ Ownership
        /\ SizeWithinCapacity
        /\ ChecksStillHold
        /\ WakeLockFree
        /\ TailFollows
        /\ Undisturbed

-----------------------------------------------------------------------------
USE QueueAssumption

\* Type correctness, for any number of threads and any capacity.
THEOREM TypeCorrect == Spec => []TypeOK
<1> USE DEF TypeOK, Threads, Slots, ProducerSteps, ConsumerSteps
<1>1. Init => TypeOK
  BY DEF Init
<1>2. ASSUME TypeOK, [Next]_vars PROVE TypeOK'
  <2> USE <1>2 DEF queue, mutexes, condvars, ghosts, Goto, Inc, Dec, Read,
                   Signalled
  <2>1. ASSUME NEW p \in Producers, EnqLockHead(p) PROVE TypeOK'
    BY <2>1 DEF EnqLockHead
  <2>2. ASSUME NEW p \in Producers, EnqCheck(p) PROVE TypeOK'
    BY <2>2 DEF EnqCheck
  <2>3. ASSUME NEW p \in Producers, EnqWait(p) PROVE TypeOK'
    BY <2>3 DEF EnqWait
  <2>4. ASSUME NEW p \in Producers, EnqWake(p) PROVE TypeOK'
    BY <2>4 DEF EnqWake
  <2>5. ASSUME NEW p \in Producers, EnqLockSize(p) PROVE TypeOK'
    BY <2>5 DEF EnqLockSize
  <2>6. ASSUME NEW p \in Producers, EnqBump(p) PROVE TypeOK'
    BY <2>6 DEF EnqBump
  <2>7. ASSUME NEW p \in Producers, EnqShift(p) PROVE TypeOK'
    BY <2>7 DEF EnqShift
  <2>8. ASSUME NEW p \in Producers, EnqSignal(p) PROVE TypeOK'
    BY <2>8 DEF EnqSignal
  <2>9. ASSUME NEW p \in Producers, EnqUnlockSize(p) PROVE TypeOK'
    BY <2>9 DEF EnqUnlockSize
  <2>10. ASSUME NEW p \in Producers, EnqUnlockHead(p) PROVE TypeOK'
    BY <2>10 DEF EnqUnlockHead
  <2>11. ASSUME NEW c \in Consumers, DeqLockTail(c) PROVE TypeOK'
    BY <2>11 DEF DeqLockTail
  <2>12. ASSUME NEW c \in Consumers, DeqCheck(c) PROVE TypeOK'
    BY <2>12 DEF DeqCheck
  <2>13. ASSUME NEW c \in Consumers, DeqWait(c) PROVE TypeOK'
    BY <2>13 DEF DeqWait
  <2>14. ASSUME NEW c \in Consumers, DeqWake(c) PROVE TypeOK'
    BY <2>14 DEF DeqWake
  <2>15. ASSUME NEW c \in Consumers, DeqLockSize(c) PROVE TypeOK'
    BY <2>15 DEF DeqLockSize
  <2>16. ASSUME NEW c \in Consumers, DeqDrop(c) PROVE TypeOK'
    BY <2>16 DEF DeqDrop
  <2>17. ASSUME NEW c \in Consumers, DeqSignal(c) PROVE TypeOK'
    BY <2>17 DEF DeqSignal
  <2>18. ASSUME NEW c \in Consumers, DeqUnlockSize(c) PROVE TypeOK'
    BY <2>18 DEF DeqUnlockSize
  <2>19. ASSUME NEW c \in Consumers, DeqUnlockTail(c) PROVE TypeOK'
    BY <2>19 DEF DeqUnlockTail
  <2>20. ASSUME NEW c \in Consumers, DeqReadTail(c) PROVE TypeOK'
    BY <2>20 DEF DeqReadTail
  <2>21. ASSUME NEW c \in Consumers, DeqReadSlot(c) PROVE TypeOK'
    BY <2>21 DEF DeqReadSlot
  <2>22. ASSUME NEW c \in Consumers, DeqReturn(c) PROVE TypeOK'
    BY <2>22 DEF DeqReturn
  <2>23. CASE SpuriousWake
    BY <2>23 DEF SpuriousWake
  <2>24. CASE UNCHANGED vars
    BY <2>24 DEF vars
  <2> QED
    BY <2>1, <2>2, <2>3, <2>4, <2>5, <2>6, <2>7, <2>8, <2>9, <2>10, <2>11, <2>12,
       <2>13, <2>14, <2>15, <2>16, <2>17, <2>18, <2>19, <2>20, <2>21, <2>22, <2>23,
       <2>24 DEF Next, Enqueue, Dequeue
<1> QED
  BY <1>1, <1>2, PTL DEF Spec

\* Mutual exclusion: a thread that is past a pthread_mutex_lock and not yet
\* past the matching unlock is the owner.  It holds across the waits because
\* they free another mutex than the one the caller holds.
LEMMA OwnershipHolds == Spec => []Ownership
<1> USE DEF Ownership, Threads, ProducerSteps, ConsumerSteps, SizeSteps
<1>1. Init => Ownership
  BY DEF Init
<1>2. ASSUME TypeOK, Ownership, [Next]_vars PROVE Ownership'
  <2> USE <1>2 DEF TypeOK, queue, mutexes, condvars, ghosts, Goto
  <2>1. ASSUME NEW p \in Producers, EnqLockHead(p) PROVE Ownership'
    BY <2>1 DEF EnqLockHead
  <2>2. ASSUME NEW p \in Producers, EnqCheck(p) PROVE Ownership'
    BY <2>2 DEF EnqCheck
  <2>3. ASSUME NEW p \in Producers, EnqWait(p) PROVE Ownership'
    BY <2>3 DEF EnqWait
  <2>4. ASSUME NEW p \in Producers, EnqWake(p) PROVE Ownership'
    BY <2>4 DEF EnqWake
  <2>5. ASSUME NEW p \in Producers, EnqLockSize(p) PROVE Ownership'
    BY <2>5 DEF EnqLockSize
  <2>6. ASSUME NEW p \in Producers, EnqBump(p) PROVE Ownership'
    BY <2>6 DEF EnqBump
  <2>7. ASSUME NEW p \in Producers, EnqShift(p) PROVE Ownership'
    BY <2>7 DEF EnqShift
  <2>8. ASSUME NEW p \in Producers, EnqSignal(p) PROVE Ownership'
    BY <2>8 DEF EnqSignal
  <2>9. ASSUME NEW p \in Producers, EnqUnlockSize(p) PROVE Ownership'
    BY <2>9 DEF EnqUnlockSize
  <2>10. ASSUME NEW p \in Producers, EnqUnlockHead(p) PROVE Ownership'
    BY <2>10 DEF EnqUnlockHead
  <2>11. ASSUME NEW c \in Consumers, DeqLockTail(c) PROVE Ownership'
    BY <2>11 DEF DeqLockTail
  <2>12. ASSUME NEW c \in Consumers, DeqCheck(c) PROVE Ownership'
    BY <2>12 DEF DeqCheck
  <2>13. ASSUME NEW c \in Consumers, DeqWait(c) PROVE Ownership'
    BY <2>13 DEF DeqWait
  <2>14. ASSUME NEW c \in Consumers, DeqWake(c) PROVE Ownership'
    BY <2>14 DEF DeqWake
  <2>15. ASSUME NEW c \in Consumers, DeqLockSize(c) PROVE Ownership'
    BY <2>15 DEF DeqLockSize
  <2>16. ASSUME NEW c \in Consumers, DeqDrop(c) PROVE Ownership'
    BY <2>16 DEF DeqDrop
  <2>17. ASSUME NEW c \in Consumers, DeqSignal(c) PROVE Ownership'
    BY <2>17 DEF DeqSignal
  <2>18. ASSUME NEW c \in Consumers, DeqUnlockSize(c) PROVE Ownership'
    BY <2>18 DEF DeqUnlockSize
  <2>19. ASSUME NEW c \in Consumers, DeqUnlockTail(c) PROVE Ownership'
    BY <2>19 DEF DeqUnlockTail
  <2>20. ASSUME NEW c \in Consumers, DeqReadTail(c) PROVE Ownership'
    BY <2>20 DEF DeqReadTail
  <2>21. ASSUME NEW c \in Consumers, DeqReadSlot(c) PROVE Ownership'
    BY <2>21 DEF DeqReadSlot
  <2>22. ASSUME NEW c \in Consumers, DeqReturn(c) PROVE Ownership'
    BY <2>22 DEF DeqReturn
  <2>23. CASE SpuriousWake
    BY <2>23 DEF SpuriousWake
  <2>24. CASE UNCHANGED vars
    BY <2>24 DEF vars
  <2> QED
    BY <2>1, <2>2, <2>3, <2>4, <2>5, <2>6, <2>7, <2>8, <2>9, <2>10, <2>11, <2>12,
       <2>13, <2>14, <2>15, <2>16, <2>17, <2>18, <2>19, <2>20, <2>21, <2>22, <2>23,
       <2>24 DEF Next, Enqueue, Dequeue
<1> QED
  BY <1>1, <1>2, TypeCorrect, PTL DEF Spec

\* One thread at most of each side sleeps, since the sleeper owns its mutex.
THEOREM OneSleeper == Spec => []OneSleeperPerSide
<1>1. Ownership => OneSleeperPerSide
  BY DEF Ownership, OneSleeperPerSide, ProducerSteps, ConsumerSteps
<1> QED
  BY <1>1, OwnershipHolds, PTL

Bounds == SizeWithinCapacity /\ ChecksStillHold

\* The queue never overflows or underflows: only producers make it longer and
\* the one that has checked the size still holds pcq_head_lock when it does;
\* the same for consumers with pcq_tail_lock.
LEMMA BoundsHold == Spec => []Bounds
<1> USE DEF Bounds, SizeWithinCapacity, ChecksStillHold, Threads,
            ProducerSteps, ConsumerSteps
<1>1. Init => Bounds
  BY DEF Init
<1>2. ASSUME TypeOK, Ownership, Bounds, [Next]_vars PROVE Bounds'
  <2> USE <1>2 DEF TypeOK, Ownership, SizeSteps, queue, mutexes, condvars,
                   ghosts, Goto, Inc, Dec
  <2>1. ASSUME NEW p \in Producers, EnqLockHead(p) PROVE Bounds'
    BY <2>1 DEF EnqLockHead
  <2>2. ASSUME NEW p \in Producers, EnqCheck(p) PROVE Bounds'
    BY <2>2 DEF EnqCheck
  <2>3. ASSUME NEW p \in Producers, EnqWait(p) PROVE Bounds'
    BY <2>3 DEF EnqWait
  <2>4. ASSUME NEW p \in Producers, EnqWake(p) PROVE Bounds'
    BY <2>4 DEF EnqWake
  <2>5. ASSUME NEW p \in Producers, EnqLockSize(p) PROVE Bounds'
    BY <2>5 DEF EnqLockSize
  <2>6. ASSUME NEW p \in Producers, EnqBump(p) PROVE Bounds'
    BY <2>6 DEF EnqBump
  <2>7. ASSUME NEW p \in Producers, EnqShift(p) PROVE Bounds'
    BY <2>7 DEF EnqShift
  <2>8. ASSUME NEW p \in Producers, EnqSignal(p) PROVE Bounds'
    BY <2>8 DEF EnqSignal
  <2>9. ASSUME NEW p \in Producers, EnqUnlockSize(p) PROVE Bounds'
    BY <2>9 DEF EnqUnlockSize
  <2>10. ASSUME NEW p \in Producers, EnqUnlockHead(p) PROVE Bounds'
    BY <2>10 DEF EnqUnlockHead
  <2>11. ASSUME NEW c \in Consumers, DeqLockTail(c) PROVE Bounds'
    BY <2>11 DEF DeqLockTail
  <2>12. ASSUME NEW c \in Consumers, DeqCheck(c) PROVE Bounds'
    BY <2>12 DEF DeqCheck
  <2>13. ASSUME NEW c \in Consumers, DeqWait(c) PROVE Bounds'
    BY <2>13 DEF DeqWait
  <2>14. ASSUME NEW c \in Consumers, DeqWake(c) PROVE Bounds'
    BY <2>14 DEF DeqWake
  <2>15. ASSUME NEW c \in Consumers, DeqLockSize(c) PROVE Bounds'
    BY <2>15 DEF DeqLockSize
  <2>16. ASSUME NEW c \in Consumers, DeqDrop(c) PROVE Bounds'
    BY <2>16 DEF DeqDrop
  <2>17. ASSUME NEW c \in Consumers, DeqSignal(c) PROVE Bounds'
    BY <2>17 DEF DeqSignal
  <2>18. ASSUME NEW c \in Consumers, DeqUnlockSize(c) PROVE Bounds'
    BY <2>18 DEF DeqUnlockSize
  <2>19. ASSUME NEW c \in Consumers, DeqUnlockTail(c) PROVE Bounds'
    BY <2>19 DEF DeqUnlockTail
  <2>20. ASSUME NEW c \in Consumers, DeqReadTail(c) PROVE Bounds'
    BY <2>20 DEF DeqReadTail
  <2>21. ASSUME NEW c \in Consumers, DeqReadSlot(c) PROVE Bounds'
    BY <2>21 DEF DeqReadSlot
  <2>22. ASSUME NEW c \in Consumers, DeqReturn(c) PROVE Bounds'
    BY <2>22 DEF DeqReturn
  <2>23. CASE SpuriousWake
    BY <2>23 DEF SpuriousWake
  <2>24. CASE UNCHANGED vars
    BY <2>24 DEF vars
  <2> QED
    BY <2>1, <2>2, <2>3, <2>4, <2>5, <2>6, <2>7, <2>8, <2>9, <2>10, <2>11, <2>12,
       <2>13, <2>14, <2>15, <2>16, <2>17, <2>18, <2>19, <2>20, <2>21, <2>22, <2>23,
       <2>24 DEF Next, Enqueue, Dequeue
<1> QED
  BY <1>1, <1>2, TypeCorrect, OwnershipHolds, PTL DEF Spec

\* pcq_current_size never exceeds the capacity.
THEOREM QueueBounded == Spec => []SizeWithinCapacity
BY BoundsHold, PTL DEF Bounds

\* What a thread found in its unlocked test holds when it acts on it.
THEOREM ChecksStayValid == Spec => []ChecksStillHold
BY BoundsHold, PTL DEF Bounds

\* A signalled sleeper never waits for the mutex of its condition variable.
THEOREM WakeNeverBlocks == Spec => []WakeLockFree
<1> USE DEF WakeLockFree, Threads
<1>1. Init => WakeLockFree
  BY DEF Init
<1>2. ASSUME TypeOK, Ownership, WakeLockFree, [Next]_vars PROVE WakeLockFree'
  <2> USE <1>2 DEF TypeOK, Ownership, ProducerSteps, ConsumerSteps, queue,
                   mutexes, condvars, ghosts, Goto
  <2>1. ASSUME NEW p \in Producers, EnqLockHead(p) PROVE WakeLockFree'
    BY <2>1 DEF EnqLockHead
  <2>2. ASSUME NEW p \in Producers, EnqCheck(p) PROVE WakeLockFree'
    BY <2>2 DEF EnqCheck
  <2>3. ASSUME NEW p \in Producers, EnqWait(p) PROVE WakeLockFree'
    BY <2>3 DEF EnqWait
  <2>4. ASSUME NEW p \in Producers, EnqWake(p) PROVE WakeLockFree'
    BY <2>4 DEF EnqWake
  <2>5. ASSUME NEW p \in Producers, EnqLockSize(p) PROVE WakeLockFree'
    BY <2>5 DEF EnqLockSize
  <2>6. ASSUME NEW p \in Producers, EnqBump(p) PROVE WakeLockFree'
    BY <2>6 DEF EnqBump
  <2>7. ASSUME NEW p \in Producers, EnqShift(p) PROVE WakeLockFree'
    BY <2>7 DEF EnqShift
  <2>8. ASSUME NEW p \in Producers, EnqSignal(p) PROVE WakeLockFree'
    BY <2>8 DEF EnqSignal
  <2>9. ASSUME NEW p \in Producers, EnqUnlockSize(p) PROVE WakeLockFree'
    BY <2>9 DEF EnqUnlockSize
  <2>10. ASSUME NEW p \in Producers, EnqUnlockHead(p) PROVE WakeLockFree'
    BY <2>10 DEF EnqUnlockHead
  <2>11. ASSUME NEW c \in Consumers, DeqLockTail(c) PROVE WakeLockFree'
    BY <2>11 DEF DeqLockTail
  <2>12. ASSUME NEW c \in Consumers, DeqCheck(c) PROVE WakeLockFree'
    BY <2>12 DEF DeqCheck
  <2>13. ASSUME NEW c \in Consumers, DeqWait(c) PROVE WakeLockFree'
    BY <2>13 DEF DeqWait
  <2>14. ASSUME NEW c \in Consumers, DeqWake(c) PROVE WakeLockFree'
    BY <2>14 DEF DeqWake
  <2>15. ASSUME NEW c \in Consumers, DeqLockSize(c) PROVE WakeLockFree'
    BY <2>15 DEF DeqLockSize
  <2>16. ASSUME NEW c \in Consumers, DeqDrop(c) PROVE WakeLockFree'
    BY <2>16 DEF DeqDrop
  <2>17. ASSUME NEW c \in Consumers, DeqSignal(c) PROVE WakeLockFree'
    BY <2>17 DEF DeqSignal
  <2>18. ASSUME NEW c \in Consumers, DeqUnlockSize(c) PROVE WakeLockFree'
    BY <2>18 DEF DeqUnlockSize
  <2>19. ASSUME NEW c \in Consumers, DeqUnlockTail(c) PROVE WakeLockFree'
    BY <2>19 DEF DeqUnlockTail
  <2>20. ASSUME NEW c \in Consumers, DeqReadTail(c) PROVE WakeLockFree'
    BY <2>20 DEF DeqReadTail
  <2>21. ASSUME NEW c \in Consumers, DeqReadSlot(c) PROVE WakeLockFree'
    BY <2>21 DEF DeqReadSlot
  <2>22. ASSUME NEW c \in Consumers, DeqReturn(c) PROVE WakeLockFree'
    BY <2>22 DEF DeqReturn
  <2>23. CASE SpuriousWake
    BY <2>23 DEF SpuriousWake
  <2>24. CASE UNCHANGED vars
    BY <2>24 DEF vars
  <2> QED
    BY <2>1, <2>2, <2>3, <2>4, <2>5, <2>6, <2>7, <2>8, <2>9, <2>10, <2>11, <2>12,
       <2>13, <2>14, <2>15, <2>16, <2>17, <2>18, <2>19, <2>20, <2>21, <2>22, <2>23,
       <2>24 DEF Next, Enqueue, Dequeue
<1> QED
  BY <1>1, <1>2, TypeCorrect, OwnershipHolds, PTL DEF Spec

\* pcq_tail is one less than the size whenever nobody is changing them.
LEMMA TailFollowsHolds == Spec => []TailFollows
<1> USE DEF TailFollows, Threads
<1>1. Init => TailFollows
  BY DEF Init
<1>2. ASSUME TypeOK, Ownership, Bounds, TailFollows, [Next]_vars
      PROVE  TailFollows'
  <2> USE <1>2 DEF TypeOK, Ownership, Bounds, SizeWithinCapacity,
                   ChecksStillHold, ProducerSteps, ConsumerSteps, SizeSteps,
                   queue, mutexes, condvars, ghosts, Goto, Inc, Dec
  <2>1. ASSUME NEW p \in Producers, EnqLockHead(p) PROVE TailFollows'
    BY <2>1 DEF EnqLockHead
  <2>2. ASSUME NEW p \in Producers, EnqCheck(p) PROVE TailFollows'
    BY <2>2 DEF EnqCheck
  <2>3. ASSUME NEW p \in Producers, EnqWait(p) PROVE TailFollows'
    BY <2>3 DEF EnqWait
  <2>4. ASSUME NEW p \in Producers, EnqWake(p) PROVE TailFollows'
    BY <2>4 DEF EnqWake
  <2>5. ASSUME NEW p \in Producers, EnqLockSize(p) PROVE TailFollows'
    BY <2>5 DEF EnqLockSize
  <2>6. ASSUME NEW p \in Producers, EnqBump(p) PROVE TailFollows'
    BY <2>6 DEF EnqBump
  <2>7. ASSUME NEW p \in Producers, EnqShift(p) PROVE TailFollows'
    BY <2>7 DEF EnqShift
  <2>8. ASSUME NEW p \in Producers, EnqSignal(p) PROVE TailFollows'
    BY <2>8 DEF EnqSignal
  <2>9. ASSUME NEW p \in Producers, EnqUnlockSize(p) PROVE TailFollows'
    BY <2>9 DEF EnqUnlockSize
  <2>10. ASSUME NEW p \in Producers, EnqUnlockHead(p) PROVE TailFollows'
    BY <2>10 DEF EnqUnlockHead
  <2>11. ASSUME NEW c \in Consumers, DeqLockTail(c) PROVE TailFollows'
    BY <2>11 DEF DeqLockTail
  <2>12. ASSUME NEW c \in Consumers, DeqCheck(c) PROVE TailFollows'
    BY <2>12 DEF DeqCheck
  <2>13. ASSUME NEW c \in Consumers, DeqWait(c) PROVE TailFollows'
    BY <2>13 DEF DeqWait
  <2>14. ASSUME NEW c \in Consumers, DeqWake(c) PROVE TailFollows'
    BY <2>14 DEF DeqWake
  <2>15. ASSUME NEW c \in Consumers, DeqLockSize(c) PROVE TailFollows'
    BY <2>15 DEF DeqLockSize
  <2>16. ASSUME NEW c \in Consumers, DeqDrop(c) PROVE TailFollows'
    BY <2>16 DEF DeqDrop
  <2>17. ASSUME NEW c \in Consumers, DeqSignal(c) PROVE TailFollows'
    BY <2>17 DEF DeqSignal
  <2>18. ASSUME NEW c \in Consumers, DeqUnlockSize(c) PROVE TailFollows'
    BY <2>18 DEF DeqUnlockSize
  <2>19. ASSUME NEW c \in Consumers, DeqUnlockTail(c) PROVE TailFollows'
    BY <2>19 DEF DeqUnlockTail
  <2>20. ASSUME NEW c \in Consumers, DeqReadTail(c) PROVE TailFollows'
    BY <2>20 DEF DeqReadTail
  <2>21. ASSUME NEW c \in Consumers, DeqReadSlot(c) PROVE TailFollows'
    BY <2>21 DEF DeqReadSlot
  <2>22. ASSUME NEW c \in Consumers, DeqReturn(c) PROVE TailFollows'
    BY <2>22 DEF DeqReturn
  <2>23. CASE SpuriousWake
    BY <2>23 DEF SpuriousWake
  <2>24. CASE UNCHANGED vars
    BY <2>24 DEF vars
  <2> QED
    BY <2>1, <2>2, <2>3, <2>4, <2>5, <2>6, <2>7, <2>8, <2>9, <2>10, <2>11, <2>12,
       <2>13, <2>14, <2>15, <2>16, <2>17, <2>18, <2>19, <2>20, <2>21, <2>22, <2>23,
       <2>24 DEF Next, Enqueue, Dequeue
<1> QED
  BY <1>1, <1>2, TypeCorrect, OwnershipHolds, BoundsHold, PTL DEF Spec

\* A call of pcq_dequeue that is not overtaken returns what it removed: until
\* someone else moves the queue, pcq_tail + 1 is the size it left behind.
LEMMA UndisturbedHolds == Spec => []Undisturbed
<1> USE DEF Undisturbed, Threads, Slots
<1>1. Init => Undisturbed
  BY DEF Init
<1>2. ASSUME TypeOK, Ownership, Bounds, TailFollows, Undisturbed, [Next]_vars
      PROVE  Undisturbed'
  <2> USE <1>2 DEF TypeOK, Ownership, Bounds, SizeWithinCapacity,
                   ChecksStillHold, TailFollows, ProducerSteps, ConsumerSteps,
                   SizeSteps, queue, mutexes, condvars, ghosts, Goto, Inc, Dec,
                   Read
  <2>1. ASSUME NEW p \in Producers, EnqLockHead(p) PROVE Undisturbed'
    BY <2>1 DEF EnqLockHead
  <2>2. ASSUME NEW p \in Producers, EnqCheck(p) PROVE Undisturbed'
    BY <2>2 DEF EnqCheck
  <2>3. ASSUME NEW p \in Producers, EnqWait(p) PROVE Undisturbed'
    BY <2>3 DEF EnqWait
  <2>4. ASSUME NEW p \in Producers, EnqWake(p) PROVE Undisturbed'
    BY <2>4 DEF EnqWake
  <2>5. ASSUME NEW p \in Producers, EnqLockSize(p) PROVE Undisturbed'
    BY <2>5 DEF EnqLockSize
  <2>6. ASSUME NEW p \in Producers, EnqBump(p) PROVE Undisturbed'
    BY <2>6 DEF EnqBump
  <2>7. ASSUME NEW p \in Producers, EnqShift(p) PROVE Undisturbed'
    BY <2>7 DEF EnqShift
  <2>8. ASSUME NEW p \in Producers, EnqSignal(p) PROVE Undisturbed'
    BY <2>8 DEF EnqSignal
  <2>9. ASSUME NEW p \in Producers, EnqUnlockSize(p) PROVE Undisturbed'
    BY <2>9 DEF EnqUnlockSize
  <2>10. ASSUME NEW p \in Producers, EnqUnlockHead(p) PROVE Undisturbed'
    BY <2>10 DEF EnqUnlockHead
  <2>11. ASSUME NEW c \in Consumers, DeqLockTail(c) PROVE Undisturbed'
    BY <2>11 DEF DeqLockTail
  <2>12. ASSUME NEW c \in Consumers, DeqCheck(c) PROVE Undisturbed'
    BY <2>12 DEF DeqCheck
  <2>13. ASSUME NEW c \in Consumers, DeqWait(c) PROVE Undisturbed'
    BY <2>13 DEF DeqWait
  <2>14. ASSUME NEW c \in Consumers, DeqWake(c) PROVE Undisturbed'
    BY <2>14 DEF DeqWake
  <2>15. ASSUME NEW c \in Consumers, DeqLockSize(c) PROVE Undisturbed'
    BY <2>15 DEF DeqLockSize
  <2>16. ASSUME NEW c \in Consumers, DeqDrop(c) PROVE Undisturbed'
    <3> USE <2>16 DEF DeqDrop
    <3>1. /\ pcq_current_size \in 1 .. Capacity
          /\ pcq_tail = pcq_current_size - 1
          /\ pcq_current_size' = pcq_current_size - 1
          /\ pcq_tail' = Dec(pcq_current_size')
          /\ pcq_buffer' = pcq_buffer
      OBVIOUS
    <3>2. removed'[c] = pcq_buffer'[pcq_current_size']
      BY <3>1
    <3>3. pc'[c] = "signal"
      OBVIOUS
    <3>4. ASSUME NEW d \in Consumers, undisturbed'[d] PROVE d = c
      <4>1. undisturbed' = [x \in Consumers |-> x = c]
        OBVIOUS
      <4> QED
        BY <3>4, <4>1, Zenon
    <3> QED
      BY ONLY <3>1, <3>2, <3>3, <3>4, QueueAssumption DEF Undisturbed
  <2>17. ASSUME NEW c \in Consumers, DeqSignal(c) PROVE Undisturbed'
    BY <2>17 DEF DeqSignal
  <2>18. ASSUME NEW c \in Consumers, DeqUnlockSize(c) PROVE Undisturbed'
    BY <2>18 DEF DeqUnlockSize
  <2>19. ASSUME NEW c \in Consumers, DeqUnlockTail(c) PROVE Undisturbed'
    BY <2>19 DEF DeqUnlockTail
  <2>20. ASSUME NEW c \in Consumers, DeqReadTail(c) PROVE Undisturbed'
    BY <2>20 DEF DeqReadTail
  <2>21. ASSUME NEW c \in Consumers, DeqReadSlot(c) PROVE Undisturbed'
    BY <2>21 DEF DeqReadSlot
  <2>22. ASSUME NEW c \in Consumers, DeqReturn(c) PROVE Undisturbed'
    BY <2>22 DEF DeqReturn
  <2>23. CASE SpuriousWake
    BY <2>23 DEF SpuriousWake
  <2>24. CASE UNCHANGED vars
    BY <2>24 DEF vars
  <2> QED
    BY <2>1, <2>2, <2>3, <2>4, <2>5, <2>6, <2>7, <2>8, <2>9, <2>10, <2>11, <2>12,
       <2>13, <2>14, <2>15, <2>16, <2>17, <2>18, <2>19, <2>20, <2>21, <2>22, <2>23,
       <2>24 DEF Next, Enqueue, Dequeue
<1> QED
  BY <1>1, <1>2, TypeCorrect, OwnershipHolds, BoundsHold, TailFollowsHolds,
     PTL DEF Spec

\* The element an undisturbed pcq_dequeue returns is the one it removed.
THEOREM UndisturbedDequeueIsRight == Spec => []UndisturbedDequeue
<1>1. Undisturbed => UndisturbedDequeue
  BY DEF Undisturbed, UndisturbedDequeue
<1> QED
  BY <1>1, UndisturbedHolds, PTL

-----------------------------------------------------------------------------
(* Refinement of BoundedBuffer. *)

Inv == TypeOK /\ Ownership /\ Bounds /\ TailFollows

\* All parts of the invariant together.
LEMMA InvHolds == Spec => []Inv
BY TypeCorrect, OwnershipHolds, BoundsHold, TailFollowsHolds, PTL DEF Inv

\* Storing the new element is the abstract Enqueue: until then the size has
\* been counted up but the slots still are the old ones.
LEMMA ShiftAppends ==
  ASSUME Inv, NEW p \in Producers, EnqShift(p)
  PROVE  Abstract!Enqueue(elem[p])
<1> USE DEF Inv, TypeOK, Ownership, Threads, ProducerSteps, ConsumerSteps,
            SizeSteps, EnqShift, Goto, queue, mutexes, condvars, ghosts
<1> DEFINE n == pcq_current_size - 1
<1>1. n \in Nat /\ n < Capacity /\ pcq_tail = n
  BY DEF Bounds, SizeWithinCapacity, TailFollows
<1>2. Stored = n
  BY DEF Stored
<1>3. Stored' = n + 1
  <2>1. \A q \in Producers : pc'[q] # "shift"
    OBVIOUS
  <2> QED
    BY <1>1, <2>1 DEF Stored
<1>4. \A i \in Slots : pcq_buffer'[i] =
        IF i = 0 THEN elem[p] ELSE IF i <= n THEN pcq_buffer[i - 1] ELSE pcq_buffer[i]
  BY <1>1 DEF Slots
<1>5. Contents' = [i \in 1 .. n + 1 |-> pcq_buffer'[n + 1 - i]]
  BY <1>3 DEF Contents
<1>6. Contents = [i \in 1 .. n |-> pcq_buffer[n - i]]
  BY <1>2 DEF Contents
<1>7. Contents \in Seq(Elements \cup {Junk}) /\ Len(Contents) = n
  BY <1>1, <1>6, \A i \in 1 .. n : n - i \in Slots DEF Slots
<1>8. Contents' = Append(Contents, elem[p])
  <2> DEFINE S == Elements \cup {Junk}
  <2>1. /\ Append(Contents, elem[p]) \in Seq(S)
        /\ Len(Append(Contents, elem[p])) = n + 1
        /\ \A i \in 1 .. n : Append(Contents, elem[p])[i] = Contents[i]
        /\ Append(Contents, elem[p])[n + 1] = elem[p]
    BY <1>7, AppendProperties
  <2>2. \A i \in 1 .. n + 1 : n + 1 - i \in Slots
    BY <1>1 DEF Slots
  <2>3. Contents' \in Seq(S) /\ Len(Contents') = n + 1
    <3>1. pcq_buffer' \in [Slots -> S]
      BY <1>1 DEF Slots
    <3> QED
      BY ONLY <1>1, <1>5, <2>2, <3>1
  <2>4. ASSUME NEW i \in 1 .. n + 1
        PROVE  Contents'[i] = Append(Contents, elem[p])[i]
    <3>1. Contents'[i] = pcq_buffer'[n + 1 - i]
      BY ONLY <1>5
    <3>2. CASE i = n + 1
      <4>1. n + 1 - i = 0 /\ 0 \in Slots
        BY ONLY <1>1, <3>2, QueueAssumption DEF Slots
      <4> QED
        BY ONLY <1>4, <2>1, <3>1, <3>2, <4>1
    <3>3. CASE i # n + 1
      <4>1. i \in 1 .. n
        BY ONLY <1>1, <3>3
      <4>2. n + 1 - i \in Slots /\ n + 1 - i # 0 /\ n + 1 - i <= n
        BY ONLY <1>1, <4>1, QueueAssumption DEF Slots
      <4>3. pcq_buffer'[n + 1 - i] = pcq_buffer[(n + 1 - i) - 1]
        BY ONLY <1>4, <4>2
      <4>4. (n + 1 - i) - 1 = n - i
        BY ONLY <1>1, <4>1
      <4>5. Contents[i] = pcq_buffer[n - i]
        BY ONLY <1>6, <4>1
      <4> QED
        BY ONLY <2>1, <3>1, <4>1, <4>3, <4>4, <4>5
    <3> QED
      BY ONLY <3>2, <3>3
  <2> QED
    BY ONLY <2>1, <2>3, <2>4, SeqEqual
<1> QED
  BY <1>1, <1>7, <1>8 DEF Abstract!Enqueue

\* Dropping the size is the abstract Dequeue.
LEMMA DropTakesOldest ==
  ASSUME Inv, NEW c \in Consumers, DeqDrop(c)
  PROVE  Abstract!Dequeue
<1> USE DEF Inv, TypeOK, Ownership, Threads, ProducerSteps, ConsumerSteps,
            SizeSteps, DeqDrop, Goto, queue, mutexes, condvars, ghosts
<1> DEFINE n == pcq_current_size - 1
<1>1. n \in Nat /\ n < Capacity /\ pcq_current_size' = n
  BY DEF Bounds, SizeWithinCapacity, ChecksStillHold, Dec
<1>2. /\ \A q \in Producers : pc[q] # "shift"
      /\ \A q \in Producers : pc'[q] # "shift"
  OBVIOUS
<1>3. Stored = n + 1 /\ Stored' = n
  BY <1>1, <1>2 DEF Stored
<1>4. Contents = [i \in 1 .. n + 1 |-> pcq_buffer[n + 1 - i]]
  BY <1>3 DEF Contents
<1>5. Contents' = [i \in 1 .. n |-> pcq_buffer[n - i]]
  BY <1>3 DEF Contents
<1>6. Contents \in Seq(Elements \cup {Junk}) /\ Len(Contents) = n + 1
  BY <1>1, <1>4, \A i \in 1 .. n + 1 : n + 1 - i \in Slots DEF Slots
<1>7. Contents' = Tail(Contents)
  <2> DEFINE S == Elements \cup {Junk}
  <2>0. Contents # <<>>
    BY <1>1, <1>6
  <2>1. /\ Tail(Contents) \in Seq(S) /\ Len(Tail(Contents)) = n
        /\ \A i \in 1 .. n : Tail(Contents)[i] = Contents[i + 1]
    BY <1>1, <1>6, <2>0, HeadTailProperties
  <2>2. Contents' \in Seq(S) /\ Len(Contents') = n
    BY <1>1, <1>5, \A i \in 1 .. n : n - i \in Slots DEF Slots
  <2>3. ASSUME NEW i \in 1 .. n PROVE Contents'[i] = Tail(Contents)[i]
    <3>1. i + 1 \in 1 .. n + 1 /\ n + 1 - (i + 1) = n - i
      BY ONLY <1>1
    <3>2. Contents[i + 1] = pcq_buffer[n - i]
      BY ONLY <1>4, <3>1
    <3>3. Contents'[i] = pcq_buffer[n - i]
      BY ONLY <1>5
    <3> QED
      BY ONLY <2>1, <3>2, <3>3
  <2> QED
    BY ONLY <2>1, <2>2, <2>3, SeqEqual
<1>8. Contents # <<>>
  BY <1>1, <1>6
<1> QED
  BY <1>7, <1>8 DEF Abstract!Dequeue

\* No other step changes what is stored.
LEMMA OthersStutter ==
  ASSUME Inv, [Next]_vars,
         \A p \in Producers : ~EnqShift(p), \A c \in Consumers : ~DeqDrop(c)
  PROVE  UNCHANGED Contents
<1> USE DEF Inv, TypeOK, Ownership, Threads, ProducerSteps, ConsumerSteps,
            SizeSteps, Goto, queue, mutexes, condvars, ghosts
<1>1. ASSUME UNCHANGED pcq_buffer, Stored' = Stored PROVE UNCHANGED Contents
  BY <1>1 DEF Contents
<1>2. ASSUME UNCHANGED queue,
             \A q \in Producers : pc'[q] = "shift" <=> pc[q] = "shift"
      PROVE  UNCHANGED Contents
  BY <1>1, <1>2 DEF Stored
<1>3. ASSUME NEW p \in Producers, EnqBump(p) PROVE UNCHANGED Contents
  <2>1. pcq_current_size \in Nat /\ pcq_current_size' = pcq_current_size + 1
    BY <1>3 DEF EnqBump, Inc, Bounds, SizeWithinCapacity
  <2>2. (\A q \in Producers : pc[q] # "shift") /\ pc'[p] = "shift"
    BY <1>3 DEF EnqBump
  <2>3. Stored' = Stored
    BY <2>1, <2>2 DEF Stored
  <2> QED
    BY <1>1, <1>3, <2>3 DEF EnqBump
<1>4. ASSUME NEW p \in Producers, Enqueue(p), ~EnqShift(p), ~EnqBump(p)
      PROVE  UNCHANGED Contents
  <2>1. CASE EnqLockHead(p)
    BY <1>2, <2>1 DEF EnqLockHead
  <2>2. CASE EnqCheck(p)
    BY <1>2, <2>2 DEF EnqCheck
  <2>3. CASE EnqWait(p)
    BY <1>2, <2>3 DEF EnqWait
  <2>4. CASE EnqWake(p)
    BY <1>2, <2>4 DEF EnqWake
  <2>5. CASE EnqLockSize(p)
    BY <1>2, <2>5 DEF EnqLockSize
  <2>6. CASE EnqSignal(p)
    BY <1>2, <2>6 DEF EnqSignal
  <2>7. CASE EnqUnlockSize(p)
    BY <1>2, <2>7 DEF EnqUnlockSize
  <2>8. CASE EnqUnlockHead(p)
    BY <1>2, <2>8 DEF EnqUnlockHead
  <2> QED
    BY <1>4, <2>1, <2>2, <2>3, <2>4, <2>5, <2>6, <2>7, <2>8 DEF Enqueue
<1>5. ASSUME NEW c \in Consumers, Dequeue(c), ~DeqDrop(c)
      PROVE  UNCHANGED Contents
  <2>1. CASE DeqLockTail(c)
    BY <1>2, <2>1 DEF DeqLockTail
  <2>2. CASE DeqCheck(c)
    BY <1>2, <2>2 DEF DeqCheck
  <2>3. CASE DeqWait(c)
    BY <1>2, <2>3 DEF DeqWait
  <2>4. CASE DeqWake(c)
    BY <1>2, <2>4 DEF DeqWake
  <2>5. CASE DeqLockSize(c)
    BY <1>2, <2>5 DEF DeqLockSize
  <2>6. CASE DeqSignal(c)
    BY <1>2, <2>6 DEF DeqSignal
  <2>7. CASE DeqUnlockSize(c)
    BY <1>2, <2>7 DEF DeqUnlockSize
  <2>8. CASE DeqUnlockTail(c)
    BY <1>2, <2>8 DEF DeqUnlockTail
  <2>9. CASE DeqReadTail(c)
    BY <1>2, <2>9 DEF DeqReadTail
  <2>10. CASE DeqReadSlot(c)
    BY <1>2, <2>10 DEF DeqReadSlot
  <2>11. CASE DeqReturn(c)
    BY <1>2, <2>11 DEF DeqReturn
  <2> QED
    BY <1>5, <2>1, <2>2, <2>3, <2>4, <2>5, <2>6, <2>7, <2>8, <2>9, <2>10,
       <2>11 DEF Dequeue
<1>6. CASE SpuriousWake
  BY <1>2, <1>6 DEF SpuriousWake
<1>7. CASE UNCHANGED vars
  BY <1>2, <1>7 DEF vars
<1> QED
  BY <1>3, <1>4, <1>5, <1>6, <1>7 DEF Next

\* The stored elements are a FIFO buffer of the given capacity.
THEOREM Refinement == Spec => ImplementsBoundedBuffer
<1>1. Init => Abstract!Init
  BY DEF Init, Abstract!Init, Contents, Stored, Threads
<1>2. ASSUME Inv, [Next]_vars PROVE [Abstract!Next]_Contents
  <2>1. ASSUME NEW p \in Producers, EnqShift(p) PROVE Abstract!Next
    <3>1. elem[p] \in Elements
      BY <1>2, <2>1 DEF Inv, Ownership, EnqShift, Goto, ProducerSteps
    <3> QED
      BY <1>2, <2>1, <3>1, ShiftAppends DEF Abstract!Next
  <2>2. ASSUME NEW c \in Consumers, DeqDrop(c) PROVE Abstract!Next
    BY <1>2, <2>2, DropTakesOldest DEF Abstract!Next
  <2> QED
    BY <1>2, <2>1, <2>2, OthersStutter
<1> QED
  BY <1>1, <1>2, InvHolds, PTL DEF Spec, ImplementsBoundedBuffer, Abstract!Spec
=============================================================================
