------------------------------- MODULE PCQueue -------------------------------
(***************************************************************************)
(* producer-consumer/producer-consumer.c, one step per lock operation,     *)
(* per unlocked read of shared memory and per write under a lock.          *)
(*                                                                         *)
(* Both sides wait on a condition variable through a mutex they never      *)
(* lock (pcq_pusher_condvar_lock, pcq_popper_condvar_lock).  POSIX leaves  *)
(* that undefined; the default mutex the build uses has no owner check, so *)
(* pthread_cond_wait frees it whoever holds it and returns with it held.   *)
(***************************************************************************)
EXTENDS Integers, Sequences, FiniteSets

CONSTANTS
  Producers, Consumers, \* the threads that call pcq_enqueue, pcq_dequeue
  Elements,             \* what they queue
  Capacity,             \* pcq_capacity
  Word,                 \* the number of values of a size_t
  NoThread,             \* the owner of a free mutex
  Junk                  \* what an unwritten or out-of-range slot holds

ASSUME QueueAssumption ==
  /\ Capacity \in Nat \ {0}
  /\ Word \in Nat /\ Capacity + 1 < Word
  /\ Producers \cap Consumers = {}
  /\ NoThread \notin Producers \cup Consumers
  /\ Junk \notin Elements

VARIABLES
  pcq_buffer, pcq_current_size, pcq_tail,
  pcq_head_lock, pcq_tail_lock, pcq_current_size_lock,
  pcq_pusher_condvar_lock, pcq_popper_condvar_lock,
  pushers, poppers, \* threads asleep on each condition variable, unsignalled
  pc,               \* where each thread is in its call
  elem,             \* the argument of each producer's call
  slot, result,     \* the index a consumer reads and what its call returns
  removed,          \* ghost: the element its call took out of the queue
  undisturbed       \* ghost: nobody changed the queue since it did

queue  == <<pcq_buffer, pcq_current_size, pcq_tail>>
mutexes == <<pcq_head_lock, pcq_tail_lock, pcq_current_size_lock>>
condvars == <<pushers, poppers, pcq_pusher_condvar_lock, pcq_popper_condvar_lock>>
ghosts == <<removed, undisturbed>>
vars == <<queue, mutexes, condvars, pc, elem, slot, result, ghosts>>

Threads == Producers \cup Consumers

\* The slots of a buffer as long as pcq_capacity says: the caller allocates it.
Slots == 0 .. Capacity - 1

Inc(n) == IF n = Word - 1 THEN 0 ELSE n + 1
Dec(n) == IF n = 0 THEN Word - 1 ELSE n - 1
Read(i) == IF i \in Slots THEN pcq_buffer[i] ELSE Junk

Goto(t, here, there) == pc[t] = here /\ pc' = [pc EXCEPT ![t] = there]

\* pthread_cond_signal: wakes one of the threads asleep, if there is one.
Signalled(asleep, left) ==
  IF asleep = {} THEN left = {} ELSE \E t \in asleep : left = asleep \ {t}

Init ==
  /\ pcq_buffer = [i \in Slots |-> Junk]
  /\ pcq_current_size = 0 /\ pcq_tail = 0
  /\ pcq_head_lock = NoThread /\ pcq_tail_lock = NoThread
  /\ pcq_current_size_lock = NoThread
  /\ pcq_pusher_condvar_lock = NoThread /\ pcq_popper_condvar_lock = NoThread
  /\ pushers = {} /\ poppers = {}
  /\ pc = [t \in Threads |-> "out"]
  /\ elem = [p \in Producers |-> Junk]
  /\ slot = [c \in Consumers |-> 0]
  /\ result = [c \in Consumers |-> Junk]
  /\ removed = [c \in Consumers |-> Junk]
  /\ undisturbed = [c \in Consumers |-> FALSE]

-----------------------------------------------------------------------------
(* pcq_enqueue *)

EnqLockHead(p) ==
  /\ Goto(p, "out", "check")
  /\ pcq_head_lock = NoThread /\ pcq_head_lock' = p
  /\ \E e \in Elements : elem' = [elem EXCEPT ![p] = e]
  /\ UNCHANGED <<queue, pcq_tail_lock, pcq_current_size_lock, condvars, slot,
                 result, ghosts>>

\* The size is read without pcq_current_size_lock.
EnqCheck(p) ==
  /\ Goto(p, "check", IF pcq_current_size = Capacity THEN "wait" ELSE "take_size")
  /\ UNCHANGED <<queue, mutexes, condvars, elem, slot, result, ghosts>>

\* Mutant: wait through pcq_head_lock, the mutex the caller does hold.
EnqWait_FreesHead(p) ==
  /\ Goto(p, "wait", "asleep")
  /\ pcq_head_lock' = NoThread
  /\ pushers' = pushers \cup {p}
  /\ UNCHANGED <<queue, pcq_tail_lock, pcq_current_size_lock, poppers,
                 pcq_pusher_condvar_lock, pcq_popper_condvar_lock, elem, slot,
                 result, ghosts>>

\* Mutant: a mutex that only its owner can free.
EnqWait_ChecksOwner(p) ==
  /\ Goto(p, "wait", "asleep")
  /\ pcq_pusher_condvar_lock' = IF pcq_pusher_condvar_lock = p THEN NoThread
                                                    ELSE pcq_pusher_condvar_lock
  /\ pushers' = pushers \cup {p}
  /\ UNCHANGED <<queue, mutexes, poppers, pcq_popper_condvar_lock, elem, slot,
                 result, ghosts>>

EnqWait(p) ==
  /\ Goto(p, "wait", "asleep")
  /\ pcq_pusher_condvar_lock' = NoThread
  /\ pushers' = pushers \cup {p}
  /\ UNCHANGED <<queue, mutexes, poppers, pcq_popper_condvar_lock, elem, slot,
                 result, ghosts>>

\* Mutant: `if' instead of `while' around the wait.
EnqWake_NoRecheck(p) ==
  /\ p \notin pushers
  /\ Goto(p, "asleep", "take_size")
  /\ pcq_pusher_condvar_lock = NoThread /\ pcq_pusher_condvar_lock' = p
  /\ UNCHANGED <<queue, mutexes, pushers, poppers, pcq_popper_condvar_lock,
                 elem, slot, result, ghosts>>

EnqWake(p) ==
  /\ p \notin pushers
  /\ Goto(p, "asleep", "check")
  /\ pcq_pusher_condvar_lock = NoThread /\ pcq_pusher_condvar_lock' = p
  /\ UNCHANGED <<queue, mutexes, pushers, poppers, pcq_popper_condvar_lock,
                 elem, slot, result, ghosts>>

EnqLockSize(p) ==
  /\ Goto(p, "take_size", "bump")
  /\ pcq_current_size_lock = NoThread /\ pcq_current_size_lock' = p
  /\ UNCHANGED <<queue, pcq_head_lock, pcq_tail_lock, condvars, elem, slot,
                 result, ghosts>>

\* No thread reads both words in one step, so they are written in one.
EnqBump(p) ==
  /\ Goto(p, "bump", "shift")
  /\ pcq_current_size' = Inc(pcq_current_size)
  /\ pcq_tail' = Dec(pcq_current_size')
  /\ undisturbed' = [c \in Consumers |-> FALSE]
  /\ UNCHANGED <<pcq_buffer, mutexes, condvars, elem, slot, result, removed>>

\* Mutant: the shift stops one slot short.
EnqShift_Short(p) ==
  /\ Goto(p, "shift", "signal")
  /\ pcq_buffer' = [i \in Slots |-> IF i = 0 THEN elem[p]
                                  ELSE IF i < pcq_tail THEN pcq_buffer[i - 1]
                                  ELSE pcq_buffer[i]]
  /\ undisturbed' = [c \in Consumers |-> FALSE]
  /\ UNCHANGED <<pcq_current_size, pcq_tail, mutexes, condvars, elem, slot,
                 result, removed>>

\* The loop moves each slot up by one and leaves slot 0 for the new element.
\* A slot past the end of the buffer is written outside it.
EnqShift(p) ==
  /\ Goto(p, "shift", "signal")
  /\ pcq_buffer' = [i \in Slots |-> IF i = 0 THEN elem[p]
                                  ELSE IF i <= pcq_tail THEN pcq_buffer[i - 1]
                                  ELSE pcq_buffer[i]]
  /\ undisturbed' = [c \in Consumers |-> FALSE]
  /\ UNCHANGED <<pcq_current_size, pcq_tail, mutexes, condvars, elem, slot,
                 result, removed>>

EnqSignal(p) ==
  /\ Goto(p, "signal", "free_size")
  /\ poppers' \in SUBSET poppers /\ Signalled(poppers, poppers')
  /\ UNCHANGED <<queue, mutexes, pushers, pcq_pusher_condvar_lock,
                 pcq_popper_condvar_lock, elem, slot, result, ghosts>>

EnqUnlockSize(p) ==
  /\ Goto(p, "free_size", "free_side")
  /\ pcq_current_size_lock' = NoThread
  /\ UNCHANGED <<queue, pcq_head_lock, pcq_tail_lock, condvars, elem, slot,
                 result, ghosts>>

EnqUnlockHead(p) ==
  /\ Goto(p, "free_side", "out")
  /\ pcq_head_lock' = NoThread
  /\ elem' = [elem EXCEPT ![p] = Junk]
  /\ UNCHANGED <<queue, pcq_tail_lock, pcq_current_size_lock, condvars, slot,
                 result, ghosts>>

-----------------------------------------------------------------------------
(* pcq_dequeue *)

DeqLockTail(c) ==
  /\ Goto(c, "out", "check")
  /\ pcq_tail_lock = NoThread /\ pcq_tail_lock' = c
  /\ UNCHANGED <<queue, pcq_head_lock, pcq_current_size_lock, condvars, elem,
                 slot, result, ghosts>>

\* The size is read without pcq_current_size_lock.
DeqCheck(c) ==
  /\ Goto(c, "check", IF pcq_current_size = 0 THEN "wait" ELSE "take_size")
  /\ UNCHANGED <<queue, mutexes, condvars, elem, slot, result, ghosts>>

DeqWait(c) ==
  /\ Goto(c, "wait", "asleep")
  /\ pcq_popper_condvar_lock' = NoThread
  /\ poppers' = poppers \cup {c}
  /\ UNCHANGED <<queue, mutexes, pushers, pcq_pusher_condvar_lock, elem, slot,
                 result, ghosts>>

\* Mutant: `if' instead of `while' around the wait.
DeqWake_NoRecheck(c) ==
  /\ c \notin poppers
  /\ Goto(c, "asleep", "take_size")
  /\ pcq_popper_condvar_lock = NoThread /\ pcq_popper_condvar_lock' = c
  /\ UNCHANGED <<queue, mutexes, pushers, poppers, pcq_pusher_condvar_lock,
                 elem, slot, result, ghosts>>

DeqWake(c) ==
  /\ c \notin poppers
  /\ Goto(c, "asleep", "check")
  /\ pcq_popper_condvar_lock = NoThread /\ pcq_popper_condvar_lock' = c
  /\ UNCHANGED <<queue, mutexes, pushers, poppers, pcq_pusher_condvar_lock,
                 elem, slot, result, ghosts>>

DeqLockSize(c) ==
  /\ Goto(c, "take_size", "drop")
  /\ pcq_current_size_lock = NoThread /\ pcq_current_size_lock' = c
  /\ UNCHANGED <<queue, pcq_head_lock, pcq_tail_lock, condvars, elem, slot,
                 result, ghosts>>

\* Mutant: a signed tail that goes below zero.
DeqDrop_Signed(c) ==
  /\ Goto(c, "drop", "signal")
  /\ pcq_current_size' = Dec(pcq_current_size)
  /\ pcq_tail' = pcq_tail - 1
  /\ removed' = [removed EXCEPT ![c] = Read(Dec(pcq_current_size))]
  /\ undisturbed' = [d \in Consumers |-> d = c]
  /\ UNCHANGED <<pcq_buffer, mutexes, condvars, elem, slot, result>>

DeqDrop(c) ==
  /\ Goto(c, "drop", "signal")
  /\ pcq_current_size' = Dec(pcq_current_size)
  /\ pcq_tail' = Dec(pcq_tail)
  /\ removed' = [removed EXCEPT ![c] = Read(Dec(pcq_current_size))]
  /\ undisturbed' = [d \in Consumers |-> d = c]
  /\ UNCHANGED <<pcq_buffer, mutexes, condvars, elem, slot, result>>

DeqSignal(c) ==
  /\ Goto(c, "signal", "free_size")
  /\ pushers' \in SUBSET pushers /\ Signalled(pushers, pushers')
  /\ UNCHANGED <<queue, mutexes, poppers, pcq_pusher_condvar_lock,
                 pcq_popper_condvar_lock, elem, slot, result, ghosts>>

DeqUnlockSize(c) ==
  /\ Goto(c, "free_size", "free_side")
  /\ pcq_current_size_lock' = NoThread
  /\ UNCHANGED <<queue, pcq_head_lock, pcq_tail_lock, condvars, elem, slot,
                 result, ghosts>>

DeqUnlockTail(c) ==
  /\ Goto(c, "free_side", "read_tail")
  /\ pcq_tail_lock' = NoThread
  /\ UNCHANGED <<queue, pcq_head_lock, pcq_current_size_lock, condvars, elem,
                 slot, result, ghosts>>

\* Mutant: pcq_buffer[pcq_tail], as if pcq_tail still were the old one.
DeqReadTail_Off(c) ==
  /\ Goto(c, "read_tail", "read_slot")
  /\ slot' = [slot EXCEPT ![c] = pcq_tail]
  /\ UNCHANGED <<queue, mutexes, condvars, elem, result, ghosts>>

\* return pcq_buffer[pcq_tail + 1], evaluated once every lock is free.
DeqReadTail(c) ==
  /\ Goto(c, "read_tail", "read_slot")
  /\ slot' = [slot EXCEPT ![c] = Inc(pcq_tail)]
  /\ UNCHANGED <<queue, mutexes, condvars, elem, result, ghosts>>

DeqReadSlot(c) ==
  /\ Goto(c, "read_slot", "returned")
  /\ result' = [result EXCEPT ![c] = Read(slot[c])]
  /\ UNCHANGED <<queue, mutexes, condvars, elem, slot, ghosts>>

\* The caller has the result; its bookkeeping is cleared for the next call.
DeqReturn(c) ==
  /\ Goto(c, "returned", "out")
  /\ slot' = [slot EXCEPT ![c] = 0]
  /\ result' = [result EXCEPT ![c] = Junk]
  /\ removed' = [removed EXCEPT ![c] = Junk]
  /\ undisturbed' = [undisturbed EXCEPT ![c] = FALSE]
  /\ UNCHANGED <<queue, mutexes, condvars, elem>>

-----------------------------------------------------------------------------
\* pthread_cond_wait may return without a signal.
SpuriousWake ==
  /\ \/ \E p \in pushers : pushers' = pushers \ {p} /\ UNCHANGED poppers
     \/ \E c \in poppers : poppers' = poppers \ {c} /\ UNCHANGED pushers
  /\ UNCHANGED <<queue, mutexes, pcq_pusher_condvar_lock, pcq_popper_condvar_lock,
                 pc, elem, slot, result, ghosts>>

Enqueue(p) ==
  \/ EnqLockHead(p) \/ EnqCheck(p) \/ EnqWait(p) \/ EnqWake(p)
  \/ EnqLockSize(p) \/ EnqBump(p) \/ EnqShift(p) \/ EnqSignal(p)
  \/ EnqUnlockSize(p) \/ EnqUnlockHead(p)

Dequeue(c) ==
  \/ DeqLockTail(c) \/ DeqCheck(c) \/ DeqWait(c) \/ DeqWake(c)
  \/ DeqLockSize(c) \/ DeqDrop(c) \/ DeqSignal(c) \/ DeqUnlockSize(c)
  \/ DeqUnlockTail(c) \/ DeqReadTail(c) \/ DeqReadSlot(c) \/ DeqReturn(c)

Next == \/ \E p \in Producers : Enqueue(p)
        \/ \E c \in Consumers : Dequeue(c)
        \/ SpuriousWake

Spec == Init /\ [][Next]_vars

\* A thread that can run does run; a spurious wakeup is never owed to anyone.
FairSpec == /\ Spec
            /\ \A p \in Producers : WF_vars(Enqueue(p))
            /\ \A c \in Consumers : WF_vars(Dequeue(c))

-----------------------------------------------------------------------------
(* Properties *)

ProducerSteps == {"check", "wait", "asleep", "take_size", "bump", "shift",
                  "signal", "free_size", "free_side"}
ConsumerSteps == (ProducerSteps \ {"bump", "shift"}) \cup {"drop"}
SizeSteps == {"bump", "shift", "drop", "signal", "free_size"}

\* Every variable stays in its range: size_t values wrap, they do not go
\* below zero, and only threads that are asleep are in a wait set.
TypeOK ==
  /\ pcq_buffer \in [Slots -> Elements \cup {Junk}]
  /\ pcq_current_size \in 0 .. Word - 1 /\ pcq_tail \in 0 .. Word - 1
  /\ pcq_head_lock \in Producers \cup {NoThread}
  /\ pcq_tail_lock \in Consumers \cup {NoThread}
  /\ pcq_current_size_lock \in Threads \cup {NoThread}
  /\ pcq_pusher_condvar_lock \in Producers \cup {NoThread}
  /\ pcq_popper_condvar_lock \in Consumers \cup {NoThread}
  /\ pushers \in SUBSET Producers /\ poppers \in SUBSET Consumers
  /\ pc \in [Threads -> ProducerSteps \cup ConsumerSteps
                          \cup {"out", "read_tail", "read_slot", "returned"}]
  /\ elem \in [Producers -> Elements \cup {Junk}]
  /\ slot \in [Consumers -> 0 .. Word - 1]
  /\ result \in [Consumers -> Elements \cup {Junk}]
  /\ removed \in [Consumers -> Elements \cup {Junk}]
  /\ undisturbed \in [Consumers -> BOOLEAN]

\* pcq_enqueue never makes the queue longer than its capacity, although it
\* reads the size without pcq_current_size_lock.
SizeWithinCapacity == pcq_current_size \in 0 .. Capacity

\* The unlocked test of the size (lines 68 and 99) is still true when the
\* thread acts on it, whatever other threads did in between.
ChecksStillHold ==
  /\ \A p \in Producers :
       pc[p] \in {"take_size", "bump"} => pcq_current_size < Capacity
  /\ \A c \in Consumers :
       pc[c] \in {"take_size", "drop"} => pcq_current_size > 0

\* A sleeping thread keeps its own side's mutex, so at most one thread ever
\* waits on each condition variable and one signal is enough to wake it.
OneSleeperPerSide ==
  /\ \A p, q \in Producers : pc[p] = "asleep" /\ pc[q] = "asleep" => p = q
  /\ \A c, d \in Consumers : pc[c] = "asleep" /\ pc[d] = "asleep" => c = d

\* The mutex a wakeup has to take is free while anyone sleeps, although no
\* thread ever unlocks it: the next wait frees it for its last owner.
WakeLockFree ==
  /\ \A p \in Producers : pc[p] = "asleep" => pcq_pusher_condvar_lock = NoThread
  /\ \A c \in Consumers : pc[c] = "asleep" => pcq_popper_condvar_lock = NoThread

\* A pcq_dequeue that nobody overtakes between its removal and its return
\* returns the element it removed.
UndisturbedDequeue ==
  \A c \in Consumers :
     pc[c] = "returned" /\ undisturbed[c] => result[c] = removed[c]

\* What lies in the buffer, oldest first.  An element counts once it is stored.
Stored == IF \E p \in Producers : pc[p] = "shift" THEN pcq_current_size - 1
                                                   ELSE pcq_current_size
Contents == [i \in 1 .. Stored |-> pcq_buffer[Stored - i]]

Abstract == INSTANCE BoundedBuffer WITH contents <- Contents

\* What is stored behaves as the FIFO buffer of producer-consumer.h.
ImplementsBoundedBuffer == Abstract!Spec

\* producer-consumer.h, "If the queue is full, sleep until the queue has
\* space": a sleeping producer does not sleep on beside a free slot.  (The
\* consumers' side has the same test and wait, and the same flaw.)
SleepsOnlyWhileFull ==
  \A p \in Producers :
     (pc[p] = "asleep" /\ pcq_current_size < Capacity)
        ~> (pc[p] # "asleep" \/ pcq_current_size = Capacity)
=============================================================================
