---------------------------- MODULE SessionPool ----------------------------
(***************************************************************************)
(* What mbroker promises of its sessions: a request whose operation code   *)
(* main has read is handed to exactly one idle session, which serves that  *)
(* operation, before the next request is accepted.                         *)
(***************************************************************************)
CONSTANTS Sessions,  \* the worker threads
          OpCodes,   \* the operations a client may ask for
          None       \* no operation

VARIABLES pending,   \* the operation accepted and not yet handed over
          serving    \* what each session is serving

vars == <<pending, serving>>

Init == pending = None /\ serving = [s \in Sessions |-> None]

Accept(op) == /\ pending = None
              /\ pending' = op
              /\ UNCHANGED serving

HandOver(s) == /\ pending # None /\ serving[s] = None
               /\ serving' = [serving EXCEPT ![s] = pending]
               /\ pending' = None

Finish(s) == /\ serving[s] # None
             /\ serving' = [serving EXCEPT ![s] = None]
             /\ UNCHANGED pending

Next == \/ \E op \in OpCodes : Accept(op)
        \/ \E s \in Sessions : HandOver(s) \/ Finish(s)

Spec == Init /\ [][Next]_vars
============================================================================
