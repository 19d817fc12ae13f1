----------------------------- MODULE MessageLog -----------------------------
(***************************************************************************)
(* What a box is to its clients: a log of messages.  A subscriber gets     *)
(* every message of the log once, in order and from the beginning, those   *)
(* published before it came included.                                      *)
(***************************************************************************)
EXTENDS Naturals, Sequences

CONSTANTS Messages, Subscribers

VARIABLES log,       \* the messages published so far
          received   \* what each subscriber has been sent

vars == <<log, received>>

Init == log = <<>> /\ received = [s \in Subscribers |-> <<>>]

Publish(m) == log' = Append(log, m) /\ UNCHANGED received

\* A session that begins starts over.
Join(s) == received' = [received EXCEPT ![s] = <<>>] /\ UNCHANGED log

Deliver(s) ==
  LET next == Len(received[s]) + 1
  IN /\ next <= Len(log)
     /\ received' = [received EXCEPT ![s] = Append(@, log[next])]
     /\ UNCHANGED log

Next == \/ \E m \in Messages : Publish(m)
        \/ \E s \in Subscribers : Join(s) \/ Deliver(s)

Spec == Init /\ [][Next]_vars
=============================================================================
