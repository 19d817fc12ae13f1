------------------------------ MODULE BoxList ------------------------------
(***************************************************************************)
(* manager/manager.c: the boxes a list has collected, named by numbers in  *)
(* the order of strcmp.  indexes[] is followed into the names, and counted *)
(* from one.                                                               *)
(***************************************************************************)
EXTENDS Naturals, Sequences

\* realloc when the number of boxes is a multiple of the chunk.
Grown(n_boxes, allocated, chunk) ==
  IF n_boxes % chunk = 0 THEN n_boxes + chunk ELSE allocated

\* cmpBoxes of neighbours, which are swapped in the wrong order.
Swap(names, j) ==
  IF names[j] > names[j + 1]
    THEN [names EXCEPT ![j] = names[j + 1], ![j + 1] = names[j]]
    ELSE names

\* Mutant: the turn stops short of the i-th name.
Turn_Short(names, i) ==
  LET from[j \in i .. Len(names)] ==
        IF j = Len(names) THEN names ELSE Swap(from[j + 1], j)
  IN IF i + 1 \in DOMAIN from THEN from[i + 1] ELSE names

\* One turn of the outer loop: from the end of the names down to the i-th.
Turn(names, i) ==
  LET from[j \in i .. Len(names)] ==
        IF j = Len(names) THEN names ELSE Swap(from[j + 1], j)
  IN from[i]

\* A turn that swaps nothing is the last.
bubbleSort(names) ==
  LET after[i \in 0 .. Len(names)] ==
        IF i = 0 THEN [names |-> names, done |-> FALSE]
        ELSE LET state == after[i - 1]
                 bubbled == Turn(state.names, i)
             IN IF state.done THEN state
                ELSE [names |-> bubbled, done |-> bubbled = state.names]
  IN after[IF names = <<>> THEN 0 ELSE Len(names) - 1].names
=============================================================================
