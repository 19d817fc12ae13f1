--------------------------- MODULE ManagerProofs ---------------------------
(***************************************************************************)
(* Proofs about the manager and the session that answers it: that reads of *)
(* whole fields stay in step with the answers while there is one answer,   *)
(* that a manager in step prints what it was sent, a list in order, and    *)
(* who can end the broker by SIGPIPE.                                      *)
(*                                                                         *)
(* The invariant counts the bytes that have gone into the pipe and those   *)
(* that have come out of it: what is in it are the ones between, and while *)
(* the manager is in step they begin with the field its next read is for.  *)
(***************************************************************************)
EXTENDS Manager, SequenceTheorems, NaturalsInduction, WellFoundedInduction, TLAPS

-----------------------------------------------------------------------------
(* The order of a list *)

\* What holds at zero, and from each number to the next, holds everywhere: the
\* least number where it did not would have one before it.
LEMMA SetInduction ==
  ASSUME NEW S, 0 \in S, \A n \in Nat : n \in S => n + 1 \in S
  PROVE  \A n \in Nat : n \in S
<1> SUFFICES ASSUME Nat \ S # {} PROVE FALSE
  OBVIOUS
<1>1. PICK m \in Nat \ S : \A j \in Nat \ S : <<j, m>> \notin OpToRel(<, Nat)
  <2>1. Nat \ S \in SUBSET Nat
    OBVIOUS
  <2> QED
    BY <2>1, NatLessThanWellFounded, WFMin
<1>2. m \in Nat /\ m # 0
  OBVIOUS
<1>3. m - 1 \in Nat /\ m - 1 < m /\ (m - 1) + 1 = m
  BY <1>2
<1>4. <<m - 1, m>> \in OpToRel(<, Nat)
  BY <1>2, <1>3 DEF OpToRel
<1>5. m - 1 \in S
  BY <1>1, <1>3, <1>4
<1> QED
  BY <1>1, <1>3, <1>5

\* What a turn has made of the names when it has come down to the j-th.
Turns(f, names, i) ==
  f = [j \in i .. Len(names) |-> IF j = Len(names) THEN names ELSE Swap(f[j + 1], j)]

\* Names that come from others, those below the j-th from the same places.
FixedBelow(n, j) ==
  {from \in [1 .. n -> 1 .. n] :
     /\ \A k, l \in 1 .. n : from[k] = from[l] => k = l
     /\ \A k \in 1 .. j - 1 : from[k] = k}

\* The least of the names from the j-th on is there; if none has moved, they
\* were in order.
Bubbled(names, after, n, j) ==
  /\ after \in [1 .. n -> Nat]
  /\ \E from \in FixedBelow(n, j) : \A k \in 1 .. n : after[k] = names[from[k]]
  /\ \A k \in j .. n : after[j] <= after[k]
  /\ after = names => \A k \in j .. n : \A l \in k .. n : names[k] <= names[l]

\* One comparison of a turn takes the least of the names one place further down.
LEMMA SwapBubbles ==
  ASSUME NEW n \in Nat, NEW j \in Nat, j \in 1 .. n - 1, NEW names \in [1 .. n -> Nat], NEW after,
         Bubbled(names, after, n, j + 1)
  PROVE  Bubbled(names, Swap(after, j), n, j)
<1>1. /\ after \in [1 .. n -> Nat]
      /\ \A k \in j + 1 .. n : after[j + 1] <= after[k]
      /\ after = names => \A k \in j + 1 .. n : \A l \in k .. n : names[k] <= names[l]
  BY DEF Bubbled
<1>2. PICK from \in FixedBelow(n, j + 1) : \A k \in 1 .. n : after[k] = names[from[k]]
  BY DEF Bubbled
<1>3. /\ from \in [1 .. n -> 1 .. n] /\ (\A k, l \in 1 .. n : from[k] = from[l] => k = l)
      /\ \A k \in 1 .. j : from[k] = k
  <2>1. /\ from \in [1 .. n -> 1 .. n] /\ (\A k, l \in 1 .. n : from[k] = from[l] => k = l)
        /\ \A k \in 1 .. (j + 1) - 1 : from[k] = k
    BY <1>2, Zenon DEF FixedBelow
  <2>2. (j + 1) - 1 = j
    OBVIOUS
  <2> QED
    BY <2>1, <2>2, Zenon
<1>4. j \in 1 .. n /\ j + 1 \in 1 .. n /\ j # j + 1
  OBVIOUS
<1>5. CASE after[j] > after[j + 1]
  <2> DEFINE u == [after EXCEPT ![j] = after[j + 1], ![j + 1] = after[j]]
             g == [from EXCEPT ![j] = from[j + 1], ![j + 1] = from[j]]
  <2>1. Swap(after, j) = u
    BY <1>5 DEF Swap
  <2>2. /\ u \in [1 .. n -> Nat] /\ u[j] = after[j + 1] /\ u[j + 1] = after[j]
        /\ \A k \in 1 .. n : k # j /\ k # j + 1 => u[k] = after[k]
    BY <1>1, <1>4
  <2>3. /\ g \in [1 .. n -> 1 .. n] /\ g[j] = from[j + 1] /\ g[j + 1] = from[j]
        /\ \A k \in 1 .. n : k # j /\ k # j + 1 => g[k] = from[k]
    BY <1>3, <1>4
  <2> HIDE DEF u, g
  <2>4. \A k, l \in 1 .. n : g[k] = g[l] => k = l
    <3> SUFFICES ASSUME NEW k \in 1 .. n, NEW l \in 1 .. n, g[k] = g[l] PROVE k = l
      OBVIOUS
    <3> DEFINE T(x) == IF x = j THEN j + 1 ELSE IF x = j + 1 THEN j ELSE x
    <3>1. \A x \in 1 .. n : T(x) \in 1 .. n /\ g[x] = from[T(x)]
      BY <1>4, <2>3
    <3>2. T(k) = T(l)
      BY <1>3, <3>1
    <3> QED
      BY <3>2, <1>4
  <2>5. g \in FixedBelow(n, j)
    <3>1. \A k \in 1 .. j - 1 : k \in 1 .. n /\ k # j /\ k # j + 1 /\ k \in 1 .. j
      BY <1>4
    <3> QED
      BY <1>3, <2>3, <2>4, <3>1 DEF FixedBelow
  <2>6. \A k \in 1 .. n : u[k] = names[g[k]]
    BY <1>2, <1>4, <2>2, <2>3
  <2>7. \A k \in j .. n : u[j] <= u[k]
    <3> SUFFICES ASSUME NEW k \in j .. n PROVE u[j] <= u[k]
      OBVIOUS
    <3>1. CASE k = j
      BY <1>4, <2>2, <3>1
    <3>2. CASE k = j + 1
      BY <1>1, <1>4, <1>5, <2>2, <3>2
    <3>3. CASE k # j /\ k # j + 1
      <4>1. k \in j + 1 .. n /\ k \in 1 .. n
        BY <3>3
      <4> QED
        BY <1>1, <1>4, <2>2, <3>3, <4>1
    <3> QED
      BY <3>1, <3>2, <3>3
  <2>8. u # names
    <3>1. after[j] = names[j] /\ after[j] \in Nat /\ after[j + 1] \in Nat
      <4>1. from[j] = j
        BY <1>3
      <4> QED
        BY <1>1, <1>2, <1>4, <4>1
    <3>2. after[j] # after[j + 1]
      BY <1>5, <3>1
    <3> QED
      BY <2>2, <3>1, <3>2
  <2> QED
    BY <2>1, <2>2, <2>5, <2>6, <2>7, <2>8 DEF Bubbled
<1>6. CASE ~(after[j] > after[j + 1])
  <2>1. Swap(after, j) = after
    BY <1>6 DEF Swap
  <2>2. after[j] <= after[j + 1]
    <3>1. after[j] \in Nat /\ after[j + 1] \in Nat
      BY <1>1, <1>4
    <3> QED
      BY <1>6, <3>1
  <2>3. from \in FixedBelow(n, j)
    <3>1. \A k \in 1 .. j - 1 : k \in 1 .. j
      OBVIOUS
    <3> QED
      BY <1>3, <3>1 DEF FixedBelow
  <2>4. \A k \in j .. n : after[j] <= after[k]
    <3> SUFFICES ASSUME NEW k \in j .. n PROVE after[j] <= after[k]
      OBVIOUS
    <3>1. CASE k = j
      BY <1>1, <1>4, <3>1
    <3>2. CASE k # j
      <4>1. k \in j + 1 .. n /\ k \in 1 .. n
        BY <3>2
      <4>2. after[j + 1] <= after[k] /\ after[j] \in Nat /\ after[j + 1] \in Nat /\ after[k] \in Nat
        BY <1>1, <1>4, <4>1
      <4> QED
        BY <2>2, <4>2
    <3> QED
      BY <3>1, <3>2
  <2>5. ASSUME after = names, NEW k \in j .. n, NEW l \in k .. n PROVE names[k] <= names[l]
    <3>1. CASE k = j
      BY <2>4, <2>5, <3>1
    <3>2. CASE k # j
      <4>1. k \in j + 1 .. n
        BY <3>2
      <4> QED
        BY <1>1, <2>5, <4>1
    <3> QED
      BY <3>1, <3>2
  <2> QED
    <3>1. \A k \in 1 .. n : after[k] = names[from[k]]
      BY <1>2
    <3> QED
      BY ONLY <1>1, <2>1, <2>3, <2>4, <2>5, <3>1 DEF Bubbled
<1> QED
  BY <1>1, <1>4, <1>5, <1>6

\* So a turn of the outer loop puts the least of them in the i-th place.
LEMMA TurnBubbles ==
  ASSUME NEW names \in Seq(Nat), NEW i \in 1 .. Len(names)
  PROVE  Bubbled(names, Turn(names, i), Len(names), i)
<1>1. PICK n \in Nat : n = Len(names)
  BY LenProperties
<1>2. names \in [1 .. n -> Nat] /\ i \in Nat /\ 1 <= i /\ i <= n
  BY <1>1, LenProperties
<1> DEFINE S == {d \in Nat : d < n =>
                   \E f : Turns(f, names, n - d) /\ Bubbled(names, f[n - d], n, n - d)}
<1>3. 0 \in S
  <2> SUFFICES ASSUME 0 < n PROVE \E f : Turns(f, names, n) /\ Bubbled(names, f[n], n, n)
    BY <1>1
  <2> DEFINE f == [j \in n .. n |-> names]
  <2>1. Turns(f, names, n) /\ f[n] = names
    BY <1>1 DEF Turns
  <2>2. [k \in 1 .. n |-> k] \in FixedBelow(n, n) /\ n .. n = {n}
    BY DEF FixedBelow
  <2>3. Bubbled(names, names, n, n)
    <3>1. \A k \in 1 .. n : names[k] = names[[m \in 1 .. n |-> m][k]]
      OBVIOUS
    <3>2. names[n] \in Nat
      BY <1>2
    <3>3. \A k \in n .. n : \A l \in k .. n : k = n /\ l = n
      OBVIOUS
    <3>4. \A k \in n .. n : k = n
      OBVIOUS
    <3>5. names[n] <= names[n]
      BY <3>2
    <3> QED
      BY <1>2, <2>2, <3>1, <3>3, <3>4, <3>5, Zenon DEF Bubbled
  <2> QED
    BY <2>1, <2>3
<1>4. ASSUME NEW d \in Nat, d \in S PROVE d + 1 \in S
  <2> SUFFICES ASSUME d + 1 < n
               PROVE \E g : Turns(g, names, n - (d + 1)) /\ Bubbled(names, g[n - (d + 1)], n, n - (d + 1))
    OBVIOUS
  <2>1. PICK j \in Nat : j = n - (d + 1)
    OBVIOUS
  <2>2. j \in 1 .. n - 1 /\ n - d = j + 1
    BY <2>1
  <2>3. PICK f : Turns(f, names, j + 1) /\ Bubbled(names, f[j + 1], n, j + 1)
    <3>1. d < n
      OBVIOUS
    <3> QED
      BY <1>4, <2>2, <3>1
  <2>4. Bubbled(names, Swap(f[j + 1], j), n, j)
    BY <1>2, <2>2, <2>3, SwapBubbles
  <2> DEFINE e == Swap(f[j + 1], j)
             g == [k \in j .. n |-> IF k = j THEN e ELSE f[k]]
  <2>5. \A k \in j + 1 .. n : k \in j .. n /\ k # j /\ (k # n => k + 1 \in j + 1 .. n)
    BY <2>2
  <2>6. g[j] = e /\ \A k \in j + 1 .. n : g[k] = f[k]
    BY <2>2, <2>5
  <2>7. \A k \in j + 1 .. n : f[k] = IF k = n THEN names ELSE Swap(f[k + 1], k)
    <3>1. f = [k \in j + 1 .. n |-> IF k = n THEN names ELSE Swap(f[k + 1], k)]
      BY <1>1, <2>3 DEF Turns
    <3> QED
      BY <3>1
  <2>8. j + 1 \in j + 1 .. n /\ j # n
    BY <2>2
  <2> HIDE DEF e
  <2>9. ASSUME NEW k \in j .. n
        PROVE  g[k] = IF k = n THEN names ELSE Swap(g[k + 1], k)
    <3> HIDE DEF g
    <3>1. CASE k = j
      <4>1. e = Swap(g[j + 1], j)
        BY <2>6, <2>8 DEF e
      <4> QED
        BY <2>6, <2>8, <3>1, <4>1
    <3>2. CASE k # j
      <4>1. k \in j + 1 .. n
        BY <2>2, <3>2
      <4>2. g[k] = f[k] /\ (k # n => g[k + 1] = f[k + 1])
        BY <2>5, <2>6, <4>1
      <4> QED
        BY <2>7, <4>1, <4>2
    <3> QED
      BY <3>1, <3>2
  <2>10. Turns(g, names, j)
    <3> DEFINE h == [k \in j .. n |-> IF k = n THEN names ELSE Swap(g[k + 1], k)]
    <3>1. \A k \in j .. n : g[k] = h[k]
      BY <2>9
    <3>2. g = h
      BY <3>1
    <3> QED
      BY <1>1, <3>2 DEF Turns
  <2> QED
    BY <2>1, <2>4, <2>6, <2>10 DEF e
<1>5. n - i \in S
  <2>1. n - i \in Nat
    BY <1>2
  <2> HIDE DEF S
  <2> QED
    BY <1>3, <1>4, <2>1, SetInduction
<1>6. ASSUME NEW f1, NEW f2, Turns(f1, names, i), Turns(f2, names, i) PROVE f1[i] = f2[i]
  <2> DEFINE R == {d \in Nat : d <= n - i => f1[n - d] = f2[n - d]}
  <2>1. /\ \A k \in i .. n : f1[k] = IF k = n THEN names ELSE Swap(f1[k + 1], k)
        /\ \A k \in i .. n : f2[k] = IF k = n THEN names ELSE Swap(f2[k + 1], k)
    <3>1. /\ f1 = [k \in i .. n |-> IF k = n THEN names ELSE Swap(f1[k + 1], k)]
          /\ f2 = [k \in i .. n |-> IF k = n THEN names ELSE Swap(f2[k + 1], k)]
      BY <1>1, <1>6 DEF Turns
    <3>2. ASSUME NEW k \in i .. n PROVE f1[k] = IF k = n THEN names ELSE Swap(f1[k + 1], k)
      BY <3>1
    <3>3. ASSUME NEW k \in i .. n PROVE f2[k] = IF k = n THEN names ELSE Swap(f2[k + 1], k)
      BY <3>1
    <3> QED
      BY <3>2, <3>3
  <2>2. 0 \in R
    <3>1. n \in i .. n
      BY <1>2
    <3> QED
      BY <2>1, <3>1
  <2>3. ASSUME NEW d \in Nat, d \in R PROVE d + 1 \in R
    <3> SUFFICES ASSUME d + 1 <= n - i PROVE f1[n - (d + 1)] = f2[n - (d + 1)]
      OBVIOUS
    <3>1. PICK k \in i .. n : k = n - (d + 1) /\ k # n /\ n - d = k + 1
      BY <1>2
    <3>2. f1[k + 1] = f2[k + 1]
      BY <1>2, <2>3, <3>1
    <3> QED
      BY <2>1, <3>1, <3>2
  <2>4. n - i \in R
    <3>1. n - i \in Nat
      BY <1>2
    <3> HIDE DEF R
    <3> QED
      BY <2>2, <2>3, <3>1, SetInduction
  <2>5. n - (n - i) = i /\ n - i <= n - i
    BY <1>2
  <2> QED
    BY <2>4, <2>5
<1>7. PICK f : Turns(f, names, i) /\ Bubbled(names, f[i], n, i)
  <2>1. n - (n - i) = i /\ n - i < n
    BY <1>2
  <2> QED
    BY <1>5, <2>1
<1>8. \E g : Turns(g, names, i) /\ Turn(names, i) = g[i]
  <2> DEFINE f3 == CHOOSE g : Turns(g, names, i)
  <2>1. Turns(f3, names, i)
    BY <1>7
  <2>2. Turn(names, i) = f3[i]
    BY DEF Turn, Turns
  <2> QED
    BY <2>1, <2>2
<1> QED
  BY <1>1, <1>6, <1>7, <1>8

\* The rounds of bubbleSort, as far as the i-th.
Rounds(f, names) ==
  f = [i \in 0 .. Len(names) |->
         IF i = 0 THEN [names |-> names, done |-> FALSE]
         ELSE LET state == f[i - 1]
                  bubbled == Turn(state.names, i)
              IN IF state.done THEN state
                 ELSE [names |-> bubbled, done |-> bubbled = state.names]]

\* What one round makes of the state the round before has left.
Round(state, i) ==
  IF state.done THEN state
  ELSE [names |-> Turn(state.names, i), done |-> Turn(state.names, i) = state.names]

\* After it, the first i names are those that come first, or all are in order.
SortedUpTo(state, names, n, i) ==
  /\ state.names \in [1 .. n -> Nat] /\ state.done \in BOOLEAN
  /\ \E from \in FixedBelow(n, 1) : \A k \in 1 .. n : state.names[k] = names[from[k]]
  /\ \A k \in 1 .. n : \A l \in k .. n :
       state.done \/ k <= i => state.names[k] <= state.names[l]

\* A round puts the next name in its place, or finds all in order and is the last.
LEMMA RoundSorts ==
  ASSUME NEW n \in Nat, NEW i \in Nat, i + 1 <= n, NEW names \in [1 .. n -> Nat], NEW state,
         SortedUpTo(state, names, n, i)
  PROVE  SortedUpTo(Round(state, i + 1), names, n, i + 1)
<1>1. CASE state.done
  BY <1>1 DEF SortedUpTo, Round
<1>2. CASE ~state.done
  <2> DEFINE before == state.names
             after == Turn(before, i + 1)
  <2>1. Round(state, i + 1) = [names |-> after, done |-> after = before]
    BY <1>2 DEF Round
  <2>2. before \in [1 .. n -> Nat]
    BY DEF SortedUpTo
  <2>3. before \in Seq(Nat) /\ Len(before) = n
    BY <2>2, IsASeq
  <2>4. Bubbled(before, after, n, i + 1)
    BY <2>3, TurnBubbles
  <2>5. \A k \in 1 .. n : \A l \in k .. n : k <= i => before[k] <= before[l]
    BY <1>2 DEF SortedUpTo
  <2>6. PICK p \in FixedBelow(n, 1) : \A k \in 1 .. n : before[k] = names[p[k]]
    BY DEF SortedUpTo
  <2> HIDE DEF before, after
  <2>7. PICK q \in FixedBelow(n, i + 1) : \A k \in 1 .. n : after[k] = before[q[k]]
    BY <2>4 DEF Bubbled
  <2>8. /\ q \in [1 .. n -> 1 .. n] /\ (\A k, l \in 1 .. n : q[k] = q[l] => k = l)
        /\ \A k \in 1 .. i : q[k] = k
    BY <2>7 DEF FixedBelow
  <2>9. \E from \in FixedBelow(n, 1) : \A k \in 1 .. n : after[k] = names[from[k]]
    <3> DEFINE r == [k \in 1 .. n |-> p[q[k]]]
    <3>1. p \in [1 .. n -> 1 .. n] /\ (\A k, l \in 1 .. n : p[k] = p[l] => k = l)
      BY <2>6 DEF FixedBelow
    <3>2. r \in FixedBelow(n, 1)
      <4>1. r \in [1 .. n -> 1 .. n]
        BY <2>8, <3>1
      <4>2. \A k, l \in 1 .. n : r[k] = r[l] => k = l
        BY <2>8, <3>1
      <4>3. \A k \in 1 .. 1 - 1 : FALSE
        OBVIOUS
      <4> HIDE DEF r
      <4> QED
        BY <4>1, <4>2, <4>3 DEF FixedBelow
    <3>3. \A k \in 1 .. n : after[k] = names[r[k]]
      BY <2>6, <2>7, <2>8
    <3> QED
      BY <3>2, <3>3
  <2>10. after \in [1 .. n -> Nat]
    BY <2>4 DEF Bubbled
  <2>11. ASSUME NEW k \in 1 .. n, NEW l \in k .. n, k <= i + 1 PROVE after[k] <= after[l]
    <3>1. CASE k <= i
      <4>1. l \in 1 .. n /\ k \in 1 .. i /\ q[l] \in 1 .. n
        <5>1. l \in 1 .. n /\ k \in 1 .. i
          BY <3>1
        <5> QED
          BY <2>8, <5>1
      <4>2. q[k] = k /\ after[k] = before[k] /\ after[l] = before[q[l]]
        BY <2>7, <2>8, <4>1
      <4>3. q[l] >= k
        <5>1. ASSUME q[l] < k PROVE FALSE
          <6>1. q[l] \in 1 .. i /\ q[l] \in 1 .. n
            BY <4>1, <5>1
          <6>2. q[q[l]] = q[l]
            BY <2>8, <6>1
          <6>3. q[l] = l
            BY <2>8, <4>1, <6>1, <6>2
          <6> QED
            BY <5>1, <6>3
        <5> QED
          BY <4>1, <5>1
      <4>4. q[l] \in k .. n
        BY <4>1, <4>3
      <4> QED
        BY <2>5, <3>1, <4>2, <4>4
    <3>2. CASE k = i + 1
      <4>1. \A m \in i + 1 .. n : after[i + 1] <= after[m]
        BY <2>4 DEF Bubbled
      <4> QED
        BY <3>2, <4>1
    <3> QED
      BY <2>11, <3>1, <3>2
  <2>12. ASSUME after = before, NEW k \in 1 .. n, NEW l \in k .. n PROVE after[k] <= after[l]
    <3>1. CASE k <= i
      BY <2>5, <2>12, <3>1
    <3>2. CASE ~(k <= i)
      <4>1. k \in i + 1 .. n
        BY <3>2
      <4>2. \A a \in i + 1 .. n : \A b \in a .. n : before[a] <= before[b]
        BY <2>4, <2>12 DEF Bubbled
      <4> QED
        BY <2>12, <4>1, <4>2
    <3> QED
      BY <3>1, <3>2
  <2> DEFINE next == Round(state, i + 1)
  <2>13. next.names = after /\ next.done = (after = before)
    BY <2>1
  <2> HIDE DEF next
  <2>14. next.done \in BOOLEAN
    BY <2>13, Zenon
  <2>15. \A k \in 1 .. n : \A l \in k .. n : next.done \/ k <= i + 1 => after[k] <= after[l]
    BY <2>11, <2>12, <2>13
  <2> QED
    BY <2>9, <2>10, <2>13, <2>14, <2>15 DEF SortedUpTo, next
<1> QED
  BY <1>1, <1>2 DEF SortedUpTo

\* The rounds of bubbleSort are there, and sort the names one after the other.
LEMMA RoundsSort ==
  ASSUME NEW names \in Seq(Nat)
  PROVE  \E f : /\ Rounds(f, names)
                /\ \A i \in 0 .. Len(names) : SortedUpTo(f[i], names, Len(names), i)
<1>1. PICK n \in Nat : n = Len(names)
  BY LenProperties
<1>2. names \in [1 .. n -> Nat]
  BY <1>1, LenProperties
<1> DEFINE Upto(f, m) ==
      /\ f[0] = [names |-> names, done |-> FALSE]
      /\ \A i \in 1 .. m : f[i] = Round(f[i - 1], i)
      /\ \A i \in 0 .. m : SortedUpTo(f[i], names, n, i)
    S == {m \in Nat : m <= n => \E f : Upto(f, m)}
<1> HIDE DEF Upto
<1>3. 0 \in S
  <2> DEFINE s == [names |-> names, done |-> FALSE]
             f == [k \in 0 .. 0 |-> s]
  <2>1. SortedUpTo(s, names, n, 0)
    <3>1. [k \in 1 .. n |-> k] \in FixedBelow(n, 1) /\ \A k \in 1 .. n : ~(k <= 0)
      BY DEF FixedBelow
    <3>2. \A k \in 1 .. n : names[k] = names[[m \in 1 .. n |-> m][k]]
      OBVIOUS
    <3>3. s.names = names /\ s.done = FALSE
      OBVIOUS
    <3> QED
      BY <1>2, <3>1, <3>2, <3>3, Zenon DEF SortedUpTo
  <2>2. f[0] = s /\ \A k \in 0 .. 0 : f[k] = s /\ k = 0
    OBVIOUS
  <2>3. Upto(f, 0)
    <3> HIDE DEF f
    <3>1. \A k \in 1 .. 0 : FALSE
      OBVIOUS
    <3> QED
      BY <2>1, <2>2, <3>1 DEF Upto
  <2> QED
    BY <2>3
<1>4. ASSUME NEW m \in Nat, m \in S PROVE m + 1 \in S
  <2> SUFFICES ASSUME m + 1 <= n PROVE \E g : Upto(g, m + 1)
    OBVIOUS
  <2>1. PICK f : Upto(f, m)
    BY <1>4
  <2> DEFINE e == Round(f[m], m + 1)
             g == [k \in 0 .. m + 1 |-> IF k = m + 1 THEN e ELSE f[k]]
  <2>4. /\ \A k \in 1 .. m + 1 : k = m + 1 \/ (k \in 1 .. m /\ k - 1 \in 0 .. m /\ k \in 0 .. m)
        /\ \A k \in 0 .. m + 1 : k = m + 1 \/ k \in 0 .. m
        /\ 0 \in 0 .. m /\ (m + 1) - 1 = m /\ m \in 0 .. m
    OBVIOUS
  <2>2. SortedUpTo(e, names, n, m + 1)
    <3>1. SortedUpTo(f[m], names, n, m)
      BY <2>1, <2>4 DEF Upto
    <3> QED
      BY <1>2, <3>1, RoundSorts
  <2>3. g[m + 1] = e /\ \A k \in 0 .. m : g[k] = f[k]
    OBVIOUS
  <2> HIDE DEF g
  <2>5. g[0] = [names |-> names, done |-> FALSE]
    BY <2>1, <2>3, <2>4 DEF Upto
  <2>6. ASSUME NEW k \in 1 .. m + 1 PROVE g[k] = Round(g[k - 1], k)
    <3>1. CASE k = m + 1
      BY <2>3, <2>4, <3>1
    <3>2. CASE k \in 1 .. m /\ k - 1 \in 0 .. m /\ k \in 0 .. m
      BY <2>1, <2>3, <3>2 DEF Upto
    <3> QED
      BY <2>4, <3>1, <3>2
  <2>7. ASSUME NEW k \in 0 .. m + 1 PROVE SortedUpTo(g[k], names, n, k)
    BY <2>1, <2>2, <2>3, <2>4 DEF Upto
  <2>8. Upto(g, m + 1)
    BY <2>5, <2>6, <2>7 DEF Upto
  <2> QED
    BY <2>8
<1>5. n \in S
  <2> HIDE DEF S
  <2> QED
    BY <1>3, <1>4, SetInduction
<1>6. PICK f : Upto(f, n)
  BY <1>5
<1> DEFINE Step(h, i) ==
      IF i = 0 THEN [names |-> names, done |-> FALSE]
      ELSE LET state == h[i - 1]
               bubbled == Turn(state.names, i)
           IN IF state.done THEN state
              ELSE [names |-> bubbled, done |-> bubbled = state.names]
    g == [i \in 0 .. n |-> f[i]]
<1>7. ASSUME NEW i \in 0 .. n PROVE g[i] = Step(g, i)
  <2>1. CASE i = 0
    BY <1>6, <2>1 DEF Upto
  <2>2. CASE i # 0
    <3>1. i \in 1 .. n /\ i - 1 \in 0 .. n
      BY <2>2
    <3>2. g[i] = Round(g[i - 1], i)
      BY <1>6, <3>1 DEF Upto
    <3> HIDE DEF g
    <3> QED
      BY <2>2, <3>2 DEF Round
  <2> QED
    BY <2>1, <2>2
<1>8. g = [i \in 0 .. n |-> Step(g, i)]
  BY <1>7
<1>9. Rounds(g, names)
  <2> HIDE DEF g
  <2> QED
    BY <1>1, <1>8 DEF Rounds
<1>10. \A i \in 0 .. n : SortedUpTo(g[i], names, n, i)
  BY <1>6 DEF Upto
<1> HIDE DEF g
<1> QED
  BY <1>1, <1>9, <1>10

\* Rounds that begin with the same names are the same.
LEMMA RoundsAlike ==
  ASSUME NEW names, Len(names) \in Nat, NEW f, NEW g, Rounds(f, names), Rounds(g, names)
  PROVE  \A i \in 0 .. Len(names) : f[i] = g[i]
<1>1. PICK n \in Nat : n = Len(names)
  OBVIOUS
<1> DEFINE S == {i \in Nat : i <= n => f[i] = g[i]}
<1>2. ASSUME NEW h, Rounds(h, names), NEW i \in 0 .. n
      PROVE  h[i] = IF i = 0 THEN [names |-> names, done |-> FALSE] ELSE Round(h[i - 1], i)
  BY <1>1, <1>2 DEF Rounds, Round
<1>3. 0 \in S
  BY <1>2
<1>4. ASSUME NEW i \in Nat, i \in S PROVE i + 1 \in S
  <2> SUFFICES ASSUME i + 1 <= n PROVE f[i + 1] = g[i + 1]
    OBVIOUS
  <2>1. i + 1 \in 0 .. n /\ (i + 1) - 1 = i /\ i + 1 # 0 /\ f[i] = g[i]
    BY <1>4
  <2>2. f[i + 1] = Round(f[i], i + 1) /\ g[i + 1] = Round(g[i], i + 1)
    BY <1>2, <2>1
  <2> QED
    BY <2>1, <2>2
<1>5. \A i \in Nat : i \in S
  <2> HIDE DEF S
  <2> QED
    BY <1>3, <1>4, SetInduction
<1> QED
  BY <1>1, <1>5

\* bubbleSort of manager.c: however many boxes there are, their names come out in
\* order, each as often as it went in, although a turn that swaps nothing ends it.
THEOREM BubbleSortSorts ==
  ASSUME NEW names \in Seq(Nat)
  PROVE  Ordered(bubbleSort(names)) /\ SameNames(bubbleSort(names), names)
<1>1. PICK n \in Nat : n = Len(names)
  BY LenProperties
<1>2. names \in [1 .. n -> Nat]
  BY <1>1, LenProperties
<1>3. PICK f : Rounds(f, names) /\ \A i \in 0 .. n : SortedUpTo(f[i], names, n, i)
  BY <1>1, RoundsSort
<1> DEFINE last == IF names = <<>> THEN 0 ELSE n - 1
           g == CHOOSE h : Rounds(h, names)
<1>4. Rounds(g, names)
  BY <1>3
<1>5. bubbleSort(names) = g[last].names
  BY <1>1 DEF bubbleSort, Rounds
<1>6. last \in 0 .. n /\ n - 1 <= last
  <2>1. names # <<>> => n # 0
    BY <1>1, EmptySeq
  <2>2. names = <<>> => n = 0
    BY <1>1, EmptySeq
  <2> QED
    BY <2>1, <2>2
<1>7. g[last] = f[last]
  BY <1>1, <1>3, <1>4, <1>6, RoundsAlike
<1> HIDE DEF last, g
<1>8. SortedUpTo(f[last], names, n, last)
  BY <1>3, <1>6
<1>9. PICK sorted : sorted = bubbleSort(names)
  OBVIOUS
<1>10. /\ sorted \in [1 .. n -> Nat]
       /\ \E from \in FixedBelow(n, 1) : \A k \in 1 .. n : sorted[k] = names[from[k]]
       /\ \A k \in 1 .. n : \A l \in k .. n : k <= last => sorted[k] <= sorted[l]
  BY <1>5, <1>7, <1>8, <1>9 DEF SortedUpTo
<1>11. ASSUME NEW i \in 1 .. n, NEW j \in 1 .. n, i < j PROVE sorted[i] <= sorted[j]
  <2>1. j \in i .. n /\ i <= n - 1
    BY <1>11
  <2>2. i <= last
    BY <1>6, <2>1
  <2> QED
    BY <1>10, <2>1, <2>2
<1>12. Ordered(sorted)
  BY <1>10, <1>11 DEF Ordered
<1>13. SameNames(sorted, names)
  <2>1. PICK from \in FixedBelow(n, 1) : \A k \in 1 .. n : sorted[k] = names[from[k]]
    BY <1>10
  <2>2. DOMAIN sorted = 1 .. n /\ DOMAIN names = 1 .. n
    BY <1>2, <1>10
  <2>3. from \in Injection(1 .. n, 1 .. n)
    BY <2>1 DEF FixedBelow, Injection, IsInjective
  <2> QED
    BY <2>1, <2>2, <2>3 DEF SameNames
<1> QED
  BY <1>9, <1>12, <1>13

\* One chunk more than a multiple of the chunk is a multiple.
LEMMA NextMultiple ==
  ASSUME NEW x \in Nat, NEW c \in Nat \ {0}, x % c = 0
  PROVE  (x + c) % c = 0
<1>1. x = c * (x \div c) + (x % c)
  OBVIOUS
<1>2. PICK q \in Int : q = x \div c
  OBVIOUS
<1>5. x = c * q + 0
  BY <1>1, <1>2
<1>3. x + c = c * (q + 1) + 0 /\ q + 1 \in Int /\ 0 \in 0 .. c - 1 /\ x + c \in Nat
  BY <1>5
<1>4. \A y \in Nat, p \in Int, r \in 0 .. c - 1 : y = c * p + r => y % c = r
  OBVIOUS
<1> QED
  BY <1>3, <1>4

-----------------------------------------------------------------------------
(* The inductive invariant *)

\* The pipes there can be, with bytes in them, and the entries.
Pipe == [path : BOOLEAN, end : [Ends -> Modes], buffer : Seq(Nat)]
Entry == [Fields -> Seq(Nat)]
\* The manager's end of the pipe, and the session's.
CEnd == pipe.end["client"]
BEnd == pipe.end["broker"]
\* How many bytes have gone into the pipe, and how many have come out of it.
Written == sent * Length + At[field]
Taken == Written - Len(pipe.buffer)

\* Every variable stays in its range.
Typed ==
  /\ TypeOK
  /\ pipe \in Pipe /\ entry \in Entry /\ received \in Seq(Entry)
  /\ kind = "code" => script = NoBoxes

\* Where a session is and in which mode it has the pipe.
WorkerEnd ==
  /\ worker \in {"start", "ended"} => BEnd = "closed" /\ field = 1
  /\ worker = "write" => BEnd \in {"W", "waits_W"} /\ field \in Fields
  /\ worker = "close" => BEnd = "W" /\ field = FieldCount + 1
  /\ worker # "ended" => sent < Len(script)

\* Where a manager is and in which mode it has the pipe; and that it meets the
\* end of the file only when something has been written.
ClientEnd ==
  /\ client \in {"start", "ended", "dead"} => CEnd = "closed"
  /\ client = "read" => CEnd \in {"R", "waits_R"} /\ pipe.path /\ outcome = "waits"
  /\ client = "read" /\ CEnd = "R" /\ worker \in {"start", "ended"} => sent > 0
  /\ client = "start" =>
       /\ pipe.path /\ pipe.buffer = <<>> /\ BEnd # "W"
       /\ worker \in {"start", "write"} /\ sent = 0 /\ field = 1
       /\ step = "in" /\ reading = 1 /\ received = <<>> /\ outcome = "waits"

\* The bytes in the pipe are those that have been written and not taken.
Stream ==
  client \in {"start", "read"} =>
    /\ Len(pipe.buffer) <= Written
    /\ \A i \in 1 .. Len(pipe.buffer) : pipe.buffer[i] = Taken + i

\* In step, what comes next is the field that the next read is for.
InStep ==
  step = "in" /\ client \in {"start", "read"} =>
    /\ Taken = Len(received) * Length + At[reading]
    /\ \A f \in Fields : f < reading => entry[f] = Answer(Len(received) + 1)[f]
    /\ \A f \in Fields : f >= reading /\ received # <<>> => entry[f] = Answer(Len(received))[f]
    /\ reading > 1 => bytes_read > 0

\* At the end of the file the locals hold the last answer; there is no other when
\* there is one answer only.
AtTheEnd ==
  step = "end" =>
    /\ received # <<>> /\ bytes_read = 0
    /\ \A f \in Fields : entry[f] = Answer(Len(received))[f]
    /\ client = "read" /\ Len(script) = 1 => worker = "ended" /\ pipe.buffer = <<>>

\* What a manager keeps, in step, are answers it was sent, and what it makes of
\* them when it leaves its loop.
Kept ==
  /\ step = "out" => Len(script) > 1
  /\ step # "out" =>
       /\ Len(received) <= Len(script)
       /\ \A k \in 1 .. Len(received) : received[k] = Answer(k)
       /\ outcome = "printed" => step = "end"
       /\ outcome = "none" => script = NoBoxes
  /\ client \in {"unlink", "exit", "ended"} /\ Len(script) = 1 => worker \in {"close", "ended"}

\* The array of boxes has room for one more.
ArrayGrows ==
  kind = "list" =>
    /\ client \notin {"start", "dead"} => Len(received) < allocated /\ allocated % CHUNK = 0
    /\ Len(received) <= allocated

\* The inductive invariant.
IInv ==
  Typed /\ WorkerEnd /\ ClientEnd /\ Stream /\ InStep /\ AtTheEnd /\ Kept /\ ArrayGrows

-----------------------------------------------------------------------------
(* The fields of an answer *)

\* Whole answers do not overlap.
LEMMA Multiples ==
  ASSUME NEW size \in Nat, NEW a \in Nat, NEW b \in Nat, a < b
  PROVE  a * size + size <= b * size /\ a * size \in Nat /\ b * size \in Nat
<1>1. PICK d \in Nat : b = a + 1 + d
  <2>1. b - a - 1 \in Nat /\ b = a + 1 + (b - a - 1)
    OBVIOUS
  <2> QED
    BY <2>1
<1>2. b * size = a * size + size + d * size /\ d * size >= 0
  BY <1>1
<1> QED
  BY <1>2

\* Where the fields begin, and how wide they are.
LEMMA Shape ==
  ASSUME kind \in Kinds
  PROVE  /\ FieldCount \in Nat /\ Fields = 1 .. FieldCount
         /\ 1 \in Fields /\ LAST \in Fields /\ NAME \in Fields /\ NAME # 1
         /\ At[1] = 0 /\ At[FieldCount + 1] = Length /\ Length \in Nat \ {0}
         /\ \A f \in 1 .. FieldCount + 1 : At[f] \in Nat /\ At[f] <= Length
         /\ \A f, g \in 1 .. FieldCount + 1 : f < g => At[f] < At[g]
         /\ \A f \in Fields : /\ f \in 1 .. FieldCount + 1 /\ f + 1 \in 1 .. FieldCount + 1
                              /\ At[f] \in Nat /\ At[f] < Length
                              /\ Width(f) \in Nat \ {0} /\ At[f + 1] = At[f] + Width(f)
<1>1. PICK at : at = Begins[kind]
  OBVIOUS
<1>2. /\ at \in Seq(Nat) /\ Len(at) > 5 /\ at[1] = 0
      /\ \A f, g \in DOMAIN at : f < g => at[f] < at[g]
  BY <1>1, ManagerAssumption DEF NAME
<1>3. PICK n \in Nat : n = Len(at)
  BY <1>2, LenProperties
<1>4. /\ n > 5 /\ DOMAIN at = 1 .. n /\ \A f \in 1 .. n : at[f] \in Nat
      /\ \A f, g \in 1 .. n : f < g => at[f] < at[g]
  BY <1>2, <1>3, LenProperties
<1>5. PICK m \in Nat : m = n - 1 /\ n = m + 1
  BY <1>4
<1>6. At = at /\ FieldCount = m /\ Fields = 1 .. m /\ Length = at[n]
  BY <1>1, <1>3, <1>5 DEF At, FieldCount, Fields, Length
<1>7. \A f \in 1 .. n : at[f] \in Nat /\ at[f] <= at[n]
  BY <1>4
<1>8. at[n] \in Nat \ {0}
  BY <1>2, <1>4
<1>9. \A f \in 1 .. m : Width(f) = at[f + 1] - at[f] /\ f \in 1 .. n /\ f + 1 \in 1 .. n
  BY <1>5, <1>6 DEF Width
<1>10. \A f \in 1 .. m : Width(f) \in Nat \ {0} /\ at[f + 1] = at[f] + Width(f)
  BY <1>4, <1>9
<1>11. \A f \in 1 .. m : at[f] \in Nat /\ at[f] < at[n]
  BY <1>4, <1>5
<1>12. /\ FieldCount \in Nat /\ Fields = 1 .. FieldCount
       /\ 1 \in Fields /\ LAST \in Fields /\ NAME \in Fields /\ NAME # 1
       /\ At[1] = 0 /\ At[FieldCount + 1] = Length /\ Length \in Nat \ {0}
  BY <1>2, <1>4, <1>5, <1>6, <1>8 DEF LAST, NAME
<1>13. /\ \A f \in 1 .. FieldCount + 1 : At[f] \in Nat /\ At[f] <= Length
       /\ \A f, g \in 1 .. FieldCount + 1 : f < g => At[f] < At[g]
  BY <1>4, <1>5, <1>6, <1>7
<1>14. ASSUME NEW f \in Fields
       PROVE  /\ f \in 1 .. FieldCount + 1 /\ f + 1 \in 1 .. FieldCount + 1
              /\ At[f] \in Nat /\ At[f] < Length
              /\ Width(f) \in Nat \ {0} /\ At[f + 1] = At[f] + Width(f)
  <2>1. f \in 1 .. m
    BY <1>6
  <2> QED
    BY <1>5, <1>6, <1>9, <1>10, <1>11, <2>1
<1> QED
  BY <1>12, <1>13, <1>14

\* One field.
LEMMA FieldIs ==
  ASSUME kind \in Kinds, NEW f \in Fields
  PROVE  /\ f \in 1 .. FieldCount + 1 /\ f + 1 \in 1 .. FieldCount + 1 /\ f \in Nat \ {0}
         /\ At[f] \in Nat /\ At[f] < Length
         /\ Width(f) \in Nat \ {0} /\ At[f + 1] = At[f] + Width(f)
<1>1. f \in 1 .. FieldCount /\ FieldCount \in Nat
  BY Shape
<1>2. f \in Nat \ {0}
  BY <1>1
<1> QED
  BY <1>2, Shape

\* Numbers of bytes are a sequence of numbers.
LEMMA BytesAre ==
  ASSUME NEW first \in Nat, NEW n \in Nat
  PROVE  /\ Bytes(first, n) \in Seq(Nat) /\ Len(Bytes(first, n)) = n
         /\ Bytes(first, n) \in [1 .. n -> Nat]
         /\ \A i \in 1 .. n : Bytes(first, n)[i] = first + i
<1>1. Bytes(first, n) \in [1 .. n -> Nat]
  BY DEF Bytes
<1>2. \A s \in [1 .. n -> Nat] : s \in Seq(Nat) /\ Len(s) = n
  OBVIOUS
<1> QED
  BY <1>1, <1>2 DEF Bytes

\* The fields of an answer, and which answer a first byte of a field is of.
LEMMA AnswersAre ==
  ASSUME kind \in Kinds, NEW a \in Nat \ {0}
  PROVE  /\ Answer(a) \in Entry
         /\ (a - 1) * Length \in Nat
         /\ \A f \in Fields : /\ Answer(a)[f] = Bytes((a - 1) * Length + At[f], Width(f))
                              /\ Answer(a)[f][1] = (a - 1) * Length + At[f] + 1
<1>1. PICK b \in Nat : b = a - 1
  OBVIOUS
<1>2. (a - 1) * Length \in Nat
  <2>1. b * Length \in Nat
    BY Shape
  <2> QED
    BY <1>1, <2>1
<1>3. PICK at \in Nat : at = (a - 1) * Length
  BY <1>2
<1>4. \A f \in Fields : Answer(a)[f] = Bytes(at + At[f], Width(f))
  BY <1>3 DEF Answer
<1>5. ASSUME NEW f \in Fields
      PROVE  /\ Bytes(at + At[f], Width(f)) \in Seq(Nat)
             /\ Bytes(at + At[f], Width(f))[1] = at + At[f] + 1
  <2>1. PICK w \in Nat \ {0} : w = Width(f)
    BY FieldIs
  <2>5. at + At[f] \in Nat
    BY <1>3, FieldIs
  <2>2. PICK first \in Nat : first = at + At[f]
    BY <2>5
  <2>3. 1 \in 1 .. w
    BY <2>1
  <2>4. Bytes(first, w) \in Seq(Nat) /\ Bytes(first, w)[1] = first + 1
    BY <2>3, BytesAre
  <2> QED
    BY <2>1, <2>2, <2>4
<1>6. Answer(a) \in Entry
  <2>1. Answer(a) = [f \in Fields |-> Bytes(at + At[f], Width(f))]
    BY <1>3 DEF Answer
  <2>2. \A f \in Fields : Bytes(at + At[f], Width(f)) \in Seq(Nat)
    BY <1>5
  <2>3. [f \in Fields |-> Bytes(at + At[f], Width(f))] \in [Fields -> Seq(Nat)]
    BY <2>2, Zenon
  <2> QED
    BY <2>1, <2>3 DEF Entry
<1> QED
  BY <1>2, <1>3, <1>4, <1>5, <1>6

\* Answers differ in each field.
LEMMA AnswersDiffer ==
  ASSUME kind \in Kinds, NEW a \in Nat \ {0}, NEW b \in Nat \ {0}, NEW f \in Fields,
         Answer(a)[f] = Answer(b)[f]
  PROVE  a = b
<1>1. (a - 1) * Length + At[f] + 1 = (b - 1) * Length + At[f] + 1
  BY AnswersAre
<1>10. Length \in Nat \ {0}
  BY Shape
<1>11. At[f] \in Nat
  BY FieldIs
<1>12. a - 1 \in Nat /\ b - 1 \in Nat
  OBVIOUS
<1>5. a - 1 \in Nat /\ b - 1 \in Nat /\ Length \in Nat \ {0} /\ At[f] \in Nat
  BY <1>10, <1>11, <1>12
<1>2. PICK c \in Nat, d \in Nat, size \in Nat \ {0}, at \in Nat :
         c = a - 1 /\ d = b - 1 /\ size = Length /\ at = At[f]
  BY <1>5
<1>3. c * size + at + 1 = d * size + at + 1
  BY <1>1, <1>2
<1>6. c < d => c * size + size <= d * size /\ c * size \in Nat /\ d * size \in Nat
  BY <1>2, Multiples
<1>7. d < c => d * size + size <= c * size /\ c * size \in Nat /\ d * size \in Nat
  BY <1>2, Multiples
<1>8. PICK p, q : p = c * size /\ q = d * size
  OBVIOUS
<1>9. /\ p + at + 1 = q + at + 1
      /\ c < d => p + size <= q /\ p \in Nat /\ q \in Nat
      /\ d < c => q + size <= p /\ p \in Nat /\ q \in Nat
  BY <1>3, <1>6, <1>7, <1>8
<1>4. ~(c < d) /\ ~(d < c)
  BY <1>2, <1>9
<1> QED
  BY <1>2, <1>4

\* The names of the answers are numbers, none of them zero but for a table without
\* boxes; a create or a remove has one answer.
LEMMA ScriptIs ==
  ASSUME Typed
  PROVE  /\ script \in Seq(Nat) /\ Len(script) \in Nat \ {0}
         /\ \A a \in 1 .. Len(script) : script[a] = 0 => script = NoBoxes
         /\ kind = "code" => Len(script) = 1
         /\ DOMAIN script = 1 .. Len(script)
<1>1. NoBoxes \in Seq(Nat) /\ Len(NoBoxes) = 1
  BY DEF NoBoxes
<1>2. CASE script = NoBoxes
  <2>1. Len(script) = 1 /\ script \in Seq(Nat)
    BY <1>1, <1>2
  <2> QED
    BY <1>2, <2>1, LenProperties
<1>3. CASE script # NoBoxes
  <2>1. script \in Seq(Nat \ {0}) \ {<<>>}
    BY <1>3, ManagerAssumption DEF Typed, TypeOK
  <2>2. script \in Seq(Nat)
    BY <2>1, SeqMonotonic
  <2>3. Len(script) \in Nat \ {0} /\ DOMAIN script = 1 .. Len(script)
    BY <2>1, EmptySeq, LenProperties
  <2>4. \A a \in 1 .. Len(script) : script[a] \in Nat \ {0}
    BY <2>1, ElementOfSeq
  <2>5. kind # "code"
    BY <1>3 DEF Typed
  <2> QED
    BY <2>2, <2>3, <2>4, <2>5
<1> QED
  BY <1>2, <1>3

\* What each use of the pipe does to its parts.
LEMMA PipeParts ==
  ASSUME pipe \in Pipe
  PROVE  /\ CEnd \in Modes /\ BEnd \in Modes /\ pipe.path \in BOOLEAN /\ pipe.buffer \in Seq(Nat)
         /\ UNCHANGED pipe => CEnd' = CEnd /\ BEnd' = BEnd
  BY DEF Pipe, CEnd, BEnd, Ends

\* open for reading meets a writer, or waits.
LEMMA OpenReadParts ==
  ASSUME pipe \in Pipe
  PROVE  /\ pipe' = OpenRead(pipe, "client") =>
              /\ pipe' \in Pipe /\ pipe'.path = pipe.path /\ pipe'.buffer = pipe.buffer
              /\ CEnd' = IF BEnd \in {"W", "waits_W"} THEN "R" ELSE "waits_R"
              /\ BEnd' = IF BEnd \in {"W", "waits_W"} THEN "W" ELSE BEnd
         /\ pipe' = OpenRead(pipe, "broker") =>
              /\ pipe' \in Pipe /\ pipe'.path = pipe.path /\ pipe'.buffer = pipe.buffer
              /\ BEnd' = IF CEnd \in {"W", "waits_W"} THEN "R" ELSE "waits_R"
              /\ CEnd' = IF CEnd \in {"W", "waits_W"} THEN "W" ELSE CEnd
<1>1. ASSUME NEW x \in Ends, pipe' = OpenRead(pipe, x)
      PROVE  LET other == pipe.end[Peer(x)] \in {"W", "waits_W"}
             IN pipe' = [path |-> pipe.path, buffer |-> pipe.buffer,
                         end |-> IF other THEN [y \in Ends |-> IF y = x THEN "R" ELSE "W"]
                                 ELSE [y \in Ends |-> IF y = x THEN "waits_R" ELSE pipe.end[y]]]
  BY <1>1 DEF OpenRead, WritesOrWaits, Pipe, Ends, Peer
<1>2. "client" \in Ends /\ "broker" \in Ends /\ Peer("client") = "broker" /\ Peer("broker") = "client"
  BY DEF Ends, Peer
<1>3. ASSUME pipe' = OpenRead(pipe, "client")
      PROVE  /\ pipe' \in Pipe /\ pipe'.path = pipe.path /\ pipe'.buffer = pipe.buffer
             /\ CEnd' = IF BEnd \in {"W", "waits_W"} THEN "R" ELSE "waits_R"
             /\ BEnd' = IF BEnd \in {"W", "waits_W"} THEN "W" ELSE BEnd
  <2>1. CASE BEnd \in {"W", "waits_W"}
    BY <1>1, <1>2, <1>3, <2>1 DEF Pipe, CEnd, BEnd, Ends, Modes
  <2>2. CASE BEnd \notin {"W", "waits_W"}
    BY <1>1, <1>2, <1>3, <2>2 DEF Pipe, CEnd, BEnd, Ends, Modes
  <2> QED
    BY <2>1, <2>2
<1>4. ASSUME pipe' = OpenRead(pipe, "broker")
      PROVE  /\ pipe' \in Pipe /\ pipe'.path = pipe.path /\ pipe'.buffer = pipe.buffer
             /\ BEnd' = IF CEnd \in {"W", "waits_W"} THEN "R" ELSE "waits_R"
             /\ CEnd' = IF CEnd \in {"W", "waits_W"} THEN "W" ELSE CEnd
  <2>1. CASE CEnd \in {"W", "waits_W"}
    BY <1>1, <1>2, <1>4, <2>1 DEF Pipe, CEnd, BEnd, Ends, Modes
  <2>2. CASE CEnd \notin {"W", "waits_W"}
    BY <1>1, <1>2, <1>4, <2>2 DEF Pipe, CEnd, BEnd, Ends, Modes
  <2> QED
    BY <2>1, <2>2
<1> QED
  BY <1>3, <1>4

\* open for writing meets a reader, or waits.
LEMMA OpenWriteParts ==
  ASSUME pipe \in Pipe
  PROVE  /\ pipe' = OpenWrite(pipe, "client") =>
              /\ pipe' \in Pipe /\ pipe'.path = pipe.path /\ pipe'.buffer = pipe.buffer
              /\ CEnd' = IF BEnd \in {"R", "waits_R"} THEN "W" ELSE "waits_W"
              /\ BEnd' = IF BEnd \in {"R", "waits_R"} THEN "R" ELSE BEnd
         /\ pipe' = OpenWrite(pipe, "broker") =>
              /\ pipe' \in Pipe /\ pipe'.path = pipe.path /\ pipe'.buffer = pipe.buffer
              /\ BEnd' = IF CEnd \in {"R", "waits_R"} THEN "W" ELSE "waits_W"
              /\ CEnd' = IF CEnd \in {"R", "waits_R"} THEN "R" ELSE CEnd
<1>1. ASSUME NEW x \in Ends, pipe' = OpenWrite(pipe, x)
      PROVE  LET other == pipe.end[Peer(x)] \in {"R", "waits_R"}
             IN pipe' = [path |-> pipe.path, buffer |-> pipe.buffer,
                         end |-> IF other THEN [y \in Ends |-> IF y = x THEN "W" ELSE "R"]
                                 ELSE [y \in Ends |-> IF y = x THEN "waits_W" ELSE pipe.end[y]]]
  BY <1>1 DEF OpenWrite, ReadsOrWaits, Pipe, Ends, Peer
<1>2. "client" \in Ends /\ "broker" \in Ends /\ Peer("client") = "broker" /\ Peer("broker") = "client"
  BY DEF Ends, Peer
<1>3. ASSUME pipe' = OpenWrite(pipe, "client")
      PROVE  /\ pipe' \in Pipe /\ pipe'.path = pipe.path /\ pipe'.buffer = pipe.buffer
             /\ CEnd' = IF BEnd \in {"R", "waits_R"} THEN "W" ELSE "waits_W"
             /\ BEnd' = IF BEnd \in {"R", "waits_R"} THEN "R" ELSE BEnd
  <2>1. CASE BEnd \in {"R", "waits_R"}
    BY <1>1, <1>2, <1>3, <2>1 DEF Pipe, CEnd, BEnd, Ends, Modes
  <2>2. CASE BEnd \notin {"R", "waits_R"}
    BY <1>1, <1>2, <1>3, <2>2 DEF Pipe, CEnd, BEnd, Ends, Modes
  <2> QED
    BY <2>1, <2>2
<1>4. ASSUME pipe' = OpenWrite(pipe, "broker")
      PROVE  /\ pipe' \in Pipe /\ pipe'.path = pipe.path /\ pipe'.buffer = pipe.buffer
             /\ BEnd' = IF CEnd \in {"R", "waits_R"} THEN "W" ELSE "waits_W"
             /\ CEnd' = IF CEnd \in {"R", "waits_R"} THEN "R" ELSE CEnd
  <2>1. CASE CEnd \in {"R", "waits_R"}
    BY <1>1, <1>2, <1>4, <2>1 DEF Pipe, CEnd, BEnd, Ends, Modes
  <2>2. CASE CEnd \notin {"R", "waits_R"}
    BY <1>1, <1>2, <1>4, <2>2 DEF Pipe, CEnd, BEnd, Ends, Modes
  <2> QED
    BY <2>1, <2>2
<1> QED
  BY <1>3, <1>4

\* close: what is in the pipe goes when the other end is closed too.
LEMMA CloseParts ==
  ASSUME pipe \in Pipe
  PROVE  /\ pipe' = Close(pipe, "client") =>
              /\ pipe' \in Pipe /\ pipe'.path = pipe.path /\ CEnd' = "closed" /\ BEnd' = BEnd
              /\ pipe'.buffer = IF BEnd = "closed" THEN <<>> ELSE pipe.buffer
         /\ pipe' = Close(pipe, "broker") =>
              /\ pipe' \in Pipe /\ pipe'.path = pipe.path /\ BEnd' = "closed" /\ CEnd' = CEnd
              /\ pipe'.buffer = IF CEnd = "closed" THEN <<>> ELSE pipe.buffer
<1>1. <<>> \in Seq(Nat)
  BY EmptySeq
<1>2. ASSUME NEW x \in Ends, pipe' = Close(pipe, x)
      PROVE  /\ pipe'.path = pipe.path
             /\ pipe'.buffer = IF pipe.end[Peer(x)] = "closed" THEN <<>> ELSE pipe.buffer
             /\ pipe'.end = [pipe.end EXCEPT ![x] = "closed"]
             /\ pipe' \in Pipe
  <2>1. CASE pipe.end[Peer(x)] = "closed"
    BY <1>1, <1>2, <2>1 DEF Close, Pipe, Modes
  <2>2. CASE pipe.end[Peer(x)] # "closed"
    BY <1>2, <2>2 DEF Close, Pipe, Modes
  <2> QED
    BY <2>1, <2>2
<1>3. /\ "client" \in Ends /\ "broker" \in Ends /\ pipe.end \in [Ends -> Modes]
      /\ Peer("client") = "broker" /\ Peer("broker") = "client"
  BY DEF Ends, Peer, Pipe
<1> QED
  BY <1>2, <1>3 DEF CEnd, BEnd

\* unlink leaves both ends as they are.
LEMMA UnlinkParts ==
  ASSUME pipe \in Pipe, pipe' = Unlink(pipe)
  PROVE  /\ pipe' \in Pipe /\ ~pipe'.path /\ CEnd' = CEnd /\ BEnd' = BEnd
         /\ pipe'.buffer = pipe.buffer
  BY DEF Pipe, CEnd, BEnd, Unlink

\* write puts all the bytes behind the others.
LEMMA WriteAllParts ==
  ASSUME pipe \in Pipe, NEW bytes \in Seq(Nat), pipe' = WriteAll(pipe, bytes)
  PROVE  /\ pipe' \in Pipe /\ pipe'.path = pipe.path /\ CEnd' = CEnd /\ BEnd' = BEnd
         /\ Len(pipe'.buffer) = Len(pipe.buffer) + Len(bytes)
         /\ \A i \in 1 .. Len(pipe.buffer) + Len(bytes) :
              pipe'.buffer[i] = IF i <= Len(pipe.buffer) THEN pipe.buffer[i]
                                ELSE bytes[i - Len(pipe.buffer)]
<1>1. pipe.buffer \in Seq(Nat)
  BY DEF Pipe
<1>2. pipe'.buffer = pipe.buffer \o bytes
  BY DEF WriteAll, Pipe
<1>3. pipe.buffer \o bytes \in Seq(Nat)
  BY <1>1, ConcatProperties
<1>4. pipe' \in Pipe /\ pipe'.path = pipe.path /\ CEnd' = CEnd /\ BEnd' = BEnd
  BY <1>3 DEF Pipe, CEnd, BEnd, WriteAll
<1> QED
  BY <1>1, <1>2, <1>4, ConcatProperties

\* read takes the first n.
LEMMA ReadSomeParts ==
  ASSUME pipe \in Pipe, NEW n \in Nat, n <= Len(pipe.buffer), pipe' = ReadSome(pipe, n)
  PROVE  /\ pipe' \in Pipe /\ pipe'.path = pipe.path /\ CEnd' = CEnd /\ BEnd' = BEnd
         /\ Len(pipe'.buffer) = Len(pipe.buffer) - n
         /\ \A i \in 1 .. Len(pipe.buffer) - n : pipe'.buffer[i] = pipe.buffer[n + i]
<1>1. pipe.buffer \in Seq(Nat)
  BY DEF Pipe
<1>2. PICK m \in Nat : m = Len(pipe.buffer)
  BY <1>1, LenProperties
<1>3. PICK rest : rest = SubSeq(pipe.buffer, n + 1, m)
  OBVIOUS
<1>4. \A i \in n + 1 .. m : i \in 1 .. Len(pipe.buffer)
  BY <1>2
<1>5. \A i \in n + 1 .. m : pipe.buffer[i] \in Nat
  BY <1>1, <1>4, ElementOfSeq
<1>6. n + 1 \in Int /\ m \in Int
  OBVIOUS
<1>7. /\ rest \in Seq(Nat) /\ Len(rest) = IF n + 1 <= m THEN m - (n + 1) + 1 ELSE 0
      /\ \A i \in 1 .. m - (n + 1) + 1 : rest[i] = pipe.buffer[(n + 1) + i - 1]
  BY <1>3, <1>5, <1>6, SubSeqProperties
<1>8. Len(rest) = m - n
  BY <1>2, <1>7
<1>9. \A i \in 1 .. m - n : rest[i] = pipe.buffer[n + i]
  <2>1. \A i \in 1 .. m - n : i \in 1 .. m - (n + 1) + 1 /\ (n + 1) + i - 1 = n + i
    OBVIOUS
  <2> QED
    BY <1>7, <2>1
<1>10. pipe'.buffer = rest
  BY <1>2, <1>3 DEF ReadSome, Pipe
<1>11. pipe' \in Pipe /\ pipe'.path = pipe.path /\ CEnd' = CEnd /\ BEnd' = BEnd
  BY <1>2, <1>3, <1>7 DEF Pipe, CEnd, BEnd, ReadSome
<1> QED
  BY <1>2, <1>8, <1>9, <1>10, <1>11

-----------------------------------------------------------------------------
(* What the actions do *)

\* No step changes the request or the names to be sent.
LEMMA ScriptStays == ASSUME [Next]_vars PROVE UNCHANGED <<kind, script>>
<1>1. CASE UNCHANGED vars
  BY <1>1 DEF vars
<1>2. CASE BrokerStep
  BY <1>2, Zenon DEF BrokerStep, BrokerOpen, BrokerWrite, BrokerDies, BrokerClose
<1>3. CASE ManagerStep \/ ManagerOverruns \/ Crash
  BY <1>3, Zenon DEF ManagerStep, ManagerOpen, ManagerRead, ManagerCollect, ManagerNone,
     ManagerPrint, ManagerUnlink, ManagerExit, ManagerOverruns, Crash
<1> QED
  BY <1>1, <1>2, <1>3 DEF Next

\* Nor, with it, the fields of an answer.
LEMMA ShapeStays ==
  ASSUME UNCHANGED kind
  PROVE  /\ At' = At /\ FieldCount' = FieldCount /\ Fields' = Fields /\ Length' = Length
         /\ Entry' = Entry
         /\ \A f : Width(f)' = Width(f)
         /\ \A a : Answer(a)' = Answer(a)
BY DEF At, FieldCount, Fields, Length, Entry, Width, Answer

\* The programs go their ways: what is left alone but for the pipe.
brokerSide == <<worker, sent, field>>
managerSide == <<client, reading, entry, bytes_read, received, allocated, outcome, step>>

\* What the session's write puts in the pipe.
LEMMA WriteEffect ==
  ASSUME Typed, WorkerEnd, BrokerWrite
  PROVE  /\ worker = "write" /\ worker' \in {"write", "close"} /\ BEnd = "W"
         /\ field' \in 1 .. FieldCount + 1 /\ field < field'
         /\ worker' = "write" => field' \in Fields
         /\ worker' = "close" => field' = FieldCount + 1
         /\ pipe' = WriteAll(pipe, Bytes(Written, At[field'] - At[field]))
         /\ UNCHANGED sent /\ UNCHANGED managerSide /\ UNCHANGED <<kind, script, killed>>
<1>1. /\ worker = "write" /\ BEnd = "W" /\ field \in Fields
      /\ field' = NextField /\ worker' = IF NextField \in Fields THEN "write" ELSE "close"
      /\ UNCHANGED sent /\ UNCHANGED managerSide /\ UNCHANGED <<kind, script, killed>>
  BY DEF BrokerWrite, WorkerGoes, HasRoomFor, BEnd, WorkerEnd, managerSide, managerVars, results
<1>2. kind \in Kinds
  BY DEF Typed, TypeOK
<1>3. NextField \in 1 .. FieldCount + 1 /\ field < NextField
  <2>1. CASE kind = "list" /\ field = 1
    <3>1. NextField = NAME /\ NAME \in Fields /\ NAME \in Nat /\ NAME > 1
      BY <2>1, <1>2, Shape DEF NextField, NAME
    <3> QED
      BY <1>2, <2>1, <3>1, FieldIs
  <2>2. CASE ~(kind = "list" /\ field = 1)
    <3>1. NextField = field + 1
      BY <2>2 DEF NextField
    <3> QED
      BY <1>1, <1>2, <3>1, FieldIs
  <2> QED
    BY <2>1, <2>2
<1>4. NextField \notin Fields => NextField = FieldCount + 1
  BY <1>2, <1>3, Shape
<1>5. pipe' = WriteAll(pipe, Bytes(Written, At[field'] - At[field]))
  BY <1>1 DEF BrokerWrite, Written
<1> QED
  BY <1>1, <1>3, <1>4, <1>5

\* What a read of the manager takes out of the pipe, and where it puts it.
LEMMA ReadEffect ==
  ASSUME Typed, ManagerRead
  PROVE  \E n \in Nat :
           /\ client = "read" /\ reading \in Fields /\ CEnd = "R"
           /\ n <= Width(reading) /\ n <= Len(pipe.buffer)
           /\ n < Width(reading) => n = Len(pipe.buffer)
           /\ n = 0 => BEnd \notin {"W", "waits_W"}
           /\ pipe' = ReadSome(pipe, n)
           /\ entry' \in Entry
           /\ \A f \in Fields : f # reading => entry'[f] = entry[f]
           /\ \A f \in Fields : entry'[f] \in [1 .. Width(f) -> Nat]
           /\ n = 0 => \A f \in Fields : entry'[f] = entry[f]
           /\ n = Width(reading) => entry'[reading] = [i \in 1 .. n |-> pipe.buffer[i]]
           /\ bytes_read' = n /\ reading' = reading + 1 /\ step' = StepAfter(n)
           /\ UNCHANGED brokerSide
           /\ UNCHANGED <<kind, script, client, received, allocated, outcome, killed>>
<1>1. /\ kind \in Kinds /\ pipe \in Pipe /\ pipe.buffer \in Seq(Nat) /\ entry \in Entry
      /\ \A f \in Fields : entry[f] \in [1 .. Width(f) -> Nat]
  BY DEF Typed, TypeOK, Pipe
<1>2. reading \in Fields /\ client = "read" /\ CEnd = "R"
  BY DEF ManagerRead, HasData, AtEnd, CEnd
<1>3. PICK w \in Nat \ {0}, m \in Nat : w = Width(reading) /\ m = Len(pipe.buffer)
  BY <1>1, <1>2, FieldIs, LenProperties
<1>4. PICK n \in Nat : n = Least(w, m) /\ n <= w /\ n <= m /\ (n < w => n = m)
  BY <1>3 DEF Least
<1>5. PICK new : new = Overlay(entry[reading], pipe.buffer, n)
  OBVIOUS
<1>6. entry' = [entry EXCEPT ![reading] = new]
  BY <1>3, <1>4, <1>5 DEF ManagerRead
<1>7. new = [i \in 1 .. w |-> IF i <= n THEN pipe.buffer[i] ELSE entry[reading][i]]
  BY <1>1, <1>2, <1>3, <1>5 DEF Overlay
<1>8. \A i \in 1 .. n : pipe.buffer[i] \in Nat
  <2>1. \A i \in 1 .. n : i \in 1 .. Len(pipe.buffer)
    BY <1>3, <1>4
  <2> QED
    BY <1>1, <2>1, ElementOfSeq
<1>9. \A i \in 1 .. w : entry[reading][i] \in Nat
  BY <1>1, <1>2, <1>3
<1>10. new \in [1 .. w -> Nat]
  <2>1. \A i \in 1 .. w : (IF i <= n THEN pipe.buffer[i] ELSE entry[reading][i]) \in Nat
    BY <1>8, <1>9
  <2> QED
    BY <1>7, <2>1
<1>11. new \in Seq(Nat)
  BY <1>10
<1>12. entry' \in Entry
  BY <1>1, <1>2, <1>6, <1>11 DEF Entry
<1>13. \A f \in Fields : entry'[f] = IF f = reading THEN new ELSE entry[f]
  BY <1>1, <1>2, <1>6 DEF Entry
<1>14. n = 0 => new = entry[reading]
  <2> SUFFICES ASSUME n = 0 PROVE new = entry[reading]
    OBVIOUS
  <2>1. new = [i \in 1 .. w |-> entry[reading][i]]
    BY <1>7
  <2>2. entry[reading] \in [1 .. w -> Nat]
    BY <1>1, <1>2, <1>3
  <2> QED
    BY <2>1, <2>2
<1>15. n = w => new = [i \in 1 .. n |-> pipe.buffer[i]]
  BY <1>7
<1>16. n = 0 => BEnd \notin {"W", "waits_W"}
  <2> SUFFICES ASSUME n = 0 PROVE BEnd \notin {"W", "waits_W"}
    OBVIOUS
  <2>1. m = 0
    BY <1>3, <1>4
  <2>2. pipe.buffer = <<>>
    BY <1>1, <1>3, <2>1, EmptySeq
  <2> QED
    BY <2>2 DEF ManagerRead, HasData, AtEnd, WritesOrWaits, Peer, BEnd
<1>17. /\ pipe' = ReadSome(pipe, n) /\ bytes_read' = n /\ step' = StepAfter(n)
       /\ reading' = reading + 1 /\ UNCHANGED brokerSide
       /\ UNCHANGED <<kind, script, client, received, allocated, outcome, killed>>
  BY <1>3, <1>4 DEF ManagerRead, brokerVars, brokerSide, results
<1>18. \A f \in Fields : f # reading => entry'[f] = entry[f]
  BY <1>13
<1>19. \A f \in Fields : entry'[f] \in [1 .. Width(f) -> Nat]
  BY <1>1, <1>3, <1>10, <1>13
<1>20. n = 0 => \A f \in Fields : entry'[f] = entry[f]
  BY <1>13, <1>14
<1>21. n = Width(reading) => entry'[reading] = [i \in 1 .. n |-> pipe.buffer[i]]
  BY <1>2, <1>3, <1>13, <1>15
<1> QED
  BY <1>2, <1>3, <1>4, <1>12, <1>16, <1>17, <1>18, <1>19, <1>20, <1>21

-----------------------------------------------------------------------------
(* Every step keeps it: the ranges and the ends of the pipe *)

\* The steps there are, those that change the same together.
LEMMA Steps ==
  ASSUME [Next]_vars
  PROVE  \/ UNCHANGED vars \/ BrokerDies
         \/ BrokerOpen \/ BrokerWrite \/ BrokerClose
         \/ ManagerOpen \/ ManagerRead \/ ManagerCollect
         \/ ManagerNone \/ ManagerPrint \/ ManagerOverruns
         \/ ManagerUnlink \/ ManagerExit \/ Crash
BY Zenon DEF Next, BrokerStep, ManagerStep

\* Every step uses the pipe as one.
LEMMA KeepsPipe ==
  ASSUME Typed, WorkerEnd, [Next]_vars
  PROVE  pipe' \in Pipe
<1>P. pipe \in Pipe /\ kind \in Kinds
  BY DEF Typed, TypeOK
<1>1. CASE UNCHANGED pipe
  BY <1>P, <1>1, Zenon DEF Pipe
<1>2. CASE BrokerOpen \/ ManagerOpen
  BY <1>P, <1>1, <1>2, OpenReadParts, OpenWriteParts DEF BrokerOpen, ManagerOpen
<1>3. CASE BrokerWrite
  <2>1. pipe' = WriteAll(pipe, Bytes(Written, At[field'] - At[field])) /\ field \in 1 .. FieldCount + 1
        /\ field' \in 1 .. FieldCount + 1 /\ field < field'
    BY <1>3, WriteEffect DEF Typed, TypeOK
  <2>2. /\ At[field'] - At[field] \in Nat /\ Written \in Nat
    <3>1. At[field] \in Nat /\ At[field'] \in Nat /\ At[field] < At[field'] /\ Length \in Nat
      BY <1>P, <2>1, Shape
    <3>2. sent \in Nat
      BY DEF Typed, TypeOK
    <3>3. sent * Length \in Nat
      BY <3>1, <3>2
    <3> QED
      BY <3>1, <3>3 DEF Written
  <2>3. Bytes(Written, At[field'] - At[field]) \in Seq(Nat)
    BY <2>2, BytesAre
  <2> QED
    BY <1>P, <2>1, <2>3, WriteAllParts
<1>4. CASE pipe' = Close(pipe, "broker") \/ pipe' = Close(pipe, "client")
  BY <1>P, <1>4, CloseParts
<1>5. CASE ManagerRead
  BY <1>P, <1>5, ReadEffect, ReadSomeParts
<1>6. CASE pipe' = Unlink(pipe)
  BY <1>P, <1>6, UnlinkParts
<1>7. \/ UNCHANGED pipe \/ BrokerOpen \/ ManagerOpen \/ BrokerWrite \/ ManagerRead
      \/ pipe' = Close(pipe, "broker") \/ pipe' = Close(pipe, "client") \/ pipe' = Unlink(pipe)
  BY Steps, Zenon DEF vars, BrokerDies, BrokerClose, ManagerCollect, ManagerNone, ManagerPrint,
     ManagerOverruns, ManagerUnlink, ManagerExit, Crash
<1> QED
  BY <1>1, <1>2, <1>3, <1>4, <1>5, <1>6, <1>7

\* Each variable that one action at most changes besides its like.
LEMMA KeepsTyped ==
  ASSUME Typed, WorkerEnd, [Next]_vars
  PROVE  Typed'
<1>S. UNCHANGED <<kind, script>> /\ pipe' \in Pipe
  BY ScriptStays, KeepsPipe
<1>T. /\ TypeOK /\ kind \in Kinds /\ entry \in Entry /\ received \in Seq(Entry)
      /\ pipe' \in Pipe
  BY <1>S DEF Typed, TypeOK
<1>F. Entry' = Entry /\ Fields' = Fields /\ FieldCount' = FieldCount /\ \A f : Width(f)' = Width(f)
  BY <1>S, ShapeStays
<1>1. worker' \in {"start", "write", "close", "ended"}
  BY <1>T, Steps DEF TypeOK, vars, BrokerDies, BrokerOpen, BrokerWrite, BrokerClose, ManagerOpen,
     ManagerRead, ManagerCollect, ManagerNone, ManagerPrint, ManagerOverruns, ManagerUnlink,
     ManagerExit, Crash, WorkerGoes, brokerVars
<1>2. client' \in {"start", "read", "unlink", "exit", "ended", "dead"}
  BY <1>T, Steps DEF TypeOK, vars, BrokerDies, BrokerOpen, BrokerWrite, BrokerClose, ManagerOpen,
     ManagerRead, ManagerCollect, ManagerNone, ManagerPrint, ManagerOverruns, ManagerUnlink,
     ManagerExit, Crash, ClientGoes, managerVars
<1>3. sent' \in 0 .. Len(script)
  <2>1. sent' = sent \/ (sent' = sent + 1 /\ worker \in {"start", "close"})
    BY Steps DEF vars, BrokerDies, BrokerOpen, BrokerWrite, BrokerClose, ManagerOpen,
       ManagerRead, ManagerCollect, ManagerNone, ManagerPrint, ManagerOverruns, ManagerUnlink,
       ManagerExit, Crash, WorkerGoes, brokerVars
  <2>2. sent \in 0 .. Len(script) /\ Len(script) \in Nat
    BY <1>T, ScriptIs DEF TypeOK
  <2>3. worker # "ended" => sent < Len(script)
    BY DEF WorkerEnd
  <2> QED
    BY <2>1, <2>2, <2>3
<1>4. field' \in 1 .. FieldCount + 1
  <2>1. CASE BrokerWrite
    BY <2>1, WriteEffect
  <2>2. CASE ~BrokerWrite
    <3>1. field' = field \/ field' = 1
      BY <2>2, Steps DEF vars, BrokerDies, BrokerOpen, BrokerClose, ManagerOpen,
         ManagerRead, ManagerCollect, ManagerNone, ManagerPrint, ManagerOverruns, ManagerUnlink,
         ManagerExit, Crash, brokerVars
    <3> QED
      BY <1>T, <3>1, Shape, FieldIs DEF TypeOK
  <2> QED
    BY <2>1, <2>2
<1>5. /\ reading' \in 1 .. FieldCount + 1 /\ entry' \in Entry /\ bytes_read' \in Nat
      /\ \A f \in Fields : entry'[f] \in [1 .. Width(f) -> Nat]
      /\ step' \in {"in", "end", "out"}
  <2>1. CASE ManagerRead
    <3>1. PICK n \in Nat : /\ reading \in Fields /\ entry' \in Entry
                           /\ \A f \in Fields : entry'[f] \in [1 .. Width(f) -> Nat]
                           /\ bytes_read' = n /\ reading' = reading + 1 /\ step' = StepAfter(n)
      BY <2>1, ReadEffect
    <3>2. step' \in {"in", "end", "out"}
      BY <1>T, <3>1 DEF StepAfter, TypeOK
    <3>3. reading' \in 1 .. FieldCount + 1
      BY <1>T, <3>1, FieldIs
    <3> QED
      BY <3>1, <3>2, <3>3
  <2>2. CASE ~ManagerRead
    <3>1. reading' = reading \/ reading' = 1
      BY <2>2, Steps DEF vars, BrokerDies, BrokerOpen, BrokerWrite, BrokerClose, ManagerOpen,
         ManagerCollect, ManagerNone, ManagerPrint, ManagerOverruns, ManagerUnlink,
         ManagerExit, Crash, managerVars
    <3>2. UNCHANGED <<entry, bytes_read, step>>
      BY <2>2, Steps DEF vars, BrokerDies, BrokerOpen, BrokerWrite, BrokerClose, ManagerOpen,
         ManagerCollect, ManagerNone, ManagerPrint, ManagerOverruns, ManagerUnlink,
         ManagerExit, Crash, managerVars
    <3>3. reading' \in 1 .. FieldCount + 1
      BY <1>T, <3>1, Shape, FieldIs DEF TypeOK
    <3> QED
      BY <1>T, <3>2, <3>3 DEF TypeOK
  <2> QED
    BY <2>1, <2>2
<1>6. received' \in Seq(Entry) /\ allocated' \in Nat
  <2>1. CASE ManagerCollect
    <3>1. received' = Append(received, entry) /\ received' \in Seq(Entry)
      BY <1>T, <2>1, AppendProperties DEF ManagerCollect
    <3>2. PICK m \in Nat : m = Len(received')
      BY <3>1, LenProperties
    <3>3. allocated' \in {0, allocated, m + CHUNK}
      BY <2>1, <3>1, <3>2 DEF ManagerCollect, Grown
    <3> QED
      <4>1. allocated \in Nat /\ CHUNK \in Nat
        BY <1>T, ManagerAssumption DEF TypeOK
      <4> QED
        BY <3>1, <3>3, <4>1
  <2>2. CASE ~ManagerCollect
    <3>1. UNCHANGED received
      BY <2>2, Steps, Zenon DEF vars, BrokerDies, BrokerOpen, BrokerWrite, BrokerClose, ManagerOpen,
         ManagerRead, ManagerNone, ManagerPrint, ManagerOverruns, ManagerUnlink,
         ManagerExit, Crash, managerVars, results
    <3>2. allocated' \in {0, allocated, CHUNK}
      BY <2>2, Steps DEF vars, BrokerDies, BrokerOpen, BrokerWrite, BrokerClose, ManagerOpen,
         ManagerRead, ManagerNone, ManagerPrint, ManagerOverruns, ManagerUnlink,
         ManagerExit, Crash, managerVars, results
    <3> QED
      BY <1>T, <3>1, <3>2, ManagerAssumption DEF TypeOK
  <2> QED
    BY <2>1, <2>2
<1>7. outcome' \in {"waits", "printed", "none"} /\ killed' \in BOOLEAN
  <2>1. outcome' \in {outcome, "printed", "none"}
    BY Steps DEF vars, BrokerDies, BrokerOpen, BrokerWrite, BrokerClose, ManagerOpen,
       ManagerRead, ManagerCollect, ManagerNone, ManagerPrint, ManagerOverruns, ManagerUnlink,
       ManagerExit, Crash, managerVars, results
  <2>2. killed' = killed \/ killed' = TRUE
    BY Steps, Zenon DEF vars, BrokerDies, BrokerOpen, BrokerWrite, BrokerClose, ManagerOpen,
       ManagerRead, ManagerCollect, ManagerNone, ManagerPrint, ManagerOverruns, ManagerUnlink,
       ManagerExit, Crash, managerVars, results
  <2>3. killed' \in BOOLEAN
    BY <1>T, <2>2, Zenon DEF TypeOK
  <2> QED
    BY <1>T, <2>1, <2>3 DEF TypeOK
<1>8. /\ pipe'.path \in BOOLEAN /\ pipe'.end \in [Ends -> Modes] /\ pipe'.buffer \in Seq(Nat)
  BY <1>T DEF Pipe
<1>9. DOMAIN entry' = Fields
  BY <1>5 DEF Entry
<1>10. (kind \in Kinds /\ script \in Lists \cup {NoBoxes})' /\ (kind = "code" => script = NoBoxes)'
  BY <1>S DEF Typed, TypeOK
<1>11. Pipe' = Pipe
  BY DEF Pipe
<1>12. TypeOK'
  BY <1>S, <1>F, <1>1, <1>2, <1>3, <1>4, <1>5, <1>6, <1>7, <1>8, <1>9, <1>10 DEF TypeOK
<1> QED
  BY <1>F, <1>S, <1>5, <1>6, <1>10, <1>11, <1>12 DEF Typed

\* Every step leaves each end in the mode that fits where its program is.
LEMMA KeepsEnds ==
  ASSUME Typed, WorkerEnd, ClientEnd, [Next]_vars
  PROVE  WorkerEnd' /\ ClientEnd'
<1>S. UNCHANGED <<kind, script>>
  BY ScriptStays
<1>F. Fields' = Fields /\ FieldCount' = FieldCount
  BY <1>S, ShapeStays
<1>T. /\ pipe \in Pipe /\ kind \in Kinds /\ sent \in Nat /\ Len(script) \in Nat
      /\ worker \in {"start", "write", "close", "ended"}
      /\ client \in {"start", "read", "unlink", "exit", "ended", "dead"}
  BY ScriptIs DEF Typed, TypeOK
<1>P. /\ CEnd \in Modes /\ BEnd \in Modes
      /\ UNCHANGED pipe => CEnd' = CEnd /\ BEnd' = BEnd
  BY <1>T, PipeParts
<1>O. 1 \in Fields
  BY <1>T, Shape
<1> USE DEF WorkerEnd, ClientEnd, WorkerGoes, ClientGoes
<1>1. CASE UNCHANGED vars \/ BrokerDies
  <2>1. UNCHANGED <<pipe, worker, client, sent, field, outcome, step, reading, received>>
    BY <1>1, Zenon DEF vars, BrokerDies, brokerVars, managerVars, results
  <2> QED
    BY <1>S, <1>F, <1>P, <2>1
<1>2. CASE BrokerOpen
  <2>1. UNCHANGED <<field, client, outcome, step, reading, received>>
    BY <1>2, Zenon DEF BrokerOpen, managerVars, results
  <2>2. CASE pipe.path
    <3>1. /\ worker = "start" /\ worker' = "write" /\ pipe' = OpenWrite(pipe, "broker")
          /\ UNCHANGED sent
      BY <1>2, <2>2 DEF BrokerOpen
    <3> QED
      BY <1>S, <1>F, <1>T, <1>P, <1>O, <2>1, <3>1, OpenWriteParts
  <2>3. CASE ~pipe.path
    <3>1. /\ worker = "start" /\ worker' = IF sent + 1 < Len(script) THEN "start" ELSE "ended"
          /\ UNCHANGED pipe /\ sent' = sent + 1
      BY <1>2, <2>3 DEF BrokerOpen
    <3> QED
      BY <1>S, <1>F, <1>T, <1>P, <2>1, <2>3, <3>1
  <2> QED
    BY <2>2, <2>3
<1>3. CASE BrokerWrite
  <2>1. PICK bytes \in Seq(Nat) : pipe' = WriteAll(pipe, bytes)
    <3>1. At[field'] - At[field] \in Nat /\ Written \in Nat
      <4>1. /\ field \in 1 .. FieldCount + 1 /\ field' \in 1 .. FieldCount + 1 /\ field < field'
        BY <1>3, WriteEffect DEF Typed, TypeOK
      <4>2. At[field] \in Nat /\ At[field'] \in Nat /\ At[field] < At[field'] /\ Length \in Nat
        BY <1>T, <4>1, Shape
      <4>3. sent * Length \in Nat
        BY <1>T, <4>2
      <4> QED
        BY <4>2, <4>3 DEF Written
    <3> QED
      BY <1>3, <3>1, WriteEffect, BytesAre
  <2>2. /\ CEnd' = CEnd /\ BEnd' = BEnd /\ pipe'.path = pipe.path
    BY <1>T, <2>1, WriteAllParts
  <2>3. /\ worker = "write" /\ worker' \in {"write", "close"} /\ BEnd = "W"
        /\ worker' = "write" => field' \in Fields
        /\ worker' = "close" => field' = FieldCount + 1
        /\ UNCHANGED <<sent, client, outcome>>
    BY <1>3, WriteEffect DEF managerSide
  <2> QED
    BY <1>S, <1>F, <1>T, <2>2, <2>3
<1>4. CASE BrokerClose
  <2>1. /\ worker = "close" /\ worker' = IF sent + 1 < Len(script) THEN "start" ELSE "ended"
        /\ pipe' = Close(pipe, "broker") /\ sent' = sent + 1 /\ field' = 1
        /\ UNCHANGED <<client, outcome>>
    BY <1>4 DEF BrokerClose, managerVars, results
  <2> QED
    BY <1>S, <1>F, <1>T, <1>P, <2>1, CloseParts
<1>5. CASE ManagerOpen
  <2>1. /\ client = "start" /\ client' = "read" /\ pipe' = OpenRead(pipe, "client")
        /\ UNCHANGED <<worker, sent, field, outcome>>
    BY <1>5 DEF ManagerOpen, brokerVars
  <2> QED
    BY <1>S, <1>F, <1>T, <1>P, <2>1, OpenReadParts
<1>6. CASE ManagerRead
  <2>1. PICK n \in Nat : /\ n <= Len(pipe.buffer) /\ pipe' = ReadSome(pipe, n) /\ client = "read"
                         /\ UNCHANGED brokerSide /\ UNCHANGED <<client, outcome>>
    BY <1>6, ReadEffect
  <2>2. pipe'.path = pipe.path /\ CEnd' = CEnd /\ BEnd' = BEnd
    BY <1>T, <2>1, ReadSomeParts
  <2> QED
    BY <1>S, <1>F, <2>1, <2>2 DEF brokerSide
<1>7. CASE ManagerCollect
  <2>1. client = "read" /\ UNCHANGED <<pipe, worker, sent, field, client, outcome>>
    BY <1>7 DEF ManagerCollect, TurnIsOver, brokerVars
  <2> QED
    BY <1>S, <1>F, <1>P, <2>1
<1>8. CASE ManagerNone \/ ManagerPrint
  <2>1. client' = "unlink" /\ UNCHANGED <<pipe, worker, sent, field>>
    BY <1>8 DEF ManagerNone, ManagerPrint, brokerVars
  <2> QED
    BY <1>S, <1>F, <1>P, <2>1
<1>9. CASE ManagerUnlink
  <2>1. client' = "exit" /\ pipe' = Unlink(pipe) /\ UNCHANGED <<worker, sent, field>>
    BY <1>9 DEF ManagerUnlink, brokerVars
  <2> QED
    BY <1>S, <1>F, <1>T, <2>1, UnlinkParts
<1>10. CASE ManagerExit \/ ManagerOverruns \/ Crash
  <2>1. client' \in {"ended", "dead"} /\ pipe' = Close(pipe, "client") /\ UNCHANGED <<worker, sent, field>>
    BY <1>10 DEF ManagerExit, ManagerOverruns, Crash, brokerVars
  <2> QED
    BY <1>S, <1>F, <1>T, <2>1, CloseParts
<1> QED
  BY <1>1, <1>2, <1>3, <1>4, <1>5, <1>6, <1>7, <1>8, <1>9, <1>10, Steps

-----------------------------------------------------------------------------
(* Every step keeps it: the bytes in the pipe *)

\* How many bytes there are of each kind are numbers; the bytes written end where a
\* field does, and before the end of the answers that the session is at.
LEMMA Counts ==
  ASSUME Typed
  PROVE  /\ Written \in Nat /\ Len(pipe.buffer) \in Nat /\ Len(received) \in Nat /\ sent \in Nat
         /\ Length \in Nat \ {0} /\ At[field] \in Nat /\ At[reading] \in Nat
         /\ sent * Length \in Nat /\ Len(received) * Length \in Nat
<1>1. /\ kind \in Kinds /\ pipe.buffer \in Seq(Nat) /\ received \in Seq(Entry) /\ sent \in 0 .. Len(script)
      /\ field \in 1 .. FieldCount + 1 /\ reading \in 1 .. FieldCount + 1
  BY DEF Typed, TypeOK
<1>2. Len(pipe.buffer) \in Nat /\ Len(received) \in Nat /\ sent \in Nat
  BY <1>1, LenProperties, ScriptIs
<1>3. Length \in Nat \ {0} /\ At[field] \in Nat /\ At[reading] \in Nat
  BY <1>1, Shape
<1>4. sent * Length \in Nat /\ Len(received) * Length \in Nat
  BY <1>2, <1>3
<1> QED
  BY <1>2, <1>3, <1>4 DEF Written

\* What the manager has read is a number of bytes.
LEMMA TakenIsCount ==
  ASSUME Typed
  PROVE  Taken \in Int
<1>1. Written \in Nat /\ Len(pipe.buffer) \in Nat
  BY Counts
<1> QED
  BY <1>1 DEF Taken

\* A step that leaves the bytes alone.
LEMMA BytesLeft ==
  ASSUME Typed, UNCHANGED <<kind, sent, field>>, pipe'.buffer = pipe.buffer
  PROVE  Written' = Written /\ Taken' = Taken
BY ShapeStays DEF Written, Taken

\* A close of the session ends an answer, but writes nothing.
LEMMA CloseWritten ==
  ASSUME Typed, WorkerEnd, BrokerClose
  PROVE  Written' = Written
<1>1. /\ worker = "close" /\ field = FieldCount + 1 /\ field' = 1 /\ sent' = sent + 1
      /\ UNCHANGED kind
  BY DEF BrokerClose, WorkerGoes, WorkerEnd
<1>2. /\ At' = At /\ Length' = Length
  BY <1>1, ShapeStays
<1>3. At[1] = 0 /\ At[field] = Length
  BY <1>1, Shape DEF Typed, TypeOK
<1>4. PICK s \in Nat, size \in Nat : s = sent /\ size = Length
  BY Counts
<1>5. (s + 1) * size + 0 = s * size + size
  OBVIOUS
<1> QED
  BY <1>1, <1>2, <1>3, <1>4, <1>5 DEF Written

\* Every step leaves in the pipe the bytes written and not taken.
LEMMA KeepsStream ==
  ASSUME Typed, WorkerEnd, ClientEnd, Stream, [Next]_vars
  PROVE  Stream'
<1>T. pipe \in Pipe /\ kind \in Kinds
  BY DEF Typed, TypeOK
<1>S. UNCHANGED <<kind, script>>
  BY ScriptStays
<1>C. Written \in Nat /\ Len(pipe.buffer) \in Nat
  BY Counts
<1>1. CASE UNCHANGED <<sent, field>> /\ pipe'.buffer = pipe.buffer
             /\ (client' \in {"start", "read"} => client \in {"start", "read"})
  BY <1>S, <1>1, BytesLeft DEF Stream
<1>2. CASE client' \notin {"start", "read"}
  BY <1>2 DEF Stream
<1>3. CASE BrokerOpen
  <2>1. CASE pipe.path
    <3>1. pipe' = OpenWrite(pipe, "broker") /\ UNCHANGED <<sent, field, client>>
      BY <1>3, <2>1 DEF BrokerOpen, managerVars
    <3> QED
      BY <1>1, <1>T, <3>1, OpenWriteParts
  <2>2. CASE ~pipe.path
    <3>1. UNCHANGED client
      BY <1>3 DEF BrokerOpen, managerVars
    <3> QED
      BY <1>2, <2>2, <3>1 DEF ClientEnd
  <2> QED
    BY <2>1, <2>2
<1>4. CASE BrokerWrite
  <2> SUFFICES ASSUME client \in {"start", "read"} PROVE Stream'
    BY <1>2, <1>4, WriteEffect DEF managerSide
  <2>1. /\ field' \in 1 .. FieldCount + 1 /\ field < field' /\ field \in 1 .. FieldCount + 1
        /\ pipe' = WriteAll(pipe, Bytes(Written, At[field'] - At[field])) /\ UNCHANGED sent
    BY <1>4, WriteEffect DEF Typed, TypeOK
  <2>2. /\ At[field] \in Nat /\ At[field'] \in Nat /\ At[field] < At[field']
    BY <1>T, <2>1, Shape
  <2>3. PICK m \in Nat, w \in Nat, b \in Nat :
             m = At[field'] - At[field] /\ w = Written /\ b = Len(pipe.buffer)
    <3>1. At[field'] - At[field] \in Nat
      BY <2>2
    <3> QED
      BY <1>C, <3>1
  <2>4. Written' = w + m
    <3>1. sent * Length \in Nat /\ At' = At /\ Length' = Length
      BY <1>S, Counts, ShapeStays
    <3>2. PICK p \in Nat : p = sent * Length
      BY <3>1
    <3>3. Written = p + At[field] /\ Written' = p + At[field']
      BY <2>1, <3>1, <3>2, Zenon DEF Written
    <3>4. PICK f \in Nat, g \in Nat : f = At[field] /\ g = At[field']
      BY <2>2
    <3>5. m = g - f
      BY <2>3, <3>4
    <3>6. w = p + f /\ Written' = p + g
      BY <2>3, <3>3, <3>4
    <3> QED
      BY <3>5, <3>6
  <2>5. PICK bytes \in Seq(Nat) : bytes = Bytes(w, m) /\ Len(bytes) = m
                                  /\ \A i \in 1 .. m : bytes[i] = w + i
    BY BytesAre
  <2>6. /\ Len(pipe'.buffer) = b + m
        /\ \A i \in 1 .. b + m : pipe'.buffer[i] = IF i <= b THEN pipe.buffer[i] ELSE bytes[i - b]
    <3>1. pipe' = WriteAll(pipe, bytes)
      BY <2>1, <2>3, <2>5
    <3>2. /\ Len(pipe'.buffer) = Len(pipe.buffer) + Len(bytes)
          /\ \A i \in 1 .. Len(pipe.buffer) + Len(bytes) :
               pipe'.buffer[i] = IF i <= Len(pipe.buffer) THEN pipe.buffer[i]
                                 ELSE bytes[i - Len(pipe.buffer)]
      BY <1>T, <3>1, WriteAllParts
    <3> QED
      BY <2>3, <2>5, <3>2
  <2>7. b <= w /\ \A i \in 1 .. b : pipe.buffer[i] = w - b + i
    BY <2>3 DEF Stream, Taken
  <2>8. \A i \in 1 .. b + m : pipe'.buffer[i] = (w + m) - (b + m) + i
    <3> SUFFICES ASSUME NEW i \in 1 .. b + m PROVE pipe'.buffer[i] = (w + m) - (b + m) + i
      OBVIOUS
    <3>1. CASE i <= b
      BY <2>6, <2>7, <3>1
    <3>2. CASE i > b
      <4>1. i - b \in 1 .. m
        BY <3>2
      <4> QED
        BY <2>5, <2>6, <3>2, <4>1
    <3> QED
      BY <3>1, <3>2
  <2> QED
    BY <2>4, <2>6, <2>7, <2>8 DEF Stream, Taken
<1>5. CASE BrokerClose
  <2> SUFFICES ASSUME client \in {"start", "read"} PROVE Stream'
    BY <1>2, <1>5 DEF BrokerClose, managerVars
  <2>1. client = "read" /\ CEnd \in {"R", "waits_R"}
    BY <1>5 DEF BrokerClose, WorkerGoes, ClientEnd
  <2>2. pipe'.buffer = pipe.buffer
    BY <1>T, <1>5, <2>1, CloseParts DEF BrokerClose
  <2>3. Written' = Written /\ Taken' = Taken
    BY <1>5, <2>2, CloseWritten DEF Taken
  <2> QED
    BY <2>2, <2>3 DEF Stream
<1>6. CASE ManagerOpen
  <2>1. pipe'.buffer = pipe.buffer
    BY <1>T, <1>6, OpenReadParts DEF ManagerOpen
  <2>2. UNCHANGED <<sent, field>> /\ client = "start"
    BY <1>6 DEF ManagerOpen, brokerVars, ClientGoes
  <2> QED
    BY <1>1, <2>1, <2>2
<1>7. CASE ManagerRead
  <2>1. PICK n \in Nat : /\ n <= Len(pipe.buffer) /\ pipe' = ReadSome(pipe, n) /\ client = "read"
                         /\ UNCHANGED <<sent, field>>
    BY <1>7, ReadEffect DEF brokerSide
  <2>2. PICK w \in Nat, b \in Nat : w = Written /\ b = Len(pipe.buffer)
    BY <1>C
  <2>3. Written' = w
    BY <1>S, <2>1, <2>2, ShapeStays DEF Written
  <2>4. Len(pipe'.buffer) = b - n /\ \A i \in 1 .. b - n : pipe'.buffer[i] = pipe.buffer[n + i]
    BY <1>T, <2>1, <2>2, ReadSomeParts
  <2>5. b <= w /\ \A i \in 1 .. b : pipe.buffer[i] = w - b + i
    BY <2>1, <2>2 DEF Stream, Taken
  <2>6. \A i \in 1 .. b - n : pipe'.buffer[i] = w - (b - n) + i
    <3>1. \A i \in 1 .. b - n : n + i \in 1 .. b
      BY <2>1, <2>2
    <3> QED
      BY <2>4, <2>5, <3>1
  <2>7. b - n <= w
    BY <2>5
  <2> QED
    BY <2>3, <2>4, <2>6, <2>7 DEF Stream, Taken
<1>8. CASE UNCHANGED vars \/ BrokerDies \/ ManagerCollect
  <2>1. UNCHANGED <<pipe, sent, field, client>>
    BY <1>8, Zenon DEF vars, BrokerDies, ManagerCollect, brokerVars, managerVars
  <2> QED
    BY <1>1, <2>1
<1>9. CASE ManagerNone \/ ManagerPrint \/ ManagerOverruns \/ ManagerUnlink \/ ManagerExit \/ Crash
  BY <1>2, <1>9 DEF ManagerNone, ManagerPrint, ManagerOverruns, ManagerUnlink, ManagerExit, Crash,
     ClientGoes
<1> QED
  BY <1>3, <1>4, <1>5, <1>6, <1>7, <1>8, <1>9, Steps

-----------------------------------------------------------------------------
(* Every step keeps it: in step with the answers *)

\* In step, what is in the pipe begins with the field of the next read and is at
\* least that long; there is an end of the file only between two answers; and at the
\* end of a turn the answer that was read is one of those there are.
LEMMA Whole ==
  ASSUME Typed, WorkerEnd, ClientEnd, Stream, InStep, step = "in", client = "read"
  PROVE  /\ reading \in Fields /\ Len(pipe.buffer) # 0 => Width(reading) <= Len(pipe.buffer)
         /\ reading \in Fields /\ Len(pipe.buffer) = 0 /\ field = 1
              => reading = 1 /\ sent = Len(received)
         /\ reading = FieldCount + 1 =>
              \/ Len(received) < sent
              \/ Len(received) = sent /\ worker = "close"
<1>T. /\ kind \in Kinds /\ field \in 1 .. FieldCount + 1 /\ reading \in 1 .. FieldCount + 1
      /\ FieldCount \in Nat /\ At[1] = 0
  BY Shape DEF Typed, TypeOK
<1>1. PICK size \in Nat \ {0}, s \in Nat, r \in Nat, b \in Nat, f \in Nat, g \in Nat :
        /\ size = Length /\ s = sent /\ r = Len(received) /\ b = Len(pipe.buffer)
        /\ f = At[field] /\ g = At[reading]
  BY Counts
<1>2. PICK p \in Nat, q \in Nat : p = s * size /\ q = r * size
  <2>1. s * size \in Nat /\ r * size \in Nat
    OBVIOUS
  <2> QED
    BY <2>1
<1>3. p + f - b = q + g
  <2>1. Written = p + f
    BY <1>1, <1>2 DEF Written
  <2>2. Taken = p + f - b
    BY <1>1, <2>1 DEF Taken
  <2>3. Taken = q + g
    BY <1>1, <1>2 DEF InStep
  <2> QED
    BY <2>2, <2>3
<1>4. /\ s < r => p + size <= q
      /\ r < s => q + size <= p
      /\ s = r => p = q
  <2>1. s < r => s * size + size <= r * size
    BY Multiples
  <2>2. r < s => r * size + size <= s * size
    BY Multiples
  <2> QED
    BY <1>2, <2>1, <2>2
<1>5. f <= size /\ g <= size
  BY <1>T, <1>1, Shape
<1>6. ASSUME reading \in Fields, b # 0 PROVE Width(reading) <= b
  <2>1. PICK w \in Nat \ {0}, h \in Nat : w = Width(reading) /\ h = At[reading + 1] /\ h = g + w /\ h <= size
    <3>1. /\ Width(reading) \in Nat \ {0} /\ At[reading + 1] = At[reading] + Width(reading)
          /\ reading + 1 \in 1 .. FieldCount + 1
      BY <1>T, <1>6, FieldIs
    <3>2. At[reading + 1] \in Nat /\ At[reading + 1] <= Length
      BY <1>T, <3>1, Shape
    <3> QED
      BY <1>1, <3>1, <3>2
  <2>2. q + h <= p + f
    <3>1. CASE s < r
      BY <1>3, <1>4, <1>5, <1>6, <3>1
    <3>2. CASE r < s
      BY <1>4, <2>1, <3>2
    <3>3. CASE s = r
      <4>1. g < f
        BY <1>3, <1>4, <1>6, <3>3
      <4>2. reading < field
        <5>1. ASSUME ~(reading < field) PROVE FALSE
          <6>1. field = reading \/ field < reading
            BY <1>T, <5>1
          <6>2. field < reading => At[field] < At[reading]
            BY <1>T, Shape
          <6> QED
            BY <1>1, <4>1, <6>1, <6>2
        <5> QED
          BY <5>1
      <4>3. reading + 1 = field \/ (reading + 1 \in 1 .. FieldCount + 1 /\ reading + 1 < field)
        BY <1>T, <4>2
      <4>4. h <= f
        <5>1. CASE reading + 1 = field
          <6>1. h = f
            BY <1>1, <2>1, <5>1
          <6> QED
            BY <6>1
        <5>2. CASE reading + 1 \in 1 .. FieldCount + 1 /\ reading + 1 < field
          <6>1. At[reading + 1] < At[field]
            BY <1>T, <5>2, Shape
          <6> QED
            BY <1>1, <2>1, <6>1
        <5> QED
          BY <4>3, <5>1, <5>2
      <4> QED
        BY <1>4, <3>3, <4>4
    <3> QED
      BY <3>1, <3>2, <3>3
  <2> QED
    BY <1>3, <2>1, <2>2
<1>7. ASSUME reading \in Fields, b = 0, field = 1 PROVE reading = 1 /\ s = r
  <2>1. f = 0 /\ g < size
    <3>1. At[reading] < Length
      BY <1>T, <1>7, FieldIs
    <3> QED
      BY <1>T, <1>1, <1>7, <3>1
  <2>2. s = r /\ g = 0
    BY <1>3, <1>4, <1>7, <2>1
  <2>3. reading # 1 => At[1] < At[reading]
    <3>1. 1 \in 1 .. FieldCount + 1 /\ (reading # 1 => 1 < reading)
      BY <1>T
    <3> QED
      BY <1>T, <3>1, Shape
  <2> QED
    BY <1>T, <1>1, <2>2, <2>3
<1>8. ASSUME reading = FieldCount + 1 PROVE r < s \/ (r = s /\ worker = "close")
  <2>1. g = size
    BY <1>T, <1>1, <1>8, Shape
  <2>2. r < s \/ (r = s /\ f = size)
    BY <1>3, <1>4, <1>5, <2>1
  <2>3. f = size => worker = "close"
    <3> SUFFICES ASSUME f = size, worker # "close" PROVE FALSE
      OBVIOUS
    <3>1. field \in Fields
      BY <1>T, Shape DEF WorkerEnd, Typed, TypeOK
    <3>2. At[field] < Length
      BY <1>T, <3>1, FieldIs
    <3> QED
      BY <1>1, <3>2
  <2> QED
    BY <2>2, <2>3
<1> QED
  BY <1>1, <1>6, <1>7, <1>8

\* A step that leaves the manager's turn alone, and the bytes taken.
LEMMA TurnLeft ==
  ASSUME InStep, UNCHANGED kind, Taken' = Taken,
         UNCHANGED <<step, received, reading, entry, bytes_read>>,
         client' \in {"start", "read"} => client \in {"start", "read"}
  PROVE  InStep'
<1>1. /\ Length' = Length /\ At' = At /\ Fields' = Fields /\ \A a : Answer(a)' = Answer(a)
  BY ShapeStays
<1> QED
  BY <1>1 DEF InStep

\* A write of the session takes nothing out.
LEMMA WriteTakesNothing ==
  ASSUME Typed, WorkerEnd, BrokerWrite
  PROVE  Taken' = Taken
<1>T. pipe \in Pipe /\ kind \in Kinds /\ field \in 1 .. FieldCount + 1
  BY DEF Typed, TypeOK
<1>1. /\ field' \in 1 .. FieldCount + 1 /\ field < field' /\ UNCHANGED <<sent, kind>>
      /\ pipe' = WriteAll(pipe, Bytes(Written, At[field'] - At[field]))
  BY WriteEffect
<1>2. At[field] \in Nat /\ At[field'] \in Nat /\ At[field] < At[field']
  BY <1>T, <1>1, Shape
<1>3. At[field'] - At[field] \in Nat
  BY <1>2
<1>4. PICK m \in Nat, w \in Nat, b \in Nat :
         m = At[field'] - At[field] /\ w = Written /\ b = Len(pipe.buffer)
  BY <1>3, Counts
<1>5. Written' = w + m
  <2>1. sent * Length \in Nat /\ At' = At /\ Length' = Length
    BY <1>1, Counts, ShapeStays
  <2>2. PICK p \in Nat : p = sent * Length
    BY <2>1
  <2>3. Written = p + At[field] /\ Written' = p + At[field']
    BY <1>1, <2>1, <2>2, Zenon DEF Written
  <2>4. PICK f \in Nat, g \in Nat : f = At[field] /\ g = At[field']
    BY <1>2
  <2>5. m = g - f
    BY <1>4, <2>4
  <2>6. w = p + f /\ Written' = p + g
    BY <1>4, <2>3, <2>4
  <2> QED
    BY <2>5, <2>6
<1>6. Bytes(w, m) \in Seq(Nat) /\ Len(Bytes(w, m)) = m
  BY BytesAre
<1>7. Len(pipe'.buffer) = b + m
  BY <1>T, <1>1, <1>4, <1>6, WriteAllParts
<1> QED
  BY <1>4, <1>5, <1>7 DEF Taken

\* Every step keeps a manager that is in step there: each read takes its field.
LEMMA KeepsInStep ==
  ASSUME Typed, WorkerEnd, ClientEnd, Stream, InStep, AtTheEnd, [Next]_vars
  PROVE  InStep'
<1>T. /\ pipe \in Pipe /\ kind \in Kinds /\ reading \in 1 .. FieldCount + 1 /\ FieldCount \in Nat
      /\ entry \in Entry /\ received \in Seq(Entry)
  BY Shape DEF Typed, TypeOK
<1>S. UNCHANGED <<kind, script>>
  BY ScriptStays
<1>H. /\ Length' = Length /\ At' = At /\ Fields' = Fields /\ \A a : Answer(a)' = Answer(a)
      /\ FieldCount' = FieldCount
  BY <1>S, ShapeStays
<1>1. CASE UNCHANGED vars \/ BrokerDies
  <2>1. UNCHANGED <<pipe, sent, field, step, received, reading, entry, bytes_read, client>>
    BY <1>1, Zenon DEF vars, BrokerDies, brokerVars, managerVars, results
  <2> QED
    BY <1>S, <2>1, BytesLeft, TurnLeft
<1>2. CASE BrokerOpen
  <2>1. UNCHANGED <<field, step, received, reading, entry, bytes_read, client>>
    BY <1>2, Zenon DEF BrokerOpen, managerVars, results
  <2>2. CASE pipe.path
    <3>1. pipe' = OpenWrite(pipe, "broker") /\ UNCHANGED sent
      BY <1>2, <2>2 DEF BrokerOpen
    <3>2. pipe'.buffer = pipe.buffer
      BY <1>T, <3>1, OpenWriteParts
    <3> QED
      BY <1>S, <2>1, <3>1, <3>2, BytesLeft, TurnLeft
  <2>3. CASE ~pipe.path
    BY <2>1, <2>3 DEF InStep, ClientEnd
  <2> QED
    BY <2>2, <2>3
<1>3. CASE BrokerWrite
  <2>1. UNCHANGED <<step, received, reading, entry, bytes_read, client>>
    BY <1>3, WriteEffect DEF managerSide
  <2> QED
    BY <1>S, <1>3, <2>1, WriteTakesNothing, TurnLeft
<1>4. CASE BrokerClose
  <2>1. UNCHANGED <<step, received, reading, entry, bytes_read, client>>
    BY <1>4, Zenon DEF BrokerClose, managerVars, results
  <2> SUFFICES ASSUME client \in {"start", "read"} PROVE InStep'
    BY <2>1 DEF InStep
  <2>2. CEnd \in {"R", "waits_R"}
    BY <1>4 DEF BrokerClose, WorkerGoes, ClientEnd
  <2>3. pipe'.buffer = pipe.buffer
    BY <1>T, <1>4, <2>2, CloseParts DEF BrokerClose
  <2>4. Taken' = Taken
    BY <1>4, <2>3, CloseWritten DEF Taken
  <2> QED
    BY <1>S, <2>1, <2>4, TurnLeft
<1>5. CASE ManagerOpen
  <2>1. /\ client = "start" /\ UNCHANGED <<sent, field, step, received, reading, entry, bytes_read>>
        /\ pipe' = OpenRead(pipe, "client")
    BY <1>5 DEF ManagerOpen, ClientGoes, brokerVars
  <2>2. pipe'.buffer = pipe.buffer
    BY <1>T, <2>1, OpenReadParts
  <2> QED
    BY <1>S, <2>1, <2>2, BytesLeft, TurnLeft
<1>6. CASE ManagerRead
  <2> SUFFICES ASSUME step' = "in" PROVE InStep'
    BY DEF InStep
  <2>1. PICK n \in Nat :
           /\ client = "read" /\ reading \in Fields
           /\ n <= Width(reading) /\ n <= Len(pipe.buffer)
           /\ n < Width(reading) => n = Len(pipe.buffer)
           /\ pipe' = ReadSome(pipe, n) /\ entry' \in Entry
           /\ \A f \in Fields : f # reading => entry'[f] = entry[f]
           /\ n = Width(reading) => entry'[reading] = [i \in 1 .. n |-> pipe.buffer[i]]
           /\ bytes_read' = n /\ reading' = reading + 1 /\ step' = StepAfter(n)
           /\ UNCHANGED <<client, received, sent, field>>
    BY <1>6, ReadEffect DEF brokerSide
  <2>2. n # 0 /\ step = "in"
    BY <2>1 DEF StepAfter
  <2>3. PICK w \in Nat \ {0}, b \in Nat, r \in Nat, t \in Int :
             w = Width(reading) /\ b = Len(pipe.buffer) /\ r = Len(received) /\ t = Taken
    BY <1>T, <2>1, FieldIs, Counts, TakenIsCount
  <2>4. n = w
    <3>1. b # 0
      BY <2>1, <2>2, <2>3
    <3>2. w <= b
      BY <2>1, <2>2, <2>3, <3>1, Whole
    <3> QED
      BY <2>1, <2>3, <3>2
  <2>5. t = r * Length + At[reading] /\ r * Length \in Nat /\ At[reading] \in Nat
    BY <2>1, <2>2, <2>3, Counts DEF InStep
  <2>6. Taken' = t + w
    <3>1. Len(pipe'.buffer) = b - n
      BY <1>T, <2>1, <2>3, ReadSomeParts
    <3>2. Written' = Written /\ Written \in Nat
      BY <1>S, <1>H, <2>1, Counts DEF Written
    <3> QED
      BY <2>3, <2>4, <3>1, <3>2 DEF Taken
  <2>7. Taken' = r * Length + At[reading + 1]
    <3>1. At[reading + 1] = At[reading] + w
      BY <1>T, <2>1, <2>3, FieldIs
    <3> QED
      BY <2>3, <2>5, <2>6, <3>1
  <2>8. entry'[reading] = Answer(r + 1)[reading]
    <3>1. \A i \in 1 .. w : pipe.buffer[i] = t + i
      <4>1. \A i \in 1 .. w : i \in 1 .. Len(pipe.buffer)
        BY <2>1, <2>3, <2>4
      <4> QED
        BY <2>1, <2>3, <4>1 DEF Stream
    <3>2. entry'[reading] = [i \in 1 .. w |-> t + i]
      BY <2>1, <2>3, <2>4, <3>1
    <3>3. Answer(r + 1)[reading] = Bytes(((r + 1) - 1) * Length + At[reading], w)
      <4>1. r + 1 \in Nat \ {0}
        OBVIOUS
      <4> QED
        BY <1>T, <2>1, <2>3, <4>1, AnswersAre
    <3>4. (r + 1) - 1 = r
      OBVIOUS
    <3> QED
      BY <2>5, <3>2, <3>3, <3>4 DEF Bytes
  <2>9. \A f \in Fields : f < reading + 1 => entry'[f] = Answer(r + 1)[f]
    <3> SUFFICES ASSUME NEW f \in Fields, f < reading + 1 PROVE entry'[f] = Answer(r + 1)[f]
      OBVIOUS
    <3>1. f = reading \/ f < reading
      BY <1>T, FieldIs
    <3> QED
      BY <2>1, <2>2, <2>3, <2>8, <3>1 DEF InStep
  <2>10. \A f \in Fields : f >= reading + 1 /\ received # <<>> => entry'[f] = Answer(r)[f]
    <3> SUFFICES ASSUME NEW f \in Fields, f >= reading + 1, received # <<>>
                 PROVE  entry'[f] = Answer(r)[f]
      OBVIOUS
    <3>1. f # reading /\ f >= reading
      BY <1>T, FieldIs
    <3> QED
      BY <2>1, <2>2, <2>3, <3>1 DEF InStep
  <2> QED
    BY <1>H, <2>1, <2>2, <2>3, <2>7, <2>9, <2>10 DEF InStep
<1>7. CASE ManagerCollect
  <2>1. /\ client = "read" /\ reading = FieldCount + 1 /\ bytes_read > 0 /\ reading' = 1
        /\ received' = Append(received, entry)
        /\ UNCHANGED <<pipe, sent, field, client, entry, bytes_read, step>>
    BY <1>7 DEF ManagerCollect, TurnIsOver, brokerVars
  <2> SUFFICES ASSUME step = "in" PROVE InStep'
    BY <2>1 DEF InStep
  <2>2. PICK r \in Nat, size \in Nat, t \in Int :
             r = Len(received) /\ size = Length /\ t = Taken
    BY Counts, TakenIsCount
  <2>3. Len(received') = r + 1 /\ received' # <<>>
    BY <1>T, <2>1, <2>2, AppendProperties
  <2>4. t = r * size + size
    BY <1>T, <2>1, <2>2, Shape DEF InStep
  <2>5. t = (r + 1) * size + 0
    BY <2>4
  <2>6. Taken' = t
    BY <1>S, <2>1, <2>2, BytesLeft
  <2>7. Taken' = Len(received') * Length' + At'[reading']
    BY <1>T, <1>H, <2>1, <2>2, <2>3, <2>5, <2>6, Shape
  <2>8. \A f \in Fields : entry'[f] = Answer(Len(received'))[f]
    <3>1. \A f \in Fields : f < FieldCount + 1
      BY <1>T, Shape
    <3> QED
      BY <2>1, <2>2, <2>3, <3>1 DEF InStep
  <2>9. \A f \in Fields : ~(f < 1)
    BY <1>T, Shape
  <2> QED
    BY <1>H, <2>1, <2>7, <2>8, <2>9 DEF InStep
<1>8. CASE ManagerNone \/ ManagerPrint \/ ManagerOverruns \/ ManagerUnlink \/ ManagerExit \/ Crash
  <2>1. client' \notin {"start", "read"}
    BY <1>8 DEF ManagerNone, ManagerPrint, ManagerOverruns, ManagerUnlink, ManagerExit, Crash,
       ClientGoes
  <2> QED
    BY <2>1 DEF InStep
<1> QED
  BY <1>1, <1>2, <1>3, <1>4, <1>5, <1>6, <1>7, <1>8, Steps

-----------------------------------------------------------------------------
(* Every step keeps it: the end of the file, and what is kept *)

\* The other steps leave what a manager in its turn has.
LEMMA OthersLeave ==
  ASSUME [Next]_vars, ~ManagerRead, ~ManagerCollect
  PROVE  /\ UNCHANGED <<entry, bytes_read, step, received>>
         /\ reading' = reading
BY Steps, Zenon DEF vars, BrokerDies, BrokerOpen, BrokerWrite, BrokerClose, ManagerOpen,
   ManagerNone, ManagerPrint, ManagerOverruns, ManagerUnlink, ManagerExit, Crash, managerVars, results

\* What a read makes of the step: in it, only an end of the file between two answers
\* is met; after it, anything read is out of step.
LEMMA ReadSteps ==
  ASSUME Typed, WorkerEnd, ClientEnd, Stream, InStep, AtTheEnd, ManagerRead
  PROVE  /\ step' = "out" => \/ step = "out"
                             \/ step = "end" /\ client = "read" /\ pipe.buffer # <<>>
         /\ step' = "end" =>
              /\ bytes_read' = 0 /\ \A f \in Fields : entry'[f] = entry[f]
              /\ pipe'.buffer = <<>>
              /\ \/ step = "end"
                 \/ /\ step = "in" /\ reading = 1 /\ received # <<>> /\ sent > 0
                    /\ worker \in {"start", "ended"}
<1>T. /\ pipe \in Pipe /\ kind \in Kinds /\ pipe.buffer \in Seq(Nat) /\ received \in Seq(Entry)
      /\ step \in {"in", "end", "out"} /\ worker \in {"start", "write", "close", "ended"}
  BY DEF Typed, TypeOK, Pipe
<1>1. PICK n \in Nat :
         /\ client = "read" /\ reading \in Fields /\ CEnd = "R"
         /\ n <= Len(pipe.buffer) /\ (n < Width(reading) => n = Len(pipe.buffer))
         /\ (n = 0 => BEnd \notin {"W", "waits_W"})
         /\ pipe' = ReadSome(pipe, n)
         /\ (n = 0 => \A f \in Fields : entry'[f] = entry[f])
         /\ bytes_read' = n /\ step' = StepAfter(n)
  BY ReadEffect
<1>2. PICK b \in Nat : b = Len(pipe.buffer)
  BY Counts
<1>3. CASE n # 0
  <2>1. b # 0
    BY <1>1, <1>2, <1>3
  <2>2. pipe.buffer # <<>>
    BY <1>2, <2>1, EmptySeq
  <2>3. step' # "end" /\ (step' = "out" => step = "out" \/ step = "end")
    BY <1>1, <1>3, <1>T DEF StepAfter
  <2> QED
    BY <1>1, <2>2, <2>3
<1>4. CASE n = 0
  <2>1. Width(reading) \in Nat \ {0}
    BY <1>1, <1>T, FieldIs
  <2>2. b = 0
    BY <1>1, <1>2, <1>4, <2>1
  <2>3. pipe'.buffer = <<>>
    <3>1. pipe' \in Pipe /\ Len(pipe'.buffer) = b - n
      BY <1>1, <1>2, <1>T, ReadSomeParts
    <3>2. pipe'.buffer \in Seq(Nat) /\ Len(pipe'.buffer) = 0
      BY <1>4, <2>2, <3>1 DEF Pipe
    <3> QED
      BY <3>2, EmptySeq
  <2>4. worker \in {"start", "ended"} /\ field = 1 /\ sent > 0
    <3>1. worker \in {"start", "ended"}
      BY <1>1, <1>4, <1>T DEF WorkerEnd
    <3> QED
      BY <1>1, <3>1 DEF WorkerEnd, ClientEnd
  <2>5. step = "in" => reading = 1 /\ sent = Len(received)
    BY <1>1, <1>2, <2>2, <2>4, Whole
  <2>6. step = "in" => received # <<>>
    BY <1>T, <2>4, <2>5, EmptySeq
  <2>7. step' # "out" \/ step = "out"
    BY <1>1, <1>4, <1>T DEF StepAfter
  <2>8. step' = "end" => step \in {"in", "end"}
    BY <1>1, <1>4, <1>T DEF StepAfter
  <2> QED
    BY <1>1, <1>4, <2>3, <2>4, <2>5, <2>6, <2>7, <2>8
<1> QED
  BY <1>3, <1>4

\* Every step leaves the last answer where it is at the end of the file.
LEMMA KeepsAtTheEnd ==
  ASSUME Typed, WorkerEnd, ClientEnd, Stream, InStep, AtTheEnd, [Next]_vars
  PROVE  AtTheEnd'
<1>T. pipe \in Pipe /\ kind \in Kinds
  BY DEF Typed, TypeOK
<1>S. UNCHANGED <<kind, script>>
  BY ScriptStays
<1>H. Fields' = Fields /\ \A a : Answer(a)' = Answer(a)
  BY <1>S, ShapeStays
<1>L. Len(script) \in Nat
  BY ScriptIs
<1>N. PICK m \in Nat, s \in Nat : m = Len(script) /\ s = sent
  BY <1>L, Counts
<1>1. CASE ManagerRead
  <2> SUFFICES ASSUME step' = "end" PROVE AtTheEnd'
    BY DEF AtTheEnd
  <2>1. /\ bytes_read' = 0 /\ \A f \in Fields : entry'[f] = entry[f]
        /\ pipe'.buffer = <<>>
        /\ \/ step = "end"
           \/ /\ step = "in" /\ reading = 1 /\ received # <<>> /\ sent > 0
              /\ worker \in {"start", "ended"}
    BY <1>1, ReadSteps
  <2>2. client = "read" /\ UNCHANGED <<client, worker, received>>
    BY <1>1, ReadEffect DEF brokerSide
  <2>3. CASE step = "end"
    BY <1>S, <1>H, <2>1, <2>2, <2>3 DEF AtTheEnd
  <2>4. CASE step = "in" /\ reading = 1 /\ received # <<>> /\ sent > 0 /\ worker \in {"start", "ended"}
    <3>1. \A f \in Fields : f >= 1
      BY <1>T, Shape
    <3>2. \A f \in Fields : entry[f] = Answer(Len(received))[f]
      BY <2>2, <2>4, <3>1 DEF InStep
    <3>3. Len(script) = 1 => worker = "ended"
      BY <1>N, <2>4 DEF WorkerEnd
    <3> QED
      BY <1>S, <1>H, <2>1, <2>2, <2>4, <3>2, <3>3 DEF AtTheEnd
  <2> QED
    BY <2>1, <2>3, <2>4
<1>2. CASE ManagerCollect
  <2>1. bytes_read > 0 /\ UNCHANGED step
    BY <1>2 DEF ManagerCollect
  <2> QED
    BY <2>1 DEF AtTheEnd
<1>3. CASE ~ManagerRead /\ ~ManagerCollect
  <2> SUFFICES ASSUME step' = "end" PROVE AtTheEnd'
    BY DEF AtTheEnd
  <2>1. UNCHANGED <<entry, bytes_read, step, received>>
    BY <1>3, OthersLeave
  <2>2. /\ received # <<>> /\ bytes_read = 0
        /\ \A f \in Fields : entry[f] = Answer(Len(received))[f]
        /\ client = "read" /\ Len(script) = 1 => worker = "ended" /\ pipe.buffer = <<>>
    BY <2>1 DEF AtTheEnd
  <2>3. client' = "read" /\ Len(script') = 1 => worker' = "ended" /\ pipe'.buffer = <<>>
    <3> SUFFICES ASSUME client' = "read", Len(script) = 1
                 PROVE  worker' = "ended" /\ pipe'.buffer = <<>>
      BY <1>S
    <3>1. CASE client = "read"
      <4>1. worker = "ended" /\ pipe.buffer = <<>>
        BY <2>2, <3>1
      <4>2. UNCHANGED <<worker, pipe>>
        BY <1>3, <3>1, <4>1, Steps DEF vars, BrokerDies, BrokerOpen, BrokerWrite, BrokerClose,
           WorkerGoes, ManagerOpen, ManagerNone, ManagerPrint, ManagerOverruns, ManagerUnlink,
           ManagerExit, Crash, ClientGoes, brokerVars
      <4> QED
        BY <4>1, <4>2
    <3>2. CASE client # "read"
      <4>1. client = "start"
        BY <1>3, <3>2, Steps DEF vars, BrokerDies, BrokerOpen, BrokerWrite, BrokerClose,
           ManagerOpen, ManagerNone, ManagerPrint, ManagerOverruns, ManagerUnlink,
           ManagerExit, Crash, ClientGoes, managerVars
      <4> QED
        BY <2>1, <4>1 DEF ClientEnd
    <3> QED
      BY <3>1, <3>2
  <2> QED
    BY <1>H, <2>1, <2>2, <2>3 DEF AtTheEnd
<1> QED
  BY <1>1, <1>2, <1>3

\* In step, at the end of a turn that gave something, the locals hold the answer
\* behind those that have been kept.
LEMMA TurnGave ==
  ASSUME Typed, WorkerEnd, ClientEnd, Stream, InStep, AtTheEnd, step # "out",
         TurnIsOver, bytes_read > 0
  PROVE  /\ step = "in" /\ entry = Answer(Len(received) + 1)
         /\ Len(received) + 1 \in 1 .. Len(script)
         /\ Len(script) = 1 => worker \in {"close", "ended"}
<1>T. /\ kind \in Kinds /\ entry \in Entry /\ step \in {"in", "end", "out"} /\ sent \in 0 .. Len(script)
      /\ client = "read" /\ reading = FieldCount + 1
  BY DEF Typed, TypeOK, TurnIsOver
<1>1. step = "in"
  BY <1>T DEF AtTheEnd
<1>L. Len(script) \in Nat
  BY ScriptIs
<1>2. PICK r \in Nat, s \in Nat, m \in Nat : r = Len(received) /\ s = sent /\ m = Len(script)
  BY <1>L, Counts
<1>3. r < s \/ (r = s /\ worker = "close")
  BY <1>1, <1>2, <1>T, Whole
<1>4. worker # "ended" => s < m
  BY <1>2 DEF WorkerEnd
<1>5. s <= m
  BY <1>2, <1>T
<1>6. r + 1 \in 1 .. m /\ (m = 1 => worker \in {"close", "ended"})
  BY <1>3, <1>4, <1>5
<1>7. \A f \in Fields : entry[f] = Answer(r + 1)[f]
  <2>1. \A f \in Fields : f < reading
    BY <1>T, Shape
  <2> QED
    BY <1>1, <1>2, <1>T, <2>1 DEF InStep
<1>8. Answer(r + 1) \in Entry
  <2>1. r + 1 \in Nat \ {0}
    OBVIOUS
  <2> QED
    BY <1>T, <2>1, AnswersAre
<1>9. entry = Answer(r + 1)
  BY <1>T, <1>7, <1>8 DEF Entry
<1> QED
  BY <1>1, <1>2, <1>6, <1>9

\* Every step keeps what a manager in step has kept.
LEMMA KeepsKept ==
  ASSUME Typed, WorkerEnd, ClientEnd, Stream, InStep, AtTheEnd, Kept, [Next]_vars
  PROVE  Kept'
<1>T. /\ kind \in Kinds /\ received \in Seq(Entry) /\ entry \in Entry
      /\ step \in {"in", "end", "out"} /\ Len(received) \in Nat
      /\ worker \in {"start", "write", "close", "ended"}
  BY Counts DEF Typed, TypeOK
<1>S. UNCHANGED <<kind, script>>
  BY ScriptStays
<1>H. \A a : Answer(a)' = Answer(a)
  BY <1>S, ShapeStays
<1>L. Len(script) \in Nat \ {0}
  BY ScriptIs
<1>N. PICK m \in Nat \ {0} : m = Len(script)
  BY <1>L
<1>O. step = "out" => m > 1
  <2>1. step = "out" => Len(script) > 1
    BY Zenon DEF Kept
  <2> QED
    BY <1>N, <2>1
<1>1. step' = "out" => Len(script') > 1
  <2>1. CASE ManagerRead
    <3> SUFFICES ASSUME step' = "out", step # "out" PROVE Len(script) > 1
      BY <1>S DEF Kept
    <3>1. step = "end" /\ client = "read" /\ pipe.buffer # <<>>
      BY <2>1, ReadSteps
    <3>2. Len(script) # 1
      BY <3>1 DEF AtTheEnd
    <3>3. m > 1
      BY <1>N, <3>2
    <3> QED
      BY <1>N, <3>3
  <2>2. CASE ~ManagerRead
    <3>1. UNCHANGED step
      <4>1. CASE ManagerCollect
        BY <4>1 DEF ManagerCollect
      <4> QED
        BY <2>2, <4>1, OthersLeave
    <3> QED
      BY <1>S, <3>1 DEF Kept
  <2> QED
    BY <2>1, <2>2
<1>2. step' # "out" => step # "out"
  <2>1. CASE ManagerRead
    BY <2>1, ReadEffect DEF StepAfter
  <2>2. CASE ManagerCollect
    BY <2>2 DEF ManagerCollect
  <2> QED
    BY <2>1, <2>2, OthersLeave
<1>3. step' # "out" => /\ Len(received') <= Len(script')
                       /\ \A k \in 1 .. Len(received') : received'[k] = Answer(k)'
  <2> SUFFICES ASSUME step' # "out"
               PROVE  /\ Len(received') <= Len(script)
                      /\ \A k \in 1 .. Len(received') : received'[k] = Answer(k)
    BY <1>S, <1>H
  <2>1. /\ Len(received) <= Len(script)
        /\ \A k \in 1 .. Len(received) : received[k] = Answer(k)
    BY <1>2 DEF Kept
  <2>2. CASE ManagerCollect
    <3>1. received' = Append(received, entry) /\ TurnIsOver /\ bytes_read > 0
      BY <2>2 DEF ManagerCollect
    <3>2. entry = Answer(Len(received) + 1) /\ Len(received) + 1 \in 1 .. Len(script)
      BY <1>2, <3>1, TurnGave
    <3>3. PICK r \in Nat : r = Len(received)
      BY <1>T
    <3>4. /\ Len(received') = r + 1
          /\ \A k \in 1 .. r : received'[k] = received[k]
          /\ received'[r + 1] = entry
      BY <1>T, <3>1, <3>3, AppendProperties
    <3>5. \A k \in 1 .. r + 1 : received'[k] = Answer(k)
      <4>1. \A k \in 1 .. r + 1 : k \in 1 .. r \/ k = r + 1
        OBVIOUS
      <4> QED
        BY <2>1, <3>2, <3>3, <3>4, <4>1
    <3>6. r + 1 <= Len(script)
      BY <1>N, <3>2, <3>3
    <3> QED
      BY <3>4, <3>5, <3>6
  <2>3. CASE ~ManagerCollect
    <3>1. UNCHANGED received
      <4>1. CASE ManagerRead
        BY <4>1, ReadEffect
      <4> QED
        BY <2>3, <4>1, OthersLeave
    <3> QED
      BY <2>1, <3>1
  <2> QED
    BY <2>2, <2>3
<1>4. step' # "out" => (outcome' = "printed" => step' = "end")
  <2> SUFFICES ASSUME step' # "out", outcome' = "printed" PROVE step' = "end"
    OBVIOUS
  <2>1. CASE ManagerPrint
    <3>1. TurnIsOver /\ bytes_read = 0 /\ UNCHANGED step
      BY <2>1 DEF ManagerPrint
    <3>2. reading > 1
      BY <1>T, <3>1, Shape DEF TurnIsOver
    <3>3. step # "in"
      BY <3>1, <3>2 DEF InStep, TurnIsOver
    <3> QED
      BY <1>2, <1>T, <3>1, <3>3
  <2>2. CASE ~ManagerPrint
    <3>1. outcome = "printed"
      BY <2>2, Steps DEF vars, BrokerDies, BrokerOpen, BrokerWrite, BrokerClose, ManagerOpen,
         ManagerRead, ManagerCollect, ManagerNone, ManagerOverruns, ManagerUnlink,
         ManagerExit, Crash, managerVars, results
    <3>2. client # "read" /\ step = "end"
      BY <1>2, <3>1 DEF ClientEnd, Kept
    <3>3. ~ManagerRead /\ ~ManagerCollect
      BY <3>2 DEF ManagerRead, ManagerCollect, TurnIsOver
    <3> QED
      BY <3>2, <3>3, OthersLeave
  <2> QED
    BY <2>1, <2>2
<1>5. step' # "out" => (outcome' = "none" => script' = NoBoxes)
  <2> SUFFICES ASSUME step' # "out", outcome' = "none" PROVE script = NoBoxes
    BY <1>S
  <2>1. CASE ManagerNone
    <3>1. TurnIsOver /\ bytes_read > 0 /\ TRUE \in NameIsEmpty
      BY <2>1 DEF ManagerNone
    <3>2. PICK r \in Nat : r = Len(received) /\ entry = Answer(r + 1) /\ r + 1 \in 1 .. Len(script)
      BY <1>2, <1>T, <3>1, TurnGave
    <3>3. r + 1 \in From(NAME)
      <4>1. DOMAIN script = 1 .. Len(script)
        BY ScriptIs
      <4> QED
        BY <3>2, <4>1 DEF From
    <3>4. NameIsEmpty = {script[a] = 0 : a \in From(NAME)}
      BY <3>3, Zenon DEF NameIsEmpty
    <3>5. PICK a \in From(NAME) : TRUE = (script[a] = 0)
      BY <3>1, <3>4, Zenon
    <3>6. script[a] = 0
      BY <3>5
    <3>7. a \in 1 .. Len(script)
      BY <3>5, ScriptIs DEF From
    <3> QED
      BY <3>6, <3>7, ScriptIs
  <2>2. CASE ~ManagerNone
    <3>1. outcome = "none"
      BY <2>2, Steps DEF vars, BrokerDies, BrokerOpen, BrokerWrite, BrokerClose, ManagerOpen,
         ManagerRead, ManagerCollect, ManagerPrint, ManagerOverruns, ManagerUnlink,
         ManagerExit, Crash, managerVars, results
    <3> QED
      BY <1>2, <3>1 DEF Kept
  <2> QED
    BY <2>1, <2>2
<1>6. client' \in {"unlink", "exit", "ended"} /\ Len(script') = 1 => worker' \in {"close", "ended"}
  <2> SUFFICES ASSUME client' \in {"unlink", "exit", "ended"}, m = 1 PROVE worker' \in {"close", "ended"}
    BY <1>S, <1>N
  <2>1. CASE ManagerNone
    <3>1. TurnIsOver /\ bytes_read > 0 /\ UNCHANGED worker
      BY <2>1 DEF ManagerNone, brokerVars
    <3>2. step # "out"
      BY <1>O
    <3> QED
      BY <1>N, <3>1, <3>2, TurnGave
  <2>2. CASE ManagerPrint
    <3>1. TurnIsOver /\ bytes_read = 0 /\ UNCHANGED worker
      BY <2>2 DEF ManagerPrint, brokerVars
    <3>2. reading > 1 /\ client = "read"
      BY <1>T, <3>1, Shape DEF TurnIsOver
    <3>3. step # "out" /\ step # "in"
      BY <1>O, <3>1, <3>2 DEF InStep
    <3> QED
      BY <1>N, <1>T, <3>1, <3>2, <3>3 DEF AtTheEnd
  <2>3. CASE ~ManagerNone /\ ~ManagerPrint
    <3>1. client \in {"unlink", "exit", "ended"}
      BY <2>3, Steps DEF vars, BrokerDies, BrokerOpen, BrokerWrite, BrokerClose, ManagerOpen,
         ManagerRead, ManagerCollect, ManagerOverruns, ManagerUnlink,
         ManagerExit, Crash, ClientGoes, managerVars
    <3>2. worker \in {"close", "ended"}
      BY <1>N, <3>1 DEF Kept
    <3>3. CASE BrokerClose
      <4>1. PICK s \in Nat : s = sent
        BY Counts
      <4>2. worker' = IF s + 1 < m THEN "start" ELSE "ended"
        BY <1>N, <3>3, <4>1 DEF BrokerClose, WorkerGoes
      <4> QED
        BY <4>1, <4>2
    <3>4. CASE ~BrokerClose
      <4>1. UNCHANGED worker
        BY <2>3, <3>2, <3>4, Steps DEF vars, BrokerDies, BrokerOpen, BrokerWrite, WorkerGoes, ManagerOpen,
           ManagerRead, ManagerCollect, ManagerOverruns, ManagerUnlink,
           ManagerExit, Crash, brokerVars
      <4> QED
        BY <3>2, <4>1
    <3> QED
      BY <3>3, <3>4
  <2> QED
    BY <2>1, <2>2, <2>3
<1> QED
  BY <1>1, <1>3, <1>4, <1>5, <1>6 DEF Kept

\* Every step keeps the array long enough.
LEMMA KeepsArrayGrows ==
  ASSUME Typed, ClientEnd, ArrayGrows, [Next]_vars
  PROVE  ArrayGrows'
<1>S. UNCHANGED kind
  BY ScriptStays
<1> SUFFICES ASSUME kind = "list" PROVE ArrayGrows'
  BY <1>S DEF ArrayGrows
<1>T. received \in Seq(Entry) /\ allocated \in Nat /\ Len(received) \in Nat /\ CHUNK \in Nat \ {0}
      /\ entry \in Entry
  <2>1. received \in Seq(Entry) /\ entry \in Entry /\ allocated \in Nat
    BY DEF Typed, TypeOK
  <2>2. CHUNK \in Nat \ {0}
    BY ManagerAssumption
  <2>3. Len(received) \in Nat
    BY <2>1, LenProperties
  <2> QED
    BY <2>1, <2>2, <2>3
<1>1. CASE ManagerOpen
  <2>1. client = "start" /\ client' = "read" /\ allocated' = CHUNK /\ UNCHANGED received
    BY <1>1 DEF ManagerOpen, ClientGoes
  <2>2. received = <<>>
    BY <2>1 DEF ClientEnd
  <2>3. Len(received) = 0
    BY <2>2
  <2>4. CHUNK % CHUNK = 0
    <3>1. PICK c \in Nat \ {0} : c = CHUNK
      BY <1>T
    <3>2. 0 % c = 0 /\ 0 + c = c
      OBVIOUS
    <3>3. (0 + c) % c = 0
      BY <3>2, NextMultiple
    <3> QED
      BY <3>1, <3>2, <3>3
  <2>5. Len(received') = 0 /\ Len(received') <= allocated' /\ Len(received') < allocated'
    BY <1>T, <2>1, <2>3
  <2>6. allocated' % CHUNK = 0
    BY <2>1, <2>4
  <2> QED
    BY <2>5, <2>6, Zenon DEF ArrayGrows
<1>2. CASE ManagerCollect
  <2>1. /\ received' = Append(received, entry) /\ client = "read" /\ UNCHANGED client
        /\ allocated' = Grown(Len(received'), allocated, CHUNK)
    BY <1>2 DEF ManagerCollect, TurnIsOver
  <2>2. PICK r \in Nat, n \in Nat, a \in Nat, c \in Nat \ {0} :
             r = Len(received) /\ n = r + 1 /\ a = allocated /\ c = CHUNK
    <3>1. Len(received) + 1 \in Nat
      BY <1>T
    <3> QED
      BY <1>T, <3>1
  <2>3. Len(received') = n
    BY <1>T, <2>1, <2>2, AppendProperties
  <2>4. r < a /\ a % c = 0
    BY <2>1, <2>2 DEF ArrayGrows
  <2>5. allocated' = IF n % c = 0 THEN n + c ELSE a
    BY <2>1, <2>2, <2>3 DEF Grown
  <2>6. n < allocated' /\ allocated' % c = 0
    <3>1. CASE n % c = 0
      <4>1. (n + c) % c = 0
        BY <3>1, NextMultiple
      <4> QED
        BY <2>5, <3>1, <4>1
    <3>2. CASE n % c # 0
      <4>1. n # a
        BY <2>4, <3>2
      <4>2. n < a
        BY <2>2, <2>4, <4>1
      <4> QED
        BY <2>4, <2>5, <3>2, <4>2
    <3> QED
      BY <3>1, <3>2
  <2>7. allocated' \in Nat
    BY <2>2, <2>5
  <2>8. Len(received') < allocated' /\ allocated' % CHUNK = 0 /\ Len(received') <= allocated'
    <3>1. allocated' % CHUNK = 0
      BY <2>2, <2>6
    <3>2. n < allocated' /\ n <= allocated'
      BY <2>6, <2>7
    <3> QED
      BY <2>3, <3>1, <3>2
  <2> QED
    BY <2>8, Zenon DEF ArrayGrows
<1>3. CASE ~ManagerOpen /\ ~ManagerCollect
  <2>1. UNCHANGED received
    BY <1>3, Steps, Zenon DEF vars, BrokerDies, BrokerOpen, BrokerWrite, BrokerClose,
       ManagerRead, ManagerNone, ManagerPrint, ManagerOverruns, ManagerUnlink,
       ManagerExit, Crash, managerVars, results
  <2>2. UNCHANGED allocated
    BY <1>3, Steps, Zenon DEF vars, BrokerDies, BrokerOpen, BrokerWrite, BrokerClose,
       ManagerRead, ManagerNone, ManagerPrint, ManagerOverruns, ManagerUnlink,
       ManagerExit, Crash, managerVars, results
  <2>3. client' \notin {"start", "dead"} => client \notin {"start", "dead"}
    BY <1>3, Steps DEF vars, BrokerDies, BrokerOpen, BrokerWrite, BrokerClose,
       ManagerRead, ManagerNone, ManagerPrint, ManagerOverruns, ManagerUnlink,
       ManagerExit, Crash, managerVars, results, ClientGoes, TurnIsOver
  <2> QED
    BY <2>1, <2>2, <2>3 DEF ArrayGrows
<1> QED
  BY <1>1, <1>2, <1>3

-----------------------------------------------------------------------------
(* The invariant, and what follows from it *)

\* It holds at the start,
LEMMA InitIInv == Init => IInv
<1> SUFFICES ASSUME Init PROVE IInv
  OBVIOUS
<1>1. /\ kind \in Kinds /\ worker = "start" /\ sent = 0 /\ field = 1 /\ client = "start"
      /\ reading = 1 /\ bytes_read = 0 /\ received = <<>> /\ allocated = 0 /\ outcome = "waits"
      /\ step = "in" /\ killed = FALSE
  BY DEF Init
<1>2. /\ pipe.path = TRUE /\ pipe.buffer = <<>> /\ CEnd = "closed" /\ BEnd = "closed"
      /\ pipe \in Pipe
  <2>1. <<>> \in Seq(Nat)
    BY EmptySeq
  <2> QED
    BY <2>1 DEF Init, Mkfifo, Pipe, CEnd, BEnd, Ends, Modes
<1>3. script \in Lists \cup {NoBoxes} /\ (kind = "code" => script = NoBoxes)
  BY DEF Init
<1>4. /\ FieldCount \in Nat /\ 1 \in Fields /\ Fields = 1 .. FieldCount /\ At[1] = 0
      /\ Length \in Nat \ {0}
  BY <1>1, Shape
<1>5. entry \in Entry /\ DOMAIN entry = Fields /\ \A f \in Fields : entry[f] \in [1 .. Width(f) -> Nat]
  <2>1. ASSUME NEW f \in Fields
        PROVE  /\ [i \in 1 .. Width(f) |-> 0] \in [1 .. Width(f) -> Nat]
               /\ [i \in 1 .. Width(f) |-> 0] \in Seq(Nat)
    <3>1. PICK w \in Nat : w = Width(f)
      BY <1>1, FieldIs
    <3>2. [i \in 1 .. w |-> 0] \in [1 .. w -> Nat]
      OBVIOUS
    <3>3. [i \in 1 .. w |-> 0] \in Seq(Nat)
      BY <3>2
    <3> QED
      BY <3>1, <3>2, <3>3
  <2>2. entry = [f \in Fields |-> [i \in 1 .. Width(f) |-> 0]]
    BY DEF Init
  <2>3. \A f \in Fields : entry[f] = [i \in 1 .. Width(f) |-> 0]
    BY <2>2
  <2>4. entry \in Entry
    BY <2>1, <2>2 DEF Entry
  <2> QED
    BY <2>1, <2>2, <2>3, <2>4
<1>6. received \in Seq(Entry)
  BY <1>1, EmptySeq
<1>7. Typed
  <2>1. TypeOK
    <3>1. 0 \in 0 .. Len(script) /\ Len(script) \in Nat
      <4>1. Len(script) \in Nat
        <5>1. script = NoBoxes \/ script \in Seq(Nat \ {0})
          BY <1>3, ManagerAssumption
        <5>2. Len(NoBoxes) = 1
          BY DEF NoBoxes
        <5> QED
          BY <5>1, <5>2, LenProperties
      <4> QED
        BY <4>1
    <3>2. pipe.path \in BOOLEAN /\ pipe.end \in [Ends -> Modes] /\ pipe.buffer \in Seq(Nat)
      BY <1>2 DEF Pipe
    <3>3. field \in 1 .. FieldCount + 1 /\ reading \in 1 .. FieldCount + 1
      <4>1. field = 1 /\ reading = 1 /\ FieldCount \in Nat
        BY <1>1, <1>4, Zenon
      <4> QED
        BY <4>1
    <3>4. /\ bytes_read \in Nat /\ allocated \in Nat /\ sent \in 0 .. Len(script)
          /\ outcome \in {"waits", "printed", "none"} /\ step \in {"in", "end", "out"}
          /\ client \in {"start", "read", "unlink", "exit", "ended", "dead"}
          /\ worker \in {"start", "write", "close", "ended"} /\ killed \in BOOLEAN
      BY <1>1, <3>1
    <3>5. DOMAIN entry = Fields /\ \A f \in Fields : entry[f] \in [1 .. Width(f) -> Nat]
      BY <1>5
    <3>6. kind \in Kinds /\ script \in Lists \cup {NoBoxes}
      BY <1>1, <1>3
    <3> QED
      BY <3>2, <3>3, <3>4, <3>5, <3>6, Zenon DEF TypeOK
  <2> QED
    BY <1>2, <1>3, <1>5, <1>6, <2>1 DEF Typed
<1>8. Len(script) \in Nat \ {0}
  BY <1>7, ScriptIs
<1>9. WorkerEnd /\ ClientEnd
  BY <1>1, <1>2, <1>8 DEF WorkerEnd, ClientEnd
<1>10. Len(pipe.buffer) = 0 /\ Len(received) = 0
  BY <1>1, <1>2
<1>11. Written = 0 /\ Taken = 0
  <2>1. 0 * Length = 0
    BY <1>4
  <2>2. Written = 0
    BY <1>1, <1>4, <2>1 DEF Written
  <2> QED
    BY <1>10, <2>2 DEF Taken
<1>12. Stream
  BY <1>10, <1>11 DEF Stream
<1>13. InStep
  <2>1. 0 = Len(received) * Length + At[reading]
    BY <1>1, <1>4, <1>10
  <2>2. \A f \in Fields : ~(f < 1)
    BY <1>4
  <2> QED
    BY <1>1, <1>11, <2>1, <2>2 DEF InStep
<1>14. AtTheEnd
  BY <1>1 DEF AtTheEnd
<1>15. Kept
  <2>1. 0 <= Len(script)
    BY <1>8
  <2> QED
    BY <1>1, <1>10, <2>1 DEF Kept
<1>16. ArrayGrows
  BY <1>1, <1>10 DEF ArrayGrows
<1> QED
  BY <1>7, <1>9, <1>12, <1>13, <1>14, <1>15, <1>16 DEF IInv

\* and every step keeps it,
LEMMA KeepsIInv == IInv /\ [Next]_vars => IInv'
<1> SUFFICES ASSUME IInv, [Next]_vars PROVE IInv'
  OBVIOUS
<1>1. Typed /\ WorkerEnd /\ ClientEnd /\ Stream /\ InStep /\ AtTheEnd /\ Kept /\ ArrayGrows
  BY DEF IInv
<1>2. Typed'
  BY <1>1, KeepsTyped
<1>3. WorkerEnd' /\ ClientEnd'
  BY <1>1, KeepsEnds
<1>4. Stream' /\ InStep'
  BY <1>1, KeepsStream, KeepsInStep
<1>5. AtTheEnd' /\ Kept' /\ ArrayGrows'
  BY <1>1, KeepsAtTheEnd, KeepsKept, KeepsArrayGrows
<1> QED
  BY <1>2, <1>3, <1>4, <1>5 DEF IInv

\* so it holds throughout: while a manager is in step, what is in the pipe begins
\* with the field of its next read.
THEOREM Invariance == Spec => []IInv
BY InitIInv, KeepsIInv, PTL DEF Spec

\* Every variable stays in its range: a read of manager.c never puts more into one
\* of its locals than there is room for.
THEOREM TypeCorrect == Spec => []TypeOK
<1>1. IInv => TypeOK
  BY DEF IInv, Typed
<1> QED
  BY <1>1, Invariance, PTL

\* The names that a manager in step takes out of what it has kept are the first
\* ones it was sent.
LEMMA NamesKept ==
  ASSUME IInv, step # "out"
  PROVE  [k \in DOMAIN received |-> NameOf(received[k])] = SubSeq(script, 1, Len(received))
<1>T. /\ Typed /\ kind \in Kinds /\ received \in Seq(Entry) /\ script \in Seq(Nat)
      /\ DOMAIN script = 1 .. Len(script) /\ NAME \in Fields
  BY ScriptIs, Shape DEF IInv, Typed, TypeOK
<1>L. Len(received) \in Nat /\ Len(script) \in Nat
  BY <1>T, LenProperties
<1>1. PICK r \in Nat, m \in Nat : r = Len(received) /\ m = Len(script)
  BY <1>L
<1>2. r <= m /\ \A k \in 1 .. r : received[k] = Answer(k)
  BY <1>1 DEF IInv, Kept
<1>3. DOMAIN received = 1 .. r
  BY <1>1, <1>T, LenProperties
<1>4. ASSUME NEW k \in 1 .. r PROVE NameOf(received[k]) = script[k] /\ script[k] \in Nat
  <2>1. k \in DOMAIN script /\ received[k][NAME] = Answer(k)[NAME]
    BY <1>1, <1>2, <1>4, <1>T
  <2>2. PICK e : e = received[k]
    OBVIOUS
  <2>3. e[NAME] = Answer(k)[NAME]
    BY <2>1, <2>2
  <2>4. ASSUME NEW a \in DOMAIN script, e[NAME] = Answer(a)[NAME] PROVE a = k
    <3>1. a \in Nat \ {0} /\ k \in Nat \ {0}
      BY <1>1, <1>T, <2>1, <2>4
    <3> QED
      BY <1>T, <2>3, <2>4, <3>1, AnswersDiffer
  <2>5. (CHOOSE a \in DOMAIN script : e[NAME] = Answer(a)[NAME]) = k
    BY <2>1, <2>3, <2>4
  <2>6. NameOf(e) = script[k]
    BY <2>1, <2>3, <2>5 DEF NameOf
  <2>7. script[k] \in Nat
    BY <1>T, <2>1, ElementOfSeq
  <2> QED
    BY <2>2, <2>6, <2>7
<1>5. PICK names : names = [k \in 1 .. r |-> NameOf(received[k])]
  OBVIOUS
<1>6. names \in [1 .. r -> Nat] /\ \A k \in 1 .. r : names[k] = script[k]
  BY <1>4, <1>5
<1>7. names \in Seq(Nat) /\ Len(names) = r
  BY <1>6
<1>8. PICK first : first = SubSeq(script, 1, r)
  OBVIOUS
<1>9. /\ first \in Seq(Nat) /\ Len(first) = r /\ \A k \in 1 .. r : first[k] = script[k]
  <2>1. 1 \in Int /\ r \in Int
    OBVIOUS
  <2>2. \A i \in 1 .. r : script[i] \in Nat
    BY <1>4
  <2>3. /\ first \in Seq(Nat) /\ Len(first) = (IF 1 <= r THEN r - 1 + 1 ELSE 0)
        /\ \A i \in 1 .. r - 1 + 1 : first[i] = script[1 + i - 1]
    BY <1>8, <2>1, <2>2, SubSeqProperties
  <2>4. (IF 1 <= r THEN r - 1 + 1 ELSE 0) = r /\ r - 1 + 1 = r
    OBVIOUS
  <2>5. \A i \in 1 .. r : 1 + i - 1 = i
    OBVIOUS
  <2> QED
    BY <2>3, <2>4, <2>5
<1>10. names = first
  <2>1. Len(names) = Len(first) /\ \A k \in 1 .. Len(names) : names[k] = first[k]
    BY <1>6, <1>7, <1>9
  <2> QED
    BY <1>7, <1>9, <2>1, SeqEqual
<1> QED
  BY <1>1, <1>3, <1>5, <1>8, <1>10

\* A manager stores no box past its array.  Only a list of more than one box can put
\* the reads of manager.c out of step with the answers; while they are in step, a
\* create or a remove prints the answer it was sent, and a list prints in order the
\* first boxes it was sent, or that there are none when there are none.
THEOREM ManagerPrints == Spec => []ManagerPrintsAnswer
<1>1. IInv => ManagerPrintsAnswer
  <2> SUFFICES ASSUME IInv PROVE ManagerPrintsAnswer
    OBVIOUS
  <2>T. /\ Typed /\ kind \in Kinds /\ kind \in {"code", "list"} /\ received \in Seq(Entry)
        /\ entry \in Entry /\ AtTheEnd /\ Kept /\ ArrayGrows /\ script \in Seq(Nat)
        /\ Len(script) \in Nat \ {0} /\ Len(received) \in Nat
        /\ DOMAIN received = 1 .. Len(received)
    <3>1. Typed /\ received \in Seq(Entry)
      BY DEF IInv, Typed
    <3> QED
      BY <3>1, ScriptIs, LenProperties, ManagerAssumption DEF IInv, Typed, TypeOK
  <2>1. kind = "list" => Len(received) <= allocated
    BY <2>T DEF ArrayGrows
  <2>2. step = "out" => kind = "list" /\ Len(script) > 1
    <3>1. kind = "code" => Len(script) = 1
      BY <2>T, ScriptIs
    <3>2. step = "out" => Len(script) > 1
      BY <2>T, Zenon DEF Kept
    <3>3. PICK m \in Nat : m = Len(script)
      BY <2>T
    <3>4. step = "out" => m > 1 /\ kind # "code"
      BY ONLY <3>1, <3>2, <3>3, m \in Nat
    <3>5. kind \in {"code", "list"}
      BY <2>T
    <3> QED
      BY ONLY <3>3, <3>4, <3>5
  <2>3. ASSUME outcome = "printed", step # "out"
        PROVE  /\ kind = "code" => entry = Answer(1)
               /\ received # <<>> /\ Len(received) <= Len(script)
               /\ \A k \in DOMAIN received : received[k] = Answer(k)
               /\ Ordered(Printed) /\ SameNames(Printed, SubSeq(script, 1, Len(received)))
    <3>1. /\ step = "end" /\ Len(received) <= Len(script)
          /\ \A k \in 1 .. Len(received) : received[k] = Answer(k)
      BY <2>3, <2>T DEF Kept
    <3>2. received # <<>> /\ \A f \in Fields : entry[f] = Answer(Len(received))[f]
      BY <2>T, <3>1 DEF AtTheEnd
    <3>3. PICK r \in Nat \ {0}, m \in Nat \ {0} : r = Len(received) /\ m = Len(script)
      <4>1. Len(received) \in Nat \ {0}
        BY <2>T, <3>2, EmptySeq
      <4>2. Len(script) \in Nat \ {0}
        BY <2>T
      <4> QED
        BY ONLY <4>1, <4>2
    <3>4. kind = "code" => entry = Answer(1)
      <4> SUFFICES ASSUME kind = "code" PROVE entry = Answer(1)
        OBVIOUS
      <4>1. m = 1
        BY <2>T, <3>3, ScriptIs
      <4>2. r = 1
        BY <3>1, <3>3, <4>1
      <4>3. Answer(1) \in Entry
        BY <2>T, AnswersAre
      <4>4. \A f \in Fields : entry[f] = Answer(1)[f]
        BY <3>2, <3>3, <4>2
      <4> QED
        BY <2>T, <4>3, <4>4 DEF Entry
    <3>5. Ordered(Printed) /\ SameNames(Printed, SubSeq(script, 1, Len(received)))
      <4>1. PICK first : first = SubSeq(script, 1, r)
        OBVIOUS
      <4>2. first \in Seq(Nat)
        <5>1. 1 \in Int /\ r \in Int
          OBVIOUS
        <5>2. \A i \in 1 .. r : i \in 1 .. Len(script)
          BY <3>1, <3>3
        <5>3. \A i \in 1 .. r : script[i] \in Nat
          BY <2>T, <5>2, ElementOfSeq
        <5> QED
          BY <4>1, <5>1, <5>3, SubSeqProperties
      <4>3. Printed = bubbleSort(first)
        BY <2>3, <3>3, <4>1, NamesKept DEF Printed
      <4>4. Ordered(bubbleSort(first)) /\ SameNames(bubbleSort(first), first)
        BY <4>2, BubbleSortSorts
      <4> QED
        BY <3>3, <4>1, <4>3, <4>4
    <3> QED
      BY <2>T, <3>1, <3>2, <3>4, <3>5
  <2>4. outcome = "none" /\ step # "out" => script = NoBoxes
    BY <2>T, Zenon DEF Kept
  <2> QED
    BY <2>1, <2>2, <2>3, <2>4 DEF ManagerPrintsAnswer
<1> QED
  BY <1>1, Invariance, PTL

\* SIGPIPE ends the broker only when it answers a manager that was killed or one that
\* lists more than one box: one answer is written whole while its reader is there.
THEOREM BrokerOutlives == Spec => []OnlyLongListsEndBroker
<1>1. Init => OnlyLongListsEndBroker
  BY DEF Init, OnlyLongListsEndBroker
<1>2. IInv /\ OnlyLongListsEndBroker /\ [Next]_vars => OnlyLongListsEndBroker'
  <2> SUFFICES ASSUME IInv, OnlyLongListsEndBroker, [Next]_vars, killed'
               PROVE  client' = "dead" \/ Len(script') > 1
    BY DEF OnlyLongListsEndBroker
  <2>S. UNCHANGED script
    BY ScriptStays
  <2>T. /\ Typed /\ WorkerEnd /\ ClientEnd /\ Kept /\ Len(script) \in Nat \ {0} /\ sent \in Nat
        /\ client \in {"start", "read", "unlink", "exit", "ended", "dead"}
    <3>1. Typed
      BY DEF IInv
    <3> QED
      BY <3>1, ScriptIs, Counts DEF IInv, Typed, TypeOK
  <2>1. CASE killed
    <3>1. UNCHANGED vars
      BY <2>1 DEF Next
    <3> QED
      BY <2>1, <3>1, Zenon DEF OnlyLongListsEndBroker, vars, managerVars
  <2>2. CASE ~killed
    <3>1. BrokerDies
      BY <2>2, Steps, Zenon DEF vars, BrokerOpen, BrokerWrite, BrokerClose, ManagerOpen,
         ManagerRead, ManagerCollect, ManagerNone, ManagerPrint, ManagerOverruns, ManagerUnlink,
         ManagerExit, Crash
    <3>2. /\ worker = "write" /\ BEnd = "W" /\ CEnd \notin {"R", "waits_R"} /\ client' = client
      BY <3>1 DEF BrokerDies, NoReader, ReadsOrWaits, BEnd, CEnd, Peer, managerVars
    <3>3. client # "start" /\ client # "read"
      BY <2>T, <3>2 DEF ClientEnd
    <3>4. Len(script) = 1 => client \notin {"unlink", "exit", "ended"}
      BY <2>T, <3>2 DEF Kept
    <3>5. Len(script) = 1 \/ Len(script) > 1
      BY <2>T
    <3> QED
      BY <2>S, <2>T, <3>2, <3>3, <3>4, <3>5
  <2> QED
    BY <2>1, <2>2
<1> QED
  BY <1>1, <1>2, Invariance, PTL DEF Spec
=============================================================================
