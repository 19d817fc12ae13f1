--------------------------- MODULE DeliveryProofs ---------------------------
(***************************************************************************)
(* For any number of publishers and subscribers of a box and any length of *)
(* its file: publishers append and never overwrite, a scan sees no line    *)
(* half written, the size of an unlocked box grows as its file does, and   *)
(* each subscriber is sent each message stored whole once and in order.    *)
(***************************************************************************)
EXTENDS Delivery, SequenceTheorems, WellFoundedInduction, TLAPS

\* Where a session holds the box's lock.
Writes == {"write", "close"}
Scans == {"scan", "probe"}

\* A session inside its critical section is the holder of the lock.
HolderLocks ==
  /\ \A p \in Publishers : pc[p] \in Writes => lock = p
  /\ \A s \in Subscribers : pc[s] \in Scans => lock = s

\* A publisher about to write has its offset at the end of the file.
WritesAtEnd == \A p \in Publishers : pc[p] = "write" => offset[p] = Len(file)

\* The size's growth lags behind the file's by what the publisher in its close wrote.
SizeFollows ==
  /\ \A p \in Publishers : pc[p] = "close" => size + bytes_written[p] = OldSize + Len(file)
  /\ (\A p \in Publishers : pc[p] # "close") => size = OldSize + Len(file)

\* A scan has not gone past the end, and none is under way elsewhere.
CountInFile ==
  \A s \in Subscribers : /\ pc[s] = "scan" => count[s] <= Len(file)
                         /\ pc[s] \notin Scans => count[s] = 0

IInv == TypeOK /\ HolderLocks /\ WritesAtEnd /\ SizeFollows /\ CountInFile

-----------------------------------------------------------------------------
(* Lines without the empty ones *)

\* What holds of 0, and of the next number with each number, holds of all.
LEMMA SetInduction ==
  ASSUME NEW S, 0 \in S, \A n \in Nat : n \in S => n + 1 \in S
  PROVE  \A n \in Nat : n \in S
<1> SUFFICES ASSUME Nat \ S # {} PROVE FALSE
  OBVIOUS
<1>1. PICK m \in Nat \ S : \A j \in Nat \ S : <<j, m>> \notin OpToRel(<, Nat)
  <2>1. Nat \ S \in SUBSET Nat
    OBVIOUS
  <2> QED
    BY <2>1, NatLessThanWellFounded, WFMin
<1>2. m \in Nat /\ m # 0
  OBVIOUS
<1>3. m - 1 \in Nat /\ m - 1 < m /\ (m - 1) + 1 = m
  BY <1>2
<1>4. <<m - 1, m>> \in OpToRel(<, Nat)
  BY <1>2, <1>3 DEF OpToRel
<1>5. m - 1 \in S
  BY <1>1, <1>3, <1>4
<1> QED
  BY <1>1, <1>3, <1>5

\* The lines up to the n-th, gathered one after the other.
Gathers(f, lines, n) ==
  f = [k \in 0 .. n |->
         IF k = 0 THEN <<>>
         ELSE IF lines[k] = <<>> THEN f[k - 1] ELSE Append(f[k - 1], lines[k])]

\* What one more line adds.
LEMMA GathersStep ==
  ASSUME NEW f, NEW lines, NEW n \in Nat, Gathers(f, lines, n)
  PROVE  /\ f[0] = <<>>
         /\ \A k \in 1 .. n : f[k] = IF lines[k] = <<>> THEN f[k - 1]
                                     ELSE Append(f[k - 1], lines[k])
<1>1. f[0] = <<>>
  <2>1. 0 \in 0 .. n
    OBVIOUS
  <2> QED
    BY <2>1 DEF Gathers
<1>2. ASSUME NEW k \in 1 .. n
      PROVE  f[k] = IF lines[k] = <<>> THEN f[k - 1] ELSE Append(f[k - 1], lines[k])
  <2>1. k \in 0 .. n /\ k # 0
    OBVIOUS
  <2> QED
    BY <2>1 DEF Gathers
<1> QED
  BY <1>1, <1>2

\* The gathering of a number of lines is defined, however many there are.
LEMMA GathersExists ==
  ASSUME NEW lines, NEW m \in Nat
  PROVE  \E f : Gathers(f, lines, m)
<1> DEFINE S == {n \in Nat : \E f : Gathers(f, lines, n)}
<1>1. 0 \in S
  <2> DEFINE f == [k \in 0 .. 0 |-> <<>>]
  <2>1. Gathers(f, lines, 0)
    BY DEF Gathers
  <2> QED
    BY <2>1
<1>2. ASSUME NEW n \in Nat, n \in S PROVE n + 1 \in S
  <2>1. PICK f : Gathers(f, lines, n)
    BY <1>2
  <2> DEFINE e == IF lines[n + 1] = <<>> THEN f[n] ELSE Append(f[n], lines[n + 1])
             g == [k \in 0 .. n + 1 |-> IF k = n + 1 THEN e ELSE f[k]]
             h(k) == IF k = 0 THEN <<>>
                     ELSE IF lines[k] = <<>> THEN g[k - 1] ELSE Append(g[k - 1], lines[k])
  <2>2. /\ f[0] = <<>>
        /\ \A k \in 1 .. n : f[k] = IF lines[k] = <<>> THEN f[k - 1]
                                    ELSE Append(f[k - 1], lines[k])
    BY <2>1, GathersStep
  <2>3. \A k \in 0 .. n : g[k] = f[k]
    OBVIOUS
  <2>4. g[n + 1] = e
    OBVIOUS
  <2> HIDE DEF g, e
  <2>5. ASSUME NEW k \in 0 .. n + 1 PROVE g[k] = h(k)
    <3>1. CASE k = 0
      BY <2>2, <2>3, <3>1
    <3>2. CASE k \in 1 .. n
      <4>1. k - 1 \in 0 .. n /\ k \in 0 .. n /\ k # 0
        BY <3>2
      <4> QED
        BY <2>2, <2>3, <3>2, <4>1
    <3>3. CASE k = n + 1
      <4>1. k # 0 /\ k - 1 = n /\ n \in 0 .. n
        BY <3>3
      <4>2. g[k - 1] = f[n]
        BY <2>3, <4>1
      <4> QED
        BY <2>4, <3>3, <4>1, <4>2 DEF e
    <3> QED
      BY <3>1, <3>2, <3>3
  <2>6. g = [k \in 0 .. n + 1 |-> h(k)]
    <3>1. g = [k \in 0 .. n + 1 |-> g[k]]
      BY DEF g
    <3> HIDE DEF h
    <3> QED
      BY <2>5, <3>1
  <2>7. Gathers(g, lines, n + 1)
    BY <2>6 DEF Gathers
  <2> QED
    BY <2>7
<1> HIDE DEF S
<1>3. m \in S
  BY <1>1, <1>2, SetInduction
<1> QED
  BY <1>3 DEF S

\* Full is the last of what is gathered.
LEMMA FullGathers ==
  ASSUME NEW lines, Len(lines) \in Nat
  PROVE  \E f : Gathers(f, lines, Len(lines)) /\ Full(lines) = f[Len(lines)]
<1> DEFINE f == CHOOSE f : Gathers(f, lines, Len(lines))
<1>1. Gathers(f, lines, Len(lines))
  BY GathersExists
<1>2. Full(lines) = f[Len(lines)]
  BY DEF Full, Gathers
<1> QED
  BY <1>1, <1>2

\* Sequences that begin alike gather alike.
LEMMA GathersSame ==
  ASSUME NEW f, NEW g, NEW lines, NEW more, NEW n \in Nat, NEW m \in Nat, n <= m,
         Gathers(f, lines, n), Gathers(g, more, m), \A k \in 1 .. n : more[k] = lines[k]
  PROVE  \A k \in 0 .. n : g[k] = f[k]
<1> DEFINE S == {k \in Nat : k <= n => g[k] = f[k]}
<1>1. /\ f[0] = <<>>
      /\ \A k \in 1 .. n : f[k] = IF lines[k] = <<>> THEN f[k - 1]
                                  ELSE Append(f[k - 1], lines[k])
      /\ g[0] = <<>>
      /\ \A k \in 1 .. m : g[k] = IF more[k] = <<>> THEN g[k - 1]
                                  ELSE Append(g[k - 1], more[k])
  BY GathersStep
<1>2. 0 \in S
  BY <1>1
<1>3. ASSUME NEW k \in Nat, k \in S PROVE k + 1 \in S
  <2> SUFFICES ASSUME k + 1 <= n PROVE g[k + 1] = f[k + 1]
    OBVIOUS
  <2>1. k + 1 \in 1 .. n /\ k + 1 \in 1 .. m /\ (k + 1) - 1 = k
    OBVIOUS
  <2>2. g[k] = f[k] /\ more[k + 1] = lines[k + 1]
    BY <1>3, <2>1
  <2>3. /\ f[k + 1] = IF lines[k + 1] = <<>> THEN f[k] ELSE Append(f[k], lines[k + 1])
        /\ g[k + 1] = IF more[k + 1] = <<>> THEN g[k] ELSE Append(g[k], more[k + 1])
    BY <1>1, <2>1
  <2> QED
    BY <2>2, <2>3
<1> HIDE DEF S
<1>4. \A k \in Nat : k \in S
  BY <1>2, <1>3, SetInduction
<1> QED
  BY <1>4 DEF S

\* The full lines of a sequence with one more.
LEMMA FullAppend ==
  ASSUME NEW T, NEW lines \in Seq(T), NEW line \in T
  PROVE  Full(Append(lines, line)) =
           IF line = <<>> THEN Full(lines) ELSE Append(Full(lines), line)
<1>1. PICK n \in Nat : n = Len(lines)
  BY LenProperties
<1>2. PICK more : more = Append(lines, line)
  OBVIOUS
<1>3. /\ Len(more) = n + 1 /\ more[n + 1] = line
      /\ \A k \in 1 .. n : more[k] = lines[k]
  BY <1>1, <1>2, AppendProperties
<1>4. PICK f : Gathers(f, lines, n) /\ Full(lines) = f[n]
  BY <1>1, FullGathers
<1>5. PICK g : Gathers(g, more, n + 1) /\ Full(more) = g[n + 1]
  BY <1>3, FullGathers
<1>6. g[n] = f[n]
  <2>1. \A k \in 0 .. n : g[k] = f[k]
    BY <1>3, <1>4, <1>5, GathersSame
  <2> QED
    BY <2>1
<1>7. g[n + 1] = IF more[n + 1] = <<>> THEN g[n] ELSE Append(g[n], more[n + 1])
  <2>1. n + 1 \in Nat /\ n + 1 \in 1 .. n + 1 /\ (n + 1) - 1 = n
    OBVIOUS
  <2> QED
    BY <1>5, <2>1, GathersStep
<1> QED
  BY <1>2, <1>3, <1>4, <1>5, <1>6, <1>7

\* No lines, no messages.
LEMMA FullOfNone == Full(<<>>) = <<>>
<1>1. Len(<<>>) = 0
  OBVIOUS
<1>2. PICK f : Gathers(f, <<>>, 0) /\ Full(<<>>) = f[0]
  BY <1>1, FullGathers
<1> QED
  BY <1>2, GathersStep

\* The first lines of a sequence, one more at a time.
FirstOf(lines, k) == [j \in 1 .. k |-> lines[j]]

\* They are lines too, and the next is one more.
LEMMA FirstLines ==
  ASSUME NEW T, NEW lines \in Seq(T), NEW k \in 0 .. Len(lines)
  PROVE  /\ FirstOf(lines, k) \in Seq(T)
         /\ Len(FirstOf(lines, k)) = k
         /\ k < Len(lines) => FirstOf(lines, k + 1) = Append(FirstOf(lines, k), lines[k + 1])
         /\ FirstOf(lines, Len(lines)) = lines
<1>1. Len(lines) \in Nat /\ \A j \in 1 .. Len(lines) : lines[j] \in T
  BY LenProperties, ElementOfSeq
<1>2. ASSUME NEW n \in 0 .. Len(lines)
      PROVE  /\ FirstOf(lines, n) \in Seq(T)
             /\ Len(FirstOf(lines, n)) = n
             /\ \A j \in 1 .. n : FirstOf(lines, n)[j] = lines[j]
  <2>1. FirstOf(lines, n) \in [1 .. n -> T]
    BY <1>1 DEF FirstOf
  <2>2. n \in Nat
    BY <1>1
  <2> QED
    BY <2>1, <2>2 DEF FirstOf
<1>3. ASSUME k < Len(lines)
      PROVE  FirstOf(lines, k + 1) = Append(FirstOf(lines, k), lines[k + 1])
  <2>1. k \in Nat /\ k + 1 \in 0 .. Len(lines) /\ k + 1 \in 1 .. Len(lines)
    BY <1>1, <1>3
  <2>2. lines[k + 1] \in T
    BY <1>1, <2>1
  <2> DEFINE a == FirstOf(lines, k)
             b == FirstOf(lines, k + 1)
             c == Append(a, lines[k + 1])
  <2>3. a \in Seq(T) /\ Len(a) = k /\ \A j \in 1 .. k : a[j] = lines[j]
    BY <1>2
  <2>4. b \in Seq(T) /\ Len(b) = k + 1 /\ \A j \in 1 .. k + 1 : b[j] = lines[j]
    BY <1>2, <2>1
  <2> HIDE DEF a, b
  <2>5. /\ c \in Seq(T) /\ Len(c) = Len(a) + 1
        /\ \A j \in 1 .. Len(a) : c[j] = a[j]
        /\ c[Len(a) + 1] = lines[k + 1]
    BY <2>2, <2>3, AppendProperties
  <2> HIDE DEF c
  <2>6. \A j \in 1 .. k + 1 : b[j] = c[j]
    <3> TAKE j \in 1 .. k + 1
    <3>1. j \in 1 .. k \/ j = k + 1
      BY <2>1
    <3> QED
      BY <2>3, <2>4, <2>5, <3>1
  <2>7. b = c
    BY <2>3, <2>4, <2>5, <2>6, SeqEqual
  <2> QED
    BY <2>7 DEF b, c, a
<1>4. FirstOf(lines, Len(lines)) = lines
  <2>1. Len(lines) \in 0 .. Len(lines)
    BY <1>1
  <2> QED
    BY <1>2, <2>1, SeqEqual
<1> QED
  BY <1>2, <1>3, <1>4

\* A sequence of full lines is one of lines,
LEMMA FullTyped ==
  ASSUME NEW T, NEW lines \in Seq(T)
  PROVE  Full(lines) \in Seq(T)
<1>1. PICK n \in Nat : n = Len(lines)
  BY LenProperties
<1> DEFINE S == {k \in Nat : k <= n => Full(FirstOf(lines, k)) \in Seq(T)}
<1>2. 0 \in S
  <2>1. FirstOf(lines, 0) = <<>>
    BY DEF FirstOf
  <2> QED
    BY <2>1, FullOfNone, EmptySeq
<1>3. ASSUME NEW k \in Nat, k \in S PROVE k + 1 \in S
  <2> SUFFICES ASSUME k + 1 <= n PROVE Full(FirstOf(lines, k + 1)) \in Seq(T)
    OBVIOUS
  <2>1. k \in 0 .. Len(lines) /\ k < Len(lines) /\ k + 1 \in 1 .. Len(lines)
    BY <1>1
  <2>2. /\ FirstOf(lines, k) \in Seq(T) /\ lines[k + 1] \in T
        /\ FirstOf(lines, k + 1) = Append(FirstOf(lines, k), lines[k + 1])
    BY <2>1, FirstLines, ElementOfSeq
  <2>3. Full(FirstOf(lines, k)) \in Seq(T)
    BY <1>3
  <2>4. Full(FirstOf(lines, k + 1)) =
          IF lines[k + 1] = <<>> THEN Full(FirstOf(lines, k))
          ELSE Append(Full(FirstOf(lines, k)), lines[k + 1])
    BY <2>2, FullAppend
  <2>5. PICK f \in Seq(T), x \in T : f = Full(FirstOf(lines, k)) /\ x = lines[k + 1]
    BY <2>2, <2>3
  <2>6. Append(f, x) \in Seq(T)
    BY AppendProperties
  <2> QED
    BY <2>4, <2>5, <2>6
<1> HIDE DEF S
<1>4. n \in S
  BY <1>2, <1>3, SetInduction
<1>5. FirstOf(lines, n) = lines
  <2>1. n \in 0 .. Len(lines)
    BY <1>1
  <2> QED
    BY <1>1, <2>1, FirstLines
<1> QED
  BY <1>4, <1>5 DEF S

\* in which each full line comes after those before it.
LEMMA FullKeepsPlace ==
  ASSUME NEW T, NEW lines \in Seq(T), NEW k \in 1 .. Len(lines), lines[k] # <<>>
  PROVE  /\ Len(Full(FirstOf(lines, k - 1))) + 1 \in 1 .. Len(Full(lines))
         /\ Full(lines)[Len(Full(FirstOf(lines, k - 1))) + 1] = lines[k]
<1>1. PICK n \in Nat : n = Len(lines)
  BY LenProperties
<1>2. PICK a : a = Full(FirstOf(lines, k - 1))
  OBVIOUS
<1>k. k \in Nat /\ k - 1 \in 0 .. Len(lines) /\ k - 1 < Len(lines) /\ (k - 1) + 1 = k
  BY <1>1
<1>3. a \in Seq(T) /\ Len(a) \in Nat
  BY <1>2, <1>k, FirstLines, FullTyped, LenProperties
<1> DEFINE InPlace(b) == b \in Seq(T) /\ Len(a) + 1 <= Len(b) /\ b[Len(a) + 1] = lines[k]
           S == {m \in Nat : k + m <= n => InPlace(Full(FirstOf(lines, k + m)))}
<1>4. 0 \in S
  <2>1. /\ FirstOf(lines, k - 1) \in Seq(T) /\ lines[k] \in T
        /\ FirstOf(lines, (k - 1) + 1) = Append(FirstOf(lines, k - 1), lines[(k - 1) + 1])
    BY <1>k, FirstLines, ElementOfSeq
  <2>2. FirstOf(lines, k) = Append(FirstOf(lines, k - 1), lines[k])
    BY <1>k, <2>1
  <2>3. Full(FirstOf(lines, k)) = Append(a, lines[k])
    BY <1>2, <2>1, <2>2, FullAppend
  <2>4. InPlace(Append(a, lines[k]))
    BY <1>3, <2>1, AppendProperties
  <2>5. k + 0 = k
    BY <1>k
  <2> HIDE DEF InPlace
  <2> QED
    BY <2>3, <2>4, <2>5
<1>5. ASSUME NEW m \in Nat, m \in S PROVE m + 1 \in S
  <2> SUFFICES ASSUME k + (m + 1) <= n PROVE InPlace(Full(FirstOf(lines, k + (m + 1))))
    OBVIOUS
  <2>1. PICK l \in Nat : l = k + m
    BY <1>k
  <2>2. l \in 0 .. Len(lines) /\ l < Len(lines) /\ l + 1 \in 1 .. Len(lines) /\ k + (m + 1) = l + 1
    BY <1>1, <1>k, <2>1
  <2>3. /\ FirstOf(lines, l) \in Seq(T) /\ lines[l + 1] \in T
        /\ FirstOf(lines, l + 1) = Append(FirstOf(lines, l), lines[l + 1])
    BY <2>2, FirstLines, ElementOfSeq
  <2>4. PICK b : b = Full(FirstOf(lines, l))
    OBVIOUS
  <2>5. InPlace(b)
    <3>1. k + m <= n
      BY <1>1, <2>1, <2>2
    <3> HIDE DEF InPlace
    <3> QED
      BY <1>5, <2>1, <2>4, <3>1
  <2>6. Full(FirstOf(lines, l + 1)) = IF lines[l + 1] = <<>> THEN b ELSE Append(b, lines[l + 1])
    BY <2>3, <2>4, FullAppend
  <2>7. InPlace(Append(b, lines[l + 1]))
    <3>1. /\ Append(b, lines[l + 1]) \in Seq(T) /\ Len(Append(b, lines[l + 1])) = Len(b) + 1
          /\ \A j \in 1 .. Len(b) : Append(b, lines[l + 1])[j] = b[j]
      BY <2>3, <2>5, AppendProperties
    <3>2. Len(b) \in Nat
      BY <2>5, LenProperties
    <3>3. Len(a) + 1 \in 1 .. Len(b)
      BY <1>3, <2>5, <3>2
    <3>4. Len(a) + 1 <= Len(b) + 1
      BY <1>3, <3>2, <3>3
    <3> QED
      BY <2>5, <3>1, <3>3, <3>4
  <2> HIDE DEF InPlace
  <2> QED
    BY <2>2, <2>5, <2>6, <2>7
<1> HIDE DEF S
<1>6. \A m \in Nat : m \in S
  BY <1>4, <1>5, SetInduction
<1>7. n - k \in Nat /\ k + (n - k) = n
  BY <1>1, <1>k
<1>8. InPlace(Full(FirstOf(lines, n)))
  <2> HIDE DEF InPlace
  <2>1. k + (n - k) <= n => InPlace(Full(FirstOf(lines, k + (n - k))))
    BY <1>6, <1>7 DEF S
  <2> QED
    BY <1>7, <2>1
<1>9. FirstOf(lines, n) = lines
  <2>1. n \in 0 .. Len(lines)
    BY <1>1
  <2> QED
    BY <1>1, <2>1, FirstLines
<1>10. InPlace(Full(lines))
  <2> HIDE DEF InPlace
  <2> QED
    BY <1>8, <1>9
<1>11. Len(a) + 1 \in 1 .. Len(Full(lines)) /\ Full(lines)[Len(a) + 1] = lines[k]
  BY <1>3, <1>10, LenProperties
<1> QED
  BY <1>2, <1>11

-----------------------------------------------------------------------------
USE DeliveryAssumption DEF Sessions, Writes, Scans

\* The box starts empty and unlocked, with nobody in it.
LEMMA InitHolds == Init => IInv
<1> SUFFICES ASSUME Init PROVE IInv
  OBVIOUS
<1>1. TypeOK
  <2>1. /\ << >> \in Seq(Chars \cup {Nul}) /\ Len(<< >>) = 0
        /\ << >> \in Seq(Chars) /\ << >> \in Seq(1 .. BLOCK_SIZE)
        /\ << >> \in Seq(Seq(Chars))
    BY EmptySeq
  <2>2. /\ message \in [Publishers -> Messages \cup {<< >>}]
        /\ buffer \in [Subscribers -> Seq(Chars)]
        /\ received \in [Subscribers -> Seq(Seq(Chars))]
    BY <2>1 DEF Init
  <2>3. /\ file \in Seq(Chars \cup {Nul}) /\ Len(file) <= BLOCK_SIZE
        /\ ends \in Seq(1 .. BLOCK_SIZE)
    BY <2>1 DEF Init
  <2>4. /\ exists \in BOOLEAN /\ size \in Nat /\ killed \in BOOLEAN
        /\ lock \in Sessions \cup {NoOne}
        /\ pc \in [Sessions -> {"ended", "read", "open", "write", "close", "scan",
                                "probe", "send"}]
        /\ offset \in [Publishers -> 0 .. BLOCK_SIZE]
        /\ bytes_written \in [Publishers -> 0 .. BLOCK_SIZE]
        /\ bytes_processed \in [Subscribers -> 0 .. BLOCK_SIZE + 1]
        /\ count \in [Subscribers -> 0 .. BLOCK_SIZE + 1]
        /\ bytes_read \in [Subscribers -> {0, 1}]
        /\ client \in [Subscribers -> {"here", "closed", "gone"}]
    <3>1. 0 \in 0 .. BLOCK_SIZE /\ 0 \in 0 .. BLOCK_SIZE + 1 /\ OldSize \in Nat
      BY DeliveryAssumption
    <3> QED
      BY <3>1, Zenon DEF Init
  <2> QED
    BY <2>2, <2>3, <2>4 DEF TypeOK
<1>2. HolderLocks /\ WritesAtEnd /\ SizeFollows /\ CountInFile
  BY DeliveryAssumption DEF Init, HolderLocks, WritesAtEnd, SizeFollows, CountInFile
<1> QED
  BY <1>1, <1>2 DEF IInv

\* To write at the end of a sequence is to append to it.
LEMMA OverwriteAtEnd ==
  ASSUME NEW T, NEW content \in Seq(T), NEW data \in Seq(T)
  PROVE  Overwrite(content, Len(content), data) = content \o data
<1>1. SubSeq(content, 1, Len(content)) = content
  BY SubSeqFull
<1>2. SubSeq(content, Len(content) + Len(data) + 1, Len(content)) = << >>
  BY SubSeqEmpty, LenProperties
<1>3. content \o data \in Seq(T)
  BY ConcatProperties
<1> QED
  BY <1>1, <1>2, <1>3, ConcatEmptySeq DEF Overwrite

\* A line that has been read has no zero byte.
LEMMA MessageTyped ==
  ASSUME TypeOK, NEW p \in Publishers
  PROVE  /\ message[p] \in Seq(Chars)
         /\ message[p] \in Seq(Chars \cup {Nul})
<1>1. message[p] \in Messages \cup {<< >>}
  BY DEF TypeOK
<1>2. CASE message[p] = << >>
  BY <1>2, EmptySeq
<1>3. CASE message[p] \in Messages
  <2>1. message[p] \in Seq(Chars)
    BY <1>3
  <2> QED
    BY <2>1
<1> QED
  BY <1>1, <1>2, <1>3

\* What tfs_write writes: the first bytes of the line, as many as fit.
LEMMA WrittenPart ==
  ASSUME IInv, NEW p \in Publishers, pc[p] = "write",
         NEW n, n = Least(Len(message[p]) + 1, BLOCK_SIZE - offset[p]), n > 0
  PROVE  /\ n \in 1 .. BLOCK_SIZE - Len(file)
         /\ Len(Append(message[p], Nul)) = Len(message[p]) + 1
         /\ SubSeq(Append(message[p], Nul), 1, n) \in Seq(Chars \cup {Nul})
         /\ Len(SubSeq(Append(message[p], Nul), 1, n)) = n
<1> DEFINE line == Append(message[p], Nul)
<1>1. message[p] \in Seq(Chars \cup {Nul})
  BY MessageTyped DEF IInv
<1>2. line \in Seq(Chars \cup {Nul}) /\ Len(line) = Len(message[p]) + 1
  BY <1>1, AppendProperties
<1>3. offset[p] = Len(file) /\ Len(file) \in 0 .. BLOCK_SIZE
  <2>1. file \in Seq(Chars \cup {Nul}) /\ Len(file) <= BLOCK_SIZE
    BY DEF IInv, TypeOK
  <2> QED
    BY <2>1, LenProperties DEF IInv, WritesAtEnd
<1>4. n \in 1 .. Len(line) /\ n <= BLOCK_SIZE - Len(file)
  BY <1>1, <1>2, <1>3, LenProperties DEF Least
<1>5. SubSeq(line, 1, n) \in Seq(Chars \cup {Nul}) /\ Len(SubSeq(line, 1, n)) = n
  BY <1>2, <1>4, SubSeqProperties
<1> QED
  BY <1>2, <1>3, <1>4, <1>5

\* The step of tfs_write appends n bytes to the file.
LEMMA WriteAppends ==
  ASSUME IInv, NEW p \in Publishers, PubWrite(p)
  PROVE  \E n \in 1 .. BLOCK_SIZE - Len(file) :
           \E data \in Seq(Chars \cup {Nul}) :
             /\ Len(data) = n
             /\ file' = file \o data
             /\ file' \in Seq(Chars \cup {Nul})
             /\ Len(file') = Len(file) + n
             /\ bytes_written' = [bytes_written EXCEPT ![p] = n]
             /\ ends' = ends \/ ends' = Append(ends, Len(file) + n)
<1> DEFINE line == Append(message[p], Nul)
           n == Least(Len(line), BLOCK_SIZE - offset[p])
           data == SubSeq(line, 1, n)
<1>1. pc[p] = "write" /\ n > 0
  BY DEF PubWrite, Goto
<1>2. Len(line) = Len(message[p]) + 1
  BY MessageTyped, AppendProperties DEF IInv
<1>3. /\ n \in 1 .. BLOCK_SIZE - Len(file)
      /\ data \in Seq(Chars \cup {Nul})
      /\ Len(data) = n
  <2> HIDE DEF n
  <2>1. n = Least(Len(message[p]) + 1, BLOCK_SIZE - offset[p])
    BY <1>2 DEF n
  <2> QED
    BY <1>1, <2>1, WrittenPart
<1>4. file \in Seq(Chars \cup {Nul}) /\ offset[p] = Len(file)
  BY <1>1 DEF IInv, TypeOK, WritesAtEnd
<1>5. file' = Overwrite(file, offset[p], data)
  BY DEF PubWrite
<1>6. file' = file \o data
  <2> HIDE DEF data
  <2> QED
    BY <1>3, <1>4, <1>5, OverwriteAtEnd
<1>7. file' \in Seq(Chars \cup {Nul}) /\ Len(file') = Len(file) + n
  <2> HIDE DEF data, n
  <2> QED
    <3>1. /\ file \o data \in Seq(Chars \cup {Nul})
          /\ Len(file \o data) = Len(file) + Len(data)
      <4>1. data \in Seq(Chars \cup {Nul}) /\ file \in Seq(Chars \cup {Nul})
        BY <1>3, <1>4
      <4> QED
        BY <4>1, ConcatProperties
    <3> QED
      BY <1>3, <1>6, <3>1
<1>8. /\ bytes_written' = [bytes_written EXCEPT ![p] = n]
      /\ ends' = ends \/ ends' = Append(ends, Len(file) + n)
  BY <1>4 DEF PubWrite
<1> HIDE DEF n, data
<1> QED
  BY <1>3, <1>6, <1>7, <1>8

-----------------------------------------------------------------------------
\* Every step keeps the variables in their ranges.
LEMMA KeepsTypeOK == IInv /\ [Next]_vars => TypeOK'
<1> SUFFICES ASSUME IInv, [Next]_vars PROVE TypeOK'
  OBVIOUS
<1>T. TypeOK
  BY DEF IInv
<1> USE DEF box, publisherVars, subscriberVars, ghosts, Goto, Forget, SubEnd
<1>1. ASSUME NEW p \in Publishers, PubStart(p) PROVE TypeOK'
  BY <1>T, <1>1 DEF PubStart, TypeOK
<1>2. ASSUME NEW p \in Publishers, PubRead(p) PROVE TypeOK'
  <2>1. message' \in [Publishers -> Messages \cup {<< >>}]
    <3>1. CASE \E m \in Messages : message' = [message EXCEPT ![p] = m]
      BY <1>T, <3>1 DEF TypeOK
    <3>2. CASE UNCHANGED message
      BY <1>T, <3>2 DEF TypeOK
    <3> QED
      BY <1>2, <3>1, <3>2 DEF PubRead
  <2>2. pc' = [pc EXCEPT ![p] = "open"] \/ pc' = [pc EXCEPT ![p] = "ended"]
    BY <1>2 DEF PubRead
  <2>3. UNCHANGED <<box, lock, offset, bytes_written, subscriberVars, client, killed,
                    ghosts>>
    BY <1>2 DEF PubRead
  <2> QED
    BY <1>T, <2>1, <2>2, <2>3 DEF TypeOK
<1>3. ASSUME NEW p \in Publishers, PubOpen(p) PROVE TypeOK'
  <2>1. Len(file) \in 0 .. BLOCK_SIZE
    BY <1>T, LenProperties DEF TypeOK
  <2>2. UNCHANGED <<box, bytes_written, subscriberVars, client, killed, ghosts>>
    BY <1>3 DEF PubOpen
  <2>3. CASE /\ pc' = [pc EXCEPT ![p] = "write"] /\ lock' = p
             /\ offset' = [offset EXCEPT ![p] = Len(file)] /\ UNCHANGED message
    BY <1>T, <2>1, <2>2, <2>3 DEF TypeOK
  <2>4. CASE /\ pc' = [pc EXCEPT ![p] = "ended"] /\ Forget(p) /\ UNCHANGED lock
    BY <1>T, <2>2, <2>4 DEF TypeOK
  <2> QED
    BY <1>3, <2>3, <2>4 DEF PubOpen
<1>4. ASSUME NEW p \in Publishers, PubWrite(p) PROVE TypeOK'
  <2>1. PICK n \in 1 .. BLOCK_SIZE - Len(file) :
          /\ file' \in Seq(Chars \cup {Nul})
          /\ Len(file') = Len(file) + n
          /\ bytes_written' = [bytes_written EXCEPT ![p] = n]
          /\ ends' = ends \/ ends' = Append(ends, Len(file) + n)
    BY <1>4, WriteAppends
  <2>2. Len(file) \in Nat /\ Len(file) + n \in 1 .. BLOCK_SIZE
    BY <1>T, LenProperties DEF TypeOK
  <2>3. ends' \in Seq(1 .. BLOCK_SIZE)
    <3>1. ends \in Seq(1 .. BLOCK_SIZE)
      BY <1>T DEF TypeOK
    <3>2. Append(ends, Len(file) + n) \in Seq(1 .. BLOCK_SIZE)
      BY <3>1, <2>2, AppendProperties
    <3> QED
      BY <3>1, <3>2, <2>1
  <2>4. pc' = [pc EXCEPT ![p] = "close"]
    BY <1>4 DEF PubWrite
  <2>5. UNCHANGED <<exists, size, lock, message, offset, subscriberVars, client,
                    killed, received>>
    BY <1>4 DEF PubWrite
  <2> QED
    <3>1. /\ file' \in Seq(Chars \cup {Nul}) /\ Len(file') <= BLOCK_SIZE
          /\ n \in 0 .. BLOCK_SIZE
      BY <2>1, <2>2
    <3>2. bytes_written' \in [Publishers -> 0 .. BLOCK_SIZE]
      BY <1>T, <2>1, <3>1 DEF TypeOK
    <3>3. pc' \in [Sessions -> {"ended", "read", "open", "write", "close", "scan",
                               "probe", "send"}]
      BY <1>T, <2>4 DEF TypeOK
    <3> QED
      BY <1>T, <2>3, <2>5, <3>1, <3>2, <3>3 DEF TypeOK
<1>5. ASSUME NEW p \in Publishers, PubWriteFails(p) PROVE TypeOK'
  BY <1>T, <1>5 DEF PubWriteFails, TypeOK
<1>6. ASSUME NEW p \in Publishers, PubClose(p) PROVE TypeOK'
  <2>1. size + bytes_written[p] \in Nat
    BY <1>T DEF TypeOK
  <2>2. /\ bytes_written' \in [Publishers -> 0 .. BLOCK_SIZE]
        /\ offset' \in [Publishers -> 0 .. BLOCK_SIZE]
        /\ message' \in [Publishers -> Messages \cup {<< >>}]
    BY <1>T, <1>6 DEF PubClose, TypeOK
  <2> QED
    BY <1>T, <1>6, <2>1, <2>2 DEF PubClose, TypeOK
<1>7. ASSUME NEW s \in Subscribers, SubStart(s) PROVE TypeOK'
  BY <1>T, <1>7 DEF SubStart, TypeOK
<1>8. ASSUME NEW s \in Subscribers, SubOpen(s) PROVE TypeOK'
  <2>1. UNCHANGED <<box, publisherVars, buffer, count, bytes_read, killed, ends>>
    BY <1>8 DEF SubOpen
  <2>2. CASE /\ pc' = [pc EXCEPT ![s] = "scan"] /\ lock' = s
             /\ UNCHANGED <<bytes_processed, client, received>>
    BY <1>T, <2>1, <2>2 DEF TypeOK
  <2>3. CASE pc' = [pc EXCEPT ![s] = "ended"] /\ SubEnd(s) /\ UNCHANGED lock
    BY <1>T, <2>1, <2>3, EmptySeq DEF TypeOK
  <2> QED
    BY <1>8, <2>2, <2>3 DEF SubOpen
<1>9. ASSUME NEW s \in Subscribers, ScanEnd(s) PROVE TypeOK'
  <2>1. count[s] + 1 \in 0 .. BLOCK_SIZE + 1
    BY <1>T, <1>9, LenProperties DEF ScanEnd, TypeOK
  <2>2. /\ count' = [count EXCEPT ![s] = count[s] + 1]
        /\ count' \in [Subscribers -> 0 .. BLOCK_SIZE + 1]
    BY <1>T, <1>9, <2>1 DEF ScanEnd, TypeOK
  <2>3. bytes_processed' \in [Subscribers -> 0 .. BLOCK_SIZE + 1]
    BY <1>T, <1>9, <2>2 DEF ScanEnd, TypeOK
  <2> QED
    BY <1>T, <1>9, <2>2, <2>3 DEF ScanEnd, TypeOK
<1>10. ASSUME NEW s \in Subscribers, ScanByte(s) PROVE TypeOK'
  <2> DEFINE n == count[s] + 1
             char == file[n]
             found == char = Nul /\ bytes_processed[s] < n
             take == bytes_processed[s] <= n /\ char # Nul
  <2>1. n \in 1 .. BLOCK_SIZE /\ char \in Chars \cup {Nul}
    <3>1. file \in Seq(Chars \cup {Nul}) /\ n \in 1 .. Len(file)
      BY <1>T, <1>10, LenProperties DEF ScanByte, TypeOK
    <3> QED
      BY <1>T, <3>1, ElementOfSeq DEF TypeOK
  <2>2. /\ pc' = [pc EXCEPT ![s] = IF found THEN "probe" ELSE "scan"]
        /\ count' = [count EXCEPT ![s] = n]
        /\ bytes_read' = [bytes_read EXCEPT ![s] = 1]
        /\ buffer' = [buffer EXCEPT ![s] = IF take THEN Append(buffer[s], char)
                                                   ELSE buffer[s]]
        /\ bytes_processed' = [bytes_processed EXCEPT ![s] =
                                 IF found THEN n ELSE bytes_processed[s]]
        /\ UNCHANGED <<box, lock, publisherVars, client, killed, ghosts>>
    BY <1>T, <1>10 DEF ScanByte, TypeOK
  <2>3. buffer' \in [Subscribers -> Seq(Chars)]
    <3>1. buffer[s] \in Seq(Chars)
      BY <1>T DEF TypeOK
    <3>2. take => Append(buffer[s], char) \in Seq(Chars)
      BY <2>1, <3>1, AppendProperties
    <3> HIDE DEF take, char
    <3> QED
      BY <1>T, <2>2, <3>1, <3>2 DEF TypeOK
  <2> HIDE DEF n, found, take, char
  <2>4. /\ pc' \in [Sessions -> {"ended", "read", "open", "write", "close", "scan",
                                "probe", "send"}]
        /\ count' \in [Subscribers -> 0 .. BLOCK_SIZE + 1]
        /\ bytes_read' \in [Subscribers -> {0, 1}]
        /\ bytes_processed' \in [Subscribers -> 0 .. BLOCK_SIZE + 1]
    BY <1>T, <2>1, <2>2 DEF TypeOK
  <2> QED
    BY <1>T, <2>2, <2>3, <2>4 DEF TypeOK
<1>11. ASSUME NEW s \in Subscribers, SubProbe(s) PROVE TypeOK'
  <2>1. UNCHANGED <<box, publisherVars, killed, ends>> /\ lock' = NoOne
    BY <1>11 DEF SubProbe
  <2>2. /\ count' = [count EXCEPT ![s] = 0]
        /\ bytes_read' = [bytes_read EXCEPT ![s] = 0]
        /\ count' \in [Subscribers -> 0 .. BLOCK_SIZE + 1]
    BY <1>T, <1>11 DEF SubProbe, TypeOK
  <2>3. buffer' \in [Subscribers -> Seq(Chars)]
    <3> DEFINE b == IF client[s] # "gone" /\ bytes_read[s] > 0 THEN buffer[s] ELSE << >>
    <3>1. buffer' = [buffer EXCEPT ![s] = b]
      BY <1>11 DEF SubProbe
    <3>2. b \in Seq(Chars)
      BY <1>T, EmptySeq DEF TypeOK
    <3> HIDE DEF b
    <3> QED
      BY <1>T, <3>1, <3>2 DEF TypeOK
  <2>4. CASE pc' = [pc EXCEPT ![s] = "ended"] /\ SubEnd(s)
    BY <1>T, <2>1, <2>2, <2>3, <2>4, EmptySeq DEF TypeOK
  <2>5. CASE /\ \E q \in {"send", "open"} : pc' = [pc EXCEPT ![s] = q]
             /\ UNCHANGED <<bytes_processed, client, received>>
    BY <1>T, <2>1, <2>2, <2>3, <2>5 DEF TypeOK
  <2> QED
    BY <1>11, <2>4, <2>5 DEF SubProbe
<1>12. ASSUME NEW s \in Subscribers, SubSend(s) PROVE TypeOK'
  <2>1. UNCHANGED <<box, lock, publisherVars, bytes_processed, count, bytes_read,
                    client, ends>>
    BY <1>12 DEF SubSend
  <2>2. CASE /\ pc' = [pc EXCEPT ![s] = "open"]
             /\ received' = [received EXCEPT ![s] = Append(@, buffer[s])]
             /\ buffer' = [buffer EXCEPT ![s] = <<>>]
             /\ UNCHANGED killed
    <3>1. received[s] \in Seq(Seq(Chars)) /\ buffer[s] \in Seq(Chars)
      BY <1>T DEF TypeOK
    <3>2. Append(received[s], buffer[s]) \in Seq(Seq(Chars))
      BY <3>1, AppendProperties
    <3>3. << >> \in Seq(Chars)
      BY EmptySeq
    <3>4. /\ received' \in [Subscribers -> Seq(Seq(Chars))]
          /\ buffer' \in [Subscribers -> Seq(Chars)]
      BY <1>T, <2>2, <3>2, <3>3 DEF TypeOK
    <3> QED
      BY <1>T, <2>1, <2>2, <3>4 DEF TypeOK
  <2>3. CASE killed' = TRUE /\ UNCHANGED <<pc, received, buffer>>
    BY <1>T, <2>1, <2>3 DEF TypeOK
  <2> QED
    BY <1>12, <2>2, <2>3 DEF SubSend
<1>13. ASSUME NEW s \in Subscribers, Leave(s) PROVE TypeOK'
  BY <1>T, <1>13 DEF Leave, TypeOK
<1>14. CASE RemoveBox
  BY <1>T, <1>14 DEF RemoveBox, TypeOK
<1>15. CASE UNCHANGED vars
  BY <1>T, <1>15 DEF vars, TypeOK
<1> QED
  BY <1>1, <1>2, <1>3, <1>4, <1>5, <1>6, <1>7, <1>8, <1>9, <1>10, <1>11, <1>12,
     <1>13, <1>14, <1>15
  DEF Next, PublisherStep, SubscriberStep, PubWorks, SubWorks

\* A session enters its critical section with the lock, and frees it on leaving.
LEMMA KeepsHolderLocks == IInv /\ [Next]_vars => HolderLocks'
<1> SUFFICES ASSUME IInv, [Next]_vars PROVE HolderLocks'
  OBVIOUS
<1>T. HolderLocks /\ pc \in [Sessions -> {"ended", "read", "open", "write", "close",
                                         "scan", "probe", "send"}]
  BY DEF IInv, TypeOK
<1> USE DEF Goto
<1>1. ASSUME NEW p \in Publishers, PubStart(p) PROVE HolderLocks'
  BY <1>T, <1>1 DEF PubStart, HolderLocks
<1>2. ASSUME NEW p \in Publishers, PubRead(p) PROVE HolderLocks'
  BY <1>T, <1>2 DEF PubRead, HolderLocks
<1>3. ASSUME NEW p \in Publishers, PubOpen(p) PROVE HolderLocks'
  BY <1>T, <1>3 DEF PubOpen, HolderLocks
<1>4. ASSUME NEW p \in Publishers, PubWrite(p) PROVE HolderLocks'
  BY <1>T, <1>4 DEF PubWrite, HolderLocks
<1>5. ASSUME NEW p \in Publishers, PubWriteFails(p) PROVE HolderLocks'
  BY <1>T, <1>5 DEF PubWriteFails, HolderLocks
<1>6. ASSUME NEW p \in Publishers, PubClose(p) PROVE HolderLocks'
  BY <1>T, <1>6 DEF PubClose, HolderLocks
<1>7. ASSUME NEW s \in Subscribers, SubStart(s) PROVE HolderLocks'
  BY <1>T, <1>7 DEF SubStart, HolderLocks
<1>8. ASSUME NEW s \in Subscribers, SubOpen(s) PROVE HolderLocks'
  BY <1>T, <1>8 DEF SubOpen, HolderLocks
<1>9. ASSUME NEW s \in Subscribers, ScanEnd(s) PROVE HolderLocks'
  BY <1>T, <1>9 DEF ScanEnd, HolderLocks
<1>10. ASSUME NEW s \in Subscribers, ScanByte(s) PROVE HolderLocks'
  BY <1>T, <1>10 DEF ScanByte, HolderLocks
<1>11. ASSUME NEW s \in Subscribers, SubProbe(s) PROVE HolderLocks'
  BY <1>T, <1>11 DEF SubProbe, HolderLocks
<1>12. ASSUME NEW s \in Subscribers, SubSend(s) PROVE HolderLocks'
  BY <1>T, <1>12 DEF SubSend, HolderLocks
<1>13. ASSUME NEW s \in Subscribers, Leave(s) PROVE HolderLocks'
  BY <1>T, <1>13 DEF Leave, HolderLocks
<1>14. CASE RemoveBox
  BY <1>T, <1>14 DEF RemoveBox, HolderLocks
<1>15. CASE UNCHANGED vars
  BY <1>T, <1>15 DEF vars, HolderLocks
<1> QED
  BY <1>1, <1>2, <1>3, <1>4, <1>5, <1>6, <1>7, <1>8, <1>9, <1>10, <1>11, <1>12,
     <1>13, <1>14, <1>15
  DEF Next, PublisherStep, SubscriberStep, PubWorks, SubWorks

\* Only the publisher at its write lengthens the file, and it is the only one there.
LEMMA KeepsWritesAtEnd == IInv /\ [Next]_vars => WritesAtEnd'
<1> SUFFICES ASSUME IInv, [Next]_vars PROVE WritesAtEnd'
  OBVIOUS
<1>T. /\ HolderLocks /\ WritesAtEnd
      /\ pc \in [Sessions -> {"ended", "read", "open", "write", "close", "scan",
                           "probe", "send"}]
      /\ offset \in [Publishers -> 0 .. BLOCK_SIZE]
  BY DEF IInv, TypeOK
<1> USE DEF Goto, Forget, box, publisherVars
<1>1. ASSUME NEW p \in Publishers, PubStart(p) PROVE WritesAtEnd'
  BY <1>T, <1>1 DEF PubStart, WritesAtEnd
<1>2. ASSUME NEW p \in Publishers, PubRead(p) PROVE WritesAtEnd'
  BY <1>T, <1>2 DEF PubRead, WritesAtEnd
<1>3. ASSUME NEW p \in Publishers, PubOpen(p) PROVE WritesAtEnd'
  BY <1>T, <1>3 DEF PubOpen, WritesAtEnd
<1>4. ASSUME NEW p \in Publishers, PubWrite(p) PROVE WritesAtEnd'
  <2>1. pc[p] = "write" /\ pc' = [pc EXCEPT ![p] = "close"]
    BY <1>4 DEF PubWrite
  <2>2. \A q \in Publishers : pc'[q] # "write"
    BY <1>T, <2>1 DEF HolderLocks
  <2> QED
    BY <2>2 DEF WritesAtEnd
<1>5. ASSUME NEW p \in Publishers, PubWriteFails(p) PROVE WritesAtEnd'
  BY <1>T, <1>5 DEF PubWriteFails, WritesAtEnd
<1>6. ASSUME NEW p \in Publishers, PubClose(p) PROVE WritesAtEnd'
  BY <1>T, <1>6 DEF PubClose, WritesAtEnd
<1>7. ASSUME NEW s \in Subscribers, SubStart(s) PROVE WritesAtEnd'
  BY <1>T, <1>7 DEF SubStart, WritesAtEnd
<1>8. ASSUME NEW s \in Subscribers, SubOpen(s) PROVE WritesAtEnd'
  BY <1>T, <1>8 DEF SubOpen, WritesAtEnd
<1>9. ASSUME NEW s \in Subscribers, ScanEnd(s) PROVE WritesAtEnd'
  BY <1>T, <1>9 DEF ScanEnd, WritesAtEnd
<1>10. ASSUME NEW s \in Subscribers, ScanByte(s) PROVE WritesAtEnd'
  BY <1>T, <1>10 DEF ScanByte, WritesAtEnd
<1>11. ASSUME NEW s \in Subscribers, SubProbe(s) PROVE WritesAtEnd'
  BY <1>T, <1>11 DEF SubProbe, WritesAtEnd
<1>12. ASSUME NEW s \in Subscribers, SubSend(s) PROVE WritesAtEnd'
  BY <1>T, <1>12 DEF SubSend, WritesAtEnd
<1>13. ASSUME NEW s \in Subscribers, Leave(s) PROVE WritesAtEnd'
  BY <1>T, <1>13 DEF Leave, WritesAtEnd
<1>14. CASE RemoveBox
  BY <1>T, <1>14 DEF RemoveBox, WritesAtEnd
<1>15. CASE UNCHANGED vars
  BY <1>T, <1>15 DEF vars, WritesAtEnd
<1> QED
  BY <1>1, <1>2, <1>3, <1>4, <1>5, <1>6, <1>7, <1>8, <1>9, <1>10, <1>11, <1>12,
     <1>13, <1>14, <1>15
  DEF Next, PublisherStep, SubscriberStep, PubWorks, SubWorks

\* What a publisher writes is added to the size before it frees the box.
LEMMA KeepsSizeFollows == IInv /\ [Next]_vars => SizeFollows'
<1> SUFFICES ASSUME IInv, [Next]_vars PROVE SizeFollows'
  OBVIOUS
<1>T. /\ HolderLocks /\ WritesAtEnd /\ SizeFollows
      /\ pc \in [Sessions -> {"ended", "read", "open", "write", "close", "scan",
                           "probe", "send"}]
      /\ bytes_written \in [Publishers -> 0 .. BLOCK_SIZE]
      /\ size \in Nat /\ OldSize \in Nat
  BY DeliveryAssumption DEF IInv, TypeOK
<1> USE DEF Goto, Forget, box, publisherVars
<1>1. ASSUME NEW p \in Publishers, PubStart(p) PROVE SizeFollows'
  BY <1>T, <1>1 DEF PubStart, SizeFollows
<1>2. ASSUME NEW p \in Publishers, PubRead(p) PROVE SizeFollows'
  BY <1>T, <1>2 DEF PubRead, SizeFollows
<1>3. ASSUME NEW p \in Publishers, PubOpen(p) PROVE SizeFollows'
  BY <1>T, <1>3 DEF PubOpen, SizeFollows
<1>4. ASSUME NEW p \in Publishers, PubWrite(p) PROVE SizeFollows'
  <2>1. pc[p] = "write" /\ pc' = [pc EXCEPT ![p] = "close"] /\ size' = size
    BY <1>4 DEF PubWrite
  <2>2. PICK n \in 1 .. BLOCK_SIZE - Len(file) :
          /\ Len(file') = Len(file) + n
          /\ bytes_written' = [bytes_written EXCEPT ![p] = n]
    BY <1>4, WriteAppends
  <2>3. \A q \in Publishers : pc[q] # "close"
    BY <1>T, <2>1 DEF HolderLocks
  <2>4. size = OldSize + Len(file)
    BY <1>T, <2>3 DEF SizeFollows
  <2>5. \A q \in Publishers : pc'[q] = "close" => q = p
    BY <1>T, <2>1, <2>3
  <2>6. bytes_written'[p] = n /\ pc'[p] = "close"
    BY <1>T, <2>1, <2>2
  <2> QED
    BY <2>1, <2>2, <2>4, <2>5, <2>6 DEF SizeFollows
<1>5. ASSUME NEW p \in Publishers, PubWriteFails(p) PROVE SizeFollows'
  BY <1>T, <1>5 DEF PubWriteFails, SizeFollows
<1>6. ASSUME NEW p \in Publishers, PubClose(p) PROVE SizeFollows'
  <2>1. /\ pc[p] = "close" /\ pc' = [pc EXCEPT ![p] = "read"] /\ file' = file
        /\ size' = size + bytes_written[p]
    BY <1>6 DEF PubClose
  <2>2. \A q \in Publishers : pc'[q] # "close"
    BY <1>T, <2>1 DEF HolderLocks
  <2>3. size' = OldSize + Len(file)
    BY <1>T, <2>1 DEF SizeFollows
  <2> QED
    BY <2>1, <2>2, <2>3 DEF SizeFollows
<1>7. ASSUME NEW s \in Subscribers, SubStart(s) PROVE SizeFollows'
  BY <1>T, <1>7 DEF SubStart, SizeFollows
<1>8. ASSUME NEW s \in Subscribers, SubOpen(s) PROVE SizeFollows'
  BY <1>T, <1>8 DEF SubOpen, SizeFollows
<1>9. ASSUME NEW s \in Subscribers, ScanEnd(s) PROVE SizeFollows'
  BY <1>T, <1>9 DEF ScanEnd, SizeFollows
<1>10. ASSUME NEW s \in Subscribers, ScanByte(s) PROVE SizeFollows'
  BY <1>T, <1>10 DEF ScanByte, SizeFollows
<1>11. ASSUME NEW s \in Subscribers, SubProbe(s) PROVE SizeFollows'
  BY <1>T, <1>11 DEF SubProbe, SizeFollows
<1>12. ASSUME NEW s \in Subscribers, SubSend(s) PROVE SizeFollows'
  BY <1>T, <1>12 DEF SubSend, SizeFollows
<1>13. ASSUME NEW s \in Subscribers, Leave(s) PROVE SizeFollows'
  BY <1>T, <1>13 DEF Leave, SizeFollows
<1>14. CASE RemoveBox
  BY <1>T, <1>14 DEF RemoveBox, SizeFollows
<1>15. CASE UNCHANGED vars
  BY <1>T, <1>15 DEF vars, SizeFollows
<1> QED
  BY <1>1, <1>2, <1>3, <1>4, <1>5, <1>6, <1>7, <1>8, <1>9, <1>10, <1>11, <1>12,
     <1>13, <1>14, <1>15
  DEF Next, PublisherStep, SubscriberStep, PubWorks, SubWorks

\* A scan starts from nothing, and the file it reads never shrinks.
LEMMA KeepsCountInFile == IInv /\ [Next]_vars => CountInFile'
<1> SUFFICES ASSUME IInv, [Next]_vars PROVE CountInFile'
  OBVIOUS
<1>T. /\ HolderLocks /\ CountInFile
      /\ pc \in [Sessions -> {"ended", "read", "open", "write", "close", "scan",
                           "probe", "send"}]
      /\ count \in [Subscribers -> 0 .. BLOCK_SIZE + 1]
      /\ file \in Seq(Chars \cup {Nul})
  BY DEF IInv, TypeOK
<1>L. Len(file) \in Nat
  BY <1>T, LenProperties
<1> USE <1>L DEF Goto, box, subscriberVars
<1>1. ASSUME NEW p \in Publishers, PubStart(p) PROVE CountInFile'
  BY <1>T, <1>1 DEF PubStart, CountInFile
<1>2. ASSUME NEW p \in Publishers, PubRead(p) PROVE CountInFile'
  BY <1>T, <1>2 DEF PubRead, CountInFile
<1>3. ASSUME NEW p \in Publishers, PubOpen(p) PROVE CountInFile'
  BY <1>T, <1>3 DEF PubOpen, CountInFile
<1>4. ASSUME NEW p \in Publishers, PubWrite(p) PROVE CountInFile'
  <2>1. /\ pc' = [pc EXCEPT ![p] = "close"] /\ pc[p] = "write"
        /\ UNCHANGED count
    BY <1>4 DEF PubWrite
  <2>2. PICK n \in 1 .. BLOCK_SIZE - Len(file) : Len(file') = Len(file) + n
    BY <1>4, WriteAppends
  <2> QED
    BY <1>T, <2>1, <2>2 DEF CountInFile
<1>5. ASSUME NEW p \in Publishers, PubWriteFails(p) PROVE CountInFile'
  BY <1>T, <1>5 DEF PubWriteFails, CountInFile
<1>6. ASSUME NEW p \in Publishers, PubClose(p) PROVE CountInFile'
  BY <1>T, <1>6 DEF PubClose, CountInFile
<1>7. ASSUME NEW s \in Subscribers, SubStart(s) PROVE CountInFile'
  BY <1>T, <1>7 DEF SubStart, CountInFile
<1>8. ASSUME NEW s \in Subscribers, SubOpen(s) PROVE CountInFile'
  BY <1>T, <1>8 DEF SubOpen, CountInFile
<1>9. ASSUME NEW s \in Subscribers, ScanEnd(s) PROVE CountInFile'
  BY <1>T, <1>9 DEF ScanEnd, CountInFile
<1>10. ASSUME NEW s \in Subscribers, ScanByte(s) PROVE CountInFile'
  BY <1>T, <1>10 DEF ScanByte, CountInFile
<1>11. ASSUME NEW s \in Subscribers, SubProbe(s) PROVE CountInFile'
  BY <1>T, <1>11 DEF SubProbe, CountInFile
<1>12. ASSUME NEW s \in Subscribers, SubSend(s) PROVE CountInFile'
  BY <1>T, <1>12 DEF SubSend, CountInFile
<1>13. ASSUME NEW s \in Subscribers, Leave(s) PROVE CountInFile'
  BY <1>T, <1>13 DEF Leave, CountInFile
<1>14. CASE RemoveBox
  BY <1>T, <1>14 DEF RemoveBox, CountInFile
<1>15. CASE UNCHANGED vars
  BY <1>T, <1>15 DEF vars, CountInFile
<1> QED
  BY <1>1, <1>2, <1>3, <1>4, <1>5, <1>6, <1>7, <1>8, <1>9, <1>10, <1>11, <1>12,
     <1>13, <1>14, <1>15
  DEF Next, PublisherStep, SubscriberStep, PubWorks, SubWorks

-----------------------------------------------------------------------------
\* Every behaviour stays inside the invariant.
LEMMA Invariance == Spec => []IInv
<1>1. IInv /\ [Next]_vars => IInv'
  BY KeepsTypeOK, KeepsHolderLocks, KeepsWritesAtEnd, KeepsSizeFollows,
     KeepsCountInFile DEF IInv
<1> QED
  BY InitHolds, <1>1, PTL DEF Spec

\* Every variable of the sessions of a box stays in its range: in particular the
\* file never outgrows its block and a scan never goes past the end of it.
THEOREM TypeCorrect == Spec => []TypeOK
<1>1. IInv => TypeOK
  BY DEF IInv
<1> QED
  BY Invariance, <1>1, PTL

\* No publisher is between its tfs_open and its last update of the box while a
\* subscriber scans the file.
THEOREM ScansAreExclusive == Spec => []ScansSeeWholeLines
<1>1. IInv => ScansSeeWholeLines
  BY DEF IInv, HolderLocks, ScansSeeWholeLines
<1> QED
  BY Invariance, <1>1, PTL

\* Whatever size the box's slot started from, it has grown by what the file has
\* whenever nobody has the box locked.
THEOREM SizeKeepsUp == Spec => []SizeFollowsFile
<1>1. IInv => SizeFollowsFile
  BY DEF IInv, HolderLocks, SizeFollows, SizeFollowsFile
<1> QED
  BY Invariance, <1>1, PTL

\* A file that grows at its end keeps what it had.
LEMMA AppendKeepsPrefix ==
  ASSUME NEW T, NEW content \in Seq(T), NEW data \in Seq(T)
  PROVE  IsPrefix(content, content \o data)
<1>1. /\ content \o data \in Seq(T)
      /\ Len(content \o data) = Len(content) + Len(data)
      /\ \A i \in 1 .. Len(content) : (content \o data)[i] = content[i]
  BY ConcatProperties
<1>2. Len(content) \in Nat /\ Len(data) \in Nat
  BY LenProperties
<1>3. SubSeq(content, 1, Len(content)) = SubSeq(content \o data, 1, Len(content))
  <2>1. SubSeq(content, 1, Len(content)) = content
    BY SubSeqFull
  <2> DEFINE front == SubSeq(content \o data, 1, Len(content))
  <2>2. /\ front \in Seq(T) /\ Len(front) = Len(content)
        /\ \A i \in 1 .. Len(content) : front[i] = (content \o data)[i]
    BY <1>1, <1>2, SubSeqProperties
  <2> HIDE DEF front
  <2>3. front = content
    BY <1>1, <2>2, SeqEqual
  <2> QED
    BY <2>1, <2>3 DEF front
<1> QED
  BY <1>1, <1>2, <1>3 DEF IsPrefix

\* The file of a box only ever grows at its end: publishers that find the end of
\* it with a call of their own do not overwrite each other's messages.
THEOREM NothingOverwritten == Spec => BoxOnlyGrows
<1>1. IInv /\ [Next]_vars => [IsPrefix(file, file')]_file
  <2> SUFFICES ASSUME IInv, [Next]_vars, file' # file PROVE IsPrefix(file, file')
    OBVIOUS
  <2>1. PICK p \in Publishers : PubWrite(p)
    BY DEF Next, PublisherStep, SubscriberStep, PubWorks, SubWorks, vars, box,
           PubStart, PubRead, PubOpen, PubWriteFails, PubClose, SubStart, SubOpen,
           ScanEnd, ScanByte, SubProbe, SubSend, Leave, RemoveBox
  <2>2. PICK data \in Seq(Chars \cup {Nul}) : file' = file \o data
    BY <2>1, WriteAppends
  <2> QED
    BY <2>2, AppendKeepsPrefix DEF IInv, TypeOK
<1> QED
  BY Invariance, <1>1, PTL DEF Spec, BoxOnlyGrows

-----------------------------------------------------------------------------
(* What is in the file, and how far each subscriber has come *)

\* What a file is made of.
Byte == Chars \cup {Nul}

\* Where the line after the k-th begins.
Start(k) == IF k = 0 THEN 1 ELSE ends[k] + 1

\* The first k lines.
Lines(k) == [j \in 1 .. k |-> Line(j)]

\* The file is one line after the other, each ended by a zero byte; only a full
\* file has a piece of a line after them.
EndsSound ==
  /\ \A k \in 1 .. Len(ends) : ends[k] <= Len(file) /\ file[ends[k]] = Nul
  /\ \A j, k \in 1 .. Len(ends) : j < k => ends[j] < ends[k]
  /\ \A n \in 1 .. Len(file) : file[n] = Nul => \E k \in 1 .. Len(ends) : ends[k] = n
  /\ Len(file) < BLOCK_SIZE => Start(Len(ends)) = Len(file) + 1

\* The line of a publisher that is about to store it is one of its messages.
MessagesKnown ==
  \A p \in Publishers : pc[p] \in {"open", "write", "close"} => message[p] \in Messages

\* A subscriber has a message to send.
Found(s) == pc[s] = "send" \/ (pc[s] = "probe" /\ bytes_read[s] > 0)

\* A subscriber has passed over k lines of the file: it will go on from where
\* the next one begins, or from the zero byte before, unless the file is full.
At(s, k) ==
  /\ \A j \in 1 .. Len(ends) : ends[j] <= bytes_processed[s] <=> j <= k
  /\ \/ bytes_processed[s] = Start(k) - 1
     \/ bytes_processed[s] = Start(k)
     \/ bytes_processed[s] > BLOCK_SIZE /\ Len(file) = BLOCK_SIZE

\* The k lines have been sent, or all but the last and it is in the buffer.
Sent(s, k) ==
  /\ ~Found(s) => Full(received[s]) = Full(Lines(k))
  /\ Found(s) => /\ k > 0 /\ bytes_processed[s] = ends[k] /\ buffer[s] = Line(k)
                 /\ Full(received[s]) = Full(Lines(k - 1))

\* A scan gathers the line that comes next, and has met no end of one.
Gathered(s, k) ==
  pc[s] = "scan" =>
    /\ \A n \in bytes_processed[s] + 1 .. count[s] : file[n] # Nul
    /\ buffer[s] = IF bytes_processed[s] > BLOCK_SIZE THEN <<>>
                     ELSE SubSeq(file, Start(k), count[s])

\* What a session starts from.
Cleared(s) ==
  /\ pc[s] \in {"open", "ended"} => buffer[s] = <<>>
  /\ pc[s] = "ended" => bytes_processed[s] = 0 /\ received[s] = <<>>

Follows(s) ==
  Cleared(s) /\ \E k \in 0 .. Len(ends) : At(s, k) /\ Sent(s, k) /\ Gathered(s, k)

InOrder == \A s \in Subscribers : Follows(s)

\* The inductive invariant of the log.
LogInv == IInv /\ EndsSound /\ MessagesKnown /\ InOrder

-----------------------------------------------------------------------------
\* The numbers the variables give.
LEMMA FileTyped ==
  ASSUME TypeOK
  PROVE  /\ file \in Seq(Byte) /\ Len(file) \in 0 .. BLOCK_SIZE
         /\ Len(ends) \in Nat /\ DOMAIN ends = 1 .. Len(ends)
         /\ \A k \in 1 .. Len(ends) : ends[k] \in 1 .. BLOCK_SIZE
<1>1. file \in Seq(Byte) /\ Len(file) <= BLOCK_SIZE /\ ends \in Seq(1 .. BLOCK_SIZE)
  BY DEF TypeOK, Byte
<1>2. Len(file) \in Nat
  BY <1>1, LenProperties
<1>3. Len(ends) \in Nat /\ DOMAIN ends = 1 .. Len(ends)
  BY <1>1, LenProperties
<1>4. \A k \in 1 .. Len(ends) : ends[k] \in 1 .. BLOCK_SIZE
  BY <1>1, ElementOfSeq
<1> QED
  BY <1>1, <1>2, <1>3, <1>4

\* A line lies between two zero bytes.
LEMMA LineTyped ==
  ASSUME TypeOK, EndsSound, NEW k \in 1 .. Len(ends)
  PROVE  /\ Line(k) = SubSeq(file, Start(k - 1), ends[k] - 1)
         /\ Start(k - 1) \in 1 .. ends[k]
         /\ Line(k) \in Seq(Byte)
<1>F. /\ file \in Seq(Byte) /\ Len(file) \in 0 .. BLOCK_SIZE /\ Len(ends) \in Nat
      /\ ends[k] \in 1 .. BLOCK_SIZE /\ ends[k] <= Len(file)
      /\ \A j \in 1 .. Len(ends) : ends[j] \in 1 .. BLOCK_SIZE
  BY FileTyped DEF EndsSound
<1>1. k - 1 = 0 <=> k = 1
  BY <1>F
<1>2. Line(k) = SubSeq(file, Start(k - 1), ends[k] - 1)
  BY <1>1 DEF Line, Start
<1>3. Start(k - 1) \in 1 .. ends[k]
  <2>1. CASE k = 1
    BY <1>F, <2>1 DEF Start
  <2>2. CASE k # 1
    <3>1. k - 1 \in 1 .. Len(ends) /\ k - 1 < k
      BY <1>F, <2>2
    <3>2. ends[k - 1] < ends[k] /\ ends[k - 1] \in 1 .. BLOCK_SIZE
      BY <1>F, <3>1 DEF EndsSound
    <3>3. Start(k - 1) = ends[k - 1] + 1
      BY <1>1, <2>2 DEF Start
    <3> QED
      BY <1>F, <3>2, <3>3
  <2> QED
    BY <2>1, <2>2
<1>4. SubSeq(file, Start(k - 1), ends[k] - 1) \in Seq(Byte)
  <2>1. PICK a \in Int, b \in Int : a = Start(k - 1) /\ b = ends[k] - 1
    BY <1>F, <1>3
  <2>2. \A n \in a .. b : n \in 1 .. Len(file)
    BY <1>F, <1>3, <2>1
  <2>3. \A n \in a .. b : file[n] \in Byte
    BY <1>F, <2>2, ElementOfSeq
  <2> QED
    BY <2>1, <2>3, SubSeqProperties
<1> QED
  BY <1>2, <1>3, <1>4

\* The lines up to the k-th are those before it and the k-th.
LEMMA LinesTyped ==
  ASSUME TypeOK, EndsSound, NEW k \in 0 .. Len(ends)
  PROVE  /\ Lines(k) \in Seq(Seq(Byte)) /\ Len(Lines(k)) = k
         /\ Lines(k) = FirstOf(Lines(Len(ends)), k)
         /\ k > 0 => Lines(k) = Append(Lines(k - 1), Line(k))
         /\ Stored = Full(Lines(Len(ends)))
<1>F. Len(ends) \in Nat /\ DOMAIN ends = 1 .. Len(ends)
  BY FileTyped
<1>1. ASSUME NEW n \in 0 .. Len(ends) PROVE Lines(n) \in Seq(Seq(Byte)) /\ Len(Lines(n)) = n
  <2>1. n \in Nat /\ \A j \in 1 .. n : j \in 1 .. Len(ends)
    BY <1>F
  <2>2. Lines(n) \in [1 .. n -> Seq(Byte)]
    BY <2>1, LineTyped DEF Lines
  <2> QED
    BY <2>1, <2>2
<1>2. ASSUME NEW n \in 0 .. Len(ends) PROVE Lines(n) = FirstOf(Lines(Len(ends)), n)
  <2>1. \A j \in 1 .. n : j \in 1 .. Len(ends)
    BY <1>F
  <2> QED
    BY <2>1 DEF FirstOf, Lines
<1>3. ASSUME k > 0 PROVE Lines(k) = Append(Lines(k - 1), Line(k))
  <2>1. /\ k - 1 \in 0 .. Len(ends) /\ k \in 1 .. Len(ends) /\ (k - 1) + 1 = k
        /\ k - 1 < Len(ends) /\ Len(ends) \in 0 .. Len(ends)
    BY <1>F, <1>3
  <2>2. PICK all : all = Lines(Len(ends))
    OBVIOUS
  <2>3. all \in Seq(Seq(Byte)) /\ Len(all) = Len(ends) /\ all[k] = Line(k)
    BY <1>1, <2>1, <2>2 DEF Lines
  <2>4. FirstOf(all, (k - 1) + 1) = Append(FirstOf(all, k - 1), all[(k - 1) + 1])
    BY <2>1, <2>3, FirstLines
  <2> QED
    BY <1>2, <2>1, <2>2, <2>3, <2>4
<1>4. Stored = Full(Lines(Len(ends)))
  BY <1>F DEF Stored, Lines
<1> QED
  BY <1>1, <1>2, <1>3, <1>4

\* What tfs_write stores: a whole line, or a piece that fills the file up.
LEMMA WriteStores ==
  ASSUME IInv, EndsSound, NEW p \in Publishers, PubWrite(p)
  PROVE  \E data \in Seq(Byte) :
           /\ Len(data) > 0 /\ file' = file \o data
           /\ Start(Len(ends)) = Len(file) + 1
           /\ \/ /\ data = Append(message[p], Nul)
                 /\ ends' = Append(ends, Len(file) + Len(data))
              \/ /\ ends' = ends /\ Len(file) + Len(data) = BLOCK_SIZE
                 /\ \A i \in 1 .. Len(data) : data[i] # Nul
<1> DEFINE line == Append(message[p], Nul)
<1>1. PICK n : n = Least(Len(line), BLOCK_SIZE - offset[p])
  OBVIOUS
<1> DEFINE data == SubSeq(line, 1, n)
<1>2. pc[p] = "write" /\ n > 0
  BY <1>1 DEF PubWrite, Goto
<1>3. message[p] \in Seq(Chars) /\ message[p] \in Seq(Byte) /\ Len(message[p]) \in Nat
  BY MessageTyped, LenProperties DEF IInv, Byte
<1>4. line \in Seq(Byte) /\ Len(line) = Len(message[p]) + 1
  BY <1>3, AppendProperties DEF Byte
<1>5. \A i \in 1 .. Len(message[p]) : line[i] \in Chars
  <2>1. \A i \in 1 .. Len(message[p]) : line[i] = message[p][i]
    BY <1>3, AppendProperties DEF Byte
  <2> QED
    BY <1>3, <2>1, ElementOfSeq
<1>6. /\ n \in 1 .. BLOCK_SIZE - Len(file)
      /\ data \in Seq(Byte) /\ Len(data) = n
  <2>1. n = Least(Len(message[p]) + 1, BLOCK_SIZE - offset[p])
    BY <1>1, <1>4
  <2> QED
    BY <1>2, <2>1, WrittenPart DEF Byte
<1>7. file \in Seq(Byte) /\ offset[p] = Len(file) /\ Len(file) \in 0 .. BLOCK_SIZE
  BY <1>2, FileTyped DEF IInv, WritesAtEnd
<1>8. file' = file \o data
  <2>1. file' = Overwrite(file, offset[p], data)
    BY <1>1 DEF PubWrite
  <2> HIDE DEF data
  <2> QED
    BY <1>6, <1>7, <2>1, OverwriteAtEnd
<1>9. Start(Len(ends)) = Len(file) + 1
  BY <1>6, <1>7 DEF EndsSound
<1>10. CASE n = Len(line)
  <2>1. data = line
    BY <1>4, <1>10, SubSeqFull
  <2>2. ends' = Append(ends, Len(file) + n)
    BY <1>1, <1>7, <1>10 DEF PubWrite
  <2> HIDE DEF data
  <2> QED
    BY <1>2, <1>6, <1>8, <1>9, <2>1, <2>2
<1>11. CASE n # Len(line)
  <2>1. ends' = ends
    BY <1>1, <1>11 DEF PubWrite
  <2>2. PICK l \in Nat : l = Len(message[p])
    BY <1>3
  <2>3. n = IF l + 1 <= BLOCK_SIZE - offset[p] THEN l + 1 ELSE BLOCK_SIZE - offset[p]
    BY <1>1, <1>4, <2>2 DEF Least
  <2>4. n = BLOCK_SIZE - Len(file) /\ n \in 1 .. l
    <3>1. n # l + 1
      BY <1>4, <1>11, <2>2
    <3> QED
      BY <1>2, <1>7, <2>2, <2>3, <3>1
  <2>5. \A i \in 1 .. n : line[i] \in Chars
    BY <1>5, <2>2, <2>4
  <2>6. ASSUME NEW i \in 1 .. n PROVE data[i] # Nul
    <3>1. line[i] \in Chars
      BY <2>5
    <3>2. \A j \in 1 .. n : line[j] \in Byte
      BY <2>5 DEF Byte
    <3>3. data[i] = line[i]
      <4> HIDE DEF line
      <4>1. 1 \in Int /\ n \in Int
        BY <2>2, <2>4
      <4>2. \A j \in 1 .. n - 1 + 1 : SubSeq(line, 1, n)[j] = line[1 + j - 1]
        BY <3>2, <4>1, SubSeqProperties
      <4>3. i \in 1 .. n - 1 + 1 /\ 1 + i - 1 = i
        BY <2>2, <2>4
      <4> QED
        BY <4>2, <4>3
    <3> QED
      BY <3>1, <3>3
  <2>7. Len(file) + n = BLOCK_SIZE
    BY <1>7, <2>4
  <2> HIDE DEF data
  <2> QED
    BY <1>2, <1>6, <1>8, <1>9, <2>1, <2>6, <2>7
<1> QED
  BY <1>10, <1>11

\* Lines that are stored stay as they are when the file grows.
LEMMA LinesStay ==
  ASSUME TypeOK, EndsSound, NEW data \in Seq(Byte), file' = file \o data,
         \A k \in 1 .. Len(ends) : ends'[k] = ends[k]
  PROVE  /\ \A k \in 0 .. Len(ends) : Start(k)' = Start(k) /\ Lines(k)' = Lines(k)
         /\ \A k \in 1 .. Len(ends) : Line(k)' = Line(k)
<1>F. /\ file \in Seq(Byte) /\ Len(file) \in 0 .. BLOCK_SIZE /\ Len(ends) \in Nat
      /\ \A k \in 1 .. Len(ends) : ends[k] \in 1 .. BLOCK_SIZE
  BY FileTyped
<1>1. \A k \in 0 .. Len(ends) : Start(k)' = Start(k)
  BY <1>F DEF Start
<1>2. ASSUME NEW k \in 1 .. Len(ends) PROVE Line(k)' = Line(k)
  <2>T. /\ Line(k) = SubSeq(file, Start(k - 1), ends[k] - 1)
        /\ Start(k - 1) \in 1 .. ends[k] /\ ends[k] <= Len(file)
    BY LineTyped DEF EndsSound
  <2>E. ends[k] \in 1 .. BLOCK_SIZE
    BY <1>F
  <2>N. Start(k - 1) \in Nat /\ ends[k] - 1 \in Nat
    BY <2>E, <2>T
  <2>1. PICK m \in Nat, n \in Nat : m = Start(k - 1) /\ n = ends[k] - 1
    BY <2>N
  <2>2. m >= 1 /\ n < Len(file) /\ n \in Nat
    BY <1>F, <2>E, <2>T, <2>1
  <2>3. Line(k) = SubSeq(file, m, n)
    BY <2>1, <2>T
  <2>4. Line(k)' = SubSeq(file', m, n)
    <3>1. k - 1 = 0 <=> k = 1
      BY <1>F
    <3>2. k # 1 => k - 1 \in 1 .. Len(ends)
      BY <1>F
    <3> QED
      BY <2>1, <3>1, <3>2 DEF Line, Start
  <2>5. SubSeq(file \o data, m, n) = SubSeq(file, m, n)
    <3>1. CASE n < m
      BY <3>1, SubSeqEmpty
    <3>2. CASE m <= n
      <4>1. m \in 1 .. Len(file) /\ n \in 1 .. Len(file)
        BY <1>F, <2>2, <3>2
      <4> QED
        BY <1>F, <4>1, SubSeqOfConcat1
    <3>3. n < m \/ m <= n
      OBVIOUS
    <3> QED
      BY <3>1, <3>2, <3>3
  <2> QED
    BY <2>3, <2>4, <2>5
<1>3. ASSUME NEW k \in 0 .. Len(ends) PROVE Lines(k)' = Lines(k)
  <2>1. \A j \in 1 .. k : j \in 1 .. Len(ends)
    BY <1>F
  <2> QED
    BY <1>2, <2>1 DEF Lines
<1> QED
  BY <1>1, <1>2, <1>3

\* A line that is stored whole comes after the others.
LEMMA LineStored ==
  ASSUME TypeOK, TypeOK', EndsSound, NEW line \in Seq(Byte), NEW data, data = Append(line, Nul),
         file' = file \o data, ends' = Append(ends, Len(file) + Len(data)),
         Start(Len(ends)) = Len(file) + 1, NEW new, new = Len(ends) + 1
  PROVE  /\ Len(ends') = new
         /\ \A k \in 1 .. Len(ends) : ends'[k] = ends[k]
         /\ ends'[new] = Len(file) + Len(data)
         /\ Len(data) = Len(line) + 1 /\ data \in Seq(Byte)
         /\ Line(new)' = line
<1>F. /\ file \in Seq(Byte) /\ Len(file) \in Nat /\ Len(ends) \in Nat
      /\ ends \in Seq(1 .. BLOCK_SIZE)
  <2>1. ends \in Seq(1 .. BLOCK_SIZE)
    BY Zenon DEF TypeOK
  <2>2. file \in Seq(Byte) /\ Len(file) \in 0 .. BLOCK_SIZE /\ Len(ends) \in Nat
    BY FileTyped, Zenon
  <2>3. Len(file) \in Nat
    BY <2>2, LenProperties, Zenon
  <2> QED
    BY <2>1, <2>2, <2>3, Zenon
<1>1. /\ data \in Seq(Byte) /\ Len(data) = Len(line) + 1 /\ Len(line) \in Nat
      /\ \A i \in 1 .. Len(line) : data[i] = line[i]
  BY LenProperties, AppendProperties DEF Byte
<1>2. /\ Len(ends') = new
      /\ \A k \in 1 .. Len(ends) : ends'[k] = ends[k]
      /\ ends'[new] = Len(file) + Len(data)
  <2>1. ends \in Seq(Int)
    BY <1>F
  <2>2. Len(file) + Len(data) \in Int
    BY <1>F, <1>1
  <2>3. PICK end \in Int : end = Len(file) + Len(data)
    BY <2>2
  <2>4. /\ Len(Append(ends, end)) = Len(ends) + 1
        /\ \A k \in 1 .. Len(ends) : Append(ends, end)[k] = ends[k]
        /\ Append(ends, end)[Len(ends) + 1] = end
    BY <2>1, AppendProperties
  <2> QED
    BY <2>3, <2>4
<1>N. Len(file) + 1 \in Nat /\ Len(line) \in Nat /\ (Len(file) + 1) + Len(line) - 1 \in Nat
  BY <1>F, <1>1
<1>3. PICK m \in Nat, n \in Nat, l \in Nat : m = Len(file) + 1 /\ l = Len(line) /\ n = m + l - 1
  BY <1>N
<1>4. Line(new)' = SubSeq(file', m, n)
  <2>1. new \in Nat /\ new - 1 = Len(ends) /\ new - 1 \in Nat
    BY <1>F
  <2>2. Line(new)' = SubSeq(file', IF new = 1 THEN 1 ELSE ends'[new - 1] + 1, ends'[new] - 1)
    BY DEF Line
  <2>3. (IF new = 1 THEN 1 ELSE ends'[new - 1] + 1) = m
    <3>1. new = 1 <=> Len(ends) = 0
      BY <1>F
    <3>2. Len(ends) # 0 => Len(ends) \in 1 .. Len(ends)
      BY <1>F
    <3>3. Len(ends) # 0 => ends'[Len(ends)] = ends[Len(ends)]
      BY <1>2, <3>2
    <3> QED
      BY <1>3, <2>1, <3>1, <3>3 DEF Start
  <2>4. ends'[new] - 1 = n
    <3>1. ends'[new] = Len(file) + Len(data) /\ Len(data) = l + 1
      BY <1>1, <1>2, <1>3
    <3>2. (Len(file) + (l + 1)) - 1 = (Len(file) + 1) + l - 1
      BY <1>F
    <3> QED
      BY <1>3, <3>1, <3>2
  <2> QED
    BY <2>2, <2>3, <2>4
<1>5. SubSeq(file', m, n) = line
  <2>1. \A i \in 1 .. Len(file) + Len(data) :
          (file \o data)[i] = IF i <= Len(file) THEN file[i] ELSE data[i - Len(file)]
    <3>1. file \in Seq(Byte) /\ data \in Seq(Byte)
      BY <1>F, <1>1, Zenon
    <3> HIDE DEF Byte
    <3> QED
      BY ONLY <3>1, ConcatProperties
  <2>2. ASSUME NEW i \in 1 .. l PROVE file'[m + i - 1] = line[i]
    <3>1. /\ m + i - 1 \in 1 .. Len(file) + Len(data) /\ ~(m + i - 1 <= Len(file))
          /\ (m + i - 1) - Len(file) = i
      BY <1>F, <1>1, <1>3
    <3> QED
      BY <1>1, <1>3, <2>1, <3>1
  <2>3. \A i \in m .. n : file'[i] \in Byte
    <3> TAKE i \in m .. n
    <3>1. i - m + 1 \in 1 .. l /\ m + (i - m + 1) - 1 = i
      BY <1>3
    <3>2. file'[m + (i - m + 1) - 1] = line[i - m + 1]
      BY <2>2, <3>1
    <3>3. line[i - m + 1] \in Byte
      BY <1>3, <3>1, ElementOfSeq
    <3> QED
      BY <3>1, <3>2, <3>3
  <2> DEFINE sub == SubSeq(file', m, n)
  <2>4. /\ sub \in Seq(Byte) /\ Len(sub) = IF m <= n THEN n - m + 1 ELSE 0
        /\ \A i \in 1 .. n - m + 1 : sub[i] = file'[m + i - 1]
    <3>1. PICK content : content = file'
      OBVIOUS
    <3>I. m \in Int /\ n \in Int
      OBVIOUS
    <3>2. \A i \in m .. n : content[i] \in Byte
      BY <2>3, <3>1, Zenon
    <3>3. /\ SubSeq(content, m, n) \in Seq(Byte)
          /\ Len(SubSeq(content, m, n)) = IF m <= n THEN n - m + 1 ELSE 0
          /\ \A i \in 1 .. n - m + 1 : SubSeq(content, m, n)[i] = content[m + i - 1]
      BY <3>2, <3>I, SubSeqProperties
    <3> QED
      BY <3>1, <3>3
  <2> HIDE DEF sub
  <2>5. Len(sub) = Len(line) /\ \A i \in 1 .. Len(sub) : sub[i] = line[i]
    <3>1. Len(sub) = l /\ n - m + 1 = l
      BY <1>3, <2>4
    <3> QED
      BY <1>3, <2>2, <2>4, <3>1
  <2> QED
    BY <2>4, <2>5, SeqEqual DEF sub
<1> QED
  BY <1>1, <1>2, <1>4, <1>5

-----------------------------------------------------------------------------
(* Every step keeps it *)

\* Only tfs_write changes the file.
LEMMA FileStays ==
  ASSUME [Next]_vars
  PROVE  UNCHANGED <<file, ends>> \/ \E p \in Publishers : PubWrite(p)
<1>1. CASE UNCHANGED vars
  BY <1>1 DEF vars, box, ghosts
<1>2. ASSUME NEW p \in Publishers, PublisherStep(p)
      PROVE  UNCHANGED <<file, ends>> \/ PubWrite(p)
  BY <1>2, Zenon DEF PublisherStep, PubWorks, PubStart, PubRead, PubOpen, PubWriteFails, PubClose,
     box, ghosts
<1>3. ASSUME NEW s \in Subscribers, SubscriberStep(s) PROVE UNCHANGED <<file, ends>>
  BY <1>3, Zenon DEF SubscriberStep, SubWorks, SubStart, SubOpen, ScanEnd, ScanByte, SubProbe,
     SubSend, Leave, box, ghosts
<1>4. CASE RemoveBox
  BY <1>4 DEF RemoveBox, ghosts
<1> QED
  BY <1>1, <1>2, <1>3, <1>4 DEF Next

\* A line stored whole comes after the others; a piece of one fills the file up.
LEMMA KeepsEndsSound == IInv /\ EndsSound /\ [Next]_vars => EndsSound'
<1> SUFFICES ASSUME IInv, EndsSound, [Next]_vars PROVE EndsSound'
  OBVIOUS
<1>1. CASE UNCHANGED <<file, ends>>
  BY <1>1 DEF EndsSound, Start
<1>2. ASSUME NEW p \in Publishers, PubWrite(p) PROVE EndsSound'
  <2>T. TypeOK /\ TypeOK'
    BY KeepsTypeOK DEF IInv
  <2>1. PICK data \in Seq(Byte) :
          /\ Len(data) > 0 /\ file' = file \o data
          /\ Start(Len(ends)) = Len(file) + 1
          /\ \/ /\ data = Append(message[p], Nul)
                /\ ends' = Append(ends, Len(file) + Len(data))
             \/ /\ ends' = ends /\ Len(file) + Len(data) = BLOCK_SIZE
                /\ \A i \in 1 .. Len(data) : data[i] # Nul
    BY <1>2, WriteStores
  <2>F. /\ file \in Seq(Byte) /\ Len(file) \in 0 .. BLOCK_SIZE /\ Len(ends) \in Nat
        /\ \A k \in 1 .. Len(ends) : ends[k] \in 1 .. BLOCK_SIZE
    BY <2>T, FileTyped
  <2>D. Len(data) \in Nat \ {0}
    BY <2>1, LenProperties
  <2>2. /\ Len(file') = Len(file) + Len(data)
        /\ \A i \in 1 .. Len(file) + Len(data) :
             file'[i] = IF i <= Len(file) THEN file[i] ELSE data[i - Len(file)]
    BY <2>1, <2>F, ConcatProperties
  <2>3. \A k \in 1 .. Len(ends) : ends[k] <= Len(file') /\ file'[ends[k]] = Nul
    <3> TAKE k \in 1 .. Len(ends)
    <3>1. ends[k] <= Len(file) /\ file[ends[k]] = Nul /\ ends[k] \in 1 .. BLOCK_SIZE
      BY <2>F DEF EndsSound
    <3>2. ends[k] \in 1 .. Len(file) + Len(data)
      BY <2>F, <2>D, <3>1
    <3> QED
      BY <2>F, <2>D, <2>2, <3>1, <3>2
  <2>4. \A n \in 1 .. Len(file') : n <= Len(file) /\ file'[n] = Nul =>
          \E k \in 1 .. Len(ends) : ends[k] = n
    <3> TAKE n \in 1 .. Len(file')
    <3> HAVE n <= Len(file) /\ file'[n] = Nul
    <3>1. n \in 1 .. Len(file) + Len(data) /\ n \in 1 .. Len(file)
      BY <2>2, <2>F, <2>D
    <3>2. file[n] = Nul
      BY <2>2, <3>1
    <3> QED
      BY <3>1, <3>2 DEF EndsSound
  <2>5. CASE /\ ends' = ends /\ Len(file) + Len(data) = BLOCK_SIZE
             /\ \A i \in 1 .. Len(data) : data[i] # Nul
    <3>1. \A n \in 1 .. Len(file') : file'[n] = Nul => n <= Len(file)
      <4> TAKE n \in 1 .. Len(file')
      <4>1. ASSUME ~(n <= Len(file)) PROVE file'[n] # Nul
        <5>1. n \in 1 .. Len(file) + Len(data) /\ n - Len(file) \in 1 .. Len(data)
          BY <2>2, <2>F, <2>D, <4>1
        <5>2. file'[n] = data[n - Len(file)]
          BY <2>2, <4>1, <5>1
        <5> QED
          BY <2>5, <5>1, <5>2
      <4> QED
        BY <4>1
    <3>2. ~(Len(file') < BLOCK_SIZE)
      BY <2>2, <2>5
    <3>3. \A j, k \in 1 .. Len(ends') : j < k => ends'[j] < ends'[k]
      BY <2>5 DEF EndsSound
    <3> QED
      BY <2>3, <2>4, <2>5, <3>1, <3>2, <3>3 DEF EndsSound
  <2>6. CASE /\ data = Append(message[p], Nul)
             /\ ends' = Append(ends, Len(file) + Len(data))
    <3>1. message[p] \in Seq(Byte) /\ message[p] \in Seq(Chars)
      BY <2>T, MessageTyped DEF Byte
    <3>2. PICK new \in Nat : new = Len(ends) + 1
      BY <2>F
    <3>3. /\ Len(ends') = new
          /\ \A k \in 1 .. Len(ends) : ends'[k] = ends[k]
          /\ ends'[new] = Len(file) + Len(data)
          /\ Len(data) = Len(message[p]) + 1
      BY <2>1, <2>T, <2>6, <3>1, <3>2, LineStored
    <3>4. data[Len(data)] = Nul /\ \A i \in 1 .. Len(message[p]) : data[i] = message[p][i]
      <4>1. Nul \in Byte
        BY DEF Byte
      <4> QED
        BY <2>6, <3>1, <3>3, <4>1, AppendProperties
    <3>5. \A i \in 1 .. Len(message[p]) : data[i] # Nul
      BY <3>1, <3>4, ElementOfSeq
    <3>6. /\ \A k \in 1 .. Len(ends') : k \in 1 .. Len(ends) \/ k = new
          /\ new \in 1 .. Len(ends')
      BY <2>F, <3>2, <3>3
    <3>7. file'[Len(file) + Len(data)] = Nul
      <4>1. /\ Len(file) + Len(data) \in 1 .. Len(file) + Len(data)
            /\ ~(Len(file) + Len(data) <= Len(file))
            /\ (Len(file) + Len(data)) - Len(file) = Len(data)
        BY <2>F, <2>D
      <4> QED
        BY <2>2, <3>4, <4>1
    <3>8. \A k \in 1 .. Len(ends') : ends'[k] <= Len(file') /\ file'[ends'[k]] = Nul
      <4>1. Len(file) + Len(data) <= Len(file) + Len(data)
        BY <2>F, <2>D
      <4> QED
        BY <2>2, <2>3, <3>3, <3>6, <3>7, <4>1
    <3>9. \A j, k \in 1 .. Len(ends') : j < k => ends'[j] < ends'[k]
      <4> TAKE j, k \in 1 .. Len(ends')
      <4> HAVE j < k
      <4>1. CASE k \in 1 .. Len(ends)
        <5>1. j \in 1 .. Len(ends)
          BY <2>F, <4>1
        <5> QED
          BY <3>3, <4>1, <5>1 DEF EndsSound
      <4>2. CASE k = new
        <5>1. j \in 1 .. Len(ends)
          BY <3>2, <3>6, <4>2
        <5>2. ends'[j] = ends[j] /\ ends[j] <= Len(file) /\ ends[j] \in 1 .. BLOCK_SIZE
          BY <2>F, <3>3, <5>1 DEF EndsSound
        <5> QED
          BY <2>F, <2>D, <3>3, <4>2, <5>2
      <4> QED
        BY <3>6, <4>1, <4>2
    <3>10. \A n \in 1 .. Len(file') : file'[n] = Nul => \E k \in 1 .. Len(ends') : ends'[k] = n
      <4> TAKE n \in 1 .. Len(file')
      <4> HAVE file'[n] = Nul
      <4>1. CASE n <= Len(file)
        <5>1. PICK k \in 1 .. Len(ends) : ends[k] = n
          BY <2>4, <4>1
        <5>2. k \in 1 .. Len(ends')
          BY <2>F, <3>2, <3>3
        <5> QED
          BY <3>3, <5>1, <5>2
      <4>2. CASE ~(n <= Len(file))
        <5>1. n \in 1 .. Len(file) + Len(data) /\ n - Len(file) \in 1 .. Len(data)
          BY <2>2, <2>F, <2>D, <4>2
        <5>2. data[n - Len(file)] = Nul
          BY <2>2, <4>2, <5>1
        <5>3. n - Len(file) \notin 1 .. Len(message[p])
          BY <3>5, <5>2
        <5>4. Len(message[p]) \in Nat
          BY <3>1, LenProperties
        <5>5. n = Len(file) + Len(data)
          <6>1. PICK l \in Nat : l = Len(message[p])
            BY <5>4
          <6>2. Len(data) = l + 1 /\ n - Len(file) \notin 1 .. l
            BY <3>3, <5>3, <6>1
          <6>3. n - Len(file) \in 1 .. l + 1
            BY <5>1, <6>2
          <6>4. n - Len(file) = l + 1
            BY <6>2, <6>3
          <6>5. n \in Int /\ Len(file) \in Int
            BY <2>F, <2>D, <5>1
          <6> QED
            BY <6>2, <6>4, <6>5
        <5> QED
          BY <3>3, <3>6, <5>5
      <4> QED
        BY <4>1, <4>2
    <3>11. Start(Len(ends))' = Len(file') + 1
      BY <2>2, <3>2, <3>3 DEF Start
    <3> QED
      BY <3>8, <3>9, <3>10, <3>11 DEF EndsSound
  <2> QED
    BY <2>1, <2>5, <2>6
<1> QED
  BY <1>1, <1>2, FileStays

\* A line is one the publisher has read, and is forgotten with its turn of the loop.
LEMMA KeepsMessagesKnown == IInv /\ MessagesKnown /\ [Next]_vars => MessagesKnown'
<1> SUFFICES ASSUME IInv, MessagesKnown, [Next]_vars PROVE MessagesKnown'
  OBVIOUS
<1>T. /\ message \in [Publishers -> Messages \cup {<<>>}]
      /\ DOMAIN pc = Sessions
  BY DEF IInv, TypeOK
<1>1. CASE UNCHANGED vars
  BY <1>1 DEF vars, publisherVars, MessagesKnown
<1>2. ASSUME NEW p \in Publishers, PublisherStep(p) PROVE MessagesKnown'
  <2> SUFFICES ASSUME NEW q \in Publishers, pc'[q] \in {"open", "write", "close"}
               PROVE  message'[q] \in Messages
    BY DEF MessagesKnown
  <2>1. CASE q # p
    <3>1. pc'[q] = pc[q] /\ message'[q] = message[q]
      BY <1>2, <1>T, <2>1 DEF PublisherStep, PubWorks, PubStart, PubRead, PubOpen, PubWrite,
         PubWriteFails, PubClose, Forget, Goto, publisherVars
    <3> QED
      BY <3>1 DEF MessagesKnown
  <2>2. CASE q = p
    <3>1. CASE PubStart(p) \/ PubWriteFails(p) \/ PubClose(p)
      BY <1>T, <2>2, <3>1 DEF PubStart, PubWriteFails, PubClose, Goto
    <3>2. CASE PubRead(p)
      <4>1. CASE Goto(p, "read", "open") /\ \E m \in Messages : message' = [message EXCEPT ![p] = m]
        BY <1>T, <2>2, <4>1
      <4>2. CASE Goto(p, "read", "ended")
        BY <1>T, <2>2, <4>2 DEF Goto
      <4> QED
        BY <3>2, <4>1, <4>2 DEF PubRead
    <3>3. CASE PubOpen(p)
      <4>1. CASE Goto(p, "open", "write") /\ UNCHANGED message
        BY <2>2, <4>1 DEF Goto, MessagesKnown
      <4>2. CASE Goto(p, "open", "ended")
        BY <1>T, <2>2, <4>2 DEF Goto
      <4> QED
        BY <3>3, <4>1, <4>2 DEF PubOpen
    <3>4. CASE PubWrite(p)
      BY <2>2, <3>4 DEF PubWrite, Goto, MessagesKnown
    <3> QED
      BY <1>2, <3>1, <3>2, <3>3, <3>4 DEF PublisherStep, PubWorks
  <2> QED
    BY <2>1, <2>2
<1>3. ASSUME NEW s \in Subscribers, SubscriberStep(s) PROVE MessagesKnown'
  <2>1. UNCHANGED message
    BY <1>3, Zenon DEF SubscriberStep, SubWorks, SubStart, SubOpen, ScanEnd, ScanByte, SubProbe,
       SubSend, Leave, publisherVars
  <2>2. \A p \in Publishers : pc'[p] = pc[p]
    <3> TAKE p \in Publishers
    <3>1. p # s
      OBVIOUS
    <3> QED
      BY <1>3, <1>T, <3>1 DEF SubscriberStep, SubWorks, SubStart, SubOpen, ScanEnd, ScanByte,
         SubProbe, SubSend, Leave, Goto
  <2> QED
    BY <2>1, <2>2 DEF MessagesKnown
<1>4. CASE RemoveBox
  BY <1>4 DEF RemoveBox, publisherVars, MessagesKnown
<1> QED
  BY <1>1, <1>2, <1>3, <1>4 DEF Next

\* The order of the ends, and how far from the beginning they are.
LEMMA EndsTyped ==
  ASSUME TypeOK, EndsSound, NEW k \in 0 .. Len(ends)
  PROVE  /\ k \in Nat
         /\ Start(k) \in 1 .. Len(file) + 1
         /\ k > 0 => k \in 1 .. Len(ends) /\ Start(k) = ends[k] + 1 /\ ends[k] \in Nat
         /\ k = 0 => Start(k) = 1
         /\ Start(k) <= Start(Len(ends)) /\ Start(Len(ends)) \in Nat
<1>F. /\ file \in Seq(Byte) /\ Len(file) \in 0 .. BLOCK_SIZE /\ Len(ends) \in Nat
      /\ \A j \in 1 .. Len(ends) : ends[j] \in 1 .. BLOCK_SIZE
  BY FileTyped
<1>1. ASSUME NEW j \in 1 .. Len(ends) PROVE Start(j) = ends[j] + 1 /\ ends[j] \in 1 .. Len(file)
  <2>1. j # 0 /\ ends[j] <= Len(file) /\ ends[j] \in 1 .. BLOCK_SIZE
    BY <1>F DEF EndsSound
  <2> QED
    BY <1>F, <2>1 DEF Start
<1>2. CASE k = 0
  <2>1. Start(0) = 1
    BY DEF Start
  <2>2. Start(Len(ends)) \in Nat /\ 1 <= Start(Len(ends))
    <3>1. CASE Len(ends) = 0
      BY <2>1, <3>1
    <3>2. CASE Len(ends) # 0
      BY <1>F, <1>1, <3>2
    <3> QED
      BY <3>1, <3>2
  <2> QED
    BY <1>F, <1>2, <2>1, <2>2
<1>3. CASE k # 0
  <2>1. k \in 1 .. Len(ends) /\ k \in Nat /\ Len(ends) \in 1 .. Len(ends)
    BY <1>F, <1>3
  <2>2. ends[k] <= ends[Len(ends)]
    <3>1. CASE k = Len(ends)
      BY <1>F, <2>1, <3>1
    <3>2. CASE k # Len(ends)
      <4>1. k < Len(ends)
        BY <1>F, <2>1, <3>2
      <4>2. ends[k] < ends[Len(ends)]
        BY <2>1, <4>1 DEF EndsSound
      <4> QED
        BY <1>F, <2>1, <4>2
    <3> QED
      BY <3>1, <3>2
  <2>3. /\ Start(k) = ends[k] + 1 /\ ends[k] \in 1 .. Len(file)
        /\ Start(Len(ends)) = ends[Len(ends)] + 1 /\ ends[Len(ends)] \in 1 .. Len(file)
    BY <1>1, <2>1
  <2> QED
    BY <1>F, <1>3, <2>1, <2>2, <2>3
<1> QED
  BY <1>2, <1>3

\* What LinesTyped says, as one formula of the state.
LinesFact ==
  \A k \in 0 .. Len(ends) :
    /\ Lines(k) \in Seq(Seq(Byte)) /\ Len(Lines(k)) = k
    /\ Lines(k) = FirstOf(Lines(Len(ends)), k)
    /\ k > 0 => Lines(k) = Append(Lines(k - 1), Line(k))
    /\ Stored = Full(Lines(Len(ends)))

\* So LinesFact holds before and after a step.
LEMMA LinesFactHolds == TypeOK /\ EndsSound => LinesFact
  BY LinesTyped DEF LinesFact

\* One more line at the end of the file.
LEMMA LinesGrow ==
  ASSUME IInv, EndsSound, [Next]_vars,
         NEW p \in Publishers, PubWrite(p), NEW data \in Seq(Byte),
         file' = file \o data, Start(Len(ends)) = Len(file) + 1,
         data = Append(message[p], Nul), ends' = Append(ends, Len(file) + Len(data))
  PROVE  /\ Len(ends') = Len(ends) + 1
         /\ ends'[Len(ends) + 1] = Len(file) + Len(data)
         /\ Len(data) = Len(message[p]) + 1 /\ Len(message[p]) \in Nat
         /\ message[p] \in Seq(Byte)
         /\ \A k \in 1 .. Len(ends) : ends'[k] = ends[k]
         /\ \A k \in 0 .. Len(ends) : Start(k)' = Start(k) /\ Lines(k)' = Lines(k)
         /\ \A k \in 1 .. Len(ends) : Line(k)' = Line(k)
         /\ \A new : new = Len(ends) + 1 =>
              /\ Lines(new)' = Append(Lines(Len(ends)), message[p])
              /\ Full(Lines(new)') = IF message[p] = <<>> THEN Stored
                                     ELSE Append(Stored, message[p])
              /\ Start(new)' = Len(file) + Len(data) + 1
<1>T. TypeOK /\ TypeOK' /\ EndsSound'
  BY KeepsTypeOK, KeepsEndsSound DEF IInv
<1>F. Len(ends) \in Nat
  BY <1>T, FileTyped
<1>M. message[p] \in Seq(Byte) /\ Len(message[p]) \in Nat
  BY <1>T, MessageTyped, LenProperties DEF Byte
<1> DEFINE new == Len(ends) + 1
<1>1. /\ Len(ends') = new
      /\ \A k \in 1 .. Len(ends) : ends'[k] = ends[k]
      /\ ends'[new] = Len(file) + Len(data)
      /\ Len(data) = Len(message[p]) + 1
  BY <1>T, <1>M, LineStored
<1>2. /\ \A k \in 0 .. Len(ends) : Start(k)' = Start(k) /\ Lines(k)' = Lines(k)
      /\ \A k \in 1 .. Len(ends) : Line(k)' = Line(k)
  BY <1>T, <1>1, LinesStay
<1>3. ASSUME NEW n, n = new
      PROVE  /\ Lines(n)' = Append(Lines(Len(ends)), message[p])
             /\ Full(Lines(n)') = IF message[p] = <<>> THEN Stored ELSE Append(Stored, message[p])
             /\ Start(n)' = Len(file) + Len(data) + 1
  <2>1. Line(n)' = message[p]
    BY <1>T, <1>M, <1>3, LineStored
  <2>2. LinesFact /\ LinesFact'
    BY <1>T, LinesFactHolds, PTL
  <2>3. n \in 0 .. Len(ends') /\ n > 0 /\ n - 1 = Len(ends) /\ Len(ends) \in 0 .. Len(ends)
    BY <1>F, <1>1, <1>3
  <2>4. Lines(n)' = Append(Lines(n - 1)', Line(n)')
    BY <2>2, <2>3 DEF LinesFact
  <2>5. PICK m : m = Len(ends)
    OBVIOUS
  <2>6. Lines(n - 1)' = Lines(Len(ends))
    <3>1. Lines(m)' = Lines(m)
      BY <1>2, <2>3, <2>5
    <3> QED
      BY <2>3, <2>5, <3>1
  <2>7. Lines(n)' = Append(Lines(Len(ends)), message[p])
    BY <2>1, <2>4, <2>6
  <2>8. Lines(Len(ends)) \in Seq(Seq(Byte)) /\ Stored = Full(Lines(Len(ends)))
    BY <2>2, <2>3 DEF LinesFact
  <2>9. Full(Append(Lines(Len(ends)), message[p])) =
          IF message[p] = <<>> THEN Stored ELSE Append(Stored, message[p])
    BY <1>M, <2>8, FullAppend
  <2>10. Start(n)' = Len(file) + Len(data) + 1
    BY <1>1, <1>3, <2>3 DEF Start
  <2> QED
    BY <2>7, <2>9, <2>10
<1> QED
  BY <1>1, <1>2, <1>3, <1>M

\* What a subscriber has passed over is not affected by what is written after.
LEMMA WriteKeepsFollows ==
  ASSUME IInv, EndsSound, [Next]_vars, NEW p \in Publishers, PubWrite(p),
         NEW s \in Subscribers, Follows(s)
  PROVE  Follows(s)'
<1>T. TypeOK /\ TypeOK' /\ EndsSound'
  BY KeepsTypeOK, KeepsEndsSound DEF IInv
<1>1. PICK data \in Seq(Byte) :
        /\ Len(data) > 0 /\ file' = file \o data
        /\ Start(Len(ends)) = Len(file) + 1
        /\ \/ /\ data = Append(message[p], Nul)
              /\ ends' = Append(ends, Len(file) + Len(data))
           \/ /\ ends' = ends /\ Len(file) + Len(data) = BLOCK_SIZE
              /\ \A i \in 1 .. Len(data) : data[i] # Nul
  BY WriteStores
<1>F. /\ file \in Seq(Byte) /\ Len(file) \in 0 .. BLOCK_SIZE /\ Len(ends) \in Nat
      /\ \A k \in 1 .. Len(ends) : ends[k] \in 1 .. BLOCK_SIZE
  BY <1>T, FileTyped
<1>D. Len(data) \in Nat \ {0} /\ Len(file') = Len(file) + Len(data) /\ Len(file') <= BLOCK_SIZE
  <2>1. Len(data) \in Nat
    BY LenProperties
  <2>2. Len(file') = Len(file) + Len(data)
    BY <1>1, <1>F, ConcatProperties
  <2> QED
    BY <1>1, <1>T, <2>1, <2>2 DEF TypeOK
<1>2. PICK k \in 0 .. Len(ends) : At(s, k) /\ Sent(s, k) /\ Gathered(s, k)
  BY DEF Follows
<1>3. /\ pc'[s] = pc[s] /\ buffer' = buffer /\ received' = received
      /\ bytes_processed' = bytes_processed /\ bytes_read' = bytes_read
  BY <1>T DEF PubWrite, Goto, TypeOK, subscriberVars
<1>4. pc[s] \notin Scans
  <2>1. pc[p] = "write" /\ p # s
    BY DEF PubWrite, Goto
  <2> QED
    BY <2>1 DEF IInv, HolderLocks
<1>5. Cleared(s)' /\ Gathered(s, k)'
  BY <1>3, <1>4 DEF Follows, Cleared, Gathered
<1>6. Found(s)' <=> Found(s)
  BY <1>3 DEF Found
<1>K. /\ k \in Nat /\ Start(k) \in 1 .. Len(file) + 1
      /\ k > 0 => k \in 1 .. Len(ends) /\ Start(k) = ends[k] + 1 /\ ends[k] \in Nat
      /\ bytes_processed[s] \in Nat
  <2>1. bytes_processed[s] \in 0 .. BLOCK_SIZE + 1
    BY <1>T DEF TypeOK
  <2> QED
    BY <1>T, <2>1, EndsTyped
<1>7. bytes_processed[s] = Start(k) - 1 \/ bytes_processed[s] = Start(k)
  BY <1>2, <1>D, <1>F DEF At
<1>8. CASE /\ ends' = ends /\ Len(file) + Len(data) = BLOCK_SIZE
           /\ \A i \in 1 .. Len(data) : data[i] # Nul
  <2>1. /\ \A j \in 0 .. Len(ends) : Start(j)' = Start(j) /\ Lines(j)' = Lines(j)
        /\ \A j \in 1 .. Len(ends) : Line(j)' = Line(j)
    BY <1>1, <1>8, <1>T, LinesStay
  <2>2. At(s, k)'
    BY <1>2, <1>3, <1>7, <1>8, <2>1 DEF At
  <2>3. Sent(s, k)'
    <3>1. ~Found(s) => Full(received'[s]) = Full(Lines(k)')
      BY <1>2, <1>3, <2>1 DEF Sent
    <3>2. ASSUME Found(s)
          PROVE  /\ k > 0 /\ bytes_processed'[s] = ends'[k] /\ buffer'[s] = Line(k)'
                 /\ Full(received'[s]) = Full(Lines(k - 1)')
      <4>1. /\ k > 0 /\ bytes_processed[s] = ends[k] /\ buffer[s] = Line(k)
            /\ Full(received[s]) = Full(Lines(k - 1))
        BY <1>2, <3>2 DEF Sent
      <4>2. k \in 1 .. Len(ends) /\ k - 1 \in 0 .. Len(ends)
        BY <1>F, <1>K, <4>1
      <4>3. Line(k)' = Line(k) /\ Lines(k - 1)' = Lines(k - 1)
        BY <2>1, <4>2
      <4> QED
        BY <1>3, <1>8, <4>1, <4>3
    <3> QED
      BY <1>6, <3>1, <3>2 DEF Sent
  <2> QED
    BY <1>5, <1>8, <2>2, <2>3 DEF Follows
<1>9. CASE /\ data = Append(message[p], Nul)
           /\ ends' = Append(ends, Len(file) + Len(data))
  <2>1. PICK new \in Nat : new = Len(ends) + 1
    BY <1>F
  <2>2. /\ Len(ends') = Len(ends) + 1
        /\ ends'[Len(ends) + 1] = Len(file) + Len(data)
        /\ Len(data) = Len(message[p]) + 1 /\ Len(message[p]) \in Nat
        /\ message[p] \in Seq(Byte)
        /\ \A j \in 1 .. Len(ends) : ends'[j] = ends[j]
        /\ \A j \in 0 .. Len(ends) : Start(j)' = Start(j) /\ Lines(j)' = Lines(j)
        /\ \A j \in 1 .. Len(ends) : Line(j)' = Line(j)
        /\ \A n : n = Len(ends) + 1 =>
              /\ Lines(n)' = Append(Lines(Len(ends)), message[p])
              /\ Full(Lines(n)') = IF message[p] = <<>> THEN Stored ELSE Append(Stored, message[p])
              /\ Start(n)' = Len(file) + Len(data) + 1
    BY <1>1, <1>9, LinesGrow
  <2>3. \A j \in 1 .. Len(ends') : j \in 1 .. Len(ends) \/ j = new
    BY <1>F, <2>1, <2>2
  <2>4. k \in 0 .. Len(ends') /\ new \in 0 .. Len(ends')
    BY <1>F, <1>K, <2>1, <2>2
  <2>5. CASE bytes_processed[s] < Len(file) + Len(data)
    <3>1. At(s, k)'
      <4>1. \A j \in 1 .. Len(ends') : ends'[j] <= bytes_processed'[s] <=> j <= k
        <5> TAKE j \in 1 .. Len(ends')
        <5>1. CASE j \in 1 .. Len(ends)
          BY <1>2, <1>3, <2>2, <5>1 DEF At
        <5>2. CASE j = new
          <6>1. ~(new <= k)
            BY <1>F, <1>K, <2>1
          <6>2. ends'[new] = Len(file) + Len(data)
            BY <2>1, <2>2
          <6>3. ~(Len(file) + Len(data) <= bytes_processed[s])
            BY <1>F, <1>D, <1>K, <2>5
          <6> QED
            BY <1>3, <5>2, <6>1, <6>2, <6>3
        <5> QED
          BY <2>3, <5>1, <5>2
      <4>2. Start(k)' = Start(k)
        BY <2>2
      <4> QED
        BY <1>3, <1>7, <4>1, <4>2 DEF At
    <3>2. Sent(s, k)'
      <4>1. ~Found(s) => Full(received'[s]) = Full(Lines(k)')
        BY <1>2, <1>3, <2>2 DEF Sent
      <4>2. ASSUME Found(s)
            PROVE  /\ k > 0 /\ bytes_processed'[s] = ends'[k] /\ buffer'[s] = Line(k)'
                   /\ Full(received'[s]) = Full(Lines(k - 1)')
        <5>1. /\ k > 0 /\ bytes_processed[s] = ends[k] /\ buffer[s] = Line(k)
              /\ Full(received[s]) = Full(Lines(k - 1))
          BY <1>2, <4>2 DEF Sent
        <5>2. k \in 1 .. Len(ends) /\ k - 1 \in 0 .. Len(ends)
          BY <1>F, <1>K, <5>1
        <5>3. Line(k)' = Line(k) /\ Lines(k - 1)' = Lines(k - 1) /\ ends'[k] = ends[k]
          BY <2>2, <5>2
        <5> QED
          BY <1>3, <5>1, <5>3
      <4> QED
        BY <1>6, <4>1, <4>2 DEF Sent
    <3> QED
      BY <1>5, <2>4, <3>1, <3>2 DEF Follows
  <2>6. CASE ~(bytes_processed[s] < Len(file) + Len(data))
    <3>1. /\ bytes_processed[s] = Len(file) + 1 /\ Len(data) = 1 /\ Start(k) = Len(file) + 1
      <4>1. PICK b \in Nat, f \in Nat, d \in Nat, n \in Nat :
              b = bytes_processed[s] /\ f = Len(file) /\ d = Len(data) /\ n = Start(k)
        <5>1. /\ bytes_processed[s] \in Nat /\ Len(file) \in Nat /\ Len(data) \in Nat
              /\ Start(k) \in Nat
          BY <1>D, <1>F, <1>K
        <5> QED
          BY <5>1
      <4>2. (b = n - 1 \/ b = n) /\ d > 0 /\ n <= f + 1 /\ ~(b < f + d)
        BY <1>1, <1>7, <1>F, <1>K, <2>6, <4>1
      <4>3. b = f + 1 /\ d = 1 /\ n = f + 1
        BY <4>2
      <4> QED
        BY <4>1, <4>3
    <3>2. k = Len(ends)
      <4>1. ASSUME k < Len(ends) PROVE FALSE
        <5>1. Len(ends) \in 1 .. Len(ends) /\ ~(Len(ends) <= k)
          BY <1>F, <1>K, <4>1
        <5>2. ~(ends[Len(ends)] <= bytes_processed[s])
          BY <1>2, <5>1 DEF At
        <5>3. ends[Len(ends)] <= Len(file) /\ ends[Len(ends)] \in 1 .. BLOCK_SIZE
          BY <1>F, <5>1 DEF EndsSound
        <5> QED
          BY <1>F, <3>1, <5>2, <5>3
      <4> QED
        BY <1>F, <1>K, <4>1
    <3>3. ~Found(s)
      <4>1. ASSUME Found(s) PROVE FALSE
        <5>1. k > 0 /\ bytes_processed[s] = ends[k]
          BY <1>2, <4>1 DEF Sent
        <5>2. ends[k] \in Nat /\ Start(k) = ends[k] + 1
          BY <1>K, <5>1
        <5> QED
          BY <3>1, <5>1, <5>2
      <4> QED
        BY <4>1
    <3>4. message[p] = <<>>
      <4>1. Len(message[p]) = 0
        <5>1. PICK l \in Nat : l = Len(message[p])
          BY <2>2
        <5>2. l + 1 = 1
          BY <2>2, <3>1, <5>1
        <5> QED
          BY <5>1, <5>2
      <4> QED
        BY <2>2, <4>1, EmptySeq
    <3>5. At(s, new)'
      <4>1. \A j \in 1 .. Len(ends') : ends'[j] <= bytes_processed'[s] <=> j <= new
        <5> TAKE j \in 1 .. Len(ends')
        <5>1. CASE j \in 1 .. Len(ends)
          <6>1. j <= new
            BY <1>F, <2>1, <5>1
          <6>2. ends'[j] = ends[j] /\ ends[j] <= Len(file) /\ ends[j] \in 1 .. BLOCK_SIZE
            BY <1>F, <2>2, <5>1 DEF EndsSound
          <6> QED
            BY <1>3, <1>F, <3>1, <6>1, <6>2
        <5>2. CASE j = new
          <6>1. ends'[j] = Len(file) + 1
            BY <2>1, <2>2, <3>1, <5>2
          <6> QED
            BY <1>3, <1>F, <2>1, <3>1, <5>2, <6>1
        <5> QED
          BY <2>3, <5>1, <5>2
      <4>2. Start(new)' = (Len(file) + 1) + 1
        BY <2>1, <2>2, <3>1
      <4>3. bytes_processed'[s] = Start(new)' - 1
        BY <1>3, <1>F, <3>1, <4>2
      <4> QED
        BY <4>1, <4>3 DEF At
    <3>6. Sent(s, new)'
      <4>1. Full(received[s]) = Full(Lines(Len(ends)))
        BY <1>2, <3>2, <3>3 DEF Sent
      <4>2. Full(Lines(new)') = Stored
        BY <2>1, <2>2, <3>4
      <4>3. Stored = Full(Lines(Len(ends)))
        <5>1. Len(ends) \in 0 .. Len(ends)
          BY <1>F
        <5> QED
          BY <1>T, <5>1, LinesFactHolds DEF LinesFact
      <4> QED
        BY <1>3, <1>6, <3>3, <4>1, <4>2, <4>3 DEF Sent
    <3>7. Gathered(s, new)'
      BY <1>3, <1>4 DEF Gathered
    <3> QED
      BY <1>5, <2>4, <3>5, <3>6, <3>7 DEF Follows
  <2> QED
    BY <2>5, <2>6
<1> QED
  BY <1>1, <1>8, <1>9

\* What holds of a subscriber goes on as long as nothing of it changes.
LEMMA IdleKeepsFollows ==
  ASSUME NEW s \in Subscribers, Follows(s), UNCHANGED <<file, ends>>,
         pc'[s] = pc[s], bytes_processed'[s] = bytes_processed[s],
         buffer'[s] = buffer[s], received'[s] = received[s],
         bytes_read'[s] = bytes_read[s], count'[s] = count[s]
  PROVE  Follows(s)'
<1>1. PICK k \in 0 .. Len(ends) : At(s, k) /\ Sent(s, k) /\ Gathered(s, k)
  BY DEF Follows
<1>2. Start(k)' = Start(k) /\ Lines(k)' = Lines(k) /\ Lines(k - 1)' = Lines(k - 1)
      /\ Line(k)' = Line(k)
  BY DEF Start, Lines, Line
<1>3. At(s, k)'
  BY <1>1, <1>2 DEF At
<1>4. Sent(s, k)'
  BY <1>1, <1>2 DEF Sent, Found
<1>5. Gathered(s, k)'
  BY <1>1, <1>2 DEF Gathered
<1>6. Cleared(s)'
  BY DEF Follows, Cleared
<1> QED
  BY <1>1, <1>3, <1>4, <1>5, <1>6 DEF Follows

\* A session that is over has passed over nothing and has nothing in its buffer.
LEMMA EndFollows ==
  ASSUME TypeOK, EndsSound, NEW s \in Subscribers, UNCHANGED <<file, ends>>,
         SubEnd(s), pc'[s] = "ended", buffer'[s] = <<>>
  PROVE  Follows(s)'
<1>F. Len(ends) \in Nat /\ \A k \in 1 .. Len(ends) : ends[k] \in 1 .. BLOCK_SIZE
  BY FileTyped
<1>1. bytes_processed'[s] = 0 /\ received'[s] = <<>>
  BY DEF SubEnd, TypeOK
<1>2. Start(0)' = 1 /\ Lines(0)' = <<>>
  <2>1. \A j : j \notin 1 .. 0
    OBVIOUS
  <2> QED
    BY <2>1 DEF Start, Lines
<1>3. At(s, 0)'
  BY <1>F, <1>1, <1>2 DEF At
<1>4. Sent(s, 0)'
  BY <1>1, <1>2 DEF Sent, Found
<1>5. Gathered(s, 0)' /\ Cleared(s)'
  BY <1>1 DEF Gathered, Cleared
<1>6. 0 \in 0 .. Len(ends')
  BY <1>F
<1> QED
  BY <1>3, <1>4, <1>5, <1>6 DEF Follows

\* A session that begins has passed over nothing.
LEMMA StartKeepsFollows ==
  ASSUME TypeOK, NEW s \in Subscribers, Follows(s), SubStart(s)
  PROVE  Follows(s)'
<1>1. PICK k \in 0 .. Len(ends) : At(s, k) /\ Sent(s, k) /\ Gathered(s, k)
  BY DEF Follows
<1>2. /\ pc[s] = "ended" /\ pc'[s] = "open" /\ UNCHANGED <<file, ends>>
      /\ bytes_processed'[s] = bytes_processed[s] /\ buffer'[s] = buffer[s]
      /\ received'[s] = received[s] /\ bytes_read'[s] = bytes_read[s]
  BY DEF SubStart, Goto, TypeOK, box, subscriberVars, ghosts
<1>3. Start(k)' = Start(k) /\ Lines(k)' = Lines(k)
  BY <1>2 DEF Start, Lines, Line
<1>4. At(s, k)' /\ Sent(s, k)' /\ Gathered(s, k)' /\ Cleared(s)'
  BY <1>1, <1>2, <1>3 DEF At, Sent, Found, Gathered, Cleared, Follows
<1> QED
  BY <1>1, <1>2, <1>4 DEF Follows

\* A scan starts from the first byte, with nothing gathered.
LEMMA OpenKeepsFollows ==
  ASSUME IInv, EndsSound, NEW s \in Subscribers, Follows(s), SubOpen(s)
  PROVE  Follows(s)'
<1>T. TypeOK
  BY DEF IInv
<1>1. PICK k \in 0 .. Len(ends) : At(s, k) /\ Sent(s, k) /\ Gathered(s, k)
  BY DEF Follows
<1>2. /\ pc[s] = "open" /\ UNCHANGED <<file, ends, buffer, count, bytes_read>>
      /\ buffer[s] = <<>> /\ count[s] = 0
  BY DEF SubOpen, Goto, box, Follows, Cleared, IInv, CountInFile
<1>3. CASE Goto(s, "open", "scan") /\ UNCHANGED <<bytes_processed, client, received>>
  <2>1. pc'[s] = "scan"
    BY <1>T, <1>3 DEF Goto, TypeOK
  <2>2. Start(k)' = Start(k) /\ Lines(k)' = Lines(k)
    BY <1>2 DEF Start, Lines, Line
  <2>3. Start(k) \in Nat \ {0} /\ bytes_processed[s] \in Nat
    <3>1. Start(k) \in 1 .. Len(file) + 1
      BY <1>T, EndsTyped
    <3>2. bytes_processed[s] \in 0 .. BLOCK_SIZE + 1
      BY <1>T DEF TypeOK
    <3> QED
      BY <3>1, <3>2
  <2>4. SubSeq(file, Start(k), 0) = <<>>
    BY <2>3, SubSeqEmpty
  <2>5. Gathered(s, k)'
    <3>1. \A n \in bytes_processed[s] + 1 .. 0 : FALSE
      BY <2>3
    <3>2. SubSeq(file', Start(k)', count'[s]) = <<>>
      BY <1>2, <2>2, <2>4
    <3> QED
      BY <1>2, <1>3, <3>1, <3>2 DEF Gathered
  <2>6. At(s, k)' /\ Sent(s, k)' /\ Cleared(s)'
    BY <1>1, <1>2, <1>3, <2>1, <2>2 DEF At, Sent, Found, Cleared
  <2> QED
    BY <1>2, <2>5, <2>6 DEF Follows
<1>4. CASE Goto(s, "open", "ended") /\ SubEnd(s)
  <2>1. pc'[s] = "ended"
    BY <1>T, <1>4 DEF Goto, TypeOK
  <2> QED
    BY <1>T, <1>2, <1>4, <2>1, EndFollows
<1> QED
  BY <1>3, <1>4 DEF SubOpen

\* The end of the file: every line has been passed over and sent.
LEMMA EndKeepsFollows ==
  ASSUME IInv, EndsSound, NEW s \in Subscribers, Follows(s), ScanEnd(s)
  PROVE  Follows(s)'
<1>T. TypeOK
  BY DEF IInv
<1>F. /\ Len(file) \in 0 .. BLOCK_SIZE /\ Len(ends) \in Nat
      /\ \A j \in 1 .. Len(ends) : ends[j] \in 1 .. BLOCK_SIZE
  BY <1>T, FileTyped
<1>1. PICK k \in 0 .. Len(ends) : At(s, k) /\ Sent(s, k) /\ Gathered(s, k)
  BY DEF Follows
<1>2. /\ pc[s] = "scan" /\ pc'[s] = "probe" /\ UNCHANGED <<file, ends, buffer, received>>
      /\ count[s] = Len(file) /\ bytes_read'[s] = 0
      /\ bytes_processed'[s] = Len(file) + 1
  BY <1>T DEF ScanEnd, Goto, TypeOK, box, ghosts
<1>3. k = Len(ends)
  <2>1. ASSUME k < Len(ends) PROVE FALSE
    <3>1. Len(ends) \in 1 .. Len(ends) /\ ~(Len(ends) <= k)
      BY <1>F, <2>1
    <3>2. ~(ends[Len(ends)] <= bytes_processed[s])
      BY <1>1, <3>1 DEF At
    <3>3. /\ ends[Len(ends)] <= Len(file) /\ file[ends[Len(ends)]] = Nul
          /\ ends[Len(ends)] \in 1 .. BLOCK_SIZE
      BY <1>F, <3>1 DEF EndsSound
    <3>4. bytes_processed[s] \in 0 .. BLOCK_SIZE + 1
      BY <1>T DEF TypeOK
    <3>5. ends[Len(ends)] \in bytes_processed[s] + 1 .. count[s]
      BY <1>F, <1>2, <3>2, <3>3, <3>4
    <3> QED
      BY <1>1, <1>2, <3>3, <3>5 DEF Gathered
  <2> QED
    BY <1>F, <2>1
<1>4. At(s, k)'
  <2>1. \A j \in 1 .. Len(ends) : ends[j] <= Len(file) + 1 <=> j <= k
    <3> TAKE j \in 1 .. Len(ends)
    <3>1. ends[j] <= Len(file) /\ ends[j] \in 1 .. BLOCK_SIZE
      BY <1>F DEF EndsSound
    <3> QED
      BY <1>F, <1>3, <3>1
  <2>2. Start(k)' = Start(k)
    BY <1>2 DEF Start
  <2>3. CASE Len(file) < BLOCK_SIZE
    <3>1. Start(k) = Len(file) + 1
      BY <1>3, <2>3 DEF EndsSound
    <3> QED
      BY <1>2, <2>1, <2>2, <3>1 DEF At
  <2>4. CASE ~(Len(file) < BLOCK_SIZE)
    <3>1. Len(file) = BLOCK_SIZE /\ Len(file) + 1 > BLOCK_SIZE
      BY <1>F, <2>4
    <3> QED
      BY <1>2, <2>1, <3>1 DEF At
  <2> QED
    BY <2>3, <2>4
<1>5. Sent(s, k)'
  <2>1. Lines(k)' = Lines(k)
    BY <1>2 DEF Lines, Line
  <2>2. ~Found(s) /\ ~Found(s)'
    BY <1>2 DEF Found
  <2> QED
    BY <1>1, <1>2, <2>1, <2>2 DEF Sent
<1>6. Gathered(s, k)' /\ Cleared(s)'
  BY <1>2 DEF Gathered, Cleared
<1> QED
  BY <1>1, <1>2, <1>4, <1>5, <1>6 DEF Follows

\* What a probe finds: a message to send, or none, or that the client has left.
LEMMA ProbeKeepsFollows ==
  ASSUME IInv, EndsSound, NEW s \in Subscribers, Follows(s), SubProbe(s)
  PROVE  Follows(s)'
<1>T. TypeOK
  BY DEF IInv
<1>1. PICK k \in 0 .. Len(ends) : At(s, k) /\ Sent(s, k) /\ Gathered(s, k)
  BY DEF Follows
<1> DEFINE sends == client[s] # "gone" /\ bytes_read[s] > 0
<1>2. /\ pc[s] = "probe" /\ UNCHANGED <<file, ends>>
      /\ buffer'[s] = IF sends THEN buffer[s] ELSE <<>>
  BY <1>T DEF SubProbe, Goto, TypeOK, box
<1>3. CASE client[s] = "gone" /\ Goto(s, "probe", "ended") /\ SubEnd(s)
  <2>1. pc'[s] = "ended" /\ buffer'[s] = <<>>
    BY <1>T, <1>2, <1>3 DEF Goto, TypeOK
  <2> QED
    BY <1>T, <1>2, <1>3, <2>1, EndFollows
<1>4. CASE /\ client[s] # "gone" /\ Goto(s, "probe", IF sends THEN "send" ELSE "open")
           /\ UNCHANGED <<bytes_processed, client, received>>
  <2>1. pc'[s] = IF sends THEN "send" ELSE "open"
    BY <1>T, <1>4 DEF Goto, TypeOK
  <2>2. /\ Start(k)' = Start(k) /\ Lines(k)' = Lines(k) /\ Lines(k - 1)' = Lines(k - 1)
        /\ Line(k)' = Line(k)
    BY <1>2 DEF Start, Lines, Line
  <2>3. At(s, k)'
    BY <1>1, <1>2, <1>4, <2>2 DEF At
  <2>4. Found(s)' <=> Found(s)
    BY <1>2, <1>4, <2>1 DEF Found
  <2>5. Found(s) => buffer'[s] = buffer[s]
    BY <1>2, <1>4 DEF Found
  <2>6. Sent(s, k)'
    BY <1>1, <1>2, <1>4, <2>2, <2>4, <2>5 DEF Sent
  <2>7. Gathered(s, k)' /\ Cleared(s)'
    BY <1>2, <2>1 DEF Gathered, Cleared
  <2> QED
    BY <1>1, <1>2, <2>3, <2>6, <2>7 DEF Follows
<1> QED
  BY <1>3, <1>4 DEF SubProbe

\* The message goes to the client: the lines up to it have been sent.
LEMMA SendKeepsFollows ==
  ASSUME IInv, EndsSound, NEW s \in Subscribers, Follows(s), SubSend(s)
  PROVE  Follows(s)'
<1>T. TypeOK
  BY DEF IInv
<1>1. PICK k \in 0 .. Len(ends) : At(s, k) /\ Sent(s, k) /\ Gathered(s, k)
  BY DEF Follows
<1>2. pc[s] = "send" /\ UNCHANGED <<file, ends, bytes_processed, count, bytes_read>>
  BY DEF SubSend, Goto, box
<1>3. CASE client[s] = "here"
  <2>1. /\ pc'[s] = "open" /\ buffer'[s] = <<>>
        /\ received'[s] = Append(received[s], buffer[s])
    BY <1>T, <1>3 DEF SubSend, Goto, TypeOK
  <2>2. /\ k > 0 /\ buffer[s] = Line(k)
        /\ Full(received[s]) = Full(Lines(k - 1))
    BY <1>1, <1>2 DEF Sent, Found
  <2>3. /\ Start(k)' = Start(k) /\ Lines(k)' = Lines(k)
    BY <1>2 DEF Start, Lines, Line
  <2>4. At(s, k)'
    BY <1>1, <1>2, <2>3 DEF At
  <2>5. received[s] \in Seq(Seq(Chars)) /\ buffer[s] \in Seq(Chars)
    BY <1>T DEF TypeOK
  <2>6. Full(Append(received[s], buffer[s])) =
          IF buffer[s] = <<>> THEN Full(received[s]) ELSE Append(Full(received[s]), buffer[s])
    BY <2>5, FullAppend
  <2>7. Len(ends) \in Nat
    BY <1>T, FileTyped
  <2>8. k \in 1 .. Len(ends) /\ k - 1 \in 0 .. Len(ends)
    BY <2>2, <2>7
  <2>9. /\ Lines(k) = Append(Lines(k - 1), Line(k)) /\ Lines(k - 1) \in Seq(Seq(Byte))
        /\ Line(k) \in Seq(Byte)
    BY <1>T, <2>2, <2>8, LinesTyped, LineTyped
  <2>10. Full(Lines(k)) = IF Line(k) = <<>> THEN Full(Lines(k - 1))
                          ELSE Append(Full(Lines(k - 1)), Line(k))
    <3>1. PICK before \in Seq(Seq(Byte)), line \in Seq(Byte) : before = Lines(k - 1) /\ line = Line(k)
      BY <2>9
    <3>2. Full(Append(before, line)) = IF line = <<>> THEN Full(before) ELSE Append(Full(before), line)
      BY FullAppend
    <3> QED
      BY <2>9, <3>1, <3>2
  <2>11. Sent(s, k)'
    BY <2>1, <2>2, <2>3, <2>6, <2>10 DEF Sent, Found
  <2>12. Gathered(s, k)' /\ Cleared(s)'
    BY <2>1 DEF Gathered, Cleared
  <2> QED
    BY <1>1, <1>2, <2>4, <2>11, <2>12 DEF Follows
<1>4. CASE client[s] # "here"
  <2>1. UNCHANGED <<pc, received, buffer>>
    BY <1>4 DEF SubSend
  <2> QED
    BY <1>2, <2>1, IdleKeepsFollows
<1> QED
  BY <1>3, <1>4

\* A zero byte ends the line that comes next.
LEMMA FoundFollows ==
  ASSUME IInv, EndsSound, NEW s \in Subscribers, Follows(s), ScanByte(s),
         file[count[s] + 1] = Nul, bytes_processed[s] < count[s] + 1
  PROVE  Follows(s)'
<1>T. TypeOK
  BY DEF IInv
<1>F. /\ file \in Seq(Byte) /\ Len(file) \in 0 .. BLOCK_SIZE /\ Len(ends) \in Nat
      /\ \A j \in 1 .. Len(ends) : ends[j] \in 1 .. BLOCK_SIZE
  BY <1>T, FileTyped
<1>1. PICK k \in 0 .. Len(ends) : At(s, k) /\ Sent(s, k) /\ Gathered(s, k)
  BY DEF Follows
<1>C. count[s] \in Nat /\ bytes_processed[s] \in Nat
  <2>1. count[s] \in 0 .. BLOCK_SIZE + 1 /\ bytes_processed[s] \in 0 .. BLOCK_SIZE + 1
    BY <1>T DEF TypeOK
  <2> QED
    BY <2>1
<1>2. PICK n \in Nat : n = count[s] + 1
  BY <1>C
<1>3. /\ pc[s] = "scan" /\ pc'[s] = "probe" /\ UNCHANGED <<file, ends, received>>
      /\ count[s] < Len(file) /\ bytes_read'[s] = 1
      /\ buffer'[s] = buffer[s] /\ bytes_processed'[s] = n
  BY <1>T, <1>2 DEF ScanByte, Goto, TypeOK, box, ghosts
<1>N. n \in 1 .. Len(file) /\ bytes_processed[s] < n /\ file[n] = Nul
  BY <1>C, <1>F, <1>2, <1>3
<1>4. PICK e \in 1 .. Len(ends) : ends[e] = n
  BY <1>N DEF EndsSound
<1>5. k \in Nat /\ e \in Nat /\ k < e /\ k + 1 \in 1 .. Len(ends)
  <2>1. ~(ends[e] <= bytes_processed[s])
    BY <1>C, <1>4, <1>N
  <2>2. ~(e <= k)
    BY <1>1, <2>1 DEF At
  <2> QED
    BY <1>F, <2>2
<1>6. ends[k + 1] = n
  <2>1. /\ ends[k + 1] \in 1 .. BLOCK_SIZE /\ file[ends[k + 1]] = Nul
    BY <1>F, <1>5 DEF EndsSound
  <2>2. ~(ends[k + 1] <= bytes_processed[s])
    <3>1. ~(k + 1 <= k)
      BY <1>5
    <3> QED
      BY <1>1, <1>5, <3>1 DEF At
  <2>3. ends[k + 1] <= n
    <3>1. CASE k + 1 = e
      BY <1>4, <2>1, <3>1
    <3>2. CASE k + 1 # e
      <4>1. k + 1 < e
        BY <1>5, <3>2
      <4>2. ends[k + 1] < ends[e]
        BY <1>5, <4>1 DEF EndsSound
      <4> QED
        BY <1>4, <2>1, <4>2
    <3> QED
      BY <3>1, <3>2
  <2>4. ends[k + 1] \notin bytes_processed[s] + 1 .. count[s]
    BY <1>1, <1>3, <2>1 DEF Gathered
  <2>5. ASSUME ends[k + 1] # n PROVE FALSE
    <3>1. ends[k + 1] \in bytes_processed[s] + 1 .. count[s]
      BY <1>C, <1>2, <2>1, <2>2, <2>3, <2>5
    <3> QED
      BY <2>4, <3>1
  <2> QED
    BY <2>5
<1>7. PICK m \in 1 .. Len(ends) : m = k + 1
  BY <1>5
<1>8. /\ m \in Nat /\ m > 0 /\ m - 1 = k /\ ends[m] = n
  BY <1>5, <1>6, <1>7
<1>9. At(s, m)'
  <2>1. \A j \in 1 .. Len(ends) : ends[j] <= n <=> j <= m
    <3> TAKE j \in 1 .. Len(ends)
    <3>1. j \in Nat /\ ends[j] \in Nat
      BY <1>F
    <3>2. CASE j = m
      BY <1>8, <3>2
    <3>3. CASE j < m
      <4>1. ends[j] < ends[m]
        BY <3>3 DEF EndsSound
      <4> QED
        BY <1>8, <3>1, <3>3, <4>1
    <3>4. CASE m < j
      <4>1. ends[m] < ends[j]
        BY <3>4 DEF EndsSound
      <4> QED
        BY <1>8, <3>1, <3>4, <4>1
    <3> QED
      BY <1>8, <3>1, <3>2, <3>3, <3>4
  <2>2. Start(m)' = n + 1
    BY <1>3, <1>8 DEF Start
  <2>3. n = (n + 1) - 1
    OBVIOUS
  <2> QED
    BY <1>3, <2>1, <2>2, <2>3 DEF At
<1>10. Sent(s, m)'
  <2>1. /\ Lines(m - 1)' = Lines(m - 1) /\ Line(m)' = Line(m)
    BY <1>3 DEF Lines, Line
  <2>2. Full(received[s]) = Full(Lines(m - 1))
    BY <1>1, <1>3, <1>8 DEF Sent, Found
  <2>3. buffer[s] = SubSeq(file, Start(k), count[s])
    <3>1. ~(bytes_processed[s] > BLOCK_SIZE)
      BY <1>C, <1>F, <1>N
    <3> QED
      BY <1>1, <1>3, <3>1 DEF Gathered
  <2>4. Line(m) = SubSeq(file, Start(m - 1), ends[m] - 1)
    BY <1>T, LineTyped
  <2>5. ends[m] - 1 = count[s]
    BY <1>C, <1>2, <1>8
  <2>6. buffer'[s] = Line(m)'
    BY <1>3, <1>8, <2>1, <2>3, <2>4, <2>5
  <2>7. Found(s)'
    BY <1>3 DEF Found
  <2> QED
    BY <1>3, <1>8, <2>1, <2>2, <2>6, <2>7 DEF Sent
<1>11. Gathered(s, m)' /\ Cleared(s)'
  BY <1>3 DEF Gathered, Cleared
<1>12. m \in 0 .. Len(ends')
  BY <1>3, <1>8
<1> QED
  BY <1>9, <1>10, <1>11, <1>12 DEF Follows

\* Any other byte is passed over or gathered.
LEMMA ByteKeepsFollows ==
  ASSUME IInv, EndsSound, NEW s \in Subscribers, Follows(s), ScanByte(s),
         ~(file[count[s] + 1] = Nul /\ bytes_processed[s] < count[s] + 1)
  PROVE  Follows(s)'
<1>T. TypeOK
  BY DEF IInv
<1>F. /\ file \in Seq(Byte) /\ Len(file) \in 0 .. BLOCK_SIZE /\ Len(ends) \in Nat
      /\ \A j \in 1 .. Len(ends) : ends[j] \in 1 .. BLOCK_SIZE
  BY <1>T, FileTyped
<1>1. PICK k \in 0 .. Len(ends) : At(s, k) /\ Sent(s, k) /\ Gathered(s, k)
  BY DEF Follows
<1>C. count[s] \in Nat /\ bytes_processed[s] \in Nat
  <2>1. count[s] \in 0 .. BLOCK_SIZE + 1 /\ bytes_processed[s] \in 0 .. BLOCK_SIZE + 1
    BY <1>T DEF TypeOK
  <2> QED
    BY <2>1
<1>2. PICK n \in Nat, b \in Nat : n = count[s] + 1 /\ b = bytes_processed[s]
  BY <1>C
<1>3. /\ pc[s] = "scan" /\ pc'[s] = "scan" /\ UNCHANGED <<file, ends, received>>
      /\ count[s] < Len(file) /\ count'[s] = n
      /\ buffer'[s] = IF b <= n /\ file[n] # Nul
                        THEN Append(buffer[s], file[n]) ELSE buffer[s]
      /\ bytes_processed'[s] = bytes_processed[s]
  BY <1>T, <1>2 DEF ScanByte, Goto, TypeOK, box, ghosts
<1>N. n \in 1 .. Len(file) /\ ~(b < n /\ file[n] = Nul)
  BY <1>C, <1>F, <1>2, <1>3
<1>4. Start(k)' = Start(k) /\ Lines(k)' = Lines(k)
  BY <1>3 DEF Start, Lines, Line
<1>5. At(s, k)' /\ Sent(s, k)' /\ Cleared(s)'
  BY <1>1, <1>3, <1>4 DEF At, Sent, Found, Cleared
<1>6. \A m \in bytes_processed'[s] + 1 .. count'[s] : file'[m] # Nul
  <2> TAKE m \in bytes_processed'[s] + 1 .. count'[s]
  <2>1. m \in b + 1 .. n
    BY <1>2, <1>3
  <2>2. CASE m = n
    BY <1>3, <1>N, <2>1, <2>2
  <2>3. CASE m # n
    <3>1. m \in bytes_processed[s] + 1 .. count[s]
      BY <1>2, <1>C, <2>1, <2>3
    <3> QED
      BY <1>1, <1>3, <3>1 DEF Gathered
  <2> QED
    BY <2>2, <2>3
<1>K. /\ k \in Nat /\ Start(k) \in 1 .. Len(file) + 1
      /\ k > 0 => k \in 1 .. Len(ends) /\ Start(k) = ends[k] + 1 /\ ends[k] \in Nat
      /\ k = 0 => Start(k) = 1
  BY <1>T, EndsTyped
<1>7. buffer'[s] = IF b > BLOCK_SIZE THEN <<>> ELSE SubSeq(file, Start(k), n)
  <2>1. CASE b > BLOCK_SIZE
    <3>1. ~(b <= n)
      BY <1>F, <1>N, <2>1
    <3>2. buffer[s] = <<>>
      BY <1>1, <1>2, <1>3, <2>1 DEF Gathered
    <3> QED
      BY <1>3, <2>1, <3>1, <3>2
  <2>2. CASE ~(b > BLOCK_SIZE)
    <3>0. PICK f \in Nat, st \in Nat : f = Len(file) /\ st = Start(k)
      BY <1>F, <1>K
    <3>1. buffer[s] = SubSeq(file, st, n - 1)
      <4>1. n - 1 = count[s]
        BY <1>2, <1>C
      <4> QED
        BY <1>1, <1>2, <1>3, <2>2, <3>0, <4>1 DEF Gathered
    <3>2. b = st - 1 \/ b = st
      BY <1>1, <1>2, <2>2, <3>0 DEF At
    <3>3. CASE n < st
      <4>1. buffer[s] = <<>> /\ SubSeq(file, st, n) = <<>>
        <5>1. n - 1 < st /\ n - 1 \in Int
          BY <3>3
        <5> QED
          BY <3>1, <3>3, <5>1, SubSeqEmpty
      <4>2. ~(b <= n /\ file[n] # Nul)
        <5>1. ASSUME b <= n, file[n] # Nul PROVE FALSE
          <6>1. n = st - 1
            BY <3>2, <3>3, <5>1
          <6>2. k > 0
            BY <1>K, <1>N, <3>0, <6>1
          <6>3. k \in 1 .. Len(ends) /\ n = ends[k]
            BY <1>K, <3>0, <6>1, <6>2
          <6> QED
            BY <5>1, <6>3 DEF EndsSound
        <5> QED
          BY <5>1
      <4> QED
        BY <1>3, <2>2, <3>0, <4>1, <4>2
    <3>4. CASE st <= n
      <4>1. b <= n
        BY <3>2, <3>4
      <4>2. file[n] # Nul
        <5>1. CASE b < n
          BY <1>N, <5>1
        <5>2. CASE b = n
          <6>1. ASSUME file[n] = Nul PROVE FALSE
            <7>1. PICK j \in 1 .. Len(ends) : ends[j] = n
              BY <1>N, <6>1 DEF EndsSound
            <7>2. j <= k
              <8>1. ends[j] <= bytes_processed[s]
                BY <1>2, <5>2, <7>1
              <8> QED
                BY <1>1, <8>1 DEF At
            <7>3. k > 0 /\ j \in Nat
              BY <1>F, <1>K, <7>2
            <7>4. n <= ends[k]
              <8>1. CASE j = k
                BY <7>1, <8>1
              <8>2. CASE j # k
                <9>1. j < k
                  BY <1>K, <7>2, <7>3, <8>2
                <9>2. ends[j] < ends[k]
                  BY <1>K, <7>3, <9>1 DEF EndsSound
                <9> QED
                  BY <1>K, <7>1, <7>3, <9>2
              <8> QED
                BY <8>1, <8>2
            <7> QED
              BY <1>K, <3>0, <3>2, <3>4, <5>2, <7>3, <7>4
          <6> QED
            BY <6>1
        <5> QED
          BY <4>1, <5>1, <5>2
      <4>3. SubSeq(file, st, n) = Append(SubSeq(file, st, n - 1), file[n])
        <5>1. st \in 1 .. Len(file) /\ n \in st .. Len(file)
          BY <1>F, <1>K, <1>N, <3>0, <3>4
        <5>2. SubSeq(file, st, n) = SubSeq(file, st, n - 1) \o <<file[n]>>
          BY <1>F, <5>1, SubSeqRecursiveSecond
        <5>3. file[n] \in Byte
          BY <1>F, <1>N, ElementOfSeq
        <5>4. SubSeq(file, st, n - 1) \in Seq(Byte)
          <6>1. st \in Int /\ n - 1 \in Int
            OBVIOUS
          <6>2. \A i \in st .. n - 1 : i \in 1 .. Len(file)
            BY <1>F, <5>1
          <6>3. \A i \in st .. n - 1 : file[i] \in Byte
            BY <1>F, <6>2, ElementOfSeq
          <6> QED
            BY <6>1, <6>3, SubSeqProperties
        <5> QED
          BY <5>2, <5>3, <5>4, AppendIsConcat
      <4> QED
        BY <1>3, <2>2, <3>0, <3>1, <4>1, <4>2, <4>3
    <3> QED
      BY <3>3, <3>4
  <2> QED
    BY <2>1, <2>2
<1>8. Gathered(s, k)'
  BY <1>2, <1>3, <1>4, <1>6, <1>7 DEF Gathered
<1> QED
  BY <1>1, <1>3, <1>5, <1>8 DEF Follows

\* No step, its own or another's, makes a subscriber lose its place.
LEMMA KeepsInOrder == IInv /\ EndsSound /\ InOrder /\ [Next]_vars => InOrder'
<1> SUFFICES ASSUME IInv, EndsSound, InOrder, [Next]_vars,
                    NEW s \in Subscribers
             PROVE  Follows(s)'
  BY DEF InOrder
<1>F. Follows(s)
  BY DEF InOrder
<1>T. TypeOK
  BY DEF IInv
<1>1. CASE UNCHANGED vars
  BY <1>1, <1>F, IdleKeepsFollows DEF vars, box, subscriberVars, ghosts
<1>2. ASSUME NEW p \in Publishers, PublisherStep(p) PROVE Follows(s)'
  <2>1. CASE PubWrite(p)
    BY <1>F, <2>1, WriteKeepsFollows
  <2>2. CASE PubStart(p) \/ PubRead(p) \/ PubOpen(p) \/ PubWriteFails(p) \/ PubClose(p)
    <3>1. UNCHANGED <<file, ends, subscriberVars, received>>
      BY <2>2, Zenon DEF PubStart, PubRead, PubOpen, PubWriteFails, PubClose, box, ghosts
    <3>2. pc'[s] = pc[s]
      <4>1. p # s
        OBVIOUS
      <4> QED
        BY <1>T, <2>2, <4>1 DEF PubStart, PubRead, PubOpen, PubWriteFails, PubClose, Goto, TypeOK
    <3> QED
      BY <1>F, <3>1, <3>2, IdleKeepsFollows DEF subscriberVars
  <2> QED
    BY <1>2, <2>1, <2>2 DEF PublisherStep, PubWorks
<1>3. ASSUME NEW t \in Subscribers, SubscriberStep(t) PROVE Follows(s)'
  <2>1. CASE t # s
    <3>1. UNCHANGED <<file, ends>>
      BY <1>3, Zenon DEF SubscriberStep, SubWorks, SubStart, SubOpen, ScanEnd, ScanByte, SubProbe,
         SubSend, Leave, box, ghosts
    <3>2. /\ pc'[s] = pc[s] /\ bytes_processed'[s] = bytes_processed[s]
          /\ buffer'[s] = buffer[s] /\ received'[s] = received[s]
          /\ bytes_read'[s] = bytes_read[s] /\ count'[s] = count[s]
      <4>1. CASE SubStart(t) \/ Leave(t)
        BY <1>T, <2>1, <4>1 DEF SubStart, Leave, Goto, TypeOK, subscriberVars, ghosts
      <4>2. CASE SubOpen(t)
        <5>1. /\ pc' = [pc EXCEPT ![t] = "scan"] \/ pc' = [pc EXCEPT ![t] = "ended"]
              /\ UNCHANGED <<buffer, count, bytes_read>>
          BY <4>2 DEF SubOpen, Goto
        <5>2. UNCHANGED <<bytes_processed, received>> \/ SubEnd(t)
          BY <4>2 DEF SubOpen
        <5> QED
          BY <1>T, <2>1, <5>1, <5>2 DEF SubEnd, TypeOK
      <4>3. CASE ScanEnd(t) \/ ScanByte(t)
        BY <1>T, <2>1, <4>3 DEF ScanEnd, ScanByte, Goto, TypeOK, ghosts
      <4>4. CASE SubProbe(t)
        <5>1. UNCHANGED <<bytes_processed, received>> \/ SubEnd(t)
          BY <4>4 DEF SubProbe
        <5>2. pc'[s] = pc[s]
          BY <1>T, <2>1, <4>4 DEF SubProbe, Goto, TypeOK
        <5>3. /\ buffer'[s] = buffer[s] /\ bytes_read'[s] = bytes_read[s] /\ count'[s] = count[s]
          BY <1>T, <2>1, <4>4 DEF SubProbe, TypeOK
        <5> QED
          BY <1>T, <2>1, <5>1, <5>2, <5>3 DEF SubEnd, TypeOK
      <4>5. CASE SubSend(t)
        BY <1>T, <2>1, <4>5 DEF SubSend, Goto, TypeOK
      <4> QED
        BY <1>3, <4>1, <4>2, <4>3, <4>4, <4>5 DEF SubscriberStep, SubWorks
    <3> QED
      BY <1>F, <3>1, <3>2, IdleKeepsFollows
  <2>2. CASE t = s
    <3>1. CASE SubStart(s)
      BY <1>F, <1>T, <3>1, StartKeepsFollows
    <3>2. CASE SubOpen(s)
      BY <1>F, <3>2, OpenKeepsFollows
    <3>3. CASE ScanEnd(s)
      BY <1>F, <3>3, EndKeepsFollows
    <3>4. CASE ScanByte(s)
      BY <1>F, <3>4, FoundFollows, ByteKeepsFollows
    <3>5. CASE SubProbe(s)
      BY <1>F, <3>5, ProbeKeepsFollows
    <3>6. CASE SubSend(s)
      BY <1>F, <3>6, SendKeepsFollows
    <3>7. CASE Leave(s)
      BY <1>F, <3>7, IdleKeepsFollows DEF Leave, box, subscriberVars, ghosts
    <3> QED
      BY <1>3, <2>2, <3>1, <3>2, <3>3, <3>4, <3>5, <3>6, <3>7 DEF SubscriberStep, SubWorks
  <2> QED
    BY <2>1, <2>2
<1>4. CASE RemoveBox
  BY <1>4, <1>F, IdleKeepsFollows DEF RemoveBox, subscriberVars, ghosts
<1> QED
  BY <1>1, <1>2, <1>3, <1>4 DEF Next

\* An empty file has no lines, and no session has begun.
LEMMA InitInOrder == Init => LogInv
<1> SUFFICES ASSUME Init PROVE LogInv
  OBVIOUS
<1>1. IInv
  BY InitHolds
<1>2. /\ file = <<>> /\ ends = <<>> /\ Len(file) = 0 /\ Len(ends) = 0
      /\ \A k : k \notin 1 .. 0
  BY DEF Init
<1>3. EndsSound
  BY <1>2 DEF EndsSound, Start
<1>4. MessagesKnown
  BY DEF Init, MessagesKnown
<1>5. ASSUME NEW s \in Subscribers PROVE Follows(s)
  <2>1. /\ pc[s] = "ended" /\ bytes_processed[s] = 0 /\ buffer[s] = <<>>
        /\ received[s] = <<>>
    BY DEF Init
  <2>2. Start(0) = 1 /\ Lines(0) = <<>>
    BY <1>2 DEF Start, Lines
  <2>3. At(s, 0) /\ Sent(s, 0) /\ Gathered(s, 0) /\ Cleared(s)
    BY <1>2, <2>1, <2>2 DEF At, Sent, Found, Gathered, Cleared
  <2>4. 0 \in 0 .. Len(ends)
    BY <1>2
  <2> QED
    BY <2>3, <2>4 DEF Follows
<1> QED
  BY <1>1, <1>3, <1>4, <1>5 DEF LogInv, InOrder

\* Every behaviour stays inside this invariant too.
LEMMA LogInvariance == Spec => []LogInv
<1>1. LogInv /\ [Next]_vars => LogInv'
  <2> SUFFICES ASSUME LogInv, [Next]_vars PROVE LogInv'
    OBVIOUS
  <2>1. IInv /\ EndsSound /\ MessagesKnown /\ InOrder
    BY DEF LogInv
  <2>2. IInv'
    BY <2>1, KeepsTypeOK, KeepsHolderLocks, KeepsWritesAtEnd, KeepsSizeFollows, KeepsCountInFile
       DEF IInv
  <2> QED
    BY <2>1, <2>2, KeepsEndsSound, KeepsMessagesKnown, KeepsInOrder DEF LogInv
<1> QED
  BY <1>1, InitInOrder, PTL DEF Spec

-----------------------------------------------------------------------------
\* What the log takes of the subscribers' ghosts.
Sees == [s \in Subscribers |-> Full(received[s])]

\* The steps of MessageLog, or none.
LogStep == \/ \E m \in Messages : Stored' = Append(Stored, m) /\ Sees' = Sees
           \/ \E s \in Subscribers : /\ Sees' = [Sees EXCEPT ![s] = <<>>]
                                     /\ Stored' = Stored
           \/ \E s \in Subscribers :
                /\ Len(Sees[s]) + 1 <= Len(Stored)
                /\ Sees' = [Sees EXCEPT ![s] = Append(@, Stored[Len(Sees[s]) + 1])]
                /\ Stored' = Stored
           \/ Stored' = Stored /\ Sees' = Sees

\* The message that is sent is the next of the log.
LEMMA SendDelivers ==
  ASSUME LogInv, [Next]_vars, NEW s \in Subscribers, SubSend(s)
  PROVE  LogStep
<1>1. IInv /\ TypeOK /\ EndsSound /\ Follows(s)
  BY DEF LogInv, IInv, InOrder
<1>2. PICK k \in 0 .. Len(ends) : At(s, k) /\ Sent(s, k) /\ Gathered(s, k)
  BY <1>1 DEF Follows
<1>3. pc[s] = "send" /\ UNCHANGED <<file, ends>>
  BY DEF SubSend, Goto, box
<1>4. Stored' = Stored
  BY <1>3 DEF Stored, Line
<1>5. CASE client[s] = "here"
  <2>1. /\ received' = [received EXCEPT ![s] = Append(received[s], buffer[s])]
        /\ received \in [Subscribers -> Seq(Seq(Chars))] /\ buffer[s] \in Seq(Chars)
    BY <1>1, <1>5 DEF SubSend, TypeOK
  <2>2. Full(received'[s]) = IF buffer[s] = <<>> THEN Full(received[s])
                             ELSE Append(Full(received[s]), buffer[s])
    <3>1. received'[s] = Append(received[s], buffer[s])
      BY <2>1
    <3>2. received[s] \in Seq(Seq(Chars))
      BY <2>1
    <3> QED
      BY <2>1, <3>1, <3>2, FullAppend
  <2>3. \A t \in Subscribers : t # s => Full(received'[t]) = Full(received[t])
    BY <2>1
  <2>4. k > 0 /\ buffer[s] = Line(k) /\ Full(received[s]) = Full(Lines(k - 1))
    BY <1>2, <1>3 DEF Sent, Found
  <2>5. CASE buffer[s] = <<>>
    <3>1. Sees' = Sees
      BY <2>2, <2>3, <2>5 DEF Sees
    <3> QED
      BY <1>4, <3>1 DEF LogStep
  <2>6. CASE buffer[s] # <<>>
    <3>1. Len(ends) \in Nat
      BY <1>1, FileTyped
    <3>2. k \in 1 .. Len(ends) /\ k - 1 \in 0 .. Len(ends) /\ Len(ends) \in 0 .. Len(ends)
      BY <2>4, <3>1
    <3>3. PICK all : all = Lines(Len(ends))
      OBVIOUS
    <3>4. /\ all \in Seq(Seq(Byte)) /\ Len(all) = Len(ends) /\ Stored = Full(all)
          /\ Lines(k - 1) = FirstOf(all, k - 1)
      BY <1>1, <3>2, <3>3, LinesTyped
    <3>5. all[k] = Line(k)
      BY <3>2, <3>3 DEF Lines
    <3>6. /\ Len(Full(FirstOf(all, k - 1))) + 1 \in 1 .. Len(Full(all))
          /\ Full(all)[Len(Full(FirstOf(all, k - 1))) + 1] = all[k]
      BY <2>4, <2>6, <3>2, <3>4, <3>5, FullKeepsPlace
    <3>7. Sees[s] = Full(FirstOf(all, k - 1))
      BY <2>4, <3>4 DEF Sees
    <3>8. /\ Len(Sees[s]) + 1 \in 1 .. Len(Stored)
          /\ Stored[Len(Sees[s]) + 1] = buffer[s]
      BY <2>4, <3>4, <3>5, <3>6, <3>7
    <3>9. Sees' = [Sees EXCEPT ![s] = Append(Sees[s], buffer[s])]
      BY <2>2, <2>3, <2>6 DEF Sees
    <3>10. Len(Sees[s]) + 1 <= Len(Stored)
      <4>1. Len(Stored) \in Int
        <5>1. Full(all) \in Seq(Seq(Byte))
          BY <3>4, FullTyped
        <5> QED
          BY <3>4, <5>1, LenProperties
      <4> QED
        BY <3>8, <4>1
    <3> QED
      BY <1>4, <3>8, <3>9, <3>10 DEF LogStep
  <2> QED
    BY <2>5, <2>6
<1>6. CASE client[s] # "here"
  <2>1. Sees' = Sees
    BY <1>6 DEF SubSend, Sees
  <2> QED
    BY <1>4, <2>1 DEF LogStep
<1> QED
  BY <1>5, <1>6

\* A session that ends drops what it was sent.
LEMMA EndJoins ==
  ASSUME TypeOK, NEW s \in Subscribers, SubEnd(s) \/ UNCHANGED received, UNCHANGED <<file, ends>>
  PROVE  LogStep
<1>1. Stored' = Stored
  BY DEF Stored, Line
<1>2. CASE UNCHANGED received
  BY <1>1, <1>2 DEF LogStep, Sees
<1>3. CASE SubEnd(s)
  <2>1. /\ received' = [received EXCEPT ![s] = <<>>]
        /\ received \in [Subscribers -> Seq(Seq(Chars))]
    BY <1>3 DEF SubEnd, TypeOK
  <2>2. Full(received'[s]) = <<>>
    BY <2>1, FullOfNone
  <2>3. \A t \in Subscribers : t # s => Full(received'[t]) = Full(received[t])
    BY <2>1
  <2>4. Sees' = [Sees EXCEPT ![s] = <<>>]
    BY <2>2, <2>3 DEF Sees
  <2> QED
    BY <1>1, <2>4 DEF LogStep
<1> QED
  BY <1>2, <1>3

\* A line stored whole is published, and an empty one is not a message.
LEMMA WritePublishes ==
  ASSUME LogInv, [Next]_vars, NEW p \in Publishers, PubWrite(p)
  PROVE  LogStep
<1>T. IInv /\ TypeOK /\ TypeOK' /\ EndsSound /\ EndsSound'
  BY KeepsTypeOK, KeepsEndsSound DEF LogInv, IInv
<1>1. PICK data \in Seq(Byte) :
        /\ Len(data) > 0 /\ file' = file \o data
        /\ Start(Len(ends)) = Len(file) + 1
        /\ \/ /\ data = Append(message[p], Nul)
              /\ ends' = Append(ends, Len(file) + Len(data))
           \/ /\ ends' = ends /\ Len(file) + Len(data) = BLOCK_SIZE
              /\ \A i \in 1 .. Len(data) : data[i] # Nul
  BY <1>T, WriteStores
<1>2. Sees' = Sees
  BY DEF PubWrite, Sees
<1>3. LinesFact /\ LinesFact'
  BY <1>T, LinesFactHolds, PTL
<1>F. Len(ends) \in Nat
  BY <1>T, FileTyped
<1>4. CASE ends' = ends
  <2>1. \A k \in 0 .. Len(ends) : Lines(k)' = Lines(k)
    BY <1>1, <1>4, <1>T, LinesStay
  <2>2. PICK n \in 0 .. Len(ends) : n = Len(ends)
    BY <1>F
  <2>3. Stored = Full(Lines(n)) /\ Stored' = Full(Lines(n)')
    BY <1>3, <1>4, <2>2 DEF LinesFact
  <2>4. Stored' = Stored
    BY <2>1, <2>2, <2>3
  <2> QED
    BY <1>2, <2>4 DEF LogStep
<1>5. CASE /\ data = Append(message[p], Nul)
           /\ ends' = Append(ends, Len(file) + Len(data))
  <2>1. PICK new \in Nat : new = Len(ends) + 1
    BY <1>F
  <2>2. /\ Len(ends') = new
        /\ Full(Lines(new)') = IF message[p] = <<>> THEN Stored ELSE Append(Stored, message[p])
    BY <1>1, <1>5, <1>T, <2>1, LinesGrow
  <2>3. Stored' = Full(Lines(new)')
    <3>1. new \in 0 .. Len(ends')
      BY <2>1, <2>2
    <3> QED
      BY <1>3, <2>2, <3>1 DEF LinesFact
  <2>4. message[p] \in Messages
    BY DEF LogInv, MessagesKnown, PubWrite, Goto
  <2>5. CASE message[p] = <<>>
    BY <1>2, <2>2, <2>3, <2>5 DEF LogStep
  <2>6. CASE message[p] # <<>>
    <3>1. Stored' = Append(Stored, message[p])
      BY <2>2, <2>3, <2>6
    <3> QED
      BY <1>2, <2>4, <3>1 DEF LogStep
  <2> QED
    BY <2>5, <2>6
<1> QED
  BY <1>1, <1>4, <1>5

\* Every step is one of the log's, or none.
LEMMA StepIsLogStep == LogInv /\ [Next]_vars => LogStep
<1> SUFFICES ASSUME LogInv, [Next]_vars PROVE LogStep
  OBVIOUS
<1>I. TypeOK
  BY DEF LogInv, IInv
<1>S. ASSUME UNCHANGED <<file, ends, received>> PROVE LogStep
  BY <1>S DEF LogStep, Stored, Line, Sees
<1>1. CASE UNCHANGED vars
  BY <1>1, <1>S DEF vars, box, ghosts
<1>2. ASSUME NEW p \in Publishers, PublisherStep(p) PROVE LogStep
  <2>1. CASE PubWrite(p)
    BY <2>1, WritePublishes
  <2>2. CASE PubStart(p) \/ PubRead(p) \/ PubOpen(p) \/ PubWriteFails(p) \/ PubClose(p)
    <3>1. UNCHANGED <<file, ends, received>>
      BY <2>2, Zenon DEF PubStart, PubRead, PubOpen, PubWriteFails, PubClose, box, ghosts
    <3> QED
      BY <1>S, <3>1
  <2> QED
    BY <1>2, <2>1, <2>2 DEF PublisherStep, PubWorks
<1>3. ASSUME NEW s \in Subscribers, SubscriberStep(s) PROVE LogStep
  <2>1. CASE SubSend(s)
    BY <2>1, SendDelivers
  <2>2. CASE SubOpen(s) \/ SubProbe(s)
    <3>1. UNCHANGED <<file, ends>> /\ (SubEnd(s) \/ UNCHANGED received)
      BY <2>2, Zenon DEF SubOpen, SubProbe, box
    <3> QED
      BY <1>I, <3>1, EndJoins
  <2>3. CASE SubStart(s) \/ ScanEnd(s) \/ ScanByte(s) \/ Leave(s)
    <3>1. UNCHANGED <<file, ends, received>>
      BY <2>3, Zenon DEF SubStart, ScanEnd, ScanByte, Leave, box, ghosts
    <3> QED
      BY <1>S, <3>1
  <2> QED
    BY <1>3, <2>1, <2>2, <2>3 DEF SubscriberStep, SubWorks
<1>4. CASE RemoveBox
  BY <1>4, <1>S DEF RemoveBox, ghosts
<1> QED
  BY <1>1, <1>2, <1>3, <1>4 DEF Next

\* The box is the log it promises to be: each subscriber gets each message
\* stored whole once and in order, from the first on.
THEOREM SubscribersFollowTheLog == Spec => ImplementsMessageLog
<1>1. Init => Log!Init
  <2> SUFFICES ASSUME Init PROVE Stored = <<>> /\ Sees = [s \in Subscribers |-> <<>>]
    BY DEF Log!Init, Sees
  <2>1. Stored = <<>>
    <3>1. ends = <<>> /\ DOMAIN ends = {}
      BY DEF Init
    <3>2. [k \in DOMAIN ends |-> Line(k)] = <<>>
      BY <3>1
    <3> QED
      BY <3>2, FullOfNone DEF Stored
  <2>2. \A s \in Subscribers : received[s] = <<>>
    BY DEF Init
  <2> QED
    BY <2>1, <2>2, FullOfNone DEF Sees
<1>2. LogInv /\ [Next]_vars => [Log!Next]_Log!vars
  <2>1. LogStep => [Log!Next]_Log!vars
    BY DEF LogStep, Sees, Log!Next, Log!Publish, Log!Join, Log!Deliver, Log!vars
  <2> QED
    BY <2>1, StepIsLogStep
<1> QED
  BY <1>1, <1>2, LogInvariance, PTL DEF Spec, ImplementsMessageLog, Log!Spec
=============================================================================
