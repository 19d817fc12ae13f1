------------------------- MODULE RegisterPipeProofs -------------------------
(***************************************************************************)
(* For any number of clients and any lengths of the names: until a list is *)
(* followed at once by another request, main and process_entry read whole  *)
(* requests.                                                               *)
(***************************************************************************)
EXTENDS RegisterPipe, SequenceTheorems, TLAPS

Byte == [of : Clients, at : Nat \ {0}, byte : OpCodes \cup NameBytes \cup {"|"}]

\* The bytes are of whole requests, but for the first one, which may have begun: a
\* byte is followed by the others of its request, and those by a first byte.
WholeRequests(s, ops) ==
  /\ \A i \in 1 .. Len(s) : /\ s[i].at <= Length(ops[s[i].of])
                            /\ s[i].at = 1 => s[i].byte = ops[s[i].of]
  /\ \A i \in 1 .. Len(s) : \A d \in 0 .. Length(ops[s[i].of]) - s[i].at :
       i + d <= Len(s) /\ s[i + d].of = s[i].of /\ s[i + d].at = s[i].at + d
  /\ \A i \in 1 .. Len(s) :
       LET next == i + Length(ops[s[i].of]) - s[i].at + 1
       IN next <= Len(s) => s[next].at = 1
  /\ \A i, j \in 1 .. Len(s) : s[i].of = s[j].of => s[j].at - s[i].at = j - i

\* Where process_entry is in an entry, by the number of bytes it has read.
PlaceIn(op) ==
  \/ reader = "bar" /\ Len(taken) = 1
  \/ reader = "name" /\ Len(taken) = 2
  \/ reader = "bar_2" /\ Len(taken) = PIPE_NAME_SIZE + 2 /\ ~IsList(op)
  \/ reader = "box" /\ Len(taken) = PIPE_NAME_SIZE + 3 /\ ~IsList(op)
  \/ reader \in {"open", "read", "close"} /\ Len(taken) = Length(op)

\* The entry that is read, or was read last: what is left of it is at the head of
\* the pipe, a first byte comes after, and nothing else is of its client.
EntryKept(ops) ==
  LET c == taken[1].of
      left == Length(ops[c]) - Len(taken)
  IN /\ PlaceIn(ops[c]) /\ code = ops[c]
     /\ c \in Clients /\ client[c] \in {"written", "closed"}
     /\ \A k \in 1 .. Len(taken) : taken[k].of = c /\ taken[k].at = k
     /\ \A d \in 1 .. left : d <= Len(bytes) /\ bytes[d].of = c /\ bytes[d].at = Len(taken) + d
     /\ left + 1 <= Len(bytes) => bytes[left + 1].at = 1
     /\ \A j \in 1 .. Len(bytes) : bytes[j].of = c => j <= left

NoEntry ==
  /\ taken = <<>> /\ reader \in {"open", "read", "close"}
  /\ bytes # <<>> => bytes[1].at = 1

Framed(ops) ==
  /\ WholeRequests(bytes, ops)
  /\ \A i \in 1 .. Len(bytes) : client[bytes[i].of] \in {"written", "closed"}
  /\ NoEntry \/ (taken # <<>> /\ EntryKept(ops))

Types ==
  /\ client \in [Clients -> {"start", "waits", "opened", "written", "closed", "dead"}]
  /\ bytes \in Seq(Byte) /\ taken \in Seq(Byte)
  /\ overrun \in BOOLEAN

IInv == Types /\ (~overrun => \E ops \in [Clients -> OpCodes] : Framed(ops))

-----------------------------------------------------------------------------
(* The requests *)

LEMMA LengthRange ==
  \A op \in OpCodes : /\ Length(op) \in Nat /\ Length(op) > 0
                      /\ ~IsList(op) => Length(op) = PIPE_NAME_SIZE + BOX_NAME_SIZE + 3
                      /\ IsList(op) => Length(op) = PIPE_NAME_SIZE + 1
BY RegisterAssumption DEF Length

LEMMA RequestIs ==
  ASSUME NEW c \in Clients, NEW op \in OpCodes, NEW name \in NameBytes
  PROVE  /\ Request(c, op, name) \in Seq(Byte)
         /\ Len(Request(c, op, name)) = Length(op)
         /\ \A k \in 1 .. Length(op) : /\ Request(c, op, name)[k].of = c
                                       /\ Request(c, op, name)[k].at = k
         /\ Request(c, op, name)[1].byte = op
<1> DEFINE byte(k) == [of |-> c, at |-> k,
                       byte |-> IF k = 1 THEN op
                                ELSE IF k \in {2, PIPE_NAME_SIZE + 3} THEN "|" ELSE name]
<1>1. Length(op) \in Nat /\ Length(op) > 0
  BY LengthRange
<1>2. \A k \in 1 .. Length(op) : byte(k) \in Byte
  BY <1>1 DEF Byte
<1>3. Request(c, op, name) = [k \in 1 .. Length(op) |-> byte(k)]
  BY DEF Request
<1> HIDE DEF byte
<1>4. Request(c, op, name) \in Seq(Byte) /\ Len(Request(c, op, name)) = Length(op)
  BY <1>1, <1>2, <1>3
<1>5. \A k \in 1 .. Length(op) : Request(c, op, name)[k] = byte(k)
  BY <1>1, <1>3
<1> QED
  BY <1>1, <1>4, <1>5 DEF byte

LEMMA ByteFields ==
  ASSUME NEW s \in Seq(Byte)
  PROVE  /\ Len(s) \in Nat
         /\ \A i \in 1 .. Len(s) : /\ s[i].of \in Clients /\ s[i].at \in Nat /\ s[i].at > 0
                                  /\ s[i] \in Byte
<1>1. Len(s) \in Nat
  BY LenProperties
<1>2. \A i \in 1 .. Len(s) : s[i] \in Byte
  BY ElementOfSeq
<1>3. \A b \in Byte : b.of \in Clients /\ b.at \in Nat /\ b.at > 0
  BY DEF Byte
<1> QED
  BY <1>1, <1>2, <1>3

\* What is left when the first bytes are gone is of whole requests.
LEMMA DropWhole ==
  ASSUME NEW s \in Seq(Byte), NEW ops \in [Clients -> OpCodes], WholeRequests(s, ops),
         NEW n \in 0 .. Len(s), NEW t \in Seq(Byte), Len(t) = Len(s) - n,
         \A i \in 1 .. Len(t) : t[i] = s[i + n]
  PROVE  WholeRequests(t, ops)
<1>1. /\ Len(s) \in Nat
      /\ \A i \in 1 .. Len(s) : s[i].of \in Clients /\ s[i].at \in Nat
      /\ \A i \in 1 .. Len(t) : t[i].of \in Clients /\ t[i].at \in Nat
  BY ByteFields
<1>2. \A i \in 1 .. Len(t) : i + n \in 1 .. Len(s) /\ t[i] = s[i + n]
  BY <1>1
<1>3. \A c \in Clients : Length(ops[c]) \in Nat
  BY LengthRange
<1>4. ASSUME NEW i \in 1 .. Len(t), NEW d \in 0 .. Length(ops[t[i].of]) - t[i].at
      PROVE  i + d <= Len(t) /\ t[i + d].of = t[i].of /\ t[i + d].at = t[i].at + d
  <2>1. d \in 0 .. Length(ops[s[i + n].of]) - s[i + n].at /\ d \in Int
    BY <1>1, <1>2, <1>3
  <2>2. /\ (i + n) + d <= Len(s) /\ s[(i + n) + d].of = s[i + n].of
        /\ s[(i + n) + d].at = s[i + n].at + d
    BY <1>2, <2>1 DEF WholeRequests
  <2>3. i + d \in 1 .. Len(t) /\ (i + d) + n = (i + n) + d
    BY <1>1, <2>1, <2>2
  <2>4. t[i] = s[i + n] /\ t[i + d] = s[(i + n) + d] /\ i + d <= Len(t)
    BY <1>2, <2>3
  <2> QED
    BY <2>2, <2>4
<1>5. ASSUME NEW i \in 1 .. Len(t), i + Length(ops[t[i].of]) - t[i].at + 1 <= Len(t)
      PROVE  t[i + Length(ops[t[i].of]) - t[i].at + 1].at = 1
  <2> DEFINE next == i + Length(ops[t[i].of]) - t[i].at + 1
  <2>1. t[i].at <= Length(ops[t[i].of])
    BY <1>2 DEF WholeRequests
  <2>2. next \in 1 .. Len(t)
    <3>1. t[i].of \in Clients /\ t[i].at \in Nat
      BY <1>1
    <3>2. Length(ops[t[i].of]) \in Nat
      BY <1>3, <3>1
    <3>3. next \in Int /\ next >= 1
      BY <2>1, <3>1, <3>2
    <3> QED
      BY <1>5, <3>3
  <2>3. next + n = (i + n) + Length(ops[s[i + n].of]) - s[i + n].at + 1
    BY <1>1, <1>2, <1>3
  <2>4. s[next + n].at = 1
    BY <1>1, <1>2, <2>2, <2>3 DEF WholeRequests
  <2> QED
    BY <1>2, <2>2, <2>4
<1>6. ASSUME NEW i \in 1 .. Len(t), NEW j \in 1 .. Len(t), t[i].of = t[j].of
      PROVE  t[j].at - t[i].at = j - i
  <2>1. s[j + n].at - s[i + n].at = (j + n) - (i + n)
    BY <1>2, <1>6 DEF WholeRequests
  <2> QED
    BY <1>1, <1>2, <2>1
<1>7. \A i \in 1 .. Len(t) : /\ t[i].at <= Length(ops[t[i].of])
                            /\ t[i].at = 1 => t[i].byte = ops[t[i].of]
  BY <1>2 DEF WholeRequests
<1> QED
  BY <1>4, <1>5, <1>6, <1>7, SMTT(30) DEF WholeRequests

\* A request of another client comes after whole requests.
LEMMA AppendWhole ==
  ASSUME NEW s \in Seq(Byte), NEW ops \in [Clients -> OpCodes], WholeRequests(s, ops),
         NEW c \in Clients, \A i \in 1 .. Len(s) : s[i].of # c,
         NEW op \in OpCodes, NEW name \in NameBytes
  PROVE  WholeRequests(s \o Request(c, op, name), [ops EXCEPT ![c] = op])
<1> DEFINE t == s \o Request(c, op, name)
           ops2 == [ops EXCEPT ![c] = op]
           n == Len(s)
           m == Length(op)
<1>1. n \in Nat /\ m \in Nat /\ m > 0 /\ \A b \in Clients : Length(ops[b]) \in Nat
  BY LenProperties, LengthRange
<1>2. Len(t) = n + m /\ \A i \in 1 .. n + m :
                           t[i] = IF i <= n THEN s[i] ELSE Request(c, op, name)[i - n]
  <2>1. Request(c, op, name) \in Seq(Byte) /\ Len(Request(c, op, name)) = m
    BY RequestIs
  <2> QED
    <3> DEFINE r == Request(c, op, name)
    <3> HIDE DEF r
    <3>1. r \in Seq(Byte) /\ Len(r) = m /\ t = s \o r
      BY <2>1 DEF r
    <3>2. /\ Len(s \o r) = Len(s) + Len(r)
          /\ \A i \in 1 .. Len(s) + Len(r) : (s \o r)[i] =
               IF i <= Len(s) THEN s[i] ELSE r[i - Len(s)]
      BY <3>1, ConcatProperties
    <3> HIDE DEF t, n, m
    <3>3. Len(s) = n
      BY DEF n
    <3>4. Len(t) = n + m /\ \A i \in 1 .. n + m : t[i] = IF i <= n THEN s[i] ELSE r[i - n]
      BY <3>1, <3>2, <3>3
    <3> QED
      BY <3>4 DEF r
<1>3. \A i \in 1 .. n : /\ i \in 1 .. n + m /\ t[i] = s[i] /\ s[i].of \in Clients \ {c}
                        /\ s[i].at \in Nat /\ s[i].at > 0
                        /\ ops2[s[i].of] = ops[s[i].of] /\ Length(ops[s[i].of]) \in Nat
  <2> TAKE i \in 1 .. n
  <2>1. i \in 1 .. n + m /\ t[i] = s[i]
    BY <1>1, <1>2
  <2>2. s[i].of \in Clients \ {c} /\ s[i].at \in Nat /\ s[i].at > 0
    BY ByteFields
  <2>3. ops2[s[i].of] = ops[s[i].of]
    BY <2>2
  <2> QED
    BY <1>1, <2>1, <2>2, <2>3
<1>4. \A i \in n + 1 .. n + m : t[i].of = c /\ t[i].at = i - n /\ (i = n + 1 => t[i].byte = op)
  <2> TAKE i \in n + 1 .. n + m
  <2>1. i - n \in 1 .. m /\ i \in 1 .. n + m /\ ~(i <= n)
    BY <1>1
  <2> QED
    BY <1>1, <1>2, <2>1, RequestIs
<1>5. ops2[c] = op
  OBVIOUS
<1> HIDE DEF t, ops2, n, m
<1>6. \A i \in 1 .. n + m : /\ t[i].at <= Length(ops2[t[i].of])
                            /\ t[i].at = 1 => t[i].byte = ops2[t[i].of]
  <2> TAKE i \in 1 .. n + m
  <2>1. CASE i <= n
    BY <1>1, <1>3, <2>1 DEF WholeRequests, n
  <2>2. CASE i > n
    BY <1>1, <1>4, <1>5, <2>2 DEF m
  <2> QED
    BY <1>1, <2>1, <2>2
<1>7. ASSUME NEW i \in 1 .. n + m, NEW d \in 0 .. Length(ops2[t[i].of]) - t[i].at
      PROVE  i + d <= n + m /\ t[i + d].of = t[i].of /\ t[i + d].at = t[i].at + d
  <2>1. CASE i <= n
    <3>1. i + d <= n /\ s[i + d].of = s[i].of /\ s[i + d].at = s[i].at + d
      BY <1>1, <1>3, <1>7, <2>1 DEF WholeRequests, n
    <3>2. i + d \in 1 .. n
      BY <1>1, <1>3, <2>1, <3>1
    <3>3. t[i] = s[i] /\ t[i + d] = s[i + d] /\ i + d <= n + m
      BY <1>1, <1>3, <2>1, <3>2
    <3> QED
      BY <3>1, <3>3
  <2>2. CASE i > n
    <3>1. d \in 0 .. m - (i - n) /\ i \in n + 1 .. n + m
      BY <1>1, <1>4, <1>5, <2>2 DEF m
    <3>2. i + d \in n + 1 .. n + m
      BY <1>1, <3>1
    <3> QED
      BY <1>1, <1>4, <3>1, <3>2
  <2> QED
    BY <1>1, <2>1, <2>2
<1>8. ASSUME NEW i \in 1 .. n + m, i + Length(ops2[t[i].of]) - t[i].at + 1 <= n + m
      PROVE  t[i + Length(ops2[t[i].of]) - t[i].at + 1].at = 1
  <2> DEFINE next == i + Length(ops2[t[i].of]) - t[i].at + 1
  <2>1. CASE i <= n
    <3>1. next = i + Length(ops[s[i].of]) - s[i].at + 1
      BY <1>1, <1>3, <2>1
    <3>2. next <= n => s[next].at = 1
      BY <1>1, <2>1, <3>1 DEF WholeRequests, n
    <3>3. s[i].at <= Length(ops[s[i].of]) /\ next - 1 <= n
      <4>1. s[i].at <= Length(ops[s[i].of])
        BY <1>1, <2>1 DEF WholeRequests, n
      <4>2. Length(ops[s[i].of]) - s[i].at \in 0 .. Length(ops[s[i].of]) - s[i].at
        BY <1>1, <1>3, <2>1, <4>1
      <4>3. i + (Length(ops[s[i].of]) - s[i].at) <= n
        BY <1>1, <2>1, <4>2 DEF WholeRequests, n
      <4> QED
        <5>1. i \in 1 .. n
          BY <1>1, <2>1
        <5>2. s[i].at \in Nat /\ Length(ops[s[i].of]) \in Nat
          BY <1>3, <5>1
        <5>3. next - 1 = i + (Length(ops[s[i].of]) - s[i].at)
          BY <3>1, <5>1, <5>2
        <5> QED
          BY <4>1, <4>3, <5>3
    <3>4. next \in Int /\ next > 0
      <4>1. i \in 1 .. n
        BY <1>1, <2>1
      <4>2. s[i].at \in Nat /\ Length(ops[s[i].of]) \in Nat
        BY <1>3, <4>1
      <4> QED
        BY <3>1, <3>3, <4>1, <4>2
    <3>5. CASE next <= n
      BY <1>1, <1>3, <3>2, <3>4, <3>5
    <3>6. CASE next = n + 1
      BY <1>1, <1>4, <3>6
    <3> QED
      BY <1>1, <3>3, <3>4, <3>5, <3>6
  <2>2. CASE i > n
    BY <1>1, <1>4, <1>5, <1>8, <2>2 DEF m
  <2> QED
    BY <1>1, <2>1, <2>2
<1>9. ASSUME NEW i \in 1 .. n + m, NEW j \in 1 .. n + m, t[i].of = t[j].of
      PROVE  t[j].at - t[i].at = j - i
  <2>1. CASE i <= n /\ j <= n
    <3>1. i \in 1 .. n /\ j \in 1 .. n
      BY <1>1, <2>1
    <3>2. t[i] = s[i] /\ t[j] = s[j] /\ s[i].of = s[j].of
      BY <1>3, <1>9, <3>1
    <3> QED
      BY <3>1, <3>2 DEF WholeRequests, n
  <2>2. CASE i > n /\ j > n
    <3>1. i \in n + 1 .. n + m /\ j \in n + 1 .. n + m
      BY <1>1, <2>2
    <3>2. t[i].at = i - n /\ t[j].at = j - n
      BY <1>4, <3>1
    <3> QED
      BY <1>1, <3>2
  <2>3. CASE i <= n /\ j > n
    <3>1. i \in 1 .. n /\ j \in n + 1 .. n + m
      BY <1>1, <2>3
    <3> QED
      BY <1>3, <1>4, <1>9, <3>1
  <2>4. CASE i > n /\ j <= n
    <3>1. j \in 1 .. n /\ i \in n + 1 .. n + m
      BY <1>1, <2>4
    <3> QED
      BY <1>3, <1>4, <1>9, <3>1
  <2> QED
    BY <1>1, <2>1, <2>2, <2>3, <2>4
<1>10. Len(t) = n + m
  BY <1>2
<1>11. WholeRequests(t, ops2)
  BY <1>6, <1>7, <1>8, <1>9, <1>10 DEF WholeRequests
<1> QED
  BY <1>11 DEF t, ops2

-----------------------------------------------------------------------------
(* The steps *)

LEMMA GotAndLeft ==
  ASSUME Types, NEW n \in Nat
  PROVE  LET m == IF n < Len(bytes) THEN n ELSE Len(bytes)
         IN /\ Got(n) \in Seq(Byte) /\ Len(Got(n)) = m
            /\ \A i \in 1 .. m : Got(n)[i] = bytes[i]
            /\ Left(n) \in Seq(Byte) /\ Len(Left(n)) = Len(bytes) - m
            /\ \A i \in 1 .. Len(bytes) - m : Left(n)[i] = bytes[i + n]
<1> DEFINE m == IF n < Len(bytes) THEN n ELSE Len(bytes)
<1>1. Len(bytes) \in Nat /\ \A i \in 1 .. Len(bytes) : bytes[i] \in Byte
  BY ByteFields DEF Types
<1>2. m \in Nat /\ m <= Len(bytes) /\ m <= n
  BY <1>1
<1>3. /\ Got(n) \in Seq(Byte) /\ Len(Got(n)) = m
      /\ \A i \in 1 .. m : Got(n)[i] = bytes[i]
  <2>1. Got(n) = SubSeq(bytes, 1, m)
    BY DEF Got
  <2>2. \A i \in 1 .. m : bytes[i] \in Byte
    BY <1>1, <1>2
  <2> HIDE DEF m
  <2>3. /\ SubSeq(bytes, 1, m) \in Seq(Byte)
        /\ Len(SubSeq(bytes, 1, m)) = IF 1 <= m THEN m - 1 + 1 ELSE 0
        /\ \A i \in 1 .. m - 1 + 1 : SubSeq(bytes, 1, m)[i] = bytes[1 + i - 1]
    BY <1>2, <2>2, SubSeqProperties
  <2> QED
    BY <1>2, <2>1, <2>3
<1>4. /\ Left(n) \in Seq(Byte) /\ Len(Left(n)) = Len(bytes) - m
      /\ \A i \in 1 .. Len(bytes) - m : Left(n)[i] = bytes[i + n]
  <2>1. \A i \in n + 1 .. Len(bytes) : bytes[i] \in Byte
    BY <1>1
  <2>2. /\ Left(n) \in Seq(Byte)
        /\ Len(Left(n)) = IF n + 1 <= Len(bytes) THEN Len(bytes) - (n + 1) + 1 ELSE 0
        /\ \A i \in 1 .. Len(bytes) - (n + 1) + 1 : Left(n)[i] = bytes[n + 1 + i - 1]
    BY <1>1, <2>1, SubSeqProperties DEF Left
  <2>3. CASE n < Len(bytes)
    <3>1. Len(bytes) - (n + 1) + 1 = Len(bytes) - m
      BY <1>1, <2>3
    <3>2. \A i \in 1 .. Len(bytes) - m : n + 1 + i - 1 = i + n
      BY <1>1, <1>2
    <3> QED
      BY <1>1, <2>2, <2>3, <3>1, <3>2
  <2>4. CASE ~(n < Len(bytes))
    BY <1>1, <2>2, <2>4
  <2> QED
    BY <2>3, <2>4
<1> QED
  BY <1>3, <1>4

\* process_entry has read no more than the request has.
LEMMA LeftIsNat ==
  ASSUME NEW op \in OpCodes, PlaceIn(op)
  PROVE  Len(taken) \in Nat /\ Length(op) - Len(taken) \in Nat
<1>1. PIPE_NAME_SIZE \in Nat /\ PIPE_NAME_SIZE > 0 /\ BOX_NAME_SIZE \in Nat
  BY RegisterAssumption
<1>2. Length(op) \in {PIPE_NAME_SIZE + 1, PIPE_NAME_SIZE + BOX_NAME_SIZE + 3}
  BY DEF Length
<1>3. ~IsList(op) => Length(op) = PIPE_NAME_SIZE + BOX_NAME_SIZE + 3
  BY DEF Length
<1>4. \/ Len(taken) = 1 \/ Len(taken) = 2 \/ Len(taken) = Length(op)
      \/ Len(taken) = PIPE_NAME_SIZE + 2 /\ Length(op) = PIPE_NAME_SIZE + BOX_NAME_SIZE + 3
      \/ Len(taken) = PIPE_NAME_SIZE + 3 /\ Length(op) = PIPE_NAME_SIZE + BOX_NAME_SIZE + 3
  BY <1>3 DEF PlaceIn
<1>5. Length(op) \in Nat /\ Length(op) >= 2
  BY <1>1, <1>2
<1>6. CASE Len(taken) \in {1, 2, Length(op)}
  <2>1. CASE Len(taken) = 1
    BY <1>5, <2>1
  <2>2. CASE Len(taken) = 2
    BY <1>5, <2>2
  <2>3. CASE Len(taken) = Length(op)
    BY <1>5, <2>3
  <2> QED
    BY <1>6, <2>1, <2>2, <2>3
<1>7. CASE Len(taken) = PIPE_NAME_SIZE + 2 /\ Length(op) = PIPE_NAME_SIZE + BOX_NAME_SIZE + 3
  BY <1>1, <1>7
<1>8. CASE Len(taken) = PIPE_NAME_SIZE + 3 /\ Length(op) = PIPE_NAME_SIZE + BOX_NAME_SIZE + 3
  BY <1>1, <1>8
<1> QED
  BY <1>4, <1>6, <1>7, <1>8

\* A client that has written stays one that has.
ClientsKept == \A c \in Clients : client[c] \in {"written", "closed"} =>
                                  client'[c] \in {"written", "closed"}

Between == {"open", "read", "close"}

LEMMA KeepFramed ==
  ASSUME Types, NEW ops \in [Clients -> OpCodes], Framed(ops), ClientsKept,
         UNCHANGED <<bytes, code, taken>>,
         reader' = reader \/ (reader \in Between /\ reader' \in Between)
  PROVE  Framed(ops)'
<1>1. \A i \in 1 .. Len(bytes) : bytes[i].of \in Clients
  BY ByteFields DEF Types
<1>2. WholeRequests(bytes, ops)' /\ \A i \in 1 .. Len(bytes') :
                                     client'[bytes'[i].of] \in {"written", "closed"}
  BY <1>1 DEF Framed, ClientsKept
<1>3. NoEntry => NoEntry'
  BY DEF NoEntry, Between
<1>4. EntryKept(ops) => EntryKept(ops)'
  BY DEF EntryKept, PlaceIn, ClientsKept, Between
<1> QED
  BY <1>2, <1>3, <1>4 DEF Framed

\* The last close of the pipe comes between two entries.
LEMMA EmptyFramed ==
  ASSUME Types, NEW ops \in [Clients -> OpCodes], Framed(ops), ClientsKept,
         UNCHANGED <<code, taken>>, bytes' = <<>>, reader \in Between, reader' \in Between
  PROVE  Framed(ops)'
<1>1. Len(bytes') = 0
  OBVIOUS
<1>2. WholeRequests(bytes, ops)'
  BY <1>1 DEF WholeRequests
<1>3. NoEntry => NoEntry'
  BY DEF NoEntry, Between
<1>4. EntryKept(ops) => EntryKept(ops)'
  <2> SUFFICES ASSUME EntryKept(ops) PROVE EntryKept(ops)'
    OBVIOUS
  <2> DEFINE c == taken[1].of
  <2>1. c \in Clients /\ code = ops[c] /\ client'[c] \in {"written", "closed"}
    BY DEF EntryKept, ClientsKept
  <2>2. Len(taken) = Length(ops[c])
    BY DEF EntryKept, PlaceIn, Between
  <2>3. Length(ops[c]) - Len(taken) = 0
    BY <2>1, <2>2, LengthRange
  <2>4. PlaceIn(ops[c])'
    BY <2>2 DEF PlaceIn, Between
  <2>5. \A k \in 1 .. Len(taken) : taken[k].of = c /\ taken[k].at = k
    BY DEF EntryKept
  <2> QED
    BY <1>1, <2>1, <2>3, <2>4, <2>5 DEF EntryKept
<1> QED
  BY <1>1, <1>2, <1>3, <1>4 DEF Framed

LEMMA CloseFramed ==
  ASSUME Types, NEW ops \in [Clients -> OpCodes], Framed(ops), ClientsKept,
         UNCHANGED <<code, taken>>, NEW writers, NEW open \in BOOLEAN,
         ClosedByAll(writers, open), ~open => reader \in Between,
         reader' = reader \/ (reader \in Between /\ reader' \in Between)
  PROVE  Framed(ops)'
<1>1. CASE bytes' = <<>> /\ ~open
  BY <1>1, EmptyFramed
<1>2. CASE UNCHANGED bytes
  BY <1>2, KeepFramed
<1> QED
  BY <1>1, <1>2 DEF ClosedByAll

LEMMA WriteFramed ==
  ASSUME Types, NEW ops \in [Clients -> OpCodes], Framed(ops), NEW c \in Clients,
         NEW op \in OpCodes, NEW name \in NameBytes, ClientWrite(c, op, name)
  PROVE  Framed([ops EXCEPT ![c] = op])'
<1> DEFINE ops2 == [ops EXCEPT ![c] = op]
<1>1. /\ client[c] = "opened" /\ client' = [client EXCEPT ![c] = "written"]
      /\ bytes' = bytes \o Request(c, op, name) /\ UNCHANGED <<reader, code, taken>>
  BY DEF ClientWrite, ClientGoes
<1>2. /\ Len(bytes) \in Nat /\ Length(op) \in Nat /\ Length(op) > 0
      /\ \A i \in 1 .. Len(bytes) : bytes[i].of \in Clients \ {c}
  <2>1. \A i \in 1 .. Len(bytes) : bytes[i].of \in Clients /\ bytes[i].of # c
    BY <1>1, ByteFields DEF Types, Framed
  <2> QED
    BY <2>1, ByteFields, LengthRange DEF Types
<1>3. WholeRequests(bytes', ops2)
  BY <1>1, <1>2, AppendWhole DEF Types, Framed
<1>4. /\ Len(bytes') = Len(bytes) + Length(op)
      /\ \A i \in 1 .. Len(bytes) : bytes'[i] = bytes[i]
      /\ \A i \in Len(bytes) + 1 .. Len(bytes') :
            bytes'[i].of = c /\ bytes'[i].at = i - Len(bytes)
  <2>1. /\ bytes \in Seq(Byte) /\ Request(c, op, name) \in Seq(Byte)
        /\ Len(Request(c, op, name)) = Length(op)
    BY RequestIs DEF Types
  <2>2. /\ Len(bytes') = Len(bytes) + Length(op)
        /\ \A i \in 1 .. Len(bytes) + Length(op) :
             bytes'[i] = IF i <= Len(bytes) THEN bytes[i] ELSE Request(c, op, name)[i - Len(bytes)]
    BY <1>1, <2>1, ConcatProperties
  <2>3. \A i \in Len(bytes) + 1 .. Len(bytes') :
          /\ i - Len(bytes) \in 1 .. Length(op)
          /\ bytes'[i] = Request(c, op, name)[i - Len(bytes)]
    BY <1>2, <2>2
  <2>4. \A i \in 1 .. Len(bytes) : bytes'[i] = bytes[i]
    BY <1>2, <2>2
  <2>5. \A k \in 1 .. Length(op) : /\ Request(c, op, name)[k].of = c
                                  /\ Request(c, op, name)[k].at = k
    BY RequestIs
  <2>6. \A i \in Len(bytes) + 1 .. Len(bytes') :
          bytes'[i].of = c /\ bytes'[i].at = i - Len(bytes)
    BY <2>3, <2>5
  <2> QED
    BY <2>2, <2>4, <2>6
<1>5. \A b \in Clients \ {c} : client'[b] = client[b] /\ ops2[b] = ops[b]
  BY <1>1 DEF Types
<1>6. client'[c] = "written"
  BY <1>1 DEF Types
<1> HIDE DEF ops2
<1>7. \A i \in 1 .. Len(bytes') : client'[bytes'[i].of] \in {"written", "closed"}
  <2> TAKE i \in 1 .. Len(bytes')
  <2>1. CASE i <= Len(bytes)
    BY <1>2, <1>4, <1>5, <2>1 DEF Framed
  <2>2. CASE i > Len(bytes)
    BY <1>2, <1>4, <1>6, <2>2
  <2> QED
    BY <1>2, <1>4, <2>1, <2>2
<1>8. NoEntry => NoEntry'
  <2>1. CASE bytes = <<>>
    <3>1. Len(bytes) = 0
      BY <2>1
    <3>2. bytes'[1].at = 1
      BY <1>2, <1>4, <3>1
    <3> QED
      BY <1>1, <3>2 DEF NoEntry
  <2>2. CASE bytes # <<>>
    <3>1. Len(bytes) >= 1
      BY <1>2, <2>2, EmptySeq DEF Types
    <3>2. bytes'[1] = bytes[1]
      BY <1>2, <1>4, <3>1
    <3> QED
      BY <1>1, <2>2, <3>2 DEF NoEntry
  <2> QED
    BY <2>1, <2>2
<1>9. EntryKept(ops) => EntryKept(ops2)'
  <2> SUFFICES ASSUME EntryKept(ops) PROVE EntryKept(ops2)'
    OBVIOUS
  <2> DEFINE b == taken[1].of
             left == Length(ops[b]) - Len(taken)
  <2>1. b \in Clients \ {c} /\ client[b] \in {"written", "closed"}
    BY <1>1 DEF EntryKept
  <2>2. ops2[b] = ops[b] /\ client'[b] \in {"written", "closed"}
    BY <1>5, <2>1
  <2>3. left \in Int
    BY <2>1, LengthRange, ByteFields DEF Types
  <2>4. left <= Len(bytes)
    <3>1. left >= 1 => left \in 1 .. left
      BY <2>3
    <3> HIDE DEF left
    <3>2. left >= 1 => left <= Len(bytes)
      BY <3>1 DEF EntryKept, left
    <3> QED
      BY <1>2, <2>3, <3>2
  <2>5. \A d \in 1 .. left : d <= Len(bytes') /\ bytes'[d].of = b /\ bytes'[d].at = Len(taken) + d
    <3> TAKE d \in 1 .. left
    <3>1. d <= Len(bytes) /\ bytes[d].of = b /\ bytes[d].at = Len(taken) + d
      BY DEF EntryKept
    <3>2. d \in 1 .. Len(bytes)
      BY <1>2, <2>3, <3>1
    <3> QED
      BY <1>2, <1>4, <3>1, <3>2
  <2>6. left + 1 <= Len(bytes') => bytes'[left + 1].at = 1
    <3>1. CASE left + 1 <= Len(bytes)
      <4>1. left >= 0
        BY <2>1, LeftIsNat DEF EntryKept
      <4>2. left + 1 \in 1 .. Len(bytes)
        BY <1>2, <2>3, <3>1, <4>1
      <4>3. bytes[left + 1].at = 1
        BY <3>1 DEF EntryKept
      <4> QED
        BY <1>4, <4>2, <4>3
    <3>2. CASE left = Len(bytes)
      <4>1. Len(bytes) + 1 \in Len(bytes) + 1 .. Len(bytes')
        BY <1>2, <1>4
      <4>2. bytes'[Len(bytes) + 1].at = 1
        BY <1>2, <1>4, <4>1
      <4> QED
        BY <3>2, <4>2
    <3> QED
      BY <1>2, <2>3, <2>4, <3>1, <3>2
  <2>7. \A j \in 1 .. Len(bytes') : bytes'[j].of = b => j <= left
    <3> TAKE j \in 1 .. Len(bytes')
    <3>1. CASE j <= Len(bytes)
      BY <1>2, <1>4, <3>1 DEF EntryKept
    <3>2. CASE j > Len(bytes)
      BY <1>2, <1>4, <2>1, <3>2
    <3> QED
      BY <1>2, <1>4, <3>1, <3>2
  <2>8. PlaceIn(ops2[b])' /\ code' = ops2[b]
    BY <1>1, <2>2 DEF EntryKept, PlaceIn
  <2>9. \A k \in 1 .. Len(taken) : taken[k].of = b /\ taken[k].at = k
    BY DEF EntryKept
  <2> QED
    BY <1>1, <2>1, <2>2, <2>5, <2>6, <2>7, <2>8, <2>9 DEF EntryKept
<1>10. Framed(ops2)'
  BY <1>1, <1>3, <1>7, <1>8, <1>9 DEF Framed
<1> QED
  BY <1>10 DEF ops2

\* main is at the first byte of a request, whose code it knows.
LEMMA MainReadFramed ==
  ASSUME Types, NEW ops \in [Clients -> OpCodes], Framed(ops), MainRead
  PROVE  Framed(ops)'
<1> DEFINE first == bytes[1]
           c == first.of
           L == Length(ops[c])
<1>1. /\ reader = "read" /\ bytes # <<>> /\ UNCHANGED client /\ bytes' = Tail(bytes)
      /\ Head(bytes) = first
  BY DEF MainRead
<1>2. /\ Len(bytes) \in Nat /\ Len(bytes) >= 1 /\ bytes \in Seq(Byte)
      /\ \A i \in 1 .. Len(bytes) : bytes[i].of \in Clients
  BY <1>1, EmptySeq, ByteFields DEF Types
<1>3. c \in Clients /\ client[c] \in {"written", "closed"} /\ L \in Nat /\ L > 0
  BY <1>2, LengthRange DEF Framed
<1>4. first.at = 1
  <2>1. CASE NoEntry
    BY <1>1, <2>1 DEF NoEntry
  <2>2. CASE EntryKept(ops)
    <3>1. Len(taken) = Length(ops[taken[1].of]) /\ taken[1].of \in Clients
      BY <1>1, <2>2 DEF EntryKept, PlaceIn
    <3>2. Length(ops[taken[1].of]) - Len(taken) = 0
      BY <3>1, LengthRange
    <3> QED
      BY <1>2, <2>2, <3>2 DEF EntryKept
  <2> QED
    BY <2>1, <2>2 DEF Framed
<1>5. first.byte = ops[c]
  BY <1>2, <1>4 DEF Framed, WholeRequests
<1>6. code' = ops[c] /\ taken' = <<first>> /\ reader' = "bar"
  BY <1>1, <1>3, <1>5 DEF MainRead
<1>7. /\ bytes' \in Seq(Byte) /\ Len(bytes') = Len(bytes) - 1
      /\ \A i \in 1 .. Len(bytes') : bytes'[i] = bytes[i + 1]
  BY <1>1, <1>2, HeadTailProperties
<1>8. WholeRequests(bytes', ops)
  <2>1. 1 \in 0 .. Len(bytes) /\ WholeRequests(bytes, ops)
    BY <1>2 DEF Framed
  <2> QED
    BY <1>2, <1>7, <2>1, DropWhole
<1>9. \A i \in 1 .. Len(bytes') : i + 1 \in 1 .. Len(bytes)
  BY <1>2, <1>7
<1>10. \A i \in 1 .. Len(bytes') : client'[bytes'[i].of] \in {"written", "closed"}
  BY <1>1, <1>7, <1>9 DEF Framed
<1>11. ASSUME NEW d \in 1 .. L - 1
       PROVE  d <= Len(bytes') /\ bytes'[d].of = c /\ bytes'[d].at = 1 + d
  <2>1. 1 \in 1 .. Len(bytes) /\ d \in 0 .. L - first.at /\ d \in Nat
    BY <1>2, <1>3, <1>4
  <2>2. 1 + d <= Len(bytes) /\ bytes[1 + d].of = c /\ bytes[1 + d].at = first.at + d
    BY <2>1 DEF Framed, WholeRequests
  <2>3. d \in 1 .. Len(bytes') /\ 1 + d = d + 1
    BY <1>2, <1>7, <2>1, <2>2
  <2> QED
    BY <1>4, <1>7, <2>2, <2>3
<1>12. L <= Len(bytes') => bytes'[L].at = 1
  <2> SUFFICES ASSUME L <= Len(bytes') PROVE bytes'[L].at = 1
    OBVIOUS
  <2>1. 1 + L - first.at + 1 = L + 1 /\ L + 1 <= Len(bytes) /\ L \in 1 .. Len(bytes')
    BY <1>2, <1>3, <1>4, <1>7
  <2>2. 1 \in 1 .. Len(bytes)
    BY <1>2
  <2>3. bytes[1 + L - first.at + 1].at = 1
    BY <2>1, <2>2 DEF Framed, WholeRequests
  <2> QED
    BY <1>7, <2>1, <2>3
<1>13. ASSUME NEW j \in 1 .. Len(bytes'), bytes'[j].of = c
       PROVE  j <= L - 1
  <2>1. bytes[j + 1].of = first.of /\ j + 1 \in 1 .. Len(bytes) /\ 1 \in 1 .. Len(bytes)
    BY <1>2, <1>7, <1>9, <1>13
  <2>2. bytes[j + 1].at - first.at = (j + 1) - 1
    BY <2>1 DEF Framed, WholeRequests
  <2>3. bytes[j + 1].at <= L
    BY <2>1 DEF Framed, WholeRequests
  <2>4. bytes[j + 1].at \in Nat /\ j \in Nat
    BY <1>2, <2>1, ByteFields
  <2> QED
    BY <1>3, <1>4, <2>2, <2>3, <2>4
<1>14. EntryKept(ops)'
  <2>1. taken'[1] = first /\ taken'[1].of = c /\ Len(taken') = 1 /\ taken' # <<>>
    BY <1>6
  <2>2. PlaceIn(ops[taken[1].of])'
    BY <1>6, <2>1 DEF PlaceIn
  <2>3. \A k \in 1 .. Len(taken') : taken'[k].of = c /\ taken'[k].at = k
    BY <1>4, <2>1
  <2>4. L - 1 + 1 = L /\ client'[c] \in {"written", "closed"} /\ code' = ops[c] /\ c \in Clients
    BY <1>1, <1>3, <1>6
  <2>5. Length(ops[taken'[1].of]) - Len(taken') = L - 1
    BY <2>1
  <2>6. /\ \A d \in 1 .. L - 1 : /\ d <= Len(bytes') /\ bytes'[d].of = c
                                /\ bytes'[d].at = Len(taken') + d
        /\ L - 1 + 1 <= Len(bytes') => bytes'[L - 1 + 1].at = 1
        /\ \A j \in 1 .. Len(bytes') : bytes'[j].of = c => j <= L - 1
    BY <1>11, <1>12, <1>13, <2>1, <2>4
  <2> HIDE DEF L, c, first
  <2> QED
    BY <2>1, <2>2, <2>3, <2>4, <2>5, <2>6 DEF EntryKept
<1>15. taken' # <<>>
  BY <1>6
<1> QED
  BY <1>8, <1>10, <1>14, <1>15 DEF Framed

\* A read of no more than is left of the entry gets all it asks for, from it.
LEMMA TakeFramed ==
  ASSUME Types, NEW ops \in [Clients -> OpCodes], Framed(ops), taken # <<>>,
         reader \notin Between, NEW n \in Nat, n <= Length(ops[taken[1].of]) - Len(taken),
         bytes' = Left(n), taken' = taken \o Got(n), UNCHANGED <<client, code>>,
         Len(taken') = Len(taken) + n => PlaceIn(ops[taken[1].of])'
  PROVE  Framed(ops)' /\ Len(taken') = Len(taken) + n
<1> DEFINE c == taken[1].of
           L == Length(ops[c])
           t == Len(taken)
<1>1. EntryKept(ops)
  BY DEF Framed, NoEntry, Between
<1>2. /\ c \in Clients /\ code = ops[c] /\ client[c] \in {"written", "closed"}
      /\ L \in Nat /\ t \in Nat /\ t >= 1 /\ L - t \in Nat
  <2>1. taken \in Seq(Byte)
    BY DEF Types
  <2>2. t \in Nat /\ t >= 1
    BY <2>1, EmptySeq
  <2> QED
    BY <1>1, <2>2, LengthRange, LeftIsNat DEF EntryKept
<1>3. Len(bytes) \in Nat /\ bytes \in Seq(Byte) /\ taken \in Seq(Byte)
  BY ByteFields DEF Types
<1>4. \A d \in 1 .. L - t : d \in 1 .. Len(bytes) /\ bytes[d].of = c /\ bytes[d].at = t + d
  <2>1. \A d \in 1 .. L - t : d <= Len(bytes) /\ bytes[d].of = c /\ bytes[d].at = t + d
    BY <1>1 DEF EntryKept
  <2> QED
    BY <1>2, <1>3, <2>1
<1>5. n <= Len(bytes) /\ n <= L - t
  <2>1. CASE n = 0
    BY <1>3, <2>1
  <2>2. CASE n > 0
    <3>1. n \in 1 .. L - t
      BY <1>2, <2>2
    <3> QED
      BY <1>3, <1>4, <3>1
  <2> QED
    BY <2>1, <2>2
<1>6. /\ Got(n) \in Seq(Byte) /\ Len(Got(n)) = n
      /\ \A i \in 1 .. n : Got(n)[i] = bytes[i]
      /\ bytes' \in Seq(Byte) /\ Len(bytes') = Len(bytes) - n
      /\ \A i \in 1 .. Len(bytes') : bytes'[i] = bytes[i + n]
  <2> DEFINE m == IF n < Len(bytes) THEN n ELSE Len(bytes)
  <2>1. m = n
    BY <1>3, <1>5
  <2> HIDE DEF m
  <2>2. /\ Got(n) \in Seq(Byte) /\ Len(Got(n)) = m
        /\ \A i \in 1 .. m : Got(n)[i] = bytes[i]
        /\ Left(n) \in Seq(Byte) /\ Len(Left(n)) = Len(bytes) - m
        /\ \A i \in 1 .. Len(bytes) - m : Left(n)[i] = bytes[i + n]
    BY GotAndLeft DEF m
  <2> QED
    BY <2>1, <2>2
<1>7. /\ Len(taken') = t + n
      /\ \A k \in 1 .. t : taken'[k] = taken[k]
      /\ \A k \in t + 1 .. t + n : taken'[k] = bytes[k - t] /\ k - t \in 1 .. n
  <2>1. /\ Len(taken') = t + n
        /\ \A k \in 1 .. t + n : taken'[k] = IF k <= t THEN taken[k] ELSE Got(n)[k - t]
    <3>1. /\ Len(taken \o Got(n)) = Len(taken) + Len(Got(n))
          /\ \A k \in 1 .. Len(taken) + Len(Got(n)) : (taken \o Got(n))[k] =
               IF k <= Len(taken) THEN taken[k] ELSE Got(n)[k - Len(taken)]
      BY <1>3, <1>6, ConcatProperties
    <3>2. taken' = taken \o Got(n) /\ Len(Got(n)) = n
      BY <1>6
    <3> QED
      BY <3>1, <3>2
  <2>2. \A k \in t + 1 .. t + n : k \in 1 .. t + n /\ ~(k <= t) /\ k - t \in 1 .. n
    BY <1>2
  <2>3. \A k \in 1 .. t : k \in 1 .. t + n /\ k <= t
    BY <1>2
  <2> QED
    BY <1>6, <2>1, <2>2, <2>3
<1>8. taken'[1] = taken[1]
  BY <1>2, <1>7
<1>9. \A k \in 1 .. Len(taken') : taken'[k].of = c /\ taken'[k].at = k
  <2> TAKE k \in 1 .. Len(taken')
  <2>1. CASE k <= t
    <3>1. k \in 1 .. t
      BY <1>2, <1>7, <2>1
    <3>2. taken[k].of = c /\ taken[k].at = k
      BY <1>1, <3>1 DEF EntryKept
    <3> QED
      BY <1>7, <3>1, <3>2
  <2>2. CASE k > t
    <3>1. k \in t + 1 .. t + n /\ k - t \in 1 .. L - t
      BY <1>2, <1>5, <1>7, <2>2
    <3>2. bytes[k - t].of = c /\ bytes[k - t].at = t + (k - t)
      BY <1>4, <3>1
    <3> QED
      BY <1>2, <1>7, <3>1, <3>2
  <2> QED
    BY <1>2, <1>7, <2>1, <2>2
<1>10. WholeRequests(bytes', ops)
  <2>1. n \in 0 .. Len(bytes) /\ WholeRequests(bytes, ops)
    BY <1>3, <1>5 DEF Framed
  <2> QED
    BY <1>3, <1>6, <2>1, DropWhole
<1>11. \A i \in 1 .. Len(bytes') : i + n \in 1 .. Len(bytes)
  BY <1>3, <1>5, <1>6
<1>12. \A i \in 1 .. Len(bytes') : client'[bytes'[i].of] \in {"written", "closed"}
  BY <1>6, <1>11 DEF Framed
<1>13. ASSUME NEW d \in 1 .. L - (t + n)
       PROVE  d <= Len(bytes') /\ bytes'[d].of = c /\ bytes'[d].at = (t + n) + d
  <2>1. d + n \in 1 .. L - t /\ d \in Nat /\ d >= 1
    BY <1>2, <1>5
  <2>2. d + n \in 1 .. Len(bytes) /\ bytes[d + n].of = c /\ bytes[d + n].at = t + (d + n)
    BY <1>4, <2>1
  <2>3. d \in 1 .. Len(bytes')
    BY <1>3, <1>5, <1>6, <2>1, <2>2
  <2> QED
    BY <1>2, <1>6, <2>1, <2>2, <2>3
<1>14. L - (t + n) + 1 <= Len(bytes') => bytes'[L - (t + n) + 1].at = 1
  <2> SUFFICES ASSUME L - (t + n) + 1 <= Len(bytes') PROVE bytes'[L - (t + n) + 1].at = 1
    OBVIOUS
  <2>1. /\ L - (t + n) + 1 \in 1 .. Len(bytes')
        /\ (L - (t + n) + 1) + n = L - t + 1 /\ L - t + 1 <= Len(bytes)
    BY <1>2, <1>3, <1>5, <1>6, SMTT(30)
  <2>2. bytes[L - t + 1].at = 1
    BY <1>1, <2>1 DEF EntryKept
  <2> QED
    BY <1>6, <2>1, <2>2
<1>15. ASSUME NEW j \in 1 .. Len(bytes'), bytes'[j].of = c
       PROVE  j <= L - (t + n)
  <2>1. j + n \in 1 .. Len(bytes) /\ bytes[j + n].of = c
    BY <1>6, <1>11, <1>15
  <2>2. j + n <= L - t
    BY <1>1, <2>1 DEF EntryKept
  <2> QED
    BY <1>2, <1>6, <2>2
<1>16. taken' # <<>>
  BY <1>2, <1>7
<1>17. EntryKept(ops)'
  <2>1. PlaceIn(ops[c])'
    BY <1>7
  <2> HIDE DEF L, t
  <2> QED
    BY <1>2, <1>7, <1>8, <1>9, <1>13, <1>14, <1>15, <2>1, SMTT(30) DEF EntryKept, L
<1> QED
  BY <1>7, <1>10, <1>12, <1>16, <1>17 DEF Framed

\* What has been read stays.
LEMMA GotKeepsHead ==
  ASSUME Types, NEW n \in Nat, taken # <<>>, taken' = taken \o Got(n)
  PROVE  taken'[1] = taken[1]
<1>1. taken \in Seq(Byte) /\ Got(n) \in Seq(Byte) /\ Len(Got(n)) \in Nat
  BY GotAndLeft, ByteFields DEF Types
<1>2. Len(taken) \in Nat /\ Len(taken) >= 1
  BY <1>1, EmptySeq
<1>3. 1 \in 1 .. Len(taken) + Len(Got(n)) /\ 1 <= Len(taken)
  BY <1>1, <1>2
<1> QED
  BY <1>1, <1>3, ConcatProperties

\* What process_entry knows when it reads.
LEMMA InEntry ==
  ASSUME Types, NEW ops \in [Clients -> OpCodes], Framed(ops), reader \notin Between
  PROVE  /\ taken # <<>> /\ EntryKept(ops) /\ ops[taken[1].of] \in OpCodes
         /\ code = ops[taken[1].of] /\ PlaceIn(code) /\ Len(taken) \in Nat
<1>1. taken # <<>> /\ EntryKept(ops)
  BY DEF Framed, NoEntry, Between
<1> QED
  BY <1>1, LeftIsNat DEF EntryKept

LEMMA ReadBarFramed ==
  ASSUME Types, NEW ops \in [Clients -> OpCodes], Framed(ops), ReadBar
  PROVE  Framed(ops)'
<1>1. /\ reader = "bar" /\ reader' = "name" /\ bytes' = Left(1) /\ taken' = taken \o Got(1)
      /\ UNCHANGED <<client, code>> /\ reader \notin Between
  BY DEF ReadBar, Take, Between
<1>2. taken # <<>> /\ code = ops[taken[1].of] /\ code \in OpCodes /\ PlaceIn(code)
  BY <1>1, InEntry
<1>3. Len(taken) = 1
  BY <1>1, <1>2 DEF PlaceIn
<1>4. 1 <= Length(code) - Len(taken)
  BY <1>2, <1>3, LengthRange, RegisterAssumption
<1>5. Len(taken') = Len(taken) + 1 => PlaceIn(ops[taken[1].of])'
  BY <1>1, <1>3 DEF PlaceIn
<1> QED
  BY <1>1, <1>2, <1>4, <1>5, TakeFramed

LEMMA ReadBar2Framed ==
  ASSUME Types, NEW ops \in [Clients -> OpCodes], Framed(ops), ReadBar2
  PROVE  Framed(ops)'
<1>1. /\ reader = "bar_2" /\ reader' = "box" /\ bytes' = Left(1) /\ taken' = taken \o Got(1)
      /\ UNCHANGED <<client, code>> /\ reader \notin Between
  BY DEF ReadBar2, Take, Between
<1>2. /\ taken # <<>> /\ code = ops[taken[1].of] /\ code \in OpCodes /\ PlaceIn(code)
      /\ Len(taken) \in Nat
  BY <1>1, InEntry
<1>3. Len(taken) = PIPE_NAME_SIZE + 2 /\ ~IsList(code)
  BY <1>1, <1>2 DEF PlaceIn
<1>4. 1 <= Length(code) - Len(taken)
  BY <1>2, <1>3, LengthRange, RegisterAssumption
<1>5. ASSUME Len(taken') = Len(taken) + 1 PROVE PlaceIn(ops[taken[1].of])'
  <2>1. Len(taken') = PIPE_NAME_SIZE + 3
    BY <1>3, <1>5, RegisterAssumption
  <2>2. taken'[1] = taken[1]
    BY <1>1, <1>2, GotKeepsHead
  <2> QED
    BY <1>1, <1>2, <1>3, <2>1, <2>2 DEF PlaceIn
<1> QED
  BY <1>1, <1>2, <1>4, <1>5, TakeFramed

LEMMA ReadBoxFramed ==
  ASSUME Types, NEW ops \in [Clients -> OpCodes], Framed(ops), ReadBox
  PROVE  Framed(ops)'
<1>1. /\ reader = "box" /\ reader' = "read" /\ bytes' = Left(BOX_NAME_SIZE)
      /\ taken' = taken \o Got(BOX_NAME_SIZE)
      /\ UNCHANGED <<client, code>> /\ reader \notin Between /\ BOX_NAME_SIZE \in Nat
  BY RegisterAssumption DEF ReadBox, Take, Between
<1>2. /\ taken # <<>> /\ code = ops[taken[1].of] /\ code \in OpCodes /\ PlaceIn(code)
      /\ Len(taken) \in Nat
  BY <1>1, InEntry
<1>3. Len(taken) = PIPE_NAME_SIZE + 3 /\ ~IsList(code)
  BY <1>1, <1>2 DEF PlaceIn
<1>4. Length(code) = Len(taken) + BOX_NAME_SIZE
  BY <1>2, <1>3, LengthRange, RegisterAssumption
<1>5. BOX_NAME_SIZE <= Length(code) - Len(taken)
  BY <1>1, <1>2, <1>4
<1>6. ASSUME Len(taken') = Len(taken) + BOX_NAME_SIZE PROVE PlaceIn(ops[taken[1].of])'
  <2>1. taken'[1] = taken[1]
    BY <1>1, <1>2, GotKeepsHead
  <2> QED
    BY <1>1, <1>2, <1>4, <1>6, <2>1 DEF PlaceIn
<1> QED
  BY <1>1, <1>2, <1>5, <1>6, TakeFramed

\* A list's name is read one byte too far: there is none, or it is of another
\* request and the list has overrun.
LEMMA ReadNameFramed ==
  ASSUME Types, NEW ops \in [Clients -> OpCodes], Framed(ops), ReadName, ~overrun'
  PROVE  Framed(ops)'
<1> DEFINE P == PIPE_NAME_SIZE
           c == taken[1].of
<1>1. /\ reader = "name" /\ reader' = (IF IsList(code) THEN "read" ELSE "bar_2")
      /\ bytes' = Left(P) /\ taken' = taken \o Got(P)
      /\ UNCHANGED <<client, code>> /\ reader \notin Between
  BY DEF ReadName, Take, Between
<1>2. /\ taken # <<>> /\ code = ops[c] /\ code \in OpCodes /\ PlaceIn(code)
      /\ Len(taken) \in Nat /\ EntryKept(ops)
  BY <1>1, InEntry
<1>3. Len(taken) = 2
  BY <1>1, <1>2 DEF PlaceIn
<1>4. P \in Nat /\ P > 0 /\ BOX_NAME_SIZE \in Nat /\ Len(bytes) \in Nat
  BY RegisterAssumption, ByteFields DEF Types
<1>5. taken'[1] = taken[1]
  BY <1>1, <1>2, <1>4, GotKeepsHead
<1>6. CASE ~IsList(code)
  <2>1. Length(code) = P + BOX_NAME_SIZE + 3
    BY <1>2, <1>6, LengthRange
  <2>2. P <= Length(code) - Len(taken)
    BY <1>3, <1>4, <2>1
  <2>3. ASSUME Len(taken') = Len(taken) + P PROVE PlaceIn(ops[taken[1].of])'
    <3>1. Len(taken') = P + 2
      BY <1>3, <1>4, <2>3
    <3> QED
      BY <1>1, <1>2, <1>5, <1>6, <3>1 DEF PlaceIn
  <2> QED
    BY <1>1, <1>2, <1>4, <2>2, <2>3, TakeFramed
<1>7. CASE IsList(code)
  <2>1. Length(code) - Len(taken) = P - 1 /\ P - 1 \in Nat
    BY <1>2, <1>3, <1>4, <1>7, LengthRange
  <2>2. CASE Len(bytes) < P
    <3>1. Len(bytes) >= P - 1
      <4>1. \A d \in 1 .. P - 1 : d <= Len(bytes)
        BY <1>2, <2>1 DEF EntryKept
      <4>2. P - 1 > 0 => P - 1 \in 1 .. P - 1
        BY <1>4
      <4> QED
        BY <1>4, <4>1, <4>2
    <3>2. Got(P) = Got(P - 1)
      <4>1. Len(bytes) = P - 1
        BY <1>4, <2>2, <3>1
      <4> QED
        BY <1>4, <2>2, <4>1 DEF Got
    <3>3. Left(P) = Left(P - 1)
      <4>1. Len(bytes) = P - 1
        BY <1>4, <2>2, <3>1
      <4>2. SubSeq(bytes, P + 1, Len(bytes)) = <<>>
        BY <1>4, <4>1, SubSeqEmpty
      <4>3. SubSeq(bytes, (P - 1) + 1, Len(bytes)) = <<>>
        BY <1>4, <4>1, SubSeqEmpty
      <4> QED
        BY <4>2, <4>3 DEF Left
    <3>4. ASSUME Len(taken') = Len(taken) + (P - 1) PROVE PlaceIn(ops[taken[1].of])'
      <4>1. Len(taken') = Length(code)
        BY <1>2, <1>3, <1>4, <1>7, <3>4, LengthRange
      <4> QED
        BY <1>1, <1>2, <1>5, <1>7, <4>1 DEF PlaceIn
    <3>5. P - 1 <= Length(code) - Len(taken)
      BY <2>1
    <3> QED
      BY <1>1, <1>2, <2>1, <3>2, <3>3, <3>4, <3>5, TakeFramed
  <2>3. CASE Len(bytes) >= P
    <3>1. P \in 1 .. Len(bytes)
      BY <1>4, <2>3
    <3>2. bytes[P].of # c
      BY <1>2, <1>4, <2>1, <3>1 DEF EntryKept
    <3>3. bytes[P] \in ToSet(taken')
      <4>1. /\ Got(P) \in Seq(Byte) /\ Len(Got(P)) = P /\ Got(P)[P] = bytes[P]
        <5> DEFINE m == IF P < Len(bytes) THEN P ELSE Len(bytes)
        <5>1. m = P
          BY <1>4, <2>3
        <5> HIDE DEF m
        <5>2. /\ Got(P) \in Seq(Byte) /\ Len(Got(P)) = m
              /\ \A i \in 1 .. m : Got(P)[i] = bytes[i]
          BY <1>4, GotAndLeft DEF m
        <5> QED
          BY <1>4, <5>1, <5>2
      <4>2. /\ taken' \in Seq(Byte) /\ Len(taken') = 2 + P
            /\ \A k \in 1 .. 2 + P : taken'[k] = IF k <= 2 THEN taken[k] ELSE Got(P)[k - 2]
        <5>1. taken \in Seq(Byte)
          BY DEF Types
        <5>2. /\ taken \o Got(P) \in Seq(Byte)
              /\ Len(taken \o Got(P)) = Len(taken) + Len(Got(P))
              /\ \A k \in 1 .. Len(taken) + Len(Got(P)) : (taken \o Got(P))[k] =
                   IF k <= Len(taken) THEN taken[k] ELSE Got(P)[k - Len(taken)]
          BY <4>1, <5>1, ConcatProperties
        <5>3. taken' = taken \o Got(P) /\ Len(taken) = 2 /\ Len(Got(P)) = P
          BY <1>1, <1>3, <4>1
        <5> QED
          BY <5>2, <5>3
      <4>3. 2 + P \in 1 .. 2 + P /\ ~(2 + P <= 2) /\ (2 + P) - 2 = P
        BY <1>4
      <4>4. taken'[2 + P] = bytes[P]
        BY <4>1, <4>2, <4>3
      <4>5. 2 + P \in DOMAIN taken'
        BY <4>2, <4>3, LenProperties
      <4> QED
        BY <4>4, <4>5 DEF ToSet
    <3>4. Head(taken) = taken[1]
      BY <1>2 DEF Types
    <3> QED
      BY <1>7, <3>2, <3>3, <3>4 DEF ReadName
  <2> QED
    BY <1>4, <2>2, <2>3
<1> QED
  BY <1>6, <1>7

\* A client's own steps, and main's open and close.
LEMMA OthersFramed ==
  ASSUME Types, NEW ops \in [Clients -> OpCodes], Framed(ops),
         \/ MainOpen \/ MainEnd \/ MainClose
         \/ \E c \in Clients : ClientOpen(c) \/ ClientDies(c) \/ ClientClose(c)
  PROVE  Framed(ops)'
<1>1. CASE MainOpen
  <2>1. ClientsKept
    BY <1>1 DEF MainOpen, ClientsKept, Types
  <2> QED
    BY <1>1, <2>1, KeepFramed DEF MainOpen, Between
<1>2. CASE MainEnd
  BY <1>2, KeepFramed DEF MainEnd, Between, ClientsKept
<1>3. CASE MainClose
  BY <1>3, CloseFramed DEF MainClose, Between, ClientsKept
<1>4. ASSUME NEW c \in Clients, ClientOpen(c) PROVE Framed(ops)'
  <2>1. ClientsKept
    BY <1>4 DEF ClientOpen, ClientGoes, ClientsKept, Types
  <2> QED
    BY <1>4, <2>1, KeepFramed DEF ClientOpen
<1>5. ASSUME NEW c \in Clients, ClientDies(c) PROVE Framed(ops)'
  <2>1. ClientsKept
    BY <1>5 DEF ClientDies, ClientGoes, ClientsKept, Types
  <2>2. /\ UNCHANGED <<code, taken, reader>> /\ reader \in Between
        /\ ClosedByAll(Writers \ {c}, FALSE)
    BY <1>5 DEF ClientDies, Between
  <2> QED
    BY <2>1, <2>2, CloseFramed
<1>6. ASSUME NEW c \in Clients, ClientClose(c) PROVE Framed(ops)'
  <2>1. ClientsKept
    BY <1>6 DEF ClientClose, ClientGoes, ClientsKept, Types
  <2>2. /\ UNCHANGED <<code, taken, reader>> /\ ClosedByAll(Writers \ {c}, reader # "open")
        /\ (reader # "open") \in BOOLEAN /\ (~(reader # "open") => reader \in Between)
    BY <1>6 DEF ClientClose, Between
  <2> QED
    BY <2>1, <2>2, CloseFramed
<1> QED
  BY <1>1, <1>2, <1>3, <1>4, <1>5, <1>6

LEMMA KeepsTypes == Types /\ [Next]_vars => Types'
<1> SUFFICES ASSUME Types, [Next]_vars PROVE Types'
  OBVIOUS
<1> USE DEF Types
<1>0. <<>> \in Seq(Byte)
  BY EmptySeq
<1>1. ASSUME NEW c \in Clients, ClientOpen(c) PROVE Types'
  BY <1>1 DEF ClientOpen, ClientGoes
<1>2. ASSUME NEW c \in Clients, ClientDies(c) PROVE Types'
  BY <1>0, <1>2 DEF ClientDies, ClientGoes, ClosedByAll
<1>3. ASSUME NEW c \in Clients, ClientClose(c) PROVE Types'
  BY <1>0, <1>3 DEF ClientClose, ClientGoes, ClosedByAll
<1>4. ASSUME NEW c \in Clients, NEW op \in OpCodes, NEW name \in NameBytes,
             ClientWrite(c, op, name)
      PROVE  Types'
  <2>1. bytes' \in Seq(Byte)
    BY <1>4, RequestIs, ConcatProperties DEF ClientWrite
  <2> QED
    BY <1>4, <2>1 DEF ClientWrite, ClientGoes
<1>5. CASE MainOpen
  BY <1>5 DEF MainOpen
<1>6. CASE MainRead
  <2>1. Tail(bytes) \in Seq(Byte) /\ Head(bytes) \in Byte
    BY <1>6, HeadTailProperties DEF MainRead
  <2>2. <<Head(bytes)>> \in Seq(Byte)
    BY <2>1
  <2> QED
    BY <1>6, <2>1, <2>2 DEF MainRead
<1>7. CASE MainEnd
  BY <1>7 DEF MainEnd
<1>8. CASE MainClose
  BY <1>0, <1>8 DEF MainClose, ClosedByAll
<1>9. ASSUME NEW here, NEW n \in Nat, NEW there, Take(here, n, there), overrun' \in BOOLEAN
      PROVE  Types'
  <2>1. Left(n) \in Seq(Byte) /\ Got(n) \in Seq(Byte)
    BY GotAndLeft
  <2>2. taken \o Got(n) \in Seq(Byte)
    BY <2>1, ConcatProperties
  <2> QED
    BY <1>9, <2>1, <2>2 DEF Take
<1>10. 1 \in Nat /\ PIPE_NAME_SIZE \in Nat /\ BOX_NAME_SIZE \in Nat
  BY RegisterAssumption
<1>11. CASE ReadBar
  BY <1>9, <1>10, <1>11 DEF ReadBar
<1>12. CASE ReadName
  <2>1. overrun' \in BOOLEAN
    BY <1>12 DEF ReadName
  <2>2. Take("name", PIPE_NAME_SIZE, IF IsList(code) THEN "read" ELSE "bar_2")
    BY <1>12 DEF ReadName
  <2> QED
    BY <1>9, <1>10, <2>1, <2>2
<1>13. CASE ReadBar2
  BY <1>9, <1>10, <1>13 DEF ReadBar2
<1>14. CASE ReadBox
  BY <1>9, <1>10, <1>14 DEF ReadBox
<1>15. CASE UNCHANGED vars
  BY <1>15 DEF vars
<1> QED
  BY <1>1, <1>2, <1>3, <1>4, <1>5, <1>6, <1>7, <1>8, <1>11, <1>12, <1>13, <1>14, <1>15
  DEF Next, ReaderStep, ClientStep

\* A list that has overrun has for good.
LEMMA OverrunStays == Types /\ [Next]_vars /\ overrun => overrun'
BY DEF Types, Next, ReaderStep, ClientStep, ClientOpen, ClientDies, ClientClose, ClientWrite,
       MainOpen, MainRead, MainEnd, MainClose, ReadBar, ReadName, ReadBar2, ReadBox, vars

LEMMA InitHolds == Init => IInv
<1> SUFFICES ASSUME Init PROVE IInv
  OBVIOUS
<1>1. Types
  BY EmptySeq DEF Init, Types
<1>2. [c \in Clients |-> "1"] \in [Clients -> OpCodes]
  BY DEF OpCodes
<1>3. Len(bytes) = 0 /\ bytes = <<>> /\ taken = <<>> /\ reader = "open"
  BY DEF Init
<1>4. \A ops : Framed(ops)
  BY <1>3 DEF Framed, WholeRequests, NoEntry
<1> QED
  BY <1>1, <1>2, <1>4 DEF IInv

LEMMA StepHolds == IInv /\ [Next]_vars => IInv'
<1> SUFFICES ASSUME IInv, [Next]_vars, ~overrun'
             PROVE  \E ops \in [Clients -> OpCodes] : Framed(ops)'
  BY KeepsTypes DEF IInv
<1>1. PICK ops \in [Clients -> OpCodes] : Framed(ops)
  BY OverrunStays DEF IInv
<1>2. Types
  BY DEF IInv
<1>3. ASSUME NEW c \in Clients, NEW op \in OpCodes, NEW name \in NameBytes,
             ClientWrite(c, op, name)
      PROVE  \E o \in [Clients -> OpCodes] : Framed(o)'
  <2>1. [ops EXCEPT ![c] = op] \in [Clients -> OpCodes]
    OBVIOUS
  <2>2. Framed([ops EXCEPT ![c] = op])'
    BY <1>1, <1>2, <1>3, WriteFramed
  <2> QED
    BY <2>1, <2>2
<1>4. CASE UNCHANGED vars
  BY <1>1, <1>2, <1>4, KeepFramed DEF vars, ClientsKept
<1>5. CASE MainRead \/ ReadBar \/ ReadName \/ ReadBar2 \/ ReadBox
  BY <1>1, <1>2, <1>5, MainReadFramed, ReadBarFramed, ReadNameFramed, ReadBar2Framed,
     ReadBoxFramed
<1>6. CASE \/ MainOpen \/ MainEnd \/ MainClose
           \/ \E c \in Clients : ClientOpen(c) \/ ClientDies(c) \/ ClientClose(c)
  BY <1>1, <1>2, <1>6, OthersFramed
<1> QED
  BY <1>3, <1>4, <1>5, <1>6 DEF Next, ReaderStep, ClientStep

-----------------------------------------------------------------------------
\* Whatever the lengths of the names, however many clients write, in whatever
\* order, and whatever bytes their names have: until a list, which is written one
\* byte shorter (manager.c:187) than process_entry reads it, is followed at once by
\* another request, what main takes for a code is one and what process_entry reads
\* is the rest of that request.
THEOREM FramesAreKept == Spec => []FramesKept
<1>1. ASSUME IInv PROVE FramesKept
  <2> SUFFICES ASSUME ~overrun
               PROVE  /\ \A k \in DOMAIN taken : taken[k].of = taken[1].of /\ taken[k].at = k
                      /\ (reader = "read" /\ taken # <<>>) => Len(taken) = Length(code)
    BY DEF FramesKept
  <2>1. PICK ops \in [Clients -> OpCodes] : Framed(ops)
    BY <1>1 DEF IInv
  <2>2. DOMAIN taken = 1 .. Len(taken)
    BY <1>1, LenProperties DEF IInv, Types
  <2>3. CASE taken = <<>>
    BY <2>3
  <2>4. CASE taken # <<>> /\ EntryKept(ops)
    BY <2>2, <2>4 DEF EntryKept, PlaceIn
  <2> QED
    BY <2>1, <2>3, <2>4 DEF Framed, NoEntry
<1> QED
  BY <1>1, InitHolds, StepHolds, PTL DEF Spec
=============================================================================
