----------------------------- MODULE BoxesProofs -----------------------------
(***************************************************************************)
(* For any number of slots, names and clients.  With one publisher and one *)
(* subscriber at a time and any number of managers, no counter of the table*)
(* is below what the sessions that are linked will take from it.  With one *)
(* manager at a time and any number of clients, the table and the directory*)
(* agree whenever it has its answer, and the list it is sent is complete.  *)
(***************************************************************************)
EXTENDS Boxes, FiniteSetTheorems, TLAPS

\* One publisher and one subscriber; any number of sessions of managers.
OneOfEach ==
  /\ \A p, q \in Publishers : p = q
  /\ \A s, t \in Subscribers : s = t

Kinds == {"n_publishers", "n_subscribers"}

Places == {"idle", "search", "test", "answer", "counted", "linked", "uncount",
  "removed", "uncount_removed", "creat", "space", "find", "take", "name", "created",
  "unlink", "clear", "untake", "unname", "cleared", "list", "listed"}

\* A client that has found its slot.
HasSlot == {"test", "answer", "counted", "linked", "uncount", "removed", "uncount_removed"}

Box == [name : Names \cup {NoName}, n_publishers : Int, n_subscribers : Int]

\* What holds with any number of sessions: n_boxes and the counters are numbers,
\* which sessions that race may take out of their ranges.
LooseTypes ==
  /\ boxes \in [Slots -> Box]
  /\ pc \in [Sessions -> Places]
  /\ box_name \in [Sessions -> Names \cup {NoName}]
  /\ index \in [Sessions -> 0 .. max_sessions]
  /\ counter \in [Sessions -> Int] /\ n_boxes \in Int
  /\ \A s \in Clients : pc[s] \in HasSlot => index[s] \in Slots

\* A counter holds the session that is counted in, if there is one, and as many
\* as have left without a word; a session about to write it knows its value.
Account(s) ==
  /\ \A k \in Slots :
       IF CountedIn(s) /\ index[s] = k THEN boxes[k][Kind(s)] \in 1 .. MaxLost + 1
                                       ELSE boxes[k][Kind(s)] \in 0 .. MaxLost
  /\ pc[s] \in {"counted", "uncount", "uncount_removed"} =>
       counter[s] = boxes[index[s]][Kind(s)]

Accounts == \A s \in Clients : Account(s)

-----------------------------------------------------------------------------
USE BoxesAssumption DEF Clients, Sessions, Slots, Box, Kinds, Places, HasSlot

\* The table is empty, and nobody is there.
LEMMA InitHolds == Init => LooseTypes /\ Accounts
<1> SUFFICES ASSUME Init PROVE LooseTypes /\ Accounts
  OBVIOUS
<1>1. LooseTypes
  BY DEF Init, LooseTypes
<1>2. \A s \in Clients, k \in Slots : boxes[k][Kind(s)] = 0
  BY DEF Init, Kind
<1>3. \A s \in Clients : pc[s] = "idle"
  BY DEF Init
<1> QED
  BY <1>1, <1>2, <1>3 DEF Accounts, Account, CountedIn

\* What a session of a manager can do to the slots: it changes names only.
LEMMA ManagerKeepsCounters ==
  ASSUME LooseTypes, NEW m \in Managers, ManagerStep(m)
  PROVE  /\ boxes' \in [Slots -> Box]
         /\ \A k \in Slots, kind \in Kinds : boxes'[k][kind] = boxes[k][kind]
<1>1. CASE UNCHANGED boxes
  BY <1>1 DEF LooseTypes
<1>2. CASE \E b \in Names \cup {NoName} : boxes' = [boxes EXCEPT ![index[m]].name = b]
  <2>1. PICK b \in Names \cup {NoName} : boxes' = [boxes EXCEPT ![index[m]].name = b]
    BY <1>2
  <2>2. CASE index[m] \in Slots
    BY <2>1, <2>2 DEF LooseTypes
  <2>3. CASE index[m] \notin Slots
    BY <2>1, <2>3 DEF LooseTypes
  <2> QED
    BY <2>2, <2>3
<1>3. CreateName(m) => \E b \in Names \cup {NoName} :
                         boxes' = [boxes EXCEPT ![index[m]].name = b]
  BY DEF CreateName, LooseTypes
<1>4. RemoveUnname(m) => \E b \in Names \cup {NoName} :
                           boxes' = [boxes EXCEPT ![index[m]].name = b]
  BY DEF RemoveUnname
<1>5. ~CreateName(m) /\ ~RemoveUnname(m) => UNCHANGED boxes
  BY DEF ManagerStep, CreateStart, RemoveStart, CreateFile, CreateSpace, CreateFind,
         CreateTake, RemoveUnlink, RemoveFind, RemoveUntake, List, ListTurn, ListStop,
         Answered, table
<1> QED
  BY <1>1, <1>2, <1>3, <1>4, <1>5

\* Its locals are its own, and stay in their ranges.
LocalsKept(s) ==
  /\ pc' \in [Sessions -> Places] /\ index' \in [Sessions -> 0 .. max_sessions]
  /\ box_name' \in [Sessions -> Names \cup {NoName}]
  /\ counter' \in [Sessions -> Int] /\ n_boxes' \in Int
  /\ \A t \in Sessions \ {s} : /\ pc'[t] = pc[t] /\ box_name'[t] = box_name[t]
                               /\ index'[t] = index[t] /\ counter'[t] = counter[t]

LEMMA EndKeeps ==
  ASSUME LooseTypes, NEW s \in Sessions, NEW here, End(s, here), UNCHANGED n_boxes
  PROVE  LocalsKept(s)
BY DEF LooseTypes, LocalsKept, End, Goto, Forget

LEMMA GotoKeeps ==
  ASSUME LooseTypes, NEW s \in Sessions, NEW here, NEW there \in Places,
         Goto(s, here, there), UNCHANGED <<box_name, index, counter>>, n_boxes' \in Int
  PROVE  LocalsKept(s)
BY DEF LooseTypes, LocalsKept, Goto

LEMMA TurnKeeps ==
  ASSUME LooseTypes, NEW s \in Sessions, index[s] < max_sessions,
         index' = [index EXCEPT ![s] = @ + 1],
         UNCHANGED <<pc, box_name, counter, n_boxes>>
  PROVE  LocalsKept(s)
BY DEF LooseTypes, LocalsKept

LEMMA ManagerLocals ==
  ASSUME LooseTypes, NEW m \in Managers, ManagerStep(m)
  PROVE  LocalsKept(m)
<1>1. ASSUME NEW b \in Names, CreateStart(m, b) PROVE LocalsKept(m)
  BY <1>1 DEF CreateStart, table, LooseTypes, LocalsKept, Goto
<1>2. ASSUME NEW b \in Names, RemoveStart(m, b) PROVE LocalsKept(m)
  BY <1>2 DEF RemoveStart, table, LooseTypes, LocalsKept, Goto
<1>3. CASE CreateFile(m)
  <2>1. UNCHANGED n_boxes /\ n_boxes \in Int
    BY <1>3 DEF CreateFile, table, LooseTypes
  <2>2. CASE Goto(m, "creat", "space") /\ UNCHANGED <<box_name, index, counter>>
    BY <2>1, <2>2, GotoKeeps
  <2>3. CASE End(m, "creat")
    BY <2>1, <2>3, EndKeeps
  <2> QED
    BY <1>3, <2>2, <2>3 DEF CreateFile
<1>4. CASE CreateSpace(m)
  <2>1. UNCHANGED n_boxes /\ n_boxes \in Int
    BY <1>4 DEF CreateSpace, table, LooseTypes
  <2>2. CASE Goto(m, "space", "find") /\ UNCHANGED <<box_name, index, counter>>
    BY <2>1, <2>2, GotoKeeps
  <2>3. CASE End(m, "space")
    BY <2>1, <2>3, EndKeeps
  <2> QED
    BY <1>4, <2>2, <2>3 DEF CreateSpace
<1>5. CASE CreateFind(m)
  <2>1. UNCHANGED <<n_boxes, box_name>> /\ n_boxes \in Int
    BY <1>5 DEF CreateFind, table, LooseTypes
  <2>2. CASE Goto(m, "find", "created") /\ UNCHANGED <<index, counter>>
    BY <2>1, <2>2, GotoKeeps
  <2>3. CASE /\ Goto(m, "find", "take") /\ counter' = [counter EXCEPT ![m] = n_boxes]
             /\ UNCHANGED index
    BY <2>1, <2>3 DEF LooseTypes, LocalsKept, Goto
  <2>4. CASE /\ index[m] < max_sessions /\ index' = [index EXCEPT ![m] = @ + 1]
             /\ UNCHANGED <<pc, counter>>
    BY <2>1, <2>4, TurnKeeps
  <2> QED
    BY <1>5, <2>2, <2>3, <2>4 DEF CreateFind
<1>6. CASE CreateTake(m)
  <2>1. n_boxes' \in Int
    BY <1>6 DEF CreateTake, LooseTypes
  <2> QED
    BY <1>6, <2>1, GotoKeeps DEF CreateTake
<1>7. CASE CreateName(m)
  <2>1. n_boxes' \in Int
    BY <1>7 DEF CreateName, LooseTypes
  <2> QED
    BY <1>7, <2>1, GotoKeeps DEF CreateName
<1>8. CASE RemoveUnlink(m)
  <2>1. UNCHANGED n_boxes /\ n_boxes \in Int
    BY <1>8 DEF RemoveUnlink, table, LooseTypes
  <2>2. CASE Goto(m, "unlink", "clear") /\ UNCHANGED <<box_name, index, counter>>
    BY <2>1, <2>2, GotoKeeps
  <2>3. CASE End(m, "unlink")
    BY <2>1, <2>3, EndKeeps
  <2> QED
    BY <1>8, <2>2, <2>3 DEF RemoveUnlink
<1>9. CASE RemoveFind(m)
  <2>1. UNCHANGED <<n_boxes, box_name>> /\ n_boxes \in Int
    BY <1>9 DEF RemoveFind, table, LooseTypes
  <2>2. CASE Goto(m, "clear", "cleared") /\ UNCHANGED <<index, counter>>
    BY <2>1, <2>2, GotoKeeps
  <2>3. CASE /\ Goto(m, "clear", "untake") /\ counter' = [counter EXCEPT ![m] = n_boxes]
             /\ UNCHANGED index
    BY <2>1, <2>3 DEF LooseTypes, LocalsKept, Goto
  <2>4. CASE /\ index[m] < max_sessions /\ index' = [index EXCEPT ![m] = @ + 1]
             /\ UNCHANGED <<pc, counter>>
    BY <2>1, <2>4, TurnKeeps
  <2> QED
    BY <1>9, <2>2, <2>3, <2>4 DEF RemoveFind
<1>10. CASE RemoveUntake(m)
  <2>1. n_boxes' \in Int
    BY <1>10 DEF RemoveUntake, LooseTypes
  <2> QED
    BY <1>10, <2>1, GotoKeeps DEF RemoveUntake
<1>11. CASE RemoveUnname(m)
  <2>1. n_boxes' \in Int
    BY <1>11 DEF RemoveUnname, LooseTypes
  <2> QED
    BY <1>11, <2>1, GotoKeeps DEF RemoveUnname
<1>12. CASE List(m)
  <2>1. n_boxes' \in Int
    BY <1>12 DEF List, table, LooseTypes
  <2> QED
    BY <1>12, <2>1, GotoKeeps DEF List
<1>13. CASE ListTurn(m)
  <2>1. /\ UNCHANGED <<n_boxes, box_name, counter>> /\ index[m] < max_sessions
        /\ index' = [index EXCEPT ![m] = @ + 1]
    BY <1>13 DEF ListTurn, table
  <2>2. pc' \in [Sessions -> Places] /\ \A t \in Sessions \ {m} : pc'[t] = pc[t]
    <3>1. CASE UNCHANGED pc
      BY <3>1 DEF LooseTypes
    <3>2. CASE \E q \in {"list", "listed"} : pc' = [pc EXCEPT ![m] = q]
      BY <3>2 DEF LooseTypes
    <3> QED
      BY <1>13, <3>1, <3>2 DEF ListTurn, Goto
  <2> QED
    BY <2>1, <2>2 DEF LooseTypes, LocalsKept
<1>14. CASE ListStop(m)
  <2>1. n_boxes' \in Int /\ UNCHANGED <<box_name, index, counter>>
    BY <1>14 DEF ListStop, table, LooseTypes
  <2> QED
    BY <1>14, <2>1, GotoKeeps DEF ListStop
<1>15. CASE Answered(m)
  <2>1. UNCHANGED n_boxes
    BY <1>15 DEF Answered, table
  <2> QED
    BY <1>15, <2>1, EndKeeps DEF Answered
<1> QED
  BY <1>1, <1>2, <1>3, <1>4, <1>5, <1>6, <1>7, <1>8, <1>9, <1>10, <1>11, <1>12,
     <1>13, <1>14, <1>15 DEF ManagerStep

-----------------------------------------------------------------------------
\* What a client can do to the others: nothing, and to the slots: it changes one
\* counter.
ClientLocal(s) ==
  /\ LocalsKept(s) /\ UNCHANGED <<files, n_boxes>>
  /\ boxes' \in [Slots -> Box]
  /\ \A k \in Slots : /\ boxes'[k].name = boxes[k].name
                      /\ \A kind \in Kinds \ {Kind(s)} : boxes'[k][kind] = boxes[k][kind]
  /\ pc'[s] \in HasSlot => index'[s] \in Slots

\* A session that is over leaves its stack frame.
LEMMA EndsIdle ==
  ASSUME LooseTypes, NEW s \in Sessions, NEW here, End(s, here)
  PROVE  pc[s] = here /\ pc'[s] = "idle"
BY DEF LooseTypes, End, Goto

\* The counter of a session's own kind is written, and nothing else.
LEMMA CounterWritten ==
  ASSUME LooseTypes, NEW s \in Clients, index[s] \in Slots, NEW v \in Int,
         boxes' = [boxes EXCEPT ![index[s]][Kind(s)] = v]
  PROVE  /\ boxes' \in [Slots -> Box]
         /\ \A k \in Slots :
              /\ boxes'[k].name = boxes[k].name
              /\ \A kind \in Kinds \ {Kind(s)} : boxes'[k][kind] = boxes[k][kind]
         /\ boxes'[index[s]][Kind(s)] = v
         /\ \A k \in Slots \ {index[s]} : boxes'[k][Kind(s)] = boxes[k][Kind(s)]
<1>1. \A b \in Box : /\ [b EXCEPT !.n_publishers = v] \in Box
                     /\ [b EXCEPT !.n_subscribers = v] \in Box
  OBVIOUS
<1>2. boxes[index[s]] \in Box
  BY DEF LooseTypes
<1>3. CASE Kind(s) = "n_publishers"
  <2>1. boxes' = [boxes EXCEPT ![index[s]].n_publishers = v]
    BY <1>3
  <2>2. boxes' \in [Slots -> Box]
    BY <1>1, <1>2, <2>1 DEF LooseTypes
  <2>3. /\ boxes'[index[s]].n_publishers = v
        /\ \A k \in Slots : /\ boxes'[k].n_subscribers = boxes[k].n_subscribers
                            /\ boxes'[k].name = boxes[k].name
        /\ \A k \in Slots \ {index[s]} : boxes'[k].n_publishers = boxes[k].n_publishers
    BY <2>1 DEF LooseTypes
  <2> QED
    BY <1>3, <2>2, <2>3
<1>4. CASE Kind(s) = "n_subscribers"
  <2>1. boxes' = [boxes EXCEPT ![index[s]].n_subscribers = v]
    BY <1>4
  <2>2. boxes' \in [Slots -> Box]
    BY <1>1, <1>2, <2>1 DEF LooseTypes
  <2>3. /\ boxes'[index[s]].n_subscribers = v
        /\ \A k \in Slots : /\ boxes'[k].n_publishers = boxes[k].n_publishers
                            /\ boxes'[k].name = boxes[k].name
        /\ \A k \in Slots \ {index[s]} : boxes'[k].n_subscribers = boxes[k].n_subscribers
    BY <2>1 DEF LooseTypes
  <2> QED
    BY <1>4, <2>2, <2>3
<1> QED
  BY <1>3, <1>4 DEF Kind

LEMMA StartIsLocal ==
  ASSUME LooseTypes, NEW s \in Clients, NEW b \in Names, Start(s, b)
  PROVE  ClientLocal(s)
<1>1. LocalsKept(s)
  BY DEF Start, table, LooseTypes, LocalsKept, Goto
<1>2. pc'[s] = "search" /\ UNCHANGED <<files, n_boxes, boxes>>
  BY DEF Start, table, LooseTypes, Goto
<1> QED
  BY <1>1, <1>2 DEF LooseTypes, ClientLocal

LEMMA SearchIsLocal ==
  ASSUME LooseTypes, NEW s \in Clients, Search(s)
  PROVE  ClientLocal(s)
<1>1. UNCHANGED <<files, boxes, n_boxes>> /\ n_boxes \in Int
  BY DEF Search, table, LooseTypes
<1>2. CASE End(s, "search")
  BY <1>1, <1>2, EndKeeps, EndsIdle DEF LooseTypes, ClientLocal
<1>3. CASE /\ index[s] # max_sessions /\ UNCHANGED <<index, box_name, counter>>
           /\ Goto(s, "search", IF s \in Publishers THEN "test" ELSE "answer")
  <2>1. index'[s] \in Slots
    BY <1>3 DEF LooseTypes
  <2>2. LocalsKept(s)
    BY <1>1, <1>3, GotoKeeps
  <2> QED
    BY <1>1, <2>1, <2>2 DEF LooseTypes, ClientLocal
<1>4. CASE /\ index[s] # max_sessions /\ UNCHANGED <<pc, box_name, counter>>
           /\ pc[s] = "search" /\ index' = [index EXCEPT ![s] = @ + 1]
  <2>1. index[s] < max_sessions
    BY <1>4 DEF LooseTypes
  <2>2. LocalsKept(s)
    BY <1>1, <1>4, <2>1, TurnKeeps
  <2> QED
    BY <1>1, <1>4, <2>2 DEF LooseTypes, ClientLocal
<1> QED
  BY <1>2, <1>3, <1>4 DEF Search

LEMMA TestIsLocal ==
  ASSUME LooseTypes, NEW s \in Clients, Test(s)
  PROVE  ClientLocal(s)
<1>1. UNCHANGED <<files, boxes, n_boxes>> /\ n_boxes \in Int
  BY DEF Test, table, LooseTypes
<1>2. CASE End(s, "test")
  BY <1>1, <1>2, EndKeeps, EndsIdle DEF LooseTypes, ClientLocal
<1>3. CASE Goto(s, "test", "answer") /\ UNCHANGED <<box_name, index, counter>>
  <2>1. index'[s] \in Slots
    BY <1>3 DEF Goto, LooseTypes
  <2> QED
    BY <1>1, <1>3, <2>1, GotoKeeps DEF LooseTypes, ClientLocal
<1> QED
  BY <1>2, <1>3 DEF Test

\* A session that ends, abandoned or refused.
LEMMA EndIsLocal ==
  ASSUME LooseTypes, NEW s \in Clients, NEW here, End(s, here), UNCHANGED <<files, table>>
  PROVE  ClientLocal(s)
<1>1. UNCHANGED <<files, boxes, n_boxes>>
  BY DEF table
<1> QED
  BY <1>1, EndKeeps, EndsIdle DEF LooseTypes, ClientLocal

LEMMA LoadIsLocal ==
  ASSUME LooseTypes, NEW s \in Clients, NEW here \in HasSlot,
         NEW there \in {"counted", "uncount", "uncount_removed"}, Load(s, here, there)
  PROVE  /\ ClientLocal(s)
         /\ pc[s] = here /\ pc'[s] = there /\ index[s] \in Slots
         /\ UNCHANGED <<boxes, index>> /\ counter'[s] = boxes[index[s]][Kind(s)]
<1>1. /\ pc[s] = here /\ pc'[s] = there /\ index[s] \in Slots
      /\ UNCHANGED <<files, boxes, n_boxes, index, box_name>>
  BY DEF Load, Goto, table, LooseTypes
<1>2. counter'[s] = boxes[index[s]][Kind(s)] /\ boxes[index[s]][Kind(s)] \in Int
  <2>1. boxes[index[s]][Kind(s)] \in Int
    BY <1>1 DEF LooseTypes, Kind
  <2> QED
    BY <2>1 DEF Load, LooseTypes
<1>3. LocalsKept(s)
  BY <1>1, <1>2 DEF Load, Goto, LooseTypes, LocalsKept
<1> QED
  BY <1>1, <1>2, <1>3 DEF LooseTypes, ClientLocal

LEMMA CountedIsLocal ==
  ASSUME LooseTypes, NEW s \in Clients, Counted(s)
  PROVE  /\ ClientLocal(s)
         /\ pc[s] = "counted" /\ pc'[s] = "linked" /\ index[s] \in Slots
         /\ UNCHANGED index
         /\ boxes'[index[s]][Kind(s)] = counter[s] + 1
         /\ \A k \in Slots \ {index[s]} : boxes'[k][Kind(s)] = boxes[k][Kind(s)]
<1>1. /\ pc[s] = "counted" /\ pc'[s] = "linked" /\ index[s] \in Slots
      /\ UNCHANGED <<files, n_boxes, index>>
  BY DEF Counted, Goto, LooseTypes
<1>2. PICK v \in Int : v = counter[s] + 1
  BY DEF LooseTypes
<1>3. boxes' = [boxes EXCEPT ![index[s]][Kind(s)] = v]
  BY <1>2 DEF Counted
<1>4. LocalsKept(s)
  BY <1>1 DEF Counted, Goto, LooseTypes, LocalsKept
<1>5. /\ boxes' \in [Slots -> Box]
      /\ \A k \in Slots :
           /\ boxes'[k].name = boxes[k].name
           /\ \A kind \in Kinds \ {Kind(s)} : boxes'[k][kind] = boxes[k][kind]
      /\ boxes'[index[s]][Kind(s)] = v
      /\ \A k \in Slots \ {index[s]} : boxes'[k][Kind(s)] = boxes[k][Kind(s)]
  BY <1>1, <1>3, CounterWritten
<1> QED
  BY <1>1, <1>2, <1>4, <1>5 DEF ClientLocal

LEMMA BoxGoneIsLocal ==
  ASSUME LooseTypes, NEW s \in Clients, BoxGone(s)
  PROVE  /\ ClientLocal(s)
         /\ pc[s] = "linked" /\ pc'[s] = "removed" /\ UNCHANGED <<boxes, index>>
<1>1. /\ pc[s] = "linked" /\ pc'[s] = "removed" /\ index[s] \in Slots
      /\ UNCHANGED <<files, n_boxes, boxes, index>> /\ n_boxes \in Int
  BY DEF BoxGone, Goto, table, LooseTypes
<1>2. LocalsKept(s)
  BY <1>1, GotoKeeps DEF BoxGone
<1> QED
  BY <1>1, <1>2 DEF LooseTypes, ClientLocal

\* What a counter becomes when its session leaves.
Left(n) == IF n = 0 THEN UINT64_MAX ELSE n - 1

LEMMA UncountIsLocal ==
  ASSUME LooseTypes, NEW s \in Clients, Uncount(s)
  PROVE  /\ ClientLocal(s)
         /\ pc[s] \in {"uncount", "uncount_removed"} /\ pc'[s] = "idle"
         /\ index[s] \in Slots
         /\ boxes'[index[s]][Kind(s)] = Left(counter[s])
         /\ \A k \in Slots \ {index[s]} : boxes'[k][Kind(s)] = boxes[k][Kind(s)]
<1>1. /\ pc[s] \in {"uncount", "uncount_removed"} /\ pc'[s] = "idle"
      /\ index[s] \in Slots /\ UNCHANGED <<files, n_boxes>>
  BY EndsIdle DEF Uncount, LooseTypes
<1>2. PICK v \in Int : v = Left(counter[s])
  <2>1. counter[s] \in Int /\ UINT64_MAX \in Int
    BY DEF LooseTypes
  <2>2. Left(counter[s]) \in Int
    BY <2>1 DEF Left
  <2> QED
    BY <2>2
<1>3. boxes' = [boxes EXCEPT ![index[s]][Kind(s)] = v]
  BY <1>2 DEF Uncount, Left
<1>4. LocalsKept(s)
  BY <1>1, EndKeeps DEF Uncount
<1>5. /\ boxes' \in [Slots -> Box]
      /\ \A k \in Slots :
           /\ boxes'[k].name = boxes[k].name
           /\ \A kind \in Kinds \ {Kind(s)} : boxes'[k][kind] = boxes[k][kind]
      /\ boxes'[index[s]][Kind(s)] = v
      /\ \A k \in Slots \ {index[s]} : boxes'[k][Kind(s)] = boxes[k][Kind(s)]
  BY <1>1, <1>3, CounterWritten
<1> QED
  BY <1>1, <1>2, <1>4, <1>5 DEF ClientLocal

LEMMA ClientsAreLocal ==
  ASSUME LooseTypes, NEW s \in Clients, ClientStep(s)
  PROVE  ClientLocal(s)
<1>1. CASE Answer(s)
  BY <1>1, LoadIsLocal, EndIsLocal DEF Answer
<1>2. CASE Abandon(s)
  BY <1>2, EndIsLocal DEF Abandon
<1>3. CASE Leave(s)
  BY <1>3, LoadIsLocal DEF Leave
<1>4. CASE UncountRemoved(s)
  BY <1>4, LoadIsLocal DEF UncountRemoved
<1> QED
  BY <1>1, <1>2, <1>3, <1>4, StartIsLocal, SearchIsLocal, TestIsLocal, CountedIsLocal,
     BoxGoneIsLocal, UncountIsLocal DEF ClientStep

LEMMA LooseTypesHold == Spec => []LooseTypes
<1>1. ASSUME LooseTypes, [Next]_vars PROVE LooseTypes'
  <2>1. ASSUME UNCHANGED vars PROVE LooseTypes'
    BY <1>1, <2>1 DEF vars, table, LooseTypes
  <2>2. ASSUME NEW s \in Clients, ClientStep(s) PROVE LooseTypes'
    BY <1>1, <2>2, ClientsAreLocal DEF LooseTypes, ClientLocal, LocalsKept
  <2>3. ASSUME NEW m \in Managers, ManagerStep(m) PROVE LooseTypes'
    <3>1. \A s \in Clients : s \in Sessions \ {m}
      OBVIOUS
    <3> QED
      BY <1>1, <2>3, <3>1, ManagerLocals, ManagerKeepsCounters DEF LooseTypes, LocalsKept
  <2> QED
    BY <1>1, <2>1, <2>2, <2>3 DEF Next
<1> QED
  BY <1>1, InitHolds, PTL DEF Spec

-----------------------------------------------------------------------------
(* The counters *)

\* Whoever keeps a session's locals and its counter keeps its account.
LEMMA AccountKept ==
  ASSUME LooseTypes, NEW s \in Clients, Account(s),
         pc'[s] = pc[s], index'[s] = index[s], counter'[s] = counter[s],
         \A k \in Slots : boxes'[k][Kind(s)] = boxes[k][Kind(s)]
  PROVE  Account(s)'
<1>1. pc[s] \in HasSlot => index[s] \in Slots
  BY DEF LooseTypes
<1> QED
  BY <1>1 DEF Account, CountedIn

\* What a client does without a counter.
LEMMA AccountUncounted ==
  ASSUME LooseTypes, NEW s \in Clients, Account(s), UNCHANGED boxes,
         pc[s] \notin {"linked", "uncount", "removed", "uncount_removed"},
         pc'[s] \notin {"counted", "linked", "uncount", "removed", "uncount_removed"}
  PROVE  Account(s)'
BY DEF Account, CountedIn, LooseTypes

LEMMA AccountLoad ==
  ASSUME LooseTypes, NEW s \in Clients, Account(s), NEW here \in {"answer", "linked", "removed"},
         NEW there \in {"counted", "uncount", "uncount_removed"},
         here = "answer" <=> there = "counted", Load(s, here, there)
  PROVE  Account(s)'
<1>1. /\ pc[s] = here /\ pc'[s] = there /\ index[s] \in Slots
      /\ UNCHANGED <<boxes, index>> /\ counter'[s] = boxes[index[s]][Kind(s)]
  BY LoadIsLocal
<1> QED
  BY <1>1 DEF Account, CountedIn

\* A session's step keeps its own account.
LEMMA ClientKeepsAccount ==
  ASSUME LooseTypes, NEW s \in Clients, Account(s), ClientStep(s)
  PROVE  Account(s)'
<1>1. ASSUME NEW b \in Names, Start(s, b) PROVE Account(s)'
  <2>1. pc[s] = "idle" /\ pc'[s] = "search" /\ UNCHANGED boxes
    BY <1>1 DEF Start, table, LooseTypes, Goto
  <2> QED
    BY <2>1, AccountUncounted
<1>2. CASE Search(s)
  <2>1. UNCHANGED boxes /\ pc[s] = "search" /\ pc'[s] \in {"idle", "search", "test", "answer"}
    BY <1>2, EndsIdle DEF Search, table, Goto, LooseTypes
  <2> QED
    BY <2>1, AccountUncounted
<1>3. CASE Test(s)
  <2>1. UNCHANGED boxes /\ pc[s] = "test" /\ pc'[s] \in {"idle", "answer"}
    BY <1>3, EndsIdle DEF Test, table, Goto, LooseTypes
  <2> QED
    BY <2>1, AccountUncounted
<1>4. CASE Answer(s)
  <2>1. CASE Load(s, "answer", "counted")
    BY <2>1, AccountLoad
  <2>2. CASE End(s, "answer") /\ UNCHANGED table
    <3>1. UNCHANGED boxes /\ pc[s] = "answer" /\ pc'[s] = "idle"
      BY <2>2, EndsIdle DEF table
    <3> QED
      BY <3>1, AccountUncounted
  <2> QED
    BY <1>4, <2>1, <2>2 DEF Answer
<1>5. CASE Counted(s)
  <2>1. /\ pc[s] = "counted" /\ pc'[s] = "linked" /\ index[s] \in Slots
        /\ UNCHANGED index
        /\ boxes'[index[s]][Kind(s)] = counter[s] + 1
        /\ \A k \in Slots \ {index[s]} : boxes'[k][Kind(s)] = boxes[k][Kind(s)]
    BY <1>5, CountedIsLocal
  <2>2. counter[s] + 1 \in 1 .. MaxLost + 1
    BY <2>1 DEF Account, CountedIn
  <2> QED
    BY <2>1, <2>2 DEF Account, CountedIn
<1>6. CASE Abandon(s)
  <2>1. /\ pc[s] = "linked" /\ pc'[s] = "idle" /\ index[s] \in Slots
        /\ UNCHANGED boxes /\ boxes[index[s]][Kind(s)] <= MaxLost
    BY <1>6, EndsIdle DEF Abandon, table, LooseTypes
  <2> QED
    BY <2>1 DEF Account, CountedIn
<1>7. CASE Leave(s)
  BY <1>7, AccountLoad DEF Leave
<1>8. CASE BoxGone(s)
  BY <1>8, BoxGoneIsLocal DEF Account, CountedIn
<1>9. CASE UncountRemoved(s)
  BY <1>9, AccountLoad DEF UncountRemoved
<1>10. CASE Uncount(s)
  <2>1. /\ pc[s] \in {"uncount", "uncount_removed"} /\ pc'[s] = "idle"
        /\ index[s] \in Slots
        /\ boxes'[index[s]][Kind(s)] = Left(counter[s])
        /\ \A k \in Slots \ {index[s]} : boxes'[k][Kind(s)] = boxes[k][Kind(s)]
    BY <1>10, UncountIsLocal
  <2>2. Left(counter[s]) \in 0 .. MaxLost
    BY <2>1 DEF Account, CountedIn, Left
  <2>3. \A k \in Slots : boxes'[k][Kind(s)] \in 0 .. MaxLost
    BY <2>1, <2>2 DEF Account, CountedIn
  <2> QED
    BY <2>1, <2>3 DEF Account, CountedIn
<1> QED
  BY <1>1, <1>2, <1>3, <1>4, <1>5, <1>6, <1>7, <1>8, <1>9, <1>10 DEF ClientStep

LEMMA AccountsKept ==
  ASSUME OneOfEach, LooseTypes, Accounts, Next
  PROVE  Accounts'
<1> SUFFICES ASSUME NEW t \in Clients PROVE Account(t)'
  BY DEF Accounts
<1>1. Account(t)
  BY DEF Accounts
<1>2. ASSUME NEW m \in Managers, ManagerStep(m) PROVE Account(t)'
  <2>1. t \in Sessions \ {m} /\ Kind(t) \in Kinds
    BY DEF Kind
  <2>2. \A k \in Slots : boxes'[k][Kind(t)] = boxes[k][Kind(t)]
    BY <1>2, <2>1, ManagerKeepsCounters
  <2>3. pc'[t] = pc[t] /\ index'[t] = index[t] /\ counter'[t] = counter[t]
    BY <1>2, <2>1, ManagerLocals DEF LocalsKept
  <2> QED
    BY <1>1, <2>2, <2>3, AccountKept
<1>3. ASSUME NEW s \in Clients \ {t}, ClientStep(s) PROVE Account(t)'
  <2>1. t \in Sessions \ {s} /\ Kind(t) \in Kinds \ {Kind(s)}
    BY DEF OneOfEach, Kind
  <2>2. ClientLocal(s)
    BY <1>3, ClientsAreLocal
  <2>3. \A k \in Slots : boxes'[k][Kind(t)] = boxes[k][Kind(t)]
    BY <2>1, <2>2 DEF ClientLocal
  <2>4. pc'[t] = pc[t] /\ index'[t] = index[t] /\ counter'[t] = counter[t]
    BY <2>1, <2>2 DEF ClientLocal, LocalsKept
  <2> QED
    BY <1>1, <2>3, <2>4, AccountKept
<1>4. CASE ClientStep(t)
  BY <1>1, <1>4, ClientKeepsAccount
<1> QED
  BY <1>2, <1>3, <1>4 DEF Next

\* With one publisher and one subscriber, whatever any number of managers do to
\* the box meanwhile - remove it, create another one in its slot, race with one
\* another - a linked session's counter, which it increments when it is accepted
\* (mbroker.c:235) and decrements when it leaves, counts it, and the decrement
\* never wraps.
THEOREM CountersHoldTheLinked ==
  ASSUME OneOfEach
  PROVE  Spec => []LinkedIsCounted
<1>1. ASSUME LooseTypes, Accounts PROVE LinkedIsCounted
  <2> SUFFICES ASSUME NEW s \in Clients, CountedIn(s)
               PROVE  boxes[index[s]][Kind(s)] \in 1 .. MaxLost + 1
    BY DEF LinkedIsCounted
  <2>1. index[s] \in Slots
    BY <1>1 DEF LooseTypes, CountedIn
  <2> QED
    BY <1>1, <2>1 DEF Accounts, Account
<1>2. ASSUME LooseTypes, Accounts, [Next]_vars PROVE Accounts'
  BY <1>2, AccountsKept DEF vars, table, Accounts, Account, CountedIn
<1> QED
  BY <1>1, <1>2, InitHolds, LooseTypesHold, PTL DEF Spec

-----------------------------------------------------------------------------
(* The table and the directory *)

\* One manager at a time, any number of clients, and handles enough for them.
OneManager == \A m, n \in Managers : m = n
HandlesLast == max_sessions <= MAX_OPEN_FILES

InTable(b) == \E k \in Slots : boxes[k].name = b

\* While a manager takes a slot, the table has a name less than n_boxes says, and
\* while it clears one, a name more.
Miscount == IF \E m \in Managers : pc[m] = "name" THEN 1
            ELSE IF \E m \in Managers : pc[m] = "unname" THEN -1 ELSE 0

\* The files that a manager has removed, and not their boxes yet.
Doomed == {box_name[m] : m \in {n \in Managers : pc[n] \in {"clear", "untake", "unname"}}}

TableHolds ==
  /\ files \subseteq Names
  /\ n_boxes = Cardinality(Boxed) + Miscount
  /\ \A k \in Boxed : boxes[k].name \in files \cup Doomed
  /\ \A j, k \in Boxed : boxes[j].name = boxes[k].name => j = k

\* What a manager knows of the box it creates or removes: it is in no slot before
\* the manager has named one, and in no slot the search has passed.
ManagerKnows(m) ==
  /\ pc[m] \in {"idle", "creat", "space", "unlink"} => index[m] = 0
  /\ pc[m] \in {"creat", "space", "find", "take", "name", "created", "unlink", "clear",
                "untake", "unname", "cleared"} => box_name[m] \in Names
  /\ pc[m] = "creat" => box_name[m] \notin files
  /\ pc[m] \in {"space", "find", "take", "name", "created"} => box_name[m] \in files
  /\ pc[m] \in {"creat", "space", "find", "take", "name", "cleared"} => ~InTable(box_name[m])
  /\ pc[m] = "find" => /\ n_boxes # max_sessions
                       /\ \A k \in Slots : k < index[m] => k \in Boxed
  /\ pc[m] \in {"take", "name"} => index[m] \in Slots \ Boxed
  /\ pc[m] \in {"take", "untake"} => counter[m] = n_boxes
  /\ pc[m] = "created" => InTable(box_name[m])
  /\ pc[m] \in {"clear", "untake", "unname", "cleared"} => box_name[m] \notin files
  /\ pc[m] = "clear" => \A k \in Slots : k < index[m] => boxes[k].name # box_name[m]
  /\ pc[m] \in {"untake", "unname"} => /\ index[m] \in Slots
                                        /\ boxes[index[m]].name = box_name[m]

TInv == TableHolds /\ \A m \in Managers : ManagerKnows(m)

Removing == {"clear", "untake", "unname"}

LEMMA TheManager ==
  ASSUME OneManager, NEW m \in Managers
  PROVE  /\ Miscount = IF pc[m] = "name" THEN 1 ELSE IF pc[m] = "unname" THEN -1 ELSE 0
         /\ Doomed = IF pc[m] \in Removing THEN {box_name[m]} ELSE {}
         /\ Miscount' = IF pc'[m] = "name" THEN 1 ELSE IF pc'[m] = "unname" THEN -1 ELSE 0
         /\ Doomed' = IF pc'[m] \in Removing THEN {box_name'[m]} ELSE {}
BY DEF OneManager, Miscount, Doomed, Removing

LEMMA BoxedIsFinite == IsFiniteSet(Slots) /\ Cardinality(Slots) = max_sessions
                       /\ IsFiniteSet(Boxed) /\ Cardinality(Boxed) \in Nat
<1>1. IsFiniteSet(Slots) /\ Cardinality(Slots) = max_sessions
  BY FS_Interval
<1>2. Boxed \subseteq Slots
  BY DEF Boxed
<1>3. IsFiniteSet(Boxed)
  BY <1>1, <1>2, FS_Subset
<1> QED
  BY <1>1, <1>3, FS_CardinalityType

\* A step that leaves the slots and the directory alone.
LEMMA QuietTable ==
  ASSUME OneManager, NEW m \in Managers, TableHolds, UNCHANGED <<files, boxes>>,
         n_boxes' - Miscount' = n_boxes - Miscount, n_boxes \in Int, n_boxes' \in Int,
         \/ pc[m] \notin Removing \/ ~InTable(box_name[m])
         \/ pc'[m] \in Removing /\ box_name'[m] = box_name[m]
  PROVE  TableHolds'
<1>1. Boxed' = Boxed
  BY DEF Boxed
<1>2. Cardinality(Boxed)' = Cardinality(Boxed) /\ Cardinality(Boxed) \in Int
  BY <1>1, BoxedIsFinite
<1>3. Miscount \in Int /\ Miscount' \in Int
  BY TheManager
<1>4. n_boxes' = Cardinality(Boxed)' + Miscount'
  BY <1>2, <1>3 DEF TableHolds
<1>5. \A k \in Boxed' : boxes'[k].name \in files' \cup Doomed'
  BY <1>1, TheManager DEF TableHolds, InTable, Boxed
<1> QED
  BY <1>1, <1>4, <1>5 DEF TableHolds

\* A session of a client does not touch what a manager goes by.
LEMMA ClientKeepsTable ==
  ASSUME LooseTypes, TInv, NEW s \in Clients, ClientStep(s)
  PROVE  TInv'
<1>1. ClientLocal(s)
  BY ClientsAreLocal
<1>2. /\ UNCHANGED <<files, n_boxes>>
      /\ \A k \in Slots : boxes'[k].name = boxes[k].name
      /\ \A m \in Managers : /\ pc'[m] = pc[m] /\ box_name'[m] = box_name[m]
                             /\ index'[m] = index[m] /\ counter'[m] = counter[m]
  <2>1. \A m \in Managers : m \in Sessions \ {s}
    OBVIOUS
  <2> QED
    BY <1>1, <2>1 DEF ClientLocal, LocalsKept
<1>3. Boxed' = Boxed
  BY <1>2 DEF Boxed
<1>4. Miscount' = Miscount
  BY <1>2 DEF Miscount
<1>5. Doomed' = Doomed
  BY <1>2 DEF Doomed
<1>6. TableHolds'
  <2>1. \A k \in Boxed : boxes'[k].name = boxes[k].name
    BY <1>2 DEF Boxed
  <2> QED
    BY <1>2, <1>3, <1>4, <1>5, <2>1 DEF TInv, TableHolds
<1>7. ASSUME NEW m \in Managers PROVE ManagerKnows(m)'
  <2>1. InTable(box_name[m])' <=> InTable(box_name[m])
    BY <1>2 DEF InTable
  <2> QED
    BY <1>2, <1>3, <2>1 DEF TInv, ManagerKnows
<1> QED
  BY <1>6, <1>7 DEF TInv

\* What of its stack frame a step of a manager's session changes.
Frame(m, here, there) ==
  /\ pc[m] = here /\ pc'[m] = there
  /\ box_name'[m] = box_name[m] /\ index'[m] = index[m] /\ counter'[m] = counter[m]

LEMMA GotoFrame ==
  ASSUME LooseTypes, NEW m \in Managers, NEW here, NEW there, Goto(m, here, there),
         UNCHANGED <<box_name, index, counter>>
  PROVE  Frame(m, here, there)
BY DEF LooseTypes, Goto, Frame

LEMMA EndFrame ==
  ASSUME LooseTypes, NEW m \in Managers, NEW here, End(m, here)
  PROVE  pc[m] = here /\ pc'[m] = "idle" /\ index'[m] = 0
BY DEF LooseTypes, End, Goto, Forget

\* A session that is over knows nothing.
LEMMA EndKeepsTable ==
  ASSUME LooseTypes, TInv, OneManager, NEW m \in Managers, NEW here, End(m, here),
         UNCHANGED <<files, table>>, here \notin {"name", "unname", "clear", "untake"}
  PROVE  TableHolds' /\ ManagerKnows(m)'
<1>1. pc[m] = here /\ pc'[m] = "idle" /\ index'[m] = 0
  BY EndFrame
<1>2. Miscount' = Miscount /\ Miscount \in Int /\ UNCHANGED <<files, boxes, n_boxes>>
  BY <1>1, TheManager DEF table
<1>3. TableHolds'
  BY <1>1, <1>2, QuietTable DEF TInv, LooseTypes, Removing
<1>4. ManagerKnows(m)'
  BY <1>1 DEF ManagerKnows
<1> QED
  BY <1>3, <1>4

\* A step that does nothing but turn a session's page keeps the table.
LEMMA TurnTable ==
  ASSUME OneManager, LooseTypes, TInv, NEW m \in Managers, UNCHANGED <<files, n_boxes, boxes>>,
         pc[m] \notin {"name", "unname"} \cup Removing,
         pc'[m] \notin {"name", "unname"}
  PROVE  /\ TableHolds' /\ Boxed' = Boxed
         /\ \A b \in Names : InTable(b)' <=> InTable(b)
<1>1. Miscount' = Miscount /\ Miscount \in Int
  BY TheManager
<1>2. TableHolds'
  BY <1>1, QuietTable DEF TInv, LooseTypes
<1> QED
  BY <1>2 DEF Boxed, InTable

(* create_box *)

LEMMA CreateStartKeeps ==
  ASSUME OneManager, HandlesLast, LooseTypes, TInv, NEW m \in Managers, NEW b \in Names,
         CreateStart(m, b)
  PROVE  TableHolds' /\ ManagerKnows(m)'
<1>1. /\ pc[m] = "idle" /\ pc'[m] = "creat" /\ box_name'[m] = b /\ index'[m] = index[m]
      /\ counter'[m] = counter[m] /\ b \notin files /\ index[m] = 0
  BY DEF CreateStart, Goto, LooseTypes, MayNotOpen, HandlesRunOut, HandlesLast, TInv, ManagerKnows
<1>2. UNCHANGED <<files, n_boxes, boxes>>
  BY DEF CreateStart, table
<1>3. TableHolds'
  BY <1>1, <1>2, TurnTable DEF Removing
<1>4. ~InTable(b)'
  <2>1. Doomed = {}
    BY <1>1, TheManager DEF Removing
  <2>2. ~InTable(b)
    BY <1>1, <2>1 DEF TInv, TableHolds, InTable, Boxed
  <2> QED
    BY <1>2, <2>2 DEF InTable
<1>5. ManagerKnows(m)'
  BY <1>1, <1>2, <1>4 DEF ManagerKnows
<1> QED
  BY <1>3, <1>5

LEMMA CreateFileKeeps ==
  ASSUME OneManager, HandlesLast, LooseTypes, TInv, NEW m \in Managers, CreateFile(m)
  PROVE  TableHolds' /\ ManagerKnows(m)'
<1>1. CASE End(m, "creat")
  <2>1. pc'[m] # "space" /\ ~HandlesRunOut
    BY <1>1, EndFrame DEF HandlesRunOut, HandlesLast
  <2>2. ~Goto(m, "creat", "space")
    BY <2>1 DEF Goto, LooseTypes
  <2>3. UNCHANGED <<files, table>>
    BY <2>1, <2>2 DEF CreateFile
  <2> QED
    BY <1>1, <2>3, EndKeepsTable
<1>2. CASE /\ Goto(m, "creat", "space") /\ UNCHANGED <<box_name, index, counter>>
           /\ files' = files \cup {box_name[m]}
  <2>1. Frame(m, "creat", "space") /\ UNCHANGED <<n_boxes, boxes>>
    BY <1>2, GotoFrame DEF CreateFile, table
  <2>2. Boxed' = Boxed /\ Cardinality(Boxed)' = Cardinality(Boxed)
    BY <2>1 DEF Boxed
  <2>3. Miscount' = Miscount /\ Doomed' = Doomed
    BY <2>1, TheManager DEF Frame, Removing
  <2>4. box_name[m] \in Names
    BY <2>1 DEF TInv, ManagerKnows, Frame
  <2>5. TableHolds'
    BY <1>2, <2>1, <2>2, <2>3, <2>4 DEF TInv, TableHolds
  <2>6. ManagerKnows(m)'
    BY <1>2, <2>1, <2>4 DEF TInv, ManagerKnows, Frame, InTable
  <2> QED
    BY <2>5, <2>6
<1> QED
  BY <1>1, <1>2 DEF CreateFile

LEMMA CreateSpaceKeeps ==
  ASSUME OneManager, LooseTypes, TInv, NEW m \in Managers, CreateSpace(m)
  PROVE  TableHolds' /\ ManagerKnows(m)'
<1>1. CASE End(m, "space")
  BY <1>1, EndKeepsTable DEF CreateSpace
<1>2. CASE /\ Goto(m, "space", "find") /\ UNCHANGED <<box_name, index, counter>>
           /\ n_boxes # max_sessions
  <2>1. Frame(m, "space", "find") /\ UNCHANGED <<files, n_boxes, boxes>>
    BY <1>2, GotoFrame DEF CreateSpace, table
  <2>2. TableHolds' /\ \A b \in Names : InTable(b)' <=> InTable(b)
    BY <2>1, TurnTable DEF Frame, Removing
  <2>3. ManagerKnows(m)'
    BY <1>2, <2>1, <2>2 DEF TInv, ManagerKnows, Frame
  <2> QED
    BY <2>2, <2>3
<1> QED
  BY <1>1, <1>2 DEF CreateSpace

LEMMA CreateFindKeeps ==
  ASSUME OneManager, LooseTypes, TInv, NEW m \in Managers, CreateFind(m)
  PROVE  TableHolds' /\ ManagerKnows(m)'
<1>1. pc[m] = "find" /\ UNCHANGED <<files, n_boxes, boxes, box_name>>
  BY DEF CreateFind, Goto, table
<1>2. /\ box_name[m] \in Names /\ box_name[m] \in files /\ ~InTable(box_name[m])
      /\ n_boxes # max_sessions /\ \A k \in Slots : k < index[m] => k \in Boxed
      /\ index[m] \in 0 .. max_sessions
  BY <1>1 DEF TInv, ManagerKnows, LooseTypes
<1>3. CASE index[m] = max_sessions
  <2>1. Boxed = Slots
    BY <1>2, <1>3 DEF Boxed
  <2>2. n_boxes = max_sessions
    BY <1>1, <2>1, BoxedIsFinite, TheManager DEF TInv, TableHolds
  <2> QED
    BY <1>2, <2>2
<1>4. CASE /\ index[m] < max_sessions /\ boxes[index[m]].name = NoName
           /\ Goto(m, "find", "take") /\ counter' = [counter EXCEPT ![m] = n_boxes]
           /\ UNCHANGED index
  <2>1. pc'[m] = "take" /\ counter'[m] = n_boxes
    BY <1>4 DEF Goto, LooseTypes
  <2>2. TableHolds' /\ Boxed' = Boxed /\ \A b \in Names : InTable(b)' <=> InTable(b)
    BY <1>1, <2>1, TurnTable DEF Removing
  <2>3. index[m] \in Slots \ Boxed
    BY <1>2, <1>4 DEF Boxed
  <2>4. ManagerKnows(m)'
    BY <1>1, <1>2, <1>4, <2>1, <2>2, <2>3 DEF ManagerKnows
  <2> QED
    BY <2>2, <2>4
<1>5. CASE /\ index[m] < max_sessions /\ boxes[index[m]].name # NoName
           /\ index' = [index EXCEPT ![m] = @ + 1] /\ UNCHANGED <<pc, counter>>
  <2>1. pc'[m] = "find" /\ index'[m] = index[m] + 1
    BY <1>1, <1>5 DEF LooseTypes
  <2>2. TableHolds' /\ Boxed' = Boxed /\ \A b \in Names : InTable(b)' <=> InTable(b)
    BY <1>1, <2>1, TurnTable DEF Removing
  <2>3. \A k \in Slots : k < index[m] + 1 => k \in Boxed
    BY <1>2, <1>5 DEF Boxed
  <2>4. ManagerKnows(m)'
    BY <1>1, <1>2, <2>1, <2>2, <2>3 DEF ManagerKnows
  <2> QED
    BY <2>2, <2>4
<1> QED
  BY <1>3, <1>4, <1>5 DEF CreateFind

LEMMA CreateTakeKeeps ==
  ASSUME OneManager, LooseTypes, TInv, NEW m \in Managers, CreateTake(m)
  PROVE  TableHolds' /\ ManagerKnows(m)'
<1>1. Frame(m, "take", "name") /\ UNCHANGED <<files, boxes>>
  BY GotoFrame DEF CreateTake
<1>2. n_boxes' = n_boxes + 1 /\ n_boxes \in Int
  BY <1>1 DEF CreateTake, Frame, TInv, ManagerKnows, LooseTypes
<1>3. Miscount = 0 /\ Miscount' = 1
  BY <1>1, TheManager DEF Frame
<1>4. TableHolds'
  BY <1>1, <1>2, <1>3, QuietTable DEF TInv, Frame, Removing
<1>5. ManagerKnows(m)'
  <2>1. Boxed' = Boxed /\ (InTable(box_name[m])' <=> InTable(box_name[m]))
    BY <1>1 DEF Boxed, InTable, Frame
  <2> QED
    BY <1>1, <2>1 DEF TInv, ManagerKnows, Frame, InTable
<1> QED
  BY <1>4, <1>5

LEMMA CreateNameKeeps ==
  ASSUME OneManager, LooseTypes, TInv, NEW m \in Managers, CreateName(m)
  PROVE  TableHolds' /\ ManagerKnows(m)'
<1>1. Frame(m, "name", "created") /\ UNCHANGED <<files, n_boxes>>
  BY GotoFrame DEF CreateName
<1> DEFINE i == index[m]
           b == box_name[m]
<1>2. i \in Slots \ Boxed /\ b \in Names /\ b \in files /\ ~InTable(b)
  BY <1>1 DEF TInv, ManagerKnows, Frame
<1>3. boxes'[i].name = b /\ \A k \in Slots \ {i} : boxes'[k].name = boxes[k].name
  BY <1>2 DEF CreateName, LooseTypes
<1>4. Boxed' = Boxed \cup {i}
  BY <1>2, <1>3 DEF Boxed
<1>5. Cardinality(Boxed)' = Cardinality(Boxed) + 1
  BY <1>2, <1>4, BoxedIsFinite, FS_AddElement
<1>6. /\ Miscount = 1 /\ Miscount' = 0 /\ Doomed = {} /\ Doomed' = {}
  BY <1>1, TheManager DEF Frame, Removing
<1>7. n_boxes' = Cardinality(Boxed)' + Miscount'
  BY <1>1, <1>5, <1>6, BoxedIsFinite DEF TInv, TableHolds
<1>8. \A k \in Boxed' : boxes'[k].name \in files' \cup Doomed'
  BY <1>1, <1>2, <1>3, <1>4, <1>6 DEF TInv, TableHolds, Boxed
<1>9. \A j, k \in Boxed' : boxes'[j].name = boxes'[k].name => j = k
  BY <1>2, <1>3, <1>4 DEF TInv, TableHolds, Boxed, InTable
<1>10. TableHolds'
  BY <1>1, <1>7, <1>8, <1>9 DEF TInv, TableHolds
<1>11. InTable(b)'
  BY <1>1, <1>2, <1>3 DEF InTable, Frame
<1>12. ManagerKnows(m)'
  BY <1>1, <1>2, <1>11 DEF ManagerKnows, Frame, InTable
<1> QED
  BY <1>10, <1>12

(* remove_box *)

LEMMA RemoveStartKeeps ==
  ASSUME OneManager, LooseTypes, TInv, NEW m \in Managers, NEW b \in Names, RemoveStart(m, b)
  PROVE  TableHolds' /\ ManagerKnows(m)'
<1>1. /\ pc[m] = "idle" /\ pc'[m] = "unlink" /\ box_name'[m] = b /\ index'[m] = 0
  BY DEF RemoveStart, Goto, LooseTypes, TInv, ManagerKnows
<1>2. UNCHANGED <<files, n_boxes, boxes>>
  BY DEF RemoveStart, table
<1>3. TableHolds'
  BY <1>1, <1>2, TurnTable DEF Removing
<1>4. ManagerKnows(m)'
  BY <1>1 DEF ManagerKnows
<1> QED
  BY <1>3, <1>4

LEMMA RemoveUnlinkKeeps ==
  ASSUME OneManager, LooseTypes, TInv, NEW m \in Managers, RemoveUnlink(m)
  PROVE  TableHolds' /\ ManagerKnows(m)'
<1>1. CASE End(m, "unlink") /\ UNCHANGED files
  BY <1>1, EndKeepsTable DEF RemoveUnlink
<1>2. CASE /\ Goto(m, "unlink", "clear") /\ UNCHANGED <<box_name, index, counter>>
           /\ files' = files \ {box_name[m]}
  <2>1. Frame(m, "unlink", "clear") /\ UNCHANGED <<n_boxes, boxes>>
    BY <1>2, GotoFrame DEF RemoveUnlink, table
  <2>2. Boxed' = Boxed /\ Cardinality(Boxed)' = Cardinality(Boxed)
    BY <2>1 DEF Boxed
  <2>3. Miscount' = Miscount /\ Doomed = {} /\ Doomed' = {box_name[m]}
    BY <2>1, TheManager DEF Frame, Removing
  <2>4. TableHolds'
    BY <1>2, <2>1, <2>2, <2>3 DEF TInv, TableHolds
  <2>5. ManagerKnows(m)'
    BY <1>2, <2>1 DEF TInv, ManagerKnows, Frame
  <2> QED
    BY <2>4, <2>5
<1> QED
  BY <1>1, <1>2 DEF RemoveUnlink

LEMMA RemoveFindKeeps ==
  ASSUME OneManager, LooseTypes, TInv, NEW m \in Managers, RemoveFind(m)
  PROVE  TableHolds' /\ ManagerKnows(m)'
<1>1. pc[m] = "clear" /\ UNCHANGED <<files, n_boxes, boxes, box_name>>
  BY DEF RemoveFind, Goto, table
<1>2. /\ box_name[m] \in Names /\ box_name[m] \notin files
      /\ \A k \in Slots : k < index[m] => boxes[k].name # box_name[m]
      /\ index[m] \in 0 .. max_sessions
  BY <1>1 DEF TInv, ManagerKnows, LooseTypes
<1>3. CASE index[m] = max_sessions /\ Goto(m, "clear", "cleared") /\ UNCHANGED <<index, counter>>
  <2>1. pc'[m] = "cleared" /\ ~InTable(box_name[m])
    BY <1>2, <1>3 DEF Goto, LooseTypes, InTable
  <2>2. Miscount' = Miscount /\ Miscount \in Int
    BY <1>1, <2>1, TheManager
  <2>3. TableHolds'
    BY <1>1, <2>1, <2>2, QuietTable DEF TInv, LooseTypes
  <2>4. ManagerKnows(m)'
    BY <1>1, <1>2, <2>1 DEF ManagerKnows, InTable
  <2> QED
    BY <2>3, <2>4
<1>4. CASE /\ index[m] < max_sessions /\ boxes[index[m]].name = box_name[m]
           /\ Goto(m, "clear", "untake") /\ counter' = [counter EXCEPT ![m] = n_boxes]
           /\ UNCHANGED index
  <2>1. pc'[m] = "untake" /\ counter'[m] = n_boxes
    BY <1>4 DEF Goto, LooseTypes
  <2>2. Miscount' = Miscount /\ Miscount \in Int
    BY <1>1, <2>1, TheManager
  <2>3. TableHolds'
    BY <1>1, <2>1, <2>2, QuietTable DEF TInv, LooseTypes, Removing
  <2>4. ManagerKnows(m)'
    BY <1>1, <1>2, <1>4, <2>1 DEF ManagerKnows
  <2> QED
    BY <2>3, <2>4
<1>5. CASE /\ index[m] < max_sessions /\ boxes[index[m]].name # box_name[m]
           /\ index' = [index EXCEPT ![m] = @ + 1] /\ UNCHANGED <<pc, counter>>
  <2>1. pc'[m] = "clear" /\ index'[m] = index[m] + 1
    BY <1>1, <1>5 DEF LooseTypes
  <2>2. Miscount' = Miscount /\ Miscount \in Int
    BY <1>1, <2>1, TheManager
  <2>3. TableHolds'
    BY <1>1, <2>1, <2>2, QuietTable DEF TInv, LooseTypes, Removing
  <2>4. \A k \in Slots : k < index[m] + 1 => boxes[k].name # box_name[m]
    BY <1>2, <1>5
  <2>5. ManagerKnows(m)'
    BY <1>1, <1>2, <2>1, <2>4 DEF ManagerKnows
  <2> QED
    BY <2>3, <2>5
<1> QED
  BY <1>3, <1>4, <1>5 DEF RemoveFind

LEMMA RemoveUntakeKeeps ==
  ASSUME OneManager, LooseTypes, TInv, NEW m \in Managers, RemoveUntake(m)
  PROVE  TableHolds' /\ ManagerKnows(m)'
<1>1. Frame(m, "untake", "unname") /\ UNCHANGED <<files, boxes>>
  BY GotoFrame DEF RemoveUntake
<1>2. n_boxes' = n_boxes - 1 /\ n_boxes \in Int
  BY <1>1 DEF RemoveUntake, Frame, TInv, ManagerKnows, LooseTypes
<1>3. Miscount = 0 /\ Miscount' = -1
  BY <1>1, TheManager DEF Frame
<1>4. TableHolds'
  BY <1>1, <1>2, <1>3, QuietTable DEF TInv, Frame, Removing
<1>5. ManagerKnows(m)'
  BY <1>1 DEF TInv, ManagerKnows, Frame
<1> QED
  BY <1>4, <1>5

LEMMA RemoveUnnameKeeps ==
  ASSUME OneManager, LooseTypes, TInv, NEW m \in Managers, RemoveUnname(m)
  PROVE  TableHolds' /\ ManagerKnows(m)'
<1>1. Frame(m, "unname", "cleared") /\ UNCHANGED <<files, n_boxes>>
  BY GotoFrame DEF RemoveUnname
<1> DEFINE i == index[m]
           b == box_name[m]
<1>2. i \in Slots /\ boxes[i].name = b /\ b \in Names /\ b \notin files /\ b # NoName
  BY <1>1 DEF TInv, ManagerKnows, Frame
<1>3. boxes'[i].name = NoName /\ \A k \in Slots \ {i} : boxes'[k].name = boxes[k].name
  BY <1>2 DEF RemoveUnname, LooseTypes
<1>4. Boxed' = Boxed \ {i} /\ i \in Boxed
  BY <1>2, <1>3 DEF Boxed
<1>5. Cardinality(Boxed)' = Cardinality(Boxed) - 1
  BY <1>4, BoxedIsFinite, FS_RemoveElement
<1>6. Miscount = -1 /\ Miscount' = 0 /\ Doomed = {b} /\ Doomed' = {}
  BY <1>1, TheManager DEF Frame, Removing
<1>7. n_boxes' = Cardinality(Boxed)' + Miscount'
  BY <1>1, <1>5, <1>6, BoxedIsFinite DEF TInv, TableHolds
<1>8. \A k \in Boxed \ {i} : boxes[k].name # b
  BY <1>2, <1>4 DEF TInv, TableHolds
<1>9. \A k \in Boxed' : boxes'[k].name \in files' \cup Doomed'
  BY <1>1, <1>3, <1>4, <1>6, <1>8 DEF TInv, TableHolds, Boxed
<1>10. \A j, k \in Boxed' : boxes'[j].name = boxes'[k].name => j = k
  BY <1>3, <1>4 DEF TInv, TableHolds, Boxed
<1>11. TableHolds'
  BY <1>1, <1>7, <1>9, <1>10 DEF TInv, TableHolds
<1>12. ~InTable(b)'
  BY <1>1, <1>2, <1>3, <1>8 DEF InTable, Boxed, Frame
<1>13. ManagerKnows(m)'
  BY <1>1, <1>2, <1>12 DEF ManagerKnows, Frame, InTable
<1> QED
  BY <1>11, <1>13

(* list_boxes *)

LEMMA ListKeeps ==
  ASSUME OneManager, LooseTypes, TInv, NEW m \in Managers, List(m) \/ ListTurn(m) \/ ListStop(m)
  PROVE  TableHolds' /\ ManagerKnows(m)'
<1>1. /\ UNCHANGED <<files, n_boxes, boxes>> /\ pc[m] \in {"idle", "list"}
      /\ pc'[m] \in {"list", "listed"}
  BY DEF List, ListTurn, ListStop, Goto, table, LooseTypes
<1>2. TableHolds'
  BY <1>1, TurnTable DEF Removing
<1>3. ManagerKnows(m)'
  BY <1>1 DEF ManagerKnows
<1> QED
  BY <1>2, <1>3

LEMMA ManagerKeepsTable ==
  ASSUME OneManager, HandlesLast, LooseTypes, TInv, NEW m \in Managers, ManagerStep(m)
  PROVE  TInv'
<1>1. Answered(m) => TableHolds' /\ ManagerKnows(m)'
  BY EndKeepsTable DEF Answered
<1>2. TableHolds' /\ ManagerKnows(m)'
  BY <1>1, CreateStartKeeps, CreateFileKeeps, CreateSpaceKeeps, CreateFindKeeps,
     CreateTakeKeeps, CreateNameKeeps, RemoveStartKeeps, RemoveUnlinkKeeps,
     RemoveFindKeeps, RemoveUntakeKeeps, RemoveUnnameKeeps, ListKeeps DEF ManagerStep
<1> QED
  BY <1>2 DEF TInv, OneManager

LEMMA TableInvariant ==
  ASSUME OneManager, HandlesLast
  PROVE  Spec => []TInv
<1>1. Init => TInv
  <2> SUFFICES ASSUME Init PROVE TInv
    OBVIOUS
  <2>1. Boxed = {} /\ \A m \in Managers : pc[m] = "idle" /\ index[m] = 0
    BY DEF Init, Boxed
  <2>2. Miscount = 0
    BY <2>1 DEF Miscount
  <2>3. n_boxes = Cardinality(Boxed) + Miscount
    BY <2>1, <2>2, FS_EmptySet DEF Init
  <2> QED
    BY <2>1, <2>3 DEF Init, TInv, TableHolds, ManagerKnows
<1>2. ASSUME LooseTypes, TInv, [Next]_vars PROVE TInv'
  <2>1. ASSUME UNCHANGED vars PROVE TInv'
    BY <1>2, <2>1 DEF vars, table, TInv, TableHolds, ManagerKnows, Boxed, Miscount, Doomed,
                      InTable
  <2> QED
    BY <1>2, <2>1, ClientKeepsTable, ManagerKeepsTable DEF Next
<1> QED
  BY <1>1, <1>2, LooseTypesHold, PTL DEF Spec

\* With one manager at a time, and whatever the publishers and subscribers do
\* meanwhile, create_box and remove_box (mbroker.c:492, 540) keep n_boxes the
\* number of the named slots, give every box one slot and leave no box without
\* its file.
THEOREM TheTableIsSound ==
  ASSUME OneManager, HandlesLast
  PROVE  Spec => []TableIsSound
<1>1. ASSUME LooseTypes, TInv PROVE TableIsSound
  <2> SUFFICES ASSUME \A m \in Managers :
                        pc[m] \in {"idle", "list", "listed", "created", "cleared"}
               PROVE  /\ n_boxes = Cardinality(Boxed)
                      /\ \A k \in Boxed : boxes[k].name \in files
                      /\ \A j, k \in Boxed : boxes[j].name = boxes[k].name => j = k
    BY DEF TableIsSound
  <2>1. Miscount = 0 /\ Doomed = {}
    BY DEF Miscount, Doomed
  <2> QED
    BY <1>1, <2>1, BoxedIsFinite DEF TInv, TableHolds
<1> QED
  BY <1>1, TableInvariant, LooseTypesHold, PTL

\* The manager that is told its box is there, or gone, is told the truth of the
\* table and of the directory: the search of a table with space finds a slot.
THEOREM TheAnswersAreTrue ==
  ASSUME OneManager, HandlesLast
  PROVE  Spec => []AnswersAreTrue
<1>1. TInv => AnswersAreTrue
  BY DEF TInv, ManagerKnows, AnswersAreTrue, InTable
<1> QED
  BY <1>1, TableInvariant, PTL
-----------------------------------------------------------------------------
(* The lists *)

Below(i) == {k \in Boxed : k < i}

Word == {"0", "1"} \X (Names \cup {NoName})

ListTypes ==
  /\ count \in [Managers -> 0 .. max_sessions]
  /\ answer \in [Managers -> Seq(Word)]

\* What a list knows: the boxes below its index are sent, none as the last, and
\* there are more.  Without boxes the empty name is sent, and nothing follows.
ListKnows(m) ==
  /\ pc[m] \notin {"list", "listed"} => count[m] = 0 /\ answer[m] = <<>>
  /\ pc[m] = "list" =>
       IF Boxed = {} THEN count[m] = 0 /\ answer[m] = <<<<"1", NoName>>>>
       ELSE /\ count[m] = Cardinality(Below(index[m])) /\ count[m] < n_boxes
            /\ Len(answer[m]) = count[m]
            /\ \A k \in Below(index[m]) : answer[m][Place(k)] = <<"0", boxes[k].name>>
  /\ pc[m] = "listed" => IsListing(answer[m])

LInv == ListTypes /\ \A m \in Managers : ListKnows(m)

LEMMA ClientsSendNothing ==
  ASSUME NEW s \in Clients, ClientStep(s)
  PROVE  UNCHANGED <<count, answer>>
BY DEF ClientStep, Start, Search, Test, Answer, Load, Counted, Abandon, Leave, BoxGone,
       UncountRemoved, Uncount

\* A list of which nothing changes keeps what it knows.
LEMMA ListKept ==
  ASSUME NEW m \in Managers, ListKnows(m), UNCHANGED <<n_boxes, count, answer>>,
         \A k \in Slots : boxes'[k].name = boxes[k].name,
         pc'[m] = pc[m], index'[m] = index[m]
  PROVE  ListKnows(m)'
<1>1. Boxed' = Boxed
  BY DEF Boxed
<1>2. Below(index[m])' = Below(index[m])
  BY <1>1 DEF Below
<1>3. \A k \in Boxed : k \in Slots /\ Place(k)' = Place(k)
  BY <1>1 DEF Place, Boxed
<1>4. IsListing(answer[m])' <=> IsListing(answer[m])
  BY <1>1, <1>3 DEF IsListing
<1>5. \A k \in Below(index[m]) : k \in Boxed
  BY DEF Below
<1> QED
  BY <1>1, <1>2, <1>3, <1>4, <1>5 DEF ListKnows

LEMMA ClientKeepsLists ==
  ASSUME LooseTypes, LInv, NEW s \in Clients, ClientStep(s)
  PROVE  LInv'
<1>1. ClientLocal(s) /\ UNCHANGED <<count, answer>>
  BY ClientsAreLocal, ClientsSendNothing
<1>2. \A m \in Managers : m \in Sessions \ {s}
  OBVIOUS
<1>3. /\ UNCHANGED n_boxes /\ \A k \in Slots : boxes'[k].name = boxes[k].name
      /\ \A m \in Managers : pc'[m] = pc[m] /\ index'[m] = index[m]
  BY <1>1, <1>2 DEF ClientLocal, LocalsKept
<1>4. \A m \in Managers : ListKnows(m)'
  BY <1>1, <1>3, ListKept DEF LInv
<1> QED
  BY <1>1, <1>4 DEF LInv, ListTypes

\* The boxes below an index, and the place of the one at it.
LEMMA BelowIsFinite ==
  ASSUME NEW i \in Int
  PROVE  /\ IsFiniteSet(Below(i)) /\ Cardinality(Below(i)) \in Nat
         /\ Cardinality(Below(i)) <= Cardinality(Boxed)
         /\ Cardinality(Below(i)) = Cardinality(Boxed) => Below(i) = Boxed
         /\ \A k \in Below(i) : Place(k) \in 1 .. Cardinality(Below(i))
<1>1. Below(i) \in SUBSET Boxed
  BY DEF Below
<1>2. /\ IsFiniteSet(Below(i)) /\ Cardinality(Below(i)) <= Cardinality(Boxed)
      /\ Cardinality(Boxed) = Cardinality(Below(i)) => Boxed = Below(i)
  BY <1>1, BoxedIsFinite, FS_Subset
<1>3. Cardinality(Below(i)) \in Nat
  BY <1>2, FS_CardinalityType
<1>4. ASSUME NEW k \in Below(i) PROVE Place(k) \in 1 .. Cardinality(Below(i))
  <2> DEFINE upto == {j \in Boxed : j <= k}
  <2>1. upto \in SUBSET Below(i) /\ k \in upto
    BY <1>4 DEF Below, Boxed
  <2>2. IsFiniteSet(upto) /\ Cardinality(upto) <= Cardinality(Below(i))
    BY <1>2, <2>1, FS_Subset
  <2>3. Cardinality(upto) \in Nat /\ Cardinality(upto) # 0
    BY <2>1, <2>2, FS_CardinalityType, FS_EmptySet
  <2>4. Place(k) = Cardinality(upto)
    BY DEF Place
  <2> HIDE DEF upto
  <2> QED
    BY <1>3, <2>2, <2>3, <2>4
<1> QED
  BY <1>2, <1>3, <1>4

LEMMA BelowTheNext ==
  ASSUME NEW i \in Slots
  PROVE  /\ i \notin Boxed => Below(i + 1) = Below(i)
         /\ i \in Boxed => /\ Below(i + 1) = Below(i) \cup {i} /\ i \notin Below(i)
                           /\ Cardinality(Below(i + 1)) = Cardinality(Below(i)) + 1
                           /\ Place(i) = Cardinality(Below(i + 1))
<1>1. \A j \in Boxed : j \in Int
  BY DEF Boxed
<1>2. i \notin Boxed => Below(i + 1) = Below(i)
  BY <1>1 DEF Below
<1>3. ASSUME i \in Boxed
      PROVE  /\ Below(i + 1) = Below(i) \cup {i} /\ i \notin Below(i)
             /\ Cardinality(Below(i + 1)) = Cardinality(Below(i)) + 1
             /\ Place(i) = Cardinality(Below(i + 1))
  <2>1. Below(i + 1) = Below(i) \cup {i} /\ i \notin Below(i)
    <3>1. ~(i < i) /\ \A j \in Boxed : j < i + 1 <=> j < i \/ j = i
      BY <1>1
    <3> HIDE DEF Slots
    <3> QED
      BY <1>3, <3>1 DEF Below
  <2>2. IsFiniteSet(Below(i))
    BY BelowIsFinite
  <2>3. {j \in Boxed : j <= i} = Below(i + 1)
    BY <1>1 DEF Below
  <2> QED
    BY <2>1, <2>2, <2>3, FS_AddElement DEF Place
<1> QED
  BY <1>2, <1>3

\* Where a session of a manager is when it lists, n_boxes counts the boxes.
LEMMA ListsCount ==
  ASSUME OneManager, LooseTypes, TInv, NEW m \in Managers, pc[m] \in {"idle", "list"}
  PROVE  n_boxes = Cardinality(Boxed) /\ (n_boxes = 0 <=> Boxed = {})
<1>1. n_boxes = Cardinality(Boxed)
  BY TheManager, BoxedIsFinite DEF TInv, TableHolds
<1> QED
  BY <1>1, BoxedIsFinite, FS_EmptySet

\* The slots' names and n_boxes stay while a manager lists.
LEMMA SameLists ==
  ASSUME UNCHANGED boxes
  PROVE  /\ Boxed' = Boxed /\ \A i : Below(i)' = Below(i) /\ Place(i)' = Place(i)
         /\ \A sent : IsListing(sent)' <=> IsListing(sent)
<1>1. Boxed' = Boxed
  BY DEF Boxed
<1>2. \A i : Below(i)' = Below(i) /\ Place(i)' = Place(i)
  BY <1>1 DEF Below, Place
<1> QED
  BY <1>1, <1>2 DEF IsListing

LEMMA ListKeepsLists ==
  ASSUME OneManager, LooseTypes, TInv, LInv, NEW m \in Managers, List(m)
  PROVE  ListTypes' /\ ListKnows(m)'
<1>1. /\ pc[m] = "idle" /\ pc'[m] = "list" /\ UNCHANGED <<boxes, n_boxes, index, count>>
      /\ index[m] = 0
  BY DEF List, Goto, table, LooseTypes, TInv, ManagerKnows
<1>2. count[m] = 0 /\ answer[m] = <<>>
  BY <1>1 DEF LInv, ListKnows
<1>3. n_boxes = Cardinality(Boxed) /\ (n_boxes = 0 <=> Boxed = {}) /\ Cardinality(Boxed) \in Nat
  BY <1>1, ListsCount, BoxedIsFinite
<1>4. Boxed' = Boxed /\ Below(0)' = Below(0)
  BY <1>1, SameLists
<1>5. CASE n_boxes = 0
  <2>1. answer' = [answer EXCEPT ![m] = Append(@, <<"1", NoName>>)]
    BY <1>5 DEF List, Send
  <2>2. answer'[m] = <<<<"1", NoName>>>>
    BY <1>2, <2>1 DEF LInv, ListTypes
  <2>3. <<"1", NoName>> \in Word
    BY DEF Word
  <2>4. ListTypes'
    BY <1>1, <2>1, <2>3 DEF LInv, ListTypes
  <2> QED
    BY <1>1, <1>2, <1>3, <1>4, <1>5, <2>2, <2>4 DEF ListKnows
<1>6. CASE n_boxes # 0
  <2>1. UNCHANGED answer
    BY <1>6 DEF List
  <2>2. Below(0) = {} /\ Cardinality(Below(0)) = 0
    <3>1. Below(0) = {}
      BY DEF Below, Boxed
    <3> QED
      BY <3>1, FS_EmptySet
  <2>3. ListTypes'
    BY <1>1, <2>1 DEF LInv, ListTypes
  <2> QED
    BY <1>1, <1>2, <1>3, <1>4, <1>6, <2>1, <2>2, <2>3 DEF ListKnows
<1> QED
  BY <1>5, <1>6

LEMMA TurnKeepsLists ==
  ASSUME OneManager, LooseTypes, TInv, LInv, NEW m \in Managers, ListTurn(m)
  PROVE  ListTypes' /\ ListKnows(m)'
<1>1. /\ pc[m] = "list" /\ UNCHANGED <<boxes, n_boxes>> /\ index[m] < max_sessions
      /\ index' = [index EXCEPT ![m] = @ + 1]
  BY DEF ListTurn, Goto, table
<1>2. PICK i \in Slots : i = index[m]
  BY <1>1 DEF LooseTypes
<1>3. index'[m] = i + 1
  BY <1>1, <1>2 DEF LooseTypes
<1>4. /\ n_boxes = Cardinality(Boxed) /\ (n_boxes = 0 <=> Boxed = {})
      /\ Cardinality(Boxed) \in Nat /\ Cardinality(Boxed) <= max_sessions
  <2>1. Boxed \in SUBSET Slots
    BY DEF Boxed
  <2>2. IsFiniteSet(Slots) /\ Cardinality(Slots) = max_sessions
    BY BoxedIsFinite
  <2> HIDE DEF Slots
  <2>3. Cardinality(Boxed) <= max_sessions
    BY <2>1, <2>2, FS_Subset
  <2> QED
    BY <1>1, <2>3, ListsCount, BoxedIsFinite
<1>5. /\ Boxed' = Boxed /\ Below(i + 1)' = Below(i + 1)
      /\ \A k : Place(k)' = Place(k)
      /\ \A sent : IsListing(sent)' <=> IsListing(sent)
  BY <1>1, SameLists
<1>6. CASE i \notin Boxed
  <2>1. boxes[i].name = NoName
    BY <1>6 DEF Boxed
  <2>2. UNCHANGED <<pc, count, answer>>
    BY <1>2, <2>1 DEF ListTurn
  <2>3. Below(i + 1) = Below(i)
    BY <1>6, BelowTheNext
  <2>4. ListTypes'
    BY <2>2 DEF LInv, ListTypes
  <2> QED
    BY <1>1, <1>2, <1>3, <1>5, <2>2, <2>3, <2>4 DEF LInv, ListKnows
<1>7. CASE i \in Boxed
  <2> DEFINE c == count[m] + 1
             mark == IF c = n_boxes THEN "1" ELSE "0"
             word == <<mark, boxes[i].name>>
  <2>1. boxes[i].name # NoName /\ boxes[i].name \in Names /\ Boxed # {}
    BY <1>7 DEF Boxed, LooseTypes
  <2>2. /\ count[m] = Cardinality(Below(i)) /\ count[m] < n_boxes
        /\ Len(answer[m]) = count[m] /\ count[m] \in Nat
        /\ \A k \in Below(i) : answer[m][Place(k)] = <<"0", boxes[k].name>>
    <3>1. ListKnows(m) /\ count[m] \in Nat
      BY DEF LInv, ListTypes
    <3> QED
      BY <1>1, <1>2, <2>1, <3>1 DEF ListKnows
  <2>3. /\ count' = [count EXCEPT ![m] = @ + 1]
        /\ count'[m] = c
    BY <1>2, <2>1 DEF ListTurn, LInv, ListTypes
  <2>4. /\ answer' = [answer EXCEPT ![m] = Append(@, word)]
        /\ pc' = [pc EXCEPT ![m] = IF c = n_boxes THEN "listed" ELSE "list"]
    BY <1>2, <2>1, <2>3 DEF ListTurn, Send, Goto
  <2>5. word \in Word
    BY <2>1 DEF Word
  <2>6. ListTypes'
    BY <1>4, <2>2, <2>3, <2>4, <2>5 DEF LInv, ListTypes
  <2>7. /\ answer'[m] = Append(answer[m], word) /\ answer[m] \in Seq(Word)
        /\ pc'[m] = IF c = n_boxes THEN "listed" ELSE "list"
    BY <2>4 DEF LInv, ListTypes, LooseTypes
  <2>8. /\ Below(i + 1) = Below(i) \cup {i} /\ i \notin Below(i)
        /\ Cardinality(Below(i + 1)) = c /\ Place(i) = c
    BY <1>7, <2>2, BelowTheNext
  <2>9. \A k \in Below(i) : Place(k) \in 1 .. count[m]
    BY <2>2, BelowIsFinite
  <2> HIDE DEF word
  <2>10. /\ Len(answer'[m]) = c /\ answer'[m][c] = word
         /\ \A n \in 1 .. count[m] : answer'[m][n] = answer[m][n]
    BY <2>2, <2>7
  <2>11. \A k \in Below(i) : answer'[m][Place(k)] = <<"0", boxes[k].name>>
    BY <2>2, <2>9, <2>10
  <2>12. CASE c = n_boxes
    <3>1. Below(i + 1) = Boxed
      BY <1>4, <2>8, <2>12, BelowIsFinite
    <3>2. word = <<"1", boxes[i].name>>
      BY <2>12 DEF word
    <3>3. \A k \in Boxed : answer'[m][Place(k)] =
                             <<IF Place(k) = c THEN "1" ELSE "0", boxes[k].name>>
      BY <2>2, <2>8, <2>9, <2>10, <2>11, <3>1, <3>2
    <3>4. IsListing(answer'[m])
      BY <1>4, <2>1, <2>10, <2>12, <3>3 DEF IsListing
    <3>5. IsListing(answer[m])'
      BY <1>5, <3>4
    <3> QED
      BY <2>6, <2>7, <2>12, <3>5 DEF ListKnows
  <2>13. CASE c # n_boxes
    <3>1. word = <<"0", boxes[i].name>>
      BY <2>13 DEF word
    <3>2. \A k \in Below(i + 1) : answer'[m][Place(k)] = <<"0", boxes[k].name>>
      BY <2>8, <2>10, <2>11, <3>1
    <3>3. c < n_boxes
      BY <1>4, <2>2, <2>13
    <3>4. Below(index[m])' = Below(i + 1)
      BY <1>3, <1>5
    <3> HIDE DEF c
    <3> QED
      BY <1>1, <1>5, <2>1, <2>3, <2>6, <2>7, <2>8, <2>10, <2>13, <3>2, <3>3, <3>4 DEF ListKnows
  <2> QED
    BY <2>12, <2>13
<1> QED
  BY <1>6, <1>7

LEMMA StopKeepsLists ==
  ASSUME OneManager, LooseTypes, TInv, LInv, NEW m \in Managers, ListStop(m)
  PROVE  ListTypes' /\ ListKnows(m)'
<1>1. /\ pc[m] = "list" /\ pc'[m] = "listed" /\ UNCHANGED <<boxes, count, answer>>
      /\ index[m] = max_sessions
  BY DEF ListStop, Goto, table, LooseTypes
<1>2. Below(max_sessions) = Boxed
  BY DEF Below, Boxed
<1>3. n_boxes = Cardinality(Boxed) /\ Cardinality(Boxed) \in Nat
  BY <1>1, ListsCount, BoxedIsFinite
<1>4. Boxed = {} /\ answer[m] = <<<<"1", NoName>>>>
  BY <1>1, <1>2, <1>3 DEF LInv, ListKnows
<1>5. IsListing(answer[m])
  BY <1>4 DEF IsListing
<1>6. IsListing(answer[m])'
  BY <1>1, <1>5, SameLists
<1> QED
  BY <1>1, <1>6 DEF LInv, ListTypes, ListKnows

LEMMA ManagerKeepsLists ==
  ASSUME OneManager, LooseTypes, TInv, LInv, NEW m \in Managers, ManagerStep(m)
  PROVE  LInv'
<1>1. CASE List(m) \/ ListTurn(m) \/ ListStop(m)
  BY <1>1, ListKeepsLists, TurnKeepsLists, StopKeepsLists DEF LInv, OneManager
<1>2. CASE Answered(m)
  <2>1. pc'[m] = "idle"
    BY <1>2, EndFrame DEF Answered
  <2>2. count'[m] = 0 /\ answer'[m] = <<>> /\ ListTypes'
    BY <1>2 DEF Answered, LInv, ListTypes
  <2> QED
    BY <2>1, <2>2 DEF LInv, ListKnows, OneManager
<1>3. CASE ~(List(m) \/ ListTurn(m) \/ ListStop(m) \/ Answered(m))
  <2>1. /\ UNCHANGED <<count, answer>>
        /\ pc[m] \notin {"list", "listed"} /\ pc'[m] \notin {"list", "listed"}
    <3>1. UNCHANGED <<count, answer>>
      BY <1>3 DEF ManagerStep, CreateStart, RemoveStart, CreateFile, CreateSpace, CreateFind,
                  CreateTake, CreateName, RemoveUnlink, RemoveFind, RemoveUntake, RemoveUnname
    <3>2. \/ \E here, there \in Places \ {"list", "listed"} : Goto(m, here, there)
          \/ pc[m] \in {"find", "clear"} /\ UNCHANGED pc
      BY <1>3 DEF ManagerStep, CreateStart, RemoveStart, CreateFile, CreateSpace, CreateFind,
                  CreateTake, CreateName, RemoveUnlink, RemoveFind, RemoveUntake, RemoveUnname,
                  End
    <3> QED
      BY <3>1, <3>2 DEF Goto, LooseTypes
  <2> QED
    BY <2>1 DEF LInv, ListTypes, ListKnows, OneManager
<1> QED
  BY <1>1, <1>2, <1>3

LEMMA ListInvariant ==
  ASSUME OneManager, HandlesLast
  PROVE  Spec => []LInv
<1>1. Init => LInv
  BY DEF Init, LInv, ListTypes, ListKnows
<1>2. ASSUME LooseTypes, TInv, LInv, [Next]_vars PROVE LInv'
  <2>1. ASSUME UNCHANGED vars PROVE LInv'
    BY <1>2, <2>1, ListKept DEF vars, table, LInv, ListTypes
  <2> QED
    BY <1>2, <2>1, ClientKeepsLists, ManagerKeepsLists DEF Next
<1> QED
  BY <1>1, <1>2, LooseTypesHold, TableInvariant, PTL DEF Spec

\* With one manager at a time, the list it is sent has every box of the table
\* once, in the order of the slots, and marks the last one and no other
\* (mbroker.c:583), whatever boxes came and went before.
THEOREM TheListIsComplete ==
  ASSUME OneManager, HandlesLast
  PROVE  Spec => []ListIsComplete
<1>1. LInv => ListIsComplete
  BY DEF LInv, ListKnows, ListIsComplete
<1> QED
  BY <1>1, ListInvariant, PTL
-----------------------------------------------------------------------------
(* The ranges *)

\* A slot is taken before it is named, and untaken while it has its name.
LEMMA TableFits ==
  ASSUME OneManager, LooseTypes, TInv
  PROVE  n_boxes \in 0 .. max_sessions
<1>1. Boxed \in SUBSET Slots
  BY DEF Boxed
<1>2. /\ IsFiniteSet(Slots) /\ Cardinality(Slots) = max_sessions
      /\ IsFiniteSet(Boxed) /\ Cardinality(Boxed) \in Nat
      /\ max_sessions \in Nat
  BY BoxedIsFinite
<1>3. ASSUME NEW i \in Slots \ Boxed PROVE Cardinality(Boxed) + 1 <= max_sessions
  <2>1. Boxed \cup {i} \in SUBSET Slots
    BY <1>1
  <2> HIDE DEF Slots
  <2>2. Cardinality(Boxed \cup {i}) <= Cardinality(Slots)
    BY <1>2, <2>1, FS_Subset
  <2> QED
    BY <1>2, <2>2, FS_AddElement
<1>4. Cardinality(Boxed) <= max_sessions
  <2> HIDE DEF Slots
  <2> QED
    BY <1>1, <1>2, FS_Subset
<1>5. ASSUME NEW i \in Boxed PROVE Cardinality(Boxed) # 0
  BY <1>2, FS_EmptySet
<1>6. n_boxes = Cardinality(Boxed) + Miscount
  BY DEF TInv, TableHolds
<1>7. CASE \E m \in Managers : pc[m] = "name"
  <2>1. PICK m \in Managers : pc[m] = "name"
    BY <1>7
  <2>2. index[m] \in Slots \ Boxed /\ Miscount = 1
    BY <2>1, TheManager DEF TInv, ManagerKnows
  <2> QED
    BY <1>2, <1>3, <1>6, <2>2
<1>8. CASE \E m \in Managers : pc[m] = "unname"
  <2>1. PICK m \in Managers : pc[m] = "unname"
    BY <1>8
  <2>2. index[m] \in Boxed /\ Miscount = -1
    BY <2>1, TheManager DEF TInv, ManagerKnows, Boxed
  <2>3. Cardinality(Boxed) # 0
    BY <1>5, <2>2
  <2> QED
    BY <1>2, <1>4, <1>6, <2>2, <2>3
<1>9. CASE ~(\E m \in Managers : pc[m] \in {"name", "unname"})
  <2>1. Miscount = 0
    BY <1>9 DEF Miscount
  <2> QED
    BY <1>2, <1>4, <1>6, <2>1
<1> QED
  BY <1>7, <1>8, <1>9

\* The counters are those of a uint64_t, the table's and the sessions' copies.
Counters ==
  /\ \A k \in Slots, kind \in Kinds : boxes[k][kind] \in Counter
  /\ \A s \in Sessions : counter[s] \in Counter

\* What a client may have in its copy after a step.
LEMMA ClientReads ==
  ASSUME LooseTypes, NEW s \in Clients, ClientStep(s)
  PROVE  \/ counter'[s] \in {counter[s], 0}
         \/ \E k \in Slots : counter'[s] = boxes[k][Kind(s)]
<1>1. ASSUME NEW here, End(s, here) PROVE counter'[s] = 0
  BY <1>1 DEF End, Forget, LooseTypes
<1>2. ASSUME NEW here \in HasSlot, NEW there \in {"counted", "uncount", "uncount_removed"},
             Load(s, here, there)
      PROVE  \E k \in Slots : counter'[s] = boxes[k][Kind(s)]
  BY <1>2, LoadIsLocal
<1>3. CASE \E b \in Names : Start(s, b)
  BY <1>3 DEF Start
<1>4. CASE Search(s) \/ Test(s)
  BY <1>1, <1>4 DEF Search, Test
<1>5. CASE Answer(s)
  BY <1>1, <1>2, <1>5 DEF Answer
<1>6. CASE Counted(s)
  BY <1>6 DEF Counted, LooseTypes
<1>7. CASE Abandon(s) \/ Uncount(s)
  BY <1>1, <1>7 DEF Abandon, Uncount
<1>8. CASE Leave(s) \/ UncountRemoved(s)
  BY <1>2, <1>8 DEF Leave, UncountRemoved
<1>9. CASE BoxGone(s)
  BY <1>9 DEF BoxGone
<1> QED
  BY <1>3, <1>4, <1>5, <1>6, <1>7, <1>8, <1>9 DEF ClientStep

\* And a session of a manager.
LEMMA ManagerReads ==
  ASSUME LooseTypes, NEW m \in Managers, ManagerStep(m)
  PROVE  counter'[m] \in {counter[m], 0, n_boxes}
<1>1. ASSUME NEW here, End(m, here) PROVE counter'[m] = 0
  BY <1>1 DEF End, Forget, LooseTypes
<1>2. CASE CreateFile(m) \/ CreateSpace(m) \/ RemoveUnlink(m) \/ Answered(m)
  BY <1>1, <1>2 DEF CreateFile, CreateSpace, RemoveUnlink, Answered
<1>3. CASE CreateFind(m) \/ RemoveFind(m)
  BY <1>3 DEF CreateFind, RemoveFind, LooseTypes
<1>4. CASE ~(\/ CreateFile(m) \/ CreateSpace(m) \/ RemoveUnlink(m) \/ Answered(m)
             \/ CreateFind(m) \/ RemoveFind(m))
  BY <1>4 DEF ManagerStep, CreateStart, RemoveStart, CreateTake, CreateName, RemoveUntake,
              RemoveUnname, List, ListTurn, ListStop
<1> QED
  BY <1>2, <1>3, <1>4

LEMMA CountersKept ==
  ASSUME OneOfEach, OneManager, LooseTypes, Accounts, TInv, Counters, Next
  PROVE  Counters'
<1>1. 0 \in Counter /\ n_boxes \in Counter /\ \A n \in 0 .. MaxLost + 1 : n \in Counter
  BY TableFits DEF Counter
<1>2. ASSUME NEW s \in Clients, ClientStep(s) PROVE Counters'
  <2>1. ClientLocal(s) /\ Account(s)' /\ Kind(s) \in Kinds
    BY <1>2, ClientsAreLocal, AccountsKept DEF Accounts, Kind
  <2>2. \A k \in Slots, kind \in Kinds \ {Kind(s)} : boxes'[k][kind] \in Counter
    BY <2>1 DEF ClientLocal, Counters
  <2>3. \A k \in Slots : boxes'[k][Kind(s)] \in 0 .. MaxLost + 1
    BY <2>1 DEF Account
  <2>4. \A t \in Sessions \ {s} : counter'[t] \in Counter
    BY <2>1 DEF ClientLocal, LocalsKept, Counters
  <2>5. counter'[s] \in Counter
    BY <1>1, <1>2, <2>1, ClientReads DEF Counters
  <2> QED
    BY <1>1, <2>2, <2>3, <2>4, <2>5 DEF Counters
<1>3. ASSUME NEW m \in Managers, ManagerStep(m) PROVE Counters'
  <2>1. \A k \in Slots, kind \in Kinds : boxes'[k][kind] \in Counter
    BY <1>3, ManagerKeepsCounters DEF Counters
  <2>2. \A t \in Sessions \ {m} : counter'[t] \in Counter
    BY <1>3, ManagerLocals DEF LocalsKept, Counters
  <2>3. counter'[m] \in Counter
    BY <1>1, <1>3, ManagerReads DEF Counters
  <2> QED
    BY <2>1, <2>2, <2>3 DEF Counters
<1> QED
  BY <1>2, <1>3 DEF Next

\* With one publisher, one subscriber and one manager at a time, every variable
\* stays in its range: no counter of a box wraps below zero (mbroker.c:256, 288,
\* 350, 410), n_boxes stays within the table, and a list is no longer than the table.
THEOREM TypeCorrect ==
  ASSUME OneOfEach, OneManager, HandlesLast
  PROVE  Spec => []TypeOK
<1>1. Init => Accounts /\ Counters
  <2>1. Init => Counters
    BY DEF Init, Counters, Counter
  <2> QED
    BY <2>1, InitHolds
<1>2. ASSUME LooseTypes, TInv, Accounts, Counters, [Next]_vars PROVE (Accounts /\ Counters)'
  <2>1. CASE Next
    BY <1>2, <2>1, AccountsKept, CountersKept
  <2>2. CASE UNCHANGED vars
    BY <1>2, <2>2 DEF vars, table, Accounts, Account, CountedIn, Counters
  <2> QED
    BY <1>2, <2>1, <2>2
<1>3. ASSUME LooseTypes, TInv, LInv, Counters PROVE TypeOK
  <2>1. boxes \in [Slots -> [name : Names \cup {NoName}, n_publishers : Counter,
                             n_subscribers : Counter]]
    BY <1>3 DEF LooseTypes, Counters
  <2>2. counter \in [Sessions -> Counter]
    BY <1>3 DEF LooseTypes, Counters
  <2> QED
    BY <1>3, <2>1, <2>2, TableFits DEF LooseTypes, TInv, TableHolds, LInv, ListTypes, Word, TypeOK
<1> QED
  BY <1>1, <1>2, <1>3, LooseTypesHold, TableInvariant, ListInvariant, PTL DEF Spec
=============================================================================
