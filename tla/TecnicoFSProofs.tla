--------------------------- MODULE TecnicoFSProofs ---------------------------
(***************************************************************************)
(* For tables of any size, and whatever calls of TecnicoFS follow each     *)
(* other: the directory and the inode table agree and no two files share a *)
(* block.  For callers that, as the broker does, never truncate, and that  *)
(* do not remove open files, no block is lost, no call ends the process    *)
(* and TecnicoFS implements FileStore.                                     *)
(***************************************************************************)
EXTENDS TecnicoFS, WellFoundedInduction, SequenceTheorems, TLAPS

\* What every caller can rely on.
IInv == TypeOK /\ DirectorySound /\ LiveBlocksExclusive

\* What holds besides when no open file is removed: a handle has a file,
OpenFilesLive == \A h \in Handles : IsOpen(h) => Inum(h) \in LiveFiles

\* and when none is truncated: it is not past the end of it.
OffsetsInFile == \A h \in Handles : IsOpen(h) => Offset(h) <= Size(h)

NeverRemovesOpen == ~UnlinkWhileOpen
NeverTruncates == \A mode \in Modes : "TRUNC" \notin mode

-----------------------------------------------------------------------------
USE FSAssumption DEF ROOT_DIR_INUM, Inodes, Blocks, Handles, Entries, Addresses,
                     States

\* A search through a table meets the first of the places it looks for.
LEMMA LeastExists ==
  ASSUME NEW S \in SUBSET Nat, S # {}
  PROVE  \E i \in S : \A j \in S : i <= j
<1>1. PICK i \in S : \A j \in S : <<j, i>> \notin OpToRel(<, Nat)
  BY NatLessThanWellFounded, WFMin
<1>2. \A j \in S : ~(j < i)
  BY <1>1 DEF OpToRel
<1> QED
  BY <1>2

\* inode_alloc, data_block_alloc and add_to_open_file_table: a free place if there
\* is one, and no place otherwise.
LEMMA FirstFreeFinds ==
  ASSUME NEW n \in Nat, NEW tab \in [0 .. n - 1 -> States]
  PROVE  \/ FirstFree(tab) = -1 /\ \A i \in 0 .. n - 1 : tab[i] = "TAKEN"
         \/ FirstFree(tab) \in 0 .. n - 1 /\ tab[FirstFree(tab)] = "FREE"
<1> DEFINE S == {i \in 0 .. n - 1 : tab[i] = "FREE"}
<1>1. CASE S = {}
  BY <1>1 DEF FirstFree
<1>2. CASE S # {}
  <2>1. PICK i \in S : \A j \in S : i <= j
    <3>1. S \in SUBSET Nat
      OBVIOUS
    <3> HIDE DEF S
    <3> QED
      BY <1>2, <3>1, LeastExists
  <2> QED
    BY <2>1 DEF FirstFree
<1> QED
  BY <1>1, <1>2

\* add_dir_entry and clear_dir_entry: the first of some entries is one of them.
LEMMA FirstOfFinds ==
  ASSUME NEW S \in SUBSET Entries, S # {}
  PROVE  FirstOf(S) \in S
<1>1. PICK i \in S : \A j \in S : i <= j
  BY LeastExists
<1> QED
  BY <1>1 DEF FirstOf

\* find_in_dir: the inode of an entry with that name, or -1 if there is none.
LEMMA LookupFinds ==
  ASSUME TypeOK, NEW name \in Names \cup BadNames
  PROVE  \/ /\ Lookup(name) = -1
            /\ name \in Names => Matches(name) = {}
         \/ /\ Lookup(name) \in Inodes
            /\ name \in Names
            /\ FirstOf(Matches(name)) \in UsedEntries
            /\ dir[FirstOf(Matches(name))].d_inumber = Lookup(name)
            /\ dir[FirstOf(Matches(name))].d_name = name
<1>1. CASE name \in Names /\ Matches(name) # {}
  <2>1. FirstOf(Matches(name)) \in Matches(name)
    BY <1>1, FirstOfFinds DEF Matches
  <2>2. Lookup(name) = dir[FirstOf(Matches(name))].d_inumber
    BY <1>1 DEF Lookup
  <2> QED
    BY <1>1, <2>1, <2>2 DEF Matches, UsedEntries, TypeOK
<1>2. CASE ~(name \in Names /\ Matches(name) # {})
  BY <1>2 DEF Lookup
<1> QED
  BY <1>1, <1>2

\* A file that is found is a live one, and not the root directory.
LEMMA FoundIsLive ==
  ASSUME IInv, NEW name \in Names \cup BadNames, Lookup(name) # -1
  PROVE  Lookup(name) \in LiveFiles
<1>1. FirstOf(Matches(name)) \in UsedEntries
      /\ dir[FirstOf(Matches(name))].d_inumber = Lookup(name)
  BY LookupFinds DEF IInv
<1> QED
  BY <1>1 DEF IInv, DirectorySound

\* The size_t differences: one that is not negative is itself,
LEMMA ModSmall ==
  ASSUME NEW a \in 0 .. Word - 1
  PROVE  a % Word = a
OBVIOUS

\* and a negative one is larger than any buffer.
LEMMA ModWraps ==
  ASSUME NEW a \in Int, a < 0, a + MaxOffset >= 0
  PROVE  a % Word = a + Word /\ a % Word > MaxLen
OBVIOUS

LEMMA ModRange ==
  ASSUME NEW a \in Int
  PROVE  a % Word \in 0 .. Word - 1
OBVIOUS

\* What is written stays inside the block.
LEMMA WriteFits ==
  ASSUME TypeOK, NEW h \in Handles, NEW len \in 1 .. MaxLen, ToWrite(h, len) \in 1 .. len
  PROVE  Offset(h) + ToWrite(h, len) <= BLOCK_SIZE
<1>1. Offset(h) \in 0 .. MaxOffset
  BY DEF TypeOK, Offset
<1>2. CASE len + Offset(h) > BLOCK_SIZE
  <2>1. CASE BLOCK_SIZE - Offset(h) < 0
    <3>1. (BLOCK_SIZE - Offset(h)) % Word > MaxLen
      BY <1>1, <2>1, ModWraps
    <3> QED
      BY <1>2, <3>1 DEF ToWrite
  <2>2. CASE BLOCK_SIZE - Offset(h) >= 0
    <3>1. BLOCK_SIZE - Offset(h) \in 0 .. Word - 1
      BY <1>1, <2>2
    <3>2. (BLOCK_SIZE - Offset(h)) % Word = BLOCK_SIZE - Offset(h)
      BY <3>1, ModSmall
    <3> QED
      BY <1>1, <1>2, <3>2 DEF ToWrite
  <2> QED
    BY <1>1, <2>1, <2>2
<1>3. CASE ~(len + Offset(h) > BLOCK_SIZE)
  BY <1>1, <1>3 DEF ToWrite
<1> QED
  BY <1>2, <1>3

\* What a handle leads to.
LEMMA HandleTyped ==
  ASSUME TypeOK, NEW h \in Handles
  PROVE  /\ Inum(h) \in Inodes
         /\ Offset(h) \in 0 .. MaxOffset
         /\ Size(h) \in 0 .. BLOCK_SIZE
         /\ Block(h) \in Blocks \cup {-1}
<1>1. Inum(h) \in Inodes /\ Offset(h) \in 0 .. MaxOffset
  BY DEF TypeOK, Inum, Offset
<1>2. inode_table[Inum(h)] \in [i_size : 0 .. BLOCK_SIZE, i_data_block : Blocks \cup {-1}]
  BY <1>1 DEF TypeOK
<1> QED
  BY <1>1, <1>2 DEF Size, Block

\* What is read is not more than was asked for.
LEMMA ReadBounded ==
  ASSUME TypeOK, NEW h \in Handles, NEW len \in 1 .. MaxLen
  PROVE  ToRead(h, len) \in 0 .. len
<1>1. Size(h) - Offset(h) \in Int
  BY HandleTyped
<1>2. (Size(h) - Offset(h)) % Word \in Nat
  BY <1>1, ModRange
<1> QED
  BY <1>2 DEF ToRead, Least

-----------------------------------------------------------------------------
(* The invariant of every caller *)

\* tfs_init leaves a root directory without entries.
LEMMA InitHolds == Init => IInv
<1> SUFFICES ASSUME Init PROVE IInv
  OBVIOUS
<1>1. TypeOK
  <2>1. << >> \in Seq(Bytes \cup {Junk})
    BY EmptySeq
  <2>2. ret \in [value : -1 .. MAX_OPEN_FILES + MaxLen + MaxOffset,
                data : Seq(Bytes \cup {Junk})]
    BY <2>1 DEF Init
  <2>3. 0 \in Inodes /\ 0 \in Blocks /\ 0 \in 0 .. MaxOffset
    OBVIOUS
  <2>4. /\ freeinode_ts \in [Inodes -> States] /\ freeinode_ts[0] = "TAKEN"
        /\ free_blocks \in [Blocks -> States] /\ free_blocks[0] = "TAKEN"
    BY <2>3 DEF Init
  <2>5. inode_table \in [Inodes -> [i_size : 0 .. BLOCK_SIZE,
                                    i_data_block : Blocks \cup {-1}]]
    BY <2>3 DEF Init
  <2>6. /\ fs_data \in [Addresses -> Bytes \cup {Junk}]
        /\ dir \in [Entries -> [d_name : Names \cup {NoName},
                                d_inumber : Inodes \cup {-1}]]
        /\ free_open_file_entries \in [Handles -> States]
        /\ open_file_table \in [Handles -> [of_inumber : Inodes,
                                            of_offset : 0 .. MaxOffset]]
        /\ halted \in BOOLEAN
    BY <2>3 DEF Init
  <2> QED
    BY <2>2, <2>4, <2>5, <2>6 DEF TypeOK
<1>2. UsedEntries = {} /\ LiveFiles = {}
  BY DEF Init, UsedEntries, LiveFiles
<1> QED
  BY <1>1, <1>2 DEF IInv, DirectorySound, LiveBlocksExclusive

\* What a call that reads nothing returns.
LEMMA ReturnTyped ==
  ASSUME NEW v \in -1 .. MAX_OPEN_FILES + MaxLen + MaxOffset, Returns(v, << >>)
  PROVE  ret' \in [value : -1 .. MAX_OPEN_FILES + MaxLen + MaxOffset,
                  data : Seq(Bytes \cup {Junk})]
BY EmptySeq DEF Returns

LEMMA FailureTyped ==
  ASSUME Fails
  PROVE  ret' \in [value : -1 .. MAX_OPEN_FILES + MaxLen + MaxOffset,
                  data : Seq(Bytes \cup {Junk})]
<1>1. -1 \in -1 .. MAX_OPEN_FILES + MaxLen + MaxOffset
  OBVIOUS
<1> QED
  BY <1>1, ReturnTyped DEF Fails

\* add_to_open_file_table keeps the table of handles in its range.
LEMMA HandlesTyped ==
  ASSUME TypeOK, NEW inum \in Inodes, NEW offset \in 0 .. MaxOffset,
         AddToOpenFileTable(inum, offset)
  PROVE  /\ free_open_file_entries' \in [Handles -> States]
         /\ open_file_table' \in [Handles -> [of_inumber : Inodes,
                                             of_offset : 0 .. MaxOffset]]
         /\ ret' \in [value : -1 .. MAX_OPEN_FILES + MaxLen + MaxOffset,
                     data : Seq(Bytes \cup {Junk})]
<1> DEFINE h == FirstFree(free_open_file_entries)
<1>1. h = -1 \/ h \in Handles
  BY FirstFreeFinds DEF TypeOK
<1>2. ret' \in [value : -1 .. MAX_OPEN_FILES + MaxLen + MaxOffset,
               data : Seq(Bytes \cup {Junk})]
  <2>1. h \in -1 .. MAX_OPEN_FILES + MaxLen + MaxOffset
    BY <1>1
  <2>2. Returns(h, << >>)
    BY DEF AddToOpenFileTable
  <2> HIDE DEF h
  <2> QED
    BY <2>1, <2>2, ReturnTyped
<1>3. CASE h = -1
  <2>1. UNCHANGED openFiles
    BY <1>3 DEF AddToOpenFileTable
  <2> QED
    BY <1>2, <2>1 DEF TypeOK, openFiles
<1>4. CASE h \in Handles
  <2>1. /\ free_open_file_entries' = [free_open_file_entries EXCEPT ![h] = "TAKEN"]
        /\ open_file_table' = [open_file_table EXCEPT ![h] =
                                 [of_inumber |-> inum, of_offset |-> offset]]
    BY <1>4 DEF AddToOpenFileTable
  <2> HIDE DEF h
  <2> QED
    BY <1>2, <1>4, <2>1 DEF TypeOK
<1> QED
  BY <1>1, <1>3, <1>4

\* A call that fails and changes nothing else.
LEMMA RefusalTyped ==
  ASSUME TypeOK, Fails, UNCHANGED <<inodes, blocks, dir, openFiles, halted>>
  PROVE  TypeOK'
<1>1. ret' \in [value : -1 .. MAX_OPEN_FILES + MaxLen + MaxOffset,
               data : Seq(Bytes \cup {Junk})]
  BY FailureTyped
<1> QED
  BY <1>1 DEF TypeOK, inodes, blocks, openFiles

\* tfs_open keeps every table in its range.
LEMMA OpenTyped ==
  ASSUME IInv, NEW name \in Names \cup BadNames, NEW mode \in Modes,
         tfs_open(name, mode)
  PROVE  TypeOK'
<1>T. TypeOK
  BY DEF IInv
<1>1. CASE OpenExisting(name, mode)
  <2> DEFINE inum == Lookup(name)
             size == inode_table[inum].i_size
             cut == "TRUNC" \in mode /\ size > 0
  <2>1. inum \in LiveFiles
    BY <1>1, FoundIsLive DEF OpenExisting
  <2>2. inum \in Inodes /\ size \in 0 .. BLOCK_SIZE
    BY <1>T, <2>1 DEF LiveFiles, TypeOK
  <2>3. size > 0 => inode_table[inum].i_data_block \in Blocks \ {0}
    BY <2>1 DEF IInv, LiveBlocksExclusive, HasBlock, BlockOf
  <2>4. AddToOpenFileTable(inum, IF "APPEND" \in mode /\ ~cut THEN size ELSE 0)
    BY <1>1 DEF OpenExisting
  <2>5. (IF "APPEND" \in mode /\ ~cut THEN size ELSE 0) \in 0 .. MaxOffset
    BY <2>2
  <2>6. UNCHANGED <<freeinode_ts, fs_data, dir, halted>>
    BY <1>1 DEF OpenExisting
  <2>7. CASE cut
    <3>1. /\ free_blocks' = [free_blocks EXCEPT ![inode_table[inum].i_data_block] = "FREE"]
          /\ inode_table' = [inode_table EXCEPT ![inum].i_size = 0]
      BY <1>1, <2>7 DEF OpenExisting
    <3> DEFINE b == inode_table[inum].i_data_block
    <3>b. b \in Blocks \ {0}
      BY <2>3, <2>7
    <3> HIDE DEF inum, b
    <3>2. free_blocks' \in [Blocks -> States] /\ free_blocks'[0] = "TAKEN"
      <4>1. free_blocks' = [free_blocks EXCEPT ![b] = "FREE"]
        BY <3>1 DEF b
      <4> QED
        BY <1>T, <3>b, <4>1 DEF TypeOK
    <3>3. inode_table' \in [Inodes -> [i_size : 0 .. BLOCK_SIZE,
                                       i_data_block : Blocks \cup {-1}]]
      <4>1. inode_table[inum] \in [i_size : 0 .. BLOCK_SIZE, i_data_block : Blocks \cup {-1}]
        BY <1>T, <2>2 DEF TypeOK
      <4>2. [inode_table[inum] EXCEPT !.i_size = 0]
              \in [i_size : 0 .. BLOCK_SIZE, i_data_block : Blocks \cup {-1}]
        BY <4>1
      <4> QED
        BY <1>T, <2>2, <3>1, <4>2 DEF TypeOK
    <3> HIDE DEF size, cut
    <3> QED
      BY <1>T, <2>2, <2>4, <2>5, <2>6, <3>2, <3>3, HandlesTyped DEF TypeOK
  <2>8. CASE ~cut
    <3>1. UNCHANGED <<free_blocks, inode_table>>
      BY <1>1, <2>8 DEF OpenExisting
    <3> HIDE DEF inum, size, cut
    <3> QED
      BY <1>T, <2>2, <2>4, <2>5, <2>6, <3>1, HandlesTyped DEF TypeOK
  <2> QED
    BY <2>7, <2>8
<1>2. CASE OpenNew(name, mode)
  <2> DEFINE inum == FirstFree(freeinode_ts)
  <2>1. inum \in Inodes /\ freeinode_ts[inum] = "FREE"
    BY <1>T, <1>2, FirstFreeFinds DEF OpenNew, TypeOK
  <2>2. /\ inode_table' = [inode_table EXCEPT ![inum] = [i_size |-> 0, i_data_block |-> -1]]
        /\ UNCHANGED <<free_blocks, fs_data, halted>>
        /\ name \in Names
    BY <1>2 DEF OpenNew, blocks
  <2>3. inode_table' \in [Inodes -> [i_size : 0 .. BLOCK_SIZE,
                                     i_data_block : Blocks \cup {-1}]]
    BY <1>T, <2>1, <2>2 DEF TypeOK
  <2>4. CASE EmptyEntries = {}
    <3>1. Fails /\ UNCHANGED <<freeinode_ts, dir, free_open_file_entries,
                              open_file_table>>
      BY <1>2, <2>4 DEF OpenNew, openFiles
    <3>2. ret' \in [value : -1 .. MAX_OPEN_FILES + MaxLen + MaxOffset,
                   data : Seq(Bytes \cup {Junk})]
      BY <3>1, FailureTyped
    <3> QED
      BY <1>T, <2>2, <2>3, <3>1, <3>2 DEF TypeOK
  <2>5. CASE EmptyEntries # {}
    <3> DEFINE e == FirstOf(EmptyEntries)
    <3>1. e \in Entries
      BY <2>5, FirstOfFinds DEF EmptyEntries
    <3>2. /\ freeinode_ts' = [freeinode_ts EXCEPT ![inum] = "TAKEN"]
          /\ dir' = [dir EXCEPT ![e] = [d_name |-> name, d_inumber |-> inum]]
          /\ AddToOpenFileTable(inum, 0)
      BY <1>2, <2>5 DEF OpenNew
    <3> HIDE DEF inum, e
    <3>3. /\ freeinode_ts' \in [Inodes -> States] /\ freeinode_ts'[0] = "TAKEN"
          /\ dir' \in [Entries -> [d_name : Names \cup {NoName},
                                   d_inumber : Inodes \cup {-1}]]
      BY <1>T, <2>1, <2>2, <3>1, <3>2 DEF TypeOK
    <3>4. /\ free_open_file_entries' \in [Handles -> States]
          /\ open_file_table' \in [Handles -> [of_inumber : Inodes,
                                              of_offset : 0 .. MaxOffset]]
          /\ ret' \in [value : -1 .. MAX_OPEN_FILES + MaxLen + MaxOffset,
                      data : Seq(Bytes \cup {Junk})]
      BY <1>T, <2>1, <3>2, HandlesTyped
    <3> QED
      BY <1>T, <2>2, <2>3, <3>3, <3>4 DEF TypeOK
  <2> QED
    BY <2>4, <2>5
<1>3. CASE OpenRefused(name, mode)
  BY <1>T, <1>3, RefusalTyped DEF OpenRefused
<1> QED
  BY <1>1, <1>2, <1>3 DEF tfs_open

\* Buffers are not empty, and not longer than MaxLen.
LEMMA BufferTyped ==
  ASSUME NEW buffer \in Buffers
  PROVE  /\ Len(buffer) \in 1 .. MaxLen
         /\ \A i \in 1 .. Len(buffer) : buffer[i] \in Bytes
<1>1. PICK n \in 1 .. MaxLen : buffer \in [1 .. n -> Bytes]
  BY DEF Buffers
<1>2. buffer \in Seq(Bytes) /\ Len(buffer) = n
  BY <1>1
<1> QED
  BY <1>1, <1>2

\* The block tfs_write writes to: the file's, or the one that is free next.
LEMMA BlockForFinds ==
  ASSUME TypeOK, NEW h \in Handles
  PROVE  \/ Size(h) > 0 /\ BlockFor(h) = Block(h)
         \/ Size(h) = 0 /\ BlockFor(h) = -1
         \/ /\ Size(h) = 0 /\ BlockFor(h) \in Blocks
            /\ free_blocks[BlockFor(h)] = "FREE"
<1>1. Size(h) \in 0 .. BLOCK_SIZE
  BY HandleTyped
<1>2. \/ FirstFree(free_blocks) = -1
      \/ /\ FirstFree(free_blocks) \in Blocks
         /\ free_blocks[FirstFree(free_blocks)] = "FREE"
  BY FirstFreeFinds DEF TypeOK
<1> QED
  BY <1>1, <1>2 DEF BlockFor

\* The writing step of tfs_write, field by field.
LEMMA WriteEffect ==
  ASSUME TypeOK, NEW h \in Handles, NEW buffer \in Buffers, WriteData(h, buffer)
  PROVE  \E n \in 1 .. Len(buffer), b \in Blocks, size \in 1 .. BLOCK_SIZE :
           /\ b = BlockFor(h)
           /\ Offset(h) + n <= size /\ Size(h) <= size
           /\ free_blocks' = [free_blocks EXCEPT ![b] = IF Size(h) = 0 THEN "TAKEN" ELSE @]
           /\ inode_table' = [inode_table EXCEPT ![Inum(h)] =
                                [i_size |-> size, i_data_block |-> b]]
           /\ open_file_table' = [open_file_table EXCEPT ![h] =
                [of_inumber |-> Inum(h), of_offset |-> Offset(h) + n]]
           /\ UNCHANGED <<freeinode_ts, dir, free_open_file_entries, halted>>
<1> DEFINE n == ToWrite(h, Len(buffer))
           b == BlockFor(h)
           size == IF Offset(h) + n > Size(h) THEN Offset(h) + n ELSE Size(h)
<1>1. n \in 1 .. Len(buffer) /\ b \in Blocks
  BY DEF WriteData, valid_block_number
<1>2. /\ Offset(h) \in 0 .. MaxOffset /\ Size(h) \in 0 .. BLOCK_SIZE
      /\ Inum(h) \in Inodes
  BY HandleTyped
<1>3. Len(buffer) \in 1 .. MaxLen
  BY BufferTyped
<1>4. Offset(h) + n <= BLOCK_SIZE
  BY <1>1, <1>3, WriteFits
<1>5. size \in 1 .. BLOCK_SIZE /\ Offset(h) + n <= size /\ Size(h) <= size
  <2> HIDE DEF n
  <2> QED
    BY <1>1, <1>2, <1>3, <1>4
<1>6. inode_table' = [inode_table EXCEPT ![Inum(h)] =
                        [i_size |-> size, i_data_block |-> b]]
  <2>1. inode_table' = [inode_table EXCEPT ![Inum(h)] =
          [i_size |-> IF Offset(h) + n > @.i_size THEN Offset(h) + n ELSE @.i_size,
           i_data_block |-> b]]
    BY DEF WriteData
  <2> HIDE DEF n, b
  <2> QED
    BY <2>1, <1>2 DEF Size, TypeOK
<1>7. open_file_table' = [open_file_table EXCEPT ![h] =
        [of_inumber |-> Inum(h), of_offset |-> Offset(h) + n]]
  <2>1. open_file_table' = [open_file_table EXCEPT ![h].of_offset = @ + n]
    BY DEF WriteData
  <2>2. open_file_table[h] \in [of_inumber : Inodes, of_offset : 0 .. MaxOffset]
    BY DEF TypeOK
  <2> HIDE DEF n
  <2>3. [open_file_table[h] EXCEPT !.of_offset = @ + n]
          = [of_inumber |-> Inum(h), of_offset |-> Offset(h) + n]
    BY <2>2 DEF Inum, Offset
  <2> QED
    BY <2>1, <2>3 DEF TypeOK
<1>8. /\ free_blocks' = [free_blocks EXCEPT ![b] = IF Size(h) = 0 THEN "TAKEN" ELSE @]
      /\ UNCHANGED <<freeinode_ts, dir, free_open_file_entries, halted>>
  BY DEF WriteData
<1> HIDE DEF n, size
<1> QED
  BY <1>1, <1>5, <1>6, <1>7, <1>8

\* What is written into fs_data are bytes of the buffer.
LEMMA MemoryTyped ==
  ASSUME TypeOK, NEW h \in Handles, NEW buffer \in Buffers, WriteData(h, buffer)
  PROVE  fs_data' \in [Addresses -> Bytes \cup {Junk}]
<1> DEFINE n == ToWrite(h, Len(buffer))
           start == BlockFor(h) * BLOCK_SIZE + Offset(h)
<1>1. n \in 1 .. Len(buffer) /\ BlockFor(h) \in Blocks
  BY DEF WriteData, valid_block_number
<1>2. start \in Int
  BY <1>1, HandleTyped
<1>3. fs_data' = [a \in Addresses |-> IF a \in start .. start + n - 1
                                      THEN buffer[a - start + 1] ELSE fs_data[a]]
  BY DEF WriteData
<1>4. Len(buffer) \in Nat /\ \A i \in 1 .. Len(buffer) : buffer[i] \in Bytes
  BY BufferTyped
<1> HIDE DEF n, start
<1>5. ASSUME NEW a \in Addresses
      PROVE  (IF a \in start .. start + n - 1 THEN buffer[a - start + 1] ELSE fs_data[a])
               \in Bytes \cup {Junk}
  <2>1. CASE a \in start .. start + n - 1
    <3>1. a - start + 1 \in 1 .. Len(buffer)
      BY <1>1, <1>2, <1>4, <2>1
    <3> QED
      BY <1>4, <2>1, <3>1
  <2>2. CASE a \notin start .. start + n - 1
    BY <2>2 DEF TypeOK
  <2> QED
    BY <2>1, <2>2
<1> QED
  BY <1>3, <1>5

\* tfs_write keeps every table in its range.
LEMMA WriteTyped ==
  ASSUME TypeOK, NEW h \in Handles, NEW buffer \in Buffers, tfs_write(h, buffer)
  PROVE  TypeOK'
<1>1. CASE NotOpen(h)
  BY <1>1, RefusalTyped DEF NotOpen
<1>2. CASE WriteData(h, buffer)
  <2>1. PICK n \in 1 .. Len(buffer), b \in Blocks, size \in 1 .. BLOCK_SIZE :
          /\ b = BlockFor(h)
          /\ Offset(h) + n <= size
          /\ free_blocks' = [free_blocks EXCEPT ![b] = IF Size(h) = 0 THEN "TAKEN" ELSE @]
          /\ inode_table' = [inode_table EXCEPT ![Inum(h)] =
                               [i_size |-> size, i_data_block |-> b]]
          /\ open_file_table' = [open_file_table EXCEPT ![h] =
               [of_inumber |-> Inum(h), of_offset |-> Offset(h) + n]]
          /\ UNCHANGED <<freeinode_ts, dir, free_open_file_entries, halted>>
    BY <1>2, WriteEffect
  <2>2. Inum(h) \in Inodes /\ Offset(h) \in 0 .. MaxOffset
    BY HandleTyped
  <2>3. Len(buffer) \in 1 .. MaxLen
    BY BufferTyped
  <2>4. Offset(h) + n \in 0 .. MaxOffset
    BY <2>1, <2>2, <2>3
  <2>5. free_blocks' \in [Blocks -> States] /\ free_blocks'[0] = "TAKEN"
    <3>1. free_blocks \in [Blocks -> States] /\ free_blocks[0] = "TAKEN"
      BY DEF TypeOK
    <3>2. CASE Size(h) = 0
      BY <2>1, <3>1, <3>2
    <3>3. CASE Size(h) # 0
      BY <2>1, <3>1, <3>3
    <3> QED
      BY <3>2, <3>3
  <2>6. inode_table' \in [Inodes -> [i_size : 0 .. BLOCK_SIZE,
                                     i_data_block : Blocks \cup {-1}]]
    BY <2>1, <2>2 DEF TypeOK
  <2>7. open_file_table' \in [Handles -> [of_inumber : Inodes,
                                          of_offset : 0 .. MaxOffset]]
    BY <2>1, <2>2, <2>4 DEF TypeOK
  <2>8. ret' \in [value : -1 .. MAX_OPEN_FILES + MaxLen + MaxOffset,
               data : Seq(Bytes \cup {Junk})]
    <3>1. Returns(ToWrite(h, Len(buffer)), << >>) /\ ToWrite(h, Len(buffer)) \in 1 .. MaxLen
      BY <1>2, <2>3 DEF WriteData
    <3> QED
      BY <3>1, ReturnTyped
  <2> QED
    BY <1>2, <2>1, <2>5, <2>6, <2>7, <2>8, MemoryTyped DEF TypeOK
<1>3. CASE WriteNothing(h, buffer)
  <2>1. ret' \in [value : -1 .. MAX_OPEN_FILES + MaxLen + MaxOffset,
               data : Seq(Bytes \cup {Junk})]
    <3>1. CASE Returns(0, << >>)
      BY <3>1, ReturnTyped
    <3>2. CASE Fails
      BY <3>2, FailureTyped
    <3> QED
      BY <1>3, <3>1, <3>2 DEF WriteNothing
  <2> QED
    BY <1>3, <2>1 DEF WriteNothing, TypeOK, inodes, blocks, openFiles
<1>4. CASE WriteHalts(h, buffer)
  <2>1. ret' \in [value : -1 .. MAX_OPEN_FILES + MaxLen + MaxOffset,
               data : Seq(Bytes \cup {Junk})]
    BY <1>4, FailureTyped DEF WriteHalts, Halts
  <2> QED
    BY <1>4, <2>1 DEF WriteHalts, Halts, TypeOK, inodes, blocks, openFiles
<1> QED
  BY <1>1, <1>2, <1>3, <1>4 DEF tfs_write

\* tfs_read keeps every table in its range.
LEMMA ReadTyped ==
  ASSUME TypeOK, NEW h \in Handles, NEW len \in 1 .. MaxLen, tfs_read(h, len)
  PROVE  TypeOK'
<1>1. CASE NotOpen(h)
  BY <1>1, RefusalTyped DEF NotOpen
<1>2. CASE ReadData(h, len)
  <2> DEFINE n == ToRead(h, len)
             data == [i \in 1 .. n |-> ByteAt(Block(h), Offset(h) + i - 1)]
  <2>1. n \in 0 .. len /\ Offset(h) + n <= MaxOffset
    BY <1>2, ReadBounded DEF ReadData
  <2>2. Offset(h) \in 0 .. MaxOffset /\ Block(h) \in Blocks \cup {-1}
    BY HandleTyped
  <2>3. open_file_table' = [open_file_table EXCEPT ![h].of_offset = @ + n]
    BY <1>2 DEF ReadData
  <2>4. /\ ret' = [value |-> n, data |-> data]
        /\ UNCHANGED <<inodes, blocks, dir, free_open_file_entries, halted>>
    BY <1>2 DEF ReadData, Returns
  <2>5. data \in Seq(Bytes \cup {Junk})
    <3>1. \A i \in 1 .. n : ByteAt(Block(h), Offset(h) + i - 1) \in Bytes \cup {Junk}
      BY DEF ByteAt, TypeOK
    <3>2. n \in Nat
      BY <2>1
    <3> HIDE DEF n
    <3> QED
      BY <3>1, <3>2, IsASeq
  <2>6. ret' \in [value : -1 .. MAX_OPEN_FILES + MaxLen + MaxOffset,
               data : Seq(Bytes \cup {Junk})]
    <3> HIDE DEF n, data
    <3> QED
      BY <2>1, <2>4, <2>5
  <2>7. open_file_table' \in [Handles -> [of_inumber : Inodes,
                                          of_offset : 0 .. MaxOffset]]
    <3>1. open_file_table[h] \in [of_inumber : Inodes, of_offset : 0 .. MaxOffset]
      BY DEF TypeOK
    <3>2. open_file_table[h].of_offset + n \in 0 .. MaxOffset
      <4> HIDE DEF n
      <4> QED
        BY <2>1, <2>2 DEF Offset
    <3> HIDE DEF n
    <3>3. [open_file_table[h] EXCEPT !.of_offset = @ + n]
            \in [of_inumber : Inodes, of_offset : 0 .. MaxOffset]
      BY <3>1, <3>2
    <3> QED
      BY <2>3, <3>3 DEF TypeOK
  <2> HIDE DEF n, data
  <2> QED
    BY <2>4, <2>6, <2>7 DEF TypeOK, inodes, blocks
<1>3. CASE ReadHalts(h, len)
  <2>1. ret' \in [value : -1 .. MAX_OPEN_FILES + MaxLen + MaxOffset,
               data : Seq(Bytes \cup {Junk})]
    BY <1>3, FailureTyped DEF ReadHalts, Halts
  <2> QED
    BY <1>3, <2>1 DEF ReadHalts, Halts, TypeOK, inodes, blocks, openFiles
<1> QED
  BY <1>1, <1>2, <1>3 DEF tfs_read

\* tfs_close keeps every table in its range.
LEMMA CloseTyped ==
  ASSUME TypeOK, NEW h \in Handles, tfs_close(h)
  PROVE  TypeOK'
<1>1. CASE NotOpen(h)
  BY <1>1, RefusalTyped DEF NotOpen
<1>2. CASE ~NotOpen(h)
  <2>1. ret' \in [value : -1 .. MAX_OPEN_FILES + MaxLen + MaxOffset,
               data : Seq(Bytes \cup {Junk})]
    BY <1>2, ReturnTyped DEF tfs_close
  <2> QED
    BY <1>2, <2>1 DEF tfs_close, TypeOK, inodes, blocks
<1> QED
  BY <1>1, <1>2

\* tfs_unlink keeps every table in its range: it never frees the root directory.
LEMMA UnlinkTyped ==
  ASSUME IInv, NEW name \in Names \cup BadNames, tfs_unlink(name)
  PROVE  TypeOK'
<1>T. TypeOK
  BY DEF IInv
<1>1. CASE UnlinkFile(name)
  <2> DEFINE inum == Lookup(name)
             e == FirstOf(Matches(name))
  <2>1. inum # -1
    BY <1>1 DEF UnlinkFile
  <2>2. inum \in LiveFiles /\ e \in Entries
    BY <1>T, <2>1, FoundIsLive, LookupFinds DEF UsedEntries
  <2>3. inode_table[inum].i_size > 0 => inode_table[inum].i_data_block # 0
    BY <2>2 DEF IInv, LiveBlocksExclusive, HasBlock, BlockOf
  <2>4. inum \in Inodes \ {0}
    BY <2>2 DEF LiveFiles
  <2>5. /\ free_blocks' = [b \in Blocks |->
             IF inode_table[inum].i_size > 0 /\ b = inode_table[inum].i_data_block
               THEN "FREE" ELSE free_blocks[b]]
        /\ freeinode_ts' = [freeinode_ts EXCEPT ![inum] = "FREE"]
        /\ dir' = [dir EXCEPT ![e] = [d_name |-> NoName, d_inumber |-> -1]]
        /\ Returns(0, << >>)
        /\ UNCHANGED <<inode_table, fs_data, openFiles, halted>>
    BY <1>1 DEF UnlinkFile
  <2> HIDE DEF inum, e
  <2>6. free_blocks' \in [Blocks -> States] /\ free_blocks'[0] = "TAKEN"
    BY <1>T, <2>3, <2>5 DEF TypeOK
  <2>7. freeinode_ts' \in [Inodes -> States] /\ freeinode_ts'[0] = "TAKEN"
    BY <1>T, <2>4, <2>5 DEF TypeOK
  <2>8. dir' \in [Entries -> [d_name : Names \cup {NoName}, d_inumber : Inodes \cup {-1}]]
    BY <1>T, <2>2, <2>5 DEF TypeOK
  <2>9. ret' \in [value : -1 .. MAX_OPEN_FILES + MaxLen + MaxOffset,
               data : Seq(Bytes \cup {Junk})]
    BY <2>5, ReturnTyped
  <2> QED
    BY <1>T, <2>5, <2>6, <2>7, <2>8, <2>9 DEF TypeOK, openFiles
<1>2. CASE UnlinkNothing(name)
  BY <1>T, <1>2, RefusalTyped DEF UnlinkNothing
<1> QED
  BY <1>1, <1>2 DEF tfs_unlink

\* Every call keeps every table in its range.
LEMMA KeepsTypeOK == IInv /\ [Next]_vars => TypeOK'
<1> SUFFICES ASSUME IInv, [Next]_vars PROVE TypeOK'
  OBVIOUS
<1>T. TypeOK
  BY DEF IInv
<1>1. CASE UNCHANGED vars
  BY <1>T, <1>1 DEF TypeOK, vars, inodes, blocks, openFiles
<1>2. CASE Next
  BY <1>T, <1>2, OpenTyped, CloseTyped, WriteTyped, ReadTyped, UnlinkTyped DEF Next
<1> QED
  BY <1>1, <1>2

\* What a new file does to the inodes and the directory; inode and entry were free.
LEMMA OpenNewEffect ==
  ASSUME IInv, NEW name \in Names \cup BadNames, NEW mode \in Modes,
         OpenNew(name, mode)
  PROVE  \E i \in Inodes \ {0} :
           /\ freeinode_ts[i] = "FREE"
           /\ inode_table' = [inode_table EXCEPT ![i] = [i_size |-> 0, i_data_block |-> -1]]
           /\ UNCHANGED <<free_blocks, halted>>
           /\ \/ UNCHANGED <<freeinode_ts, dir, free_open_file_entries, open_file_table>>
              \/ \E e \in EmptyEntries :
                   /\ freeinode_ts' = [freeinode_ts EXCEPT ![i] = "TAKEN"]
                   /\ dir' = [dir EXCEPT ![e] = [d_name |-> name, d_inumber |-> i]]
                   /\ AddToOpenFileTable(i, 0)
<1> DEFINE i == FirstFree(freeinode_ts)
           e == FirstOf(EmptyEntries)
<1>1. i # -1
  BY DEF OpenNew
<1>2. i \in Inodes \ {0} /\ freeinode_ts[i] = "FREE"
  <2>1. freeinode_ts \in [Inodes -> States] /\ freeinode_ts[0] = "TAKEN"
    BY DEF IInv, TypeOK
  <2>2. i \in Inodes /\ freeinode_ts[i] = "FREE"
    BY <1>1, <2>1, FirstFreeFinds
  <2> QED
    BY <2>1, <2>2
<1>3. /\ inode_table' = [inode_table EXCEPT ![i] = [i_size |-> 0, i_data_block |-> -1]]
      /\ UNCHANGED <<free_blocks, halted>>
  BY DEF OpenNew, blocks
<1>4. CASE EmptyEntries = {}
  <2>1. UNCHANGED <<freeinode_ts, dir, free_open_file_entries, open_file_table>>
    BY <1>4 DEF OpenNew, openFiles
  <2> HIDE DEF i
  <2> QED
    BY <1>2, <1>3, <2>1
<1>5. CASE EmptyEntries # {}
  <2>1. e \in EmptyEntries
    BY <1>5, FirstOfFinds DEF EmptyEntries
  <2>2. /\ freeinode_ts' = [freeinode_ts EXCEPT ![i] = "TAKEN"]
        /\ dir' = [dir EXCEPT ![e] = [d_name |-> name, d_inumber |-> i]]
        /\ AddToOpenFileTable(i, 0)
    BY <1>5 DEF OpenNew
  <2> HIDE DEF i, e
  <2> QED
    BY <1>2, <1>3, <2>1, <2>2
<1> QED
  BY <1>4, <1>5

\* What the removal of a file does to the inodes, the blocks and the directory.
LEMMA UnlinkEffect ==
  ASSUME IInv, NEW name \in Names \cup BadNames, UnlinkFile(name)
  PROVE  \E i \in LiveFiles, e \in UsedEntries :
           /\ i = Lookup(name) /\ dir[e].d_inumber = i
           /\ MayUnlink(name)
           /\ free_blocks' = [b \in Blocks |->
                IF inode_table[i].i_size > 0 /\ b = inode_table[i].i_data_block
                  THEN "FREE" ELSE free_blocks[b]]
           /\ freeinode_ts' = [freeinode_ts EXCEPT ![i] = "FREE"]
           /\ dir' = [dir EXCEPT ![e] = [d_name |-> NoName, d_inumber |-> -1]]
           /\ UNCHANGED <<inode_table, free_open_file_entries, open_file_table, halted>>
<1> DEFINE i == Lookup(name)
           e == FirstOf(Matches(name))
<1>1. i # -1
  BY DEF UnlinkFile
<1>2. i \in LiveFiles
  BY <1>1, FoundIsLive
<1>3. e \in UsedEntries /\ dir[e].d_inumber = i
  BY <1>1, LookupFinds DEF IInv
<1>4. /\ MayUnlink(name)
      /\ free_blocks' = [b \in Blocks |->
           IF inode_table[i].i_size > 0 /\ b = inode_table[i].i_data_block
             THEN "FREE" ELSE free_blocks[b]]
      /\ freeinode_ts' = [freeinode_ts EXCEPT ![i] = "FREE"]
      /\ dir' = [dir EXCEPT ![e] = [d_name |-> NoName, d_inumber |-> -1]]
      /\ UNCHANGED <<inode_table, free_open_file_entries, open_file_table, halted>>
  BY DEF UnlinkFile, openFiles
<1> HIDE DEF i, e
<1> QED
  BY <1>2, <1>3, <1>4 DEF i

\* What opening a file that exists does: TFS_O_TRUNC gives its block back.
LEMMA OpenExistingEffect ==
  ASSUME IInv, NEW name \in Names \cup BadNames, NEW mode \in Modes,
         OpenExisting(name, mode)
  PROVE  \E i \in LiveFiles :
           /\ UNCHANGED <<freeinode_ts, dir, halted>>
           /\ \/ UNCHANGED <<free_blocks, inode_table>>
                /\ \/ AddToOpenFileTable(i, 0)
                   \/ AddToOpenFileTable(i, inode_table[i].i_size)
              \/ /\ "TRUNC" \in mode /\ inode_table[i].i_size > 0
                 /\ free_blocks' = [free_blocks EXCEPT ![inode_table[i].i_data_block] = "FREE"]
                 /\ inode_table' = [inode_table EXCEPT ![i].i_size = 0]
                 /\ AddToOpenFileTable(i, 0)
<1> DEFINE i == Lookup(name)
           size == inode_table[i].i_size
           cut == "TRUNC" \in mode /\ size > 0
<1>1. i \in LiveFiles
  BY FoundIsLive DEF OpenExisting
<1>2. UNCHANGED <<freeinode_ts, dir, halted>>
  BY DEF OpenExisting
<1>3. AddToOpenFileTable(i, IF "APPEND" \in mode /\ ~cut THEN size ELSE 0)
  BY DEF OpenExisting
<1>4. CASE cut
  <2>1. /\ free_blocks' = [free_blocks EXCEPT ![inode_table[i].i_data_block] = "FREE"]
        /\ inode_table' = [inode_table EXCEPT ![i].i_size = 0]
    BY <1>4 DEF OpenExisting
  <2>2. AddToOpenFileTable(i, 0)
    BY <1>3, <1>4
  <2>3. "TRUNC" \in mode /\ inode_table[i].i_size > 0
    BY <1>4
  <2> HIDE DEF i
  <2> QED
    BY <1>1, <1>2, <2>1, <2>2, <2>3
<1>5. CASE ~cut
  <2>1. UNCHANGED <<free_blocks, inode_table>>
    BY <1>5 DEF OpenExisting
  <2>2. AddToOpenFileTable(i, 0) \/ AddToOpenFileTable(i, inode_table[i].i_size)
    <3>1. CASE "APPEND" \in mode
      BY <1>3, <1>5, <3>1
    <3>2. CASE "APPEND" \notin mode
      BY <1>3, <3>2
    <3> QED
      BY <3>1, <3>2
  <2> HIDE DEF i
  <2> QED
    BY <1>1, <1>2, <2>1, <2>2
<1> QED
  BY <1>4, <1>5

\* A call opens no handle, leads none to another file, and moves it only to read.
HandlesKept ==
  \A h \in Handles : IsOpen(h)' =>
    /\ IsOpen(h) /\ Inum(h)' = Inum(h)
    /\ \/ Offset(h)' = Offset(h)
       \/ \E len \in 1 .. MaxLen : Offset(h)' = Offset(h) + ToRead(h, len)

\* Calls that change neither the inodes nor the blocks nor the directory.
Stutters == UNCHANGED <<freeinode_ts, inode_table, free_blocks, dir>> /\ HandlesKept

\* The calls by what they do to the files.
LEMMA StepCases ==
  ASSUME TypeOK, [Next]_vars
  PROVE  \/ \E name \in Names \cup BadNames, mode \in Modes :
              OpenExisting(name, mode) \/ OpenNew(name, mode)
         \/ \E h \in Handles, buffer \in Buffers : WriteData(h, buffer)
         \/ \E name \in Names \cup BadNames : UnlinkFile(name)
         \/ Stutters
<1>K. ASSUME UNCHANGED <<inodes, blocks, dir, openFiles>> PROVE Stutters
  BY <1>K DEF inodes, blocks, openFiles, Stutters, HandlesKept, IsOpen, Inum, Offset
<1>1. CASE UNCHANGED vars
  BY <1>1, <1>K DEF vars
<1>2. ASSUME NEW name \in Names \cup BadNames, NEW mode \in Modes, OpenRefused(name, mode)
      PROVE  Stutters
  BY <1>2, <1>K DEF OpenRefused
<1>3. ASSUME NEW h \in Handles, tfs_close(h) PROVE Stutters
  <2>1. CASE NotOpen(h)
    BY <2>1, <1>K DEF NotOpen
  <2>2. CASE ~NotOpen(h)
    <3>1. /\ free_open_file_entries' = [free_open_file_entries EXCEPT ![h] = "FREE"]
          /\ UNCHANGED <<inodes, blocks, dir, open_file_table>>
      BY <1>3, <2>2 DEF tfs_close
    <3>2. HandlesKept
      BY <3>1 DEF TypeOK, HandlesKept, IsOpen, Inum, Offset
    <3> QED
      BY <3>1, <3>2 DEF Stutters, inodes, blocks
  <2> QED
    BY <2>1, <2>2
<1>4. ASSUME NEW h \in Handles, NEW buffer \in Buffers,
             NotOpen(h) \/ WriteNothing(h, buffer) \/ WriteHalts(h, buffer)
      PROVE  Stutters
  BY <1>4, <1>K DEF NotOpen, WriteNothing, WriteHalts, Halts
<1>5. ASSUME NEW h \in Handles, NEW len \in 1 .. MaxLen, tfs_read(h, len)
      PROVE  Stutters
  <2>1. CASE NotOpen(h) \/ ReadHalts(h, len)
    BY <2>1, <1>K DEF NotOpen, ReadHalts, Halts
  <2>2. CASE ReadData(h, len)
    <3>1. /\ open_file_table' = [open_file_table EXCEPT ![h].of_offset = @ + ToRead(h, len)]
          /\ UNCHANGED <<inodes, blocks, dir, free_open_file_entries>>
      BY <2>2 DEF ReadData
    <3>2. /\ open_file_table'[h].of_inumber = open_file_table[h].of_inumber
          /\ open_file_table'[h].of_offset = open_file_table[h].of_offset + ToRead(h, len)
          /\ \A k \in Handles \ {h} : open_file_table'[k] = open_file_table[k]
      BY <3>1 DEF TypeOK
    <3>3. HandlesKept
      BY <3>1, <3>2 DEF HandlesKept, IsOpen, Inum, Offset
    <3> QED
      BY <3>1, <3>3 DEF Stutters, inodes, blocks
  <2> QED
    BY <1>5, <2>1, <2>2 DEF tfs_read
<1>6. ASSUME NEW name \in Names \cup BadNames, UnlinkNothing(name) PROVE Stutters
  BY <1>6, <1>K DEF UnlinkNothing
<1> QED
  BY <1>1, <1>2, <1>3, <1>4, <1>5, <1>6 DEF Next, tfs_open, tfs_write, tfs_unlink

\* The directory depends on its entries and on which inodes are taken.
LEMMA DirectoryFrame ==
  ASSUME UNCHANGED <<freeinode_ts, dir>>
  PROVE  /\ DirectorySound => DirectorySound'
         /\ UsedEntries' = UsedEntries /\ LiveFiles' = LiveFiles
BY DEF DirectorySound, UsedEntries, LiveFiles

\* What becomes of entries and files when a name is entered or removed.
LEMMA EnterName ==
  ASSUME TypeOK, NEW i \in Inodes \ {0}, NEW e \in EmptyEntries, NEW name,
         freeinode_ts' = [freeinode_ts EXCEPT ![i] = "TAKEN"],
         dir' = [dir EXCEPT ![e] = [d_name |-> name, d_inumber |-> i]]
  PROVE  /\ UsedEntries' = UsedEntries \cup {e}
         /\ LiveFiles' = LiveFiles \cup {i}
<1>1. e \in Entries /\ i # -1
  BY DEF EmptyEntries
<1>2. UsedEntries' = UsedEntries \cup {e}
  BY <1>1 DEF TypeOK, UsedEntries
<1>3. LiveFiles' = LiveFiles \cup {i}
  BY DEF TypeOK, LiveFiles
<1> QED
  BY <1>2, <1>3

LEMMA RemoveName ==
  ASSUME TypeOK, NEW i \in LiveFiles, NEW e \in UsedEntries, NEW name,
         freeinode_ts' = [freeinode_ts EXCEPT ![i] = "FREE"],
         dir' = [dir EXCEPT ![e] = [d_name |-> name, d_inumber |-> -1]]
  PROVE  /\ UsedEntries' = UsedEntries \ {e}
         /\ LiveFiles' = LiveFiles \ {i}
<1>1. UsedEntries' = UsedEntries \ {e}
  BY DEF TypeOK, UsedEntries
<1>2. LiveFiles' = LiveFiles \ {i}
  BY DEF TypeOK, LiveFiles
<1> QED
  BY <1>1, <1>2

\* Every call leaves directory and inode table in agreement.
LEMMA KeepsDirectorySound == IInv /\ [Next]_vars => DirectorySound'
<1> SUFFICES ASSUME IInv, [Next]_vars PROVE DirectorySound'
  OBVIOUS
<1>T. TypeOK /\ DirectorySound
  BY DEF IInv
<1>1. ASSUME NEW name \in Names \cup BadNames, NEW mode \in Modes,
             OpenExisting(name, mode)
      PROVE  DirectorySound'
  BY <1>T, <1>1, OpenExistingEffect, DirectoryFrame
<1>2. ASSUME NEW name \in Names \cup BadNames, NEW mode \in Modes, OpenNew(name, mode)
      PROVE  DirectorySound'
  <2>1. PICK i \in Inodes \ {0} :
          /\ freeinode_ts[i] = "FREE"
          /\ \/ UNCHANGED <<freeinode_ts, dir>>
             \/ \E e \in EmptyEntries :
                  /\ freeinode_ts' = [freeinode_ts EXCEPT ![i] = "TAKEN"]
                  /\ dir' = [dir EXCEPT ![e] = [d_name |-> name, d_inumber |-> i]]
    BY <1>2, OpenNewEffect
  <2>2. CASE UNCHANGED <<freeinode_ts, dir>>
    BY <1>T, <2>2, DirectoryFrame
  <2>3. ASSUME NEW e \in EmptyEntries,
               freeinode_ts' = [freeinode_ts EXCEPT ![i] = "TAKEN"],
               dir' = [dir EXCEPT ![e] = [d_name |-> name, d_inumber |-> i]]
        PROVE  DirectorySound'
    <3>1. UsedEntries' = UsedEntries \cup {e} /\ LiveFiles' = LiveFiles \cup {i}
      BY <1>T, <2>3, EnterName
    <3>2. i \notin LiveFiles
      BY <2>1 DEF LiveFiles
    <3>3. \A f \in UsedEntries : dir[f].d_name # name
      <4>1. name \in Names /\ Matches(name) = {}
        BY <1>T, <1>2, LookupFinds DEF OpenNew
      <4> QED
        BY <4>1 DEF Matches, UsedEntries
    <3>4. e \in Entries /\ e \notin UsedEntries
      BY DEF EmptyEntries, UsedEntries
    <3>5. /\ dir'[e] = [d_name |-> name, d_inumber |-> i]
          /\ \A f \in UsedEntries : f \in Entries /\ dir'[f] = dir[f]
      BY <1>T, <2>3, <3>4 DEF TypeOK, UsedEntries
    <3>6. /\ \A f \in UsedEntries : dir[f].d_inumber \in LiveFiles
          /\ \A k \in LiveFiles : \E f \in UsedEntries : dir[f].d_inumber = k
      BY <1>T DEF DirectorySound
    <3>7. \A f, g \in UsedEntries' : f # g => /\ dir'[f].d_name # dir'[g].d_name
                                            /\ dir'[f].d_inumber # dir'[g].d_inumber
      BY <1>T, <3>1, <3>2, <3>3, <3>5, <3>6 DEF DirectorySound
    <3>8. LiveFiles' = {dir'[f].d_inumber : f \in UsedEntries'}
      BY <3>1, <3>5, <3>6
    <3> QED
      BY <3>7, <3>8 DEF DirectorySound
  <2> QED
    BY <2>1, <2>2, <2>3
<1>3. ASSUME NEW h \in Handles, NEW buffer \in Buffers, WriteData(h, buffer)
      PROVE  DirectorySound'
  BY <1>T, <1>3, DirectoryFrame DEF WriteData
<1>4. ASSUME NEW name \in Names \cup BadNames, UnlinkFile(name)
      PROVE  DirectorySound'
  <2>1. PICK i \in LiveFiles, e \in UsedEntries :
          /\ dir[e].d_inumber = i
          /\ freeinode_ts' = [freeinode_ts EXCEPT ![i] = "FREE"]
          /\ dir' = [dir EXCEPT ![e] = [d_name |-> NoName, d_inumber |-> -1]]
    BY <1>4, UnlinkEffect
  <2>2. UsedEntries' = UsedEntries \ {e} /\ LiveFiles' = LiveFiles \ {i}
    BY <1>T, <2>1, RemoveName
  <2>3. \A f \in UsedEntries' : dir'[f] = dir[f]
    BY <1>T, <2>1, <2>2 DEF TypeOK, UsedEntries
  <2>4. \A f, g \in UsedEntries' : f # g => /\ dir'[f].d_name # dir'[g].d_name
                                          /\ dir'[f].d_inumber # dir'[g].d_inumber
    BY <1>T, <2>2, <2>3 DEF DirectorySound
  <2>5. LiveFiles' = {dir'[f].d_inumber : f \in UsedEntries'}
    <3>1. \A f \in UsedEntries' : dir'[f].d_inumber \in LiveFiles'
      BY <1>T, <2>1, <2>2, <2>3 DEF DirectorySound
    <3>2. \A k \in LiveFiles' : \E f \in UsedEntries' : dir'[f].d_inumber = k
      BY <1>T, <2>1, <2>2, <2>3 DEF DirectorySound
    <3> QED
      BY <3>1, <3>2
  <2> QED
    BY <2>4, <2>5 DEF DirectorySound
<1>5. CASE Stutters
  BY <1>T, <1>5, DirectoryFrame DEF Stutters
<1> QED
  BY <1>T, <1>1, <1>2, <1>3, <1>4, <1>5, StepCases

\* Files and blocks, when nothing is opened for the first time or removed.
LEMMA BlocksFrame ==
  ASSUME UNCHANGED <<freeinode_ts, inode_table, free_blocks>>
  PROVE  LiveBlocksExclusive => LiveBlocksExclusive'
BY DEF LiveBlocksExclusive, LiveFiles, HasBlock, BlockOf

\* No call gives two files one block, or gives back one that is in use.
LEMMA KeepsLiveBlocksExclusive == IInv /\ [Next]_vars => LiveBlocksExclusive'
<1> SUFFICES ASSUME IInv, [Next]_vars PROVE LiveBlocksExclusive'
  OBVIOUS
<1>T. TypeOK /\ LiveBlocksExclusive
  BY DEF IInv
<1>S. /\ inode_table \in [Inodes -> [i_size : 0 .. BLOCK_SIZE,
                                     i_data_block : Blocks \cup {-1}]]
      /\ free_blocks \in [Blocks -> States] /\ free_blocks[0] = "TAKEN"
      /\ LiveFiles \in SUBSET Inodes
  BY <1>T DEF TypeOK, LiveFiles
<1> USE DEF HasBlock, BlockOf
<1>1. ASSUME NEW name \in Names \cup BadNames, NEW mode \in Modes,
             OpenExisting(name, mode)
      PROVE  LiveBlocksExclusive'
  <2>1. PICK i \in LiveFiles :
          /\ UNCHANGED <<freeinode_ts, dir>>
          /\ \/ UNCHANGED <<free_blocks, inode_table>>
             \/ /\ inode_table[i].i_size > 0
                /\ free_blocks' = [free_blocks EXCEPT ![inode_table[i].i_data_block] = "FREE"]
                /\ inode_table' = [inode_table EXCEPT ![i].i_size = 0]
    BY <1>1, OpenExistingEffect
  <2>2. CASE UNCHANGED <<free_blocks, inode_table>>
    BY <1>T, <2>1, <2>2, BlocksFrame
  <2>3. CASE /\ inode_table[i].i_size > 0
             /\ free_blocks' = [free_blocks EXCEPT ![inode_table[i].i_data_block] = "FREE"]
             /\ inode_table' = [inode_table EXCEPT ![i].i_size = 0]
    <3>1. LiveFiles' = LiveFiles
      BY <2>1, DirectoryFrame
    <3>2. /\ inode_table'[i].i_size = 0
          /\ \A j \in LiveFiles \ {i} : inode_table'[j] = inode_table[j]
      BY <1>S, <2>3
    <3>3. \A j \in LiveFiles \ {i} :
            HasBlock(j) => BlockOf(j) # inode_table[i].i_data_block
      BY <1>T, <2>3 DEF LiveBlocksExclusive
    <3>4. \A j \in LiveFiles : HasBlock(j)' =>
            BlockOf(j)' \in Blocks \ {0} /\ free_blocks'[BlockOf(j)'] = "TAKEN"
      <4> SUFFICES ASSUME NEW j \in LiveFiles, HasBlock(j)'
                   PROVE  BlockOf(j)' \in Blocks \ {0} /\ free_blocks'[BlockOf(j)'] = "TAKEN"
        OBVIOUS
      <4>1. j # i /\ HasBlock(j) /\ BlockOf(j)' = BlockOf(j)
        BY <3>2
      <4>2. BlockOf(j) \in Blocks \ {0} /\ free_blocks[BlockOf(j)] = "TAKEN"
        BY <1>T, <4>1 DEF LiveBlocksExclusive
      <4> QED
        BY <1>S, <2>3, <3>3, <4>1, <4>2
    <3>5. \A j, k \in LiveFiles :
            j # k /\ HasBlock(j)' /\ HasBlock(k)' => BlockOf(j)' # BlockOf(k)'
      BY <1>T, <3>2 DEF LiveBlocksExclusive
    <3> QED
      BY <3>1, <3>4, <3>5 DEF LiveBlocksExclusive
  <2> QED
    BY <2>1, <2>2, <2>3
<1>2. ASSUME NEW name \in Names \cup BadNames, NEW mode \in Modes, OpenNew(name, mode)
      PROVE  LiveBlocksExclusive'
  <2>1. PICK i \in Inodes \ {0} :
          /\ freeinode_ts[i] = "FREE"
          /\ inode_table' = [inode_table EXCEPT ![i] = [i_size |-> 0, i_data_block |-> -1]]
          /\ UNCHANGED free_blocks
          /\ \/ UNCHANGED <<freeinode_ts, dir>>
             \/ \E e \in EmptyEntries :
                  /\ freeinode_ts' = [freeinode_ts EXCEPT ![i] = "TAKEN"]
                  /\ dir' = [dir EXCEPT ![e] = [d_name |-> name, d_inumber |-> i]]
    BY <1>2, OpenNewEffect
  <2>2. LiveFiles' \in SUBSET (LiveFiles \cup {i})
    BY <1>T, <2>1, DirectoryFrame, EnterName
  <2>3. /\ inode_table'[i].i_size = 0
        /\ \A j \in LiveFiles \ {i} : inode_table'[j] = inode_table[j]
    BY <1>S, <2>1
  <2> QED
    BY <1>T, <1>S, <2>1, <2>2, <2>3 DEF LiveBlocksExclusive
<1>3. ASSUME NEW h \in Handles, NEW buffer \in Buffers, WriteData(h, buffer)
      PROVE  LiveBlocksExclusive'
  <2>1. PICK n \in 1 .. Len(buffer), b \in Blocks, size \in 1 .. BLOCK_SIZE :
          /\ b = BlockFor(h)
          /\ free_blocks' = [free_blocks EXCEPT ![b] = IF Size(h) = 0 THEN "TAKEN" ELSE @]
          /\ inode_table' = [inode_table EXCEPT ![Inum(h)] =
                               [i_size |-> size, i_data_block |-> b]]
          /\ UNCHANGED <<freeinode_ts, dir>>
    BY <1>T, <1>3, WriteEffect
  <2>2. LiveFiles' = LiveFiles
    BY <2>1, DirectoryFrame
  <2>3. Inum(h) \in Inodes
    BY <1>T, HandleTyped
  <2>4. /\ inode_table'[Inum(h)] = [i_size |-> size, i_data_block |-> b]
        /\ \A j \in LiveFiles \ {Inum(h)} : inode_table'[j] = inode_table[j]
    BY <1>S, <2>1, <2>3
  <2>5. CASE Size(h) = 0
    <3>1. free_blocks[b] = "FREE" /\ b # 0
      BY <1>T, <1>S, <2>1, <2>5, BlockForFinds
    <3>2. free_blocks' = [free_blocks EXCEPT ![b] = "TAKEN"]
      BY <2>1, <2>5
    <3>3. \A j \in LiveFiles : HasBlock(j) => BlockOf(j) # b
      BY <1>T, <3>1 DEF LiveBlocksExclusive
    <3>4. \A j \in LiveFiles : HasBlock(j)' =>
            BlockOf(j)' \in Blocks \ {0} /\ free_blocks'[BlockOf(j)'] = "TAKEN"
      <4> SUFFICES ASSUME NEW j \in LiveFiles, HasBlock(j)'
                   PROVE  BlockOf(j)' \in Blocks \ {0} /\ free_blocks'[BlockOf(j)'] = "TAKEN"
        OBVIOUS
      <4>1. CASE j = Inum(h)
        BY <1>S, <2>4, <3>1, <3>2, <4>1
      <4>2. CASE j # Inum(h)
        BY <1>T, <1>S, <2>4, <3>2, <4>2 DEF LiveBlocksExclusive
      <4> QED
        BY <4>1, <4>2
    <3>5. \A j, k \in LiveFiles :
            j # k /\ HasBlock(j)' /\ HasBlock(k)' => BlockOf(j)' # BlockOf(k)'
      <4> SUFFICES ASSUME NEW j \in LiveFiles, NEW k \in LiveFiles, j # k,
                          HasBlock(j)', HasBlock(k)'
                   PROVE  BlockOf(j)' # BlockOf(k)'
        OBVIOUS
      <4>1. CASE j = Inum(h)
        BY <1>T, <2>4, <3>3, <4>1 DEF LiveBlocksExclusive
      <4>2. CASE k = Inum(h)
        BY <1>T, <2>4, <3>3, <4>2 DEF LiveBlocksExclusive
      <4>3. CASE j # Inum(h) /\ k # Inum(h)
        BY <1>T, <2>4, <4>3 DEF LiveBlocksExclusive
      <4> QED
        BY <4>1, <4>2, <4>3
    <3> QED
      BY <2>2, <3>4, <3>5 DEF LiveBlocksExclusive
  <2>6. CASE Size(h) # 0
    <3>1. b = Block(h) /\ Size(h) > 0
      BY <1>T, <2>1, <2>6, HandleTyped, BlockForFinds
    <3>2. free_blocks' = free_blocks
      BY <1>S, <2>1, <2>6
    <3>3. /\ inode_table[Inum(h)].i_size > 0
          /\ inode_table[Inum(h)].i_data_block = b
      BY <3>1 DEF Size, Block
    <3>4. \A j \in LiveFiles : HasBlock(j)' =>
            BlockOf(j)' \in Blocks \ {0} /\ free_blocks'[BlockOf(j)'] = "TAKEN"
      <4> SUFFICES ASSUME NEW j \in LiveFiles, HasBlock(j)'
                   PROVE  BlockOf(j)' \in Blocks \ {0} /\ free_blocks'[BlockOf(j)'] = "TAKEN"
        OBVIOUS
      <4>1. CASE j = Inum(h)
        BY <1>T, <2>4, <3>2, <3>3, <4>1 DEF LiveBlocksExclusive
      <4>2. CASE j # Inum(h)
        BY <1>T, <2>4, <3>2, <4>2 DEF LiveBlocksExclusive
      <4> QED
        BY <4>1, <4>2
    <3>5. \A j, k \in LiveFiles :
            j # k /\ HasBlock(j)' /\ HasBlock(k)' => BlockOf(j)' # BlockOf(k)'
      <4> SUFFICES ASSUME NEW j \in LiveFiles, NEW k \in LiveFiles, j # k,
                          HasBlock(j)', HasBlock(k)'
                   PROVE  BlockOf(j)' # BlockOf(k)'
        OBVIOUS
      <4>1. CASE j = Inum(h)
        BY <1>T, <2>4, <3>3, <4>1 DEF LiveBlocksExclusive
      <4>2. CASE k = Inum(h)
        BY <1>T, <2>4, <3>3, <4>2 DEF LiveBlocksExclusive
      <4>3. CASE j # Inum(h) /\ k # Inum(h)
        BY <1>T, <2>4, <4>3 DEF LiveBlocksExclusive
      <4> QED
        BY <4>1, <4>2, <4>3
    <3> QED
      BY <2>2, <3>4, <3>5 DEF LiveBlocksExclusive
  <2> QED
    BY <2>5, <2>6
<1>4. ASSUME NEW name \in Names \cup BadNames, UnlinkFile(name)
      PROVE  LiveBlocksExclusive'
  <2>1. PICK i \in LiveFiles, e \in UsedEntries :
          /\ free_blocks' = [b \in Blocks |->
               IF inode_table[i].i_size > 0 /\ b = inode_table[i].i_data_block
                 THEN "FREE" ELSE free_blocks[b]]
          /\ freeinode_ts' = [freeinode_ts EXCEPT ![i] = "FREE"]
          /\ dir' = [dir EXCEPT ![e] = [d_name |-> NoName, d_inumber |-> -1]]
          /\ UNCHANGED inode_table
    BY <1>4, UnlinkEffect
  <2>2. LiveFiles' = LiveFiles \ {i}
    BY <1>T, <2>1, RemoveName
  <2>3. \A j \in LiveFiles' : HasBlock(j) => free_blocks'[BlockOf(j)] = "TAKEN"
    <3> SUFFICES ASSUME NEW j \in LiveFiles', HasBlock(j)
                 PROVE  free_blocks'[BlockOf(j)] = "TAKEN"
      OBVIOUS
    <3>1. /\ BlockOf(j) \in Blocks /\ free_blocks[BlockOf(j)] = "TAKEN"
          /\ inode_table[i].i_size > 0 => BlockOf(j) # inode_table[i].i_data_block
      BY <1>T, <2>2 DEF LiveBlocksExclusive
    <3> QED
      BY <2>1, <3>1
  <2> QED
    BY <1>T, <2>1, <2>2, <2>3 DEF LiveBlocksExclusive
<1>5. CASE Stutters
  BY <1>T, <1>5, BlocksFrame DEF Stutters
<1> QED
  BY <1>T, <1>1, <1>2, <1>3, <1>4, <1>5, StepCases

-----------------------------------------------------------------------------
\* Every behaviour stays inside the invariant.
LEMMA Invariance == Spec => []IInv
<1>1. IInv /\ [Next]_vars => IInv'
  BY KeepsTypeOK, KeepsDirectorySound, KeepsLiveBlocksExclusive DEF IInv
<1> QED
  BY InitHolds, <1>1, PTL DEF Spec

\* The tables of the file system hold values of their types whatever calls are
\* made: no write leaves its block, although its length is a size_t difference
\* that wraps for a handle past the end of the block.
THEOREM TypeCorrect == Spec => []TypeOK
<1>1. IInv => TypeOK
  BY DEF IInv
<1> QED
  BY Invariance, <1>1, PTL

\* No name and no inode is entered in the directory twice, and no inode is lost
\* by a call that fails halfway.
THEOREM DirectoryAgrees == Spec => []DirectorySound
<1>1. IInv => DirectorySound
  BY DEF IInv
<1> QED
  BY Invariance, <1>1, PTL

\* Two files never share a block, even when callers write through handles of
\* files that were removed or truncated meanwhile.
THEOREM BlocksAreExclusive == Spec => []LiveBlocksExclusive
<1>1. IInv => LiveBlocksExclusive
  BY DEF IInv
<1> QED
  BY Invariance, <1>1, PTL

-----------------------------------------------------------------------------
(* Callers that remove no open file *)

\* The handle that add_to_open_file_table takes was free; the others stay.
LEMMA HandleAdded ==
  ASSUME TypeOK, NEW i \in Inodes, NEW offset \in 0 .. MaxOffset,
         AddToOpenFileTable(i, offset), NEW h \in Handles, IsOpen(h)'
  PROVE  \/ Inum(h)' = i /\ Offset(h)' = offset
         \/ IsOpen(h) /\ Inum(h)' = Inum(h) /\ Offset(h)' = Offset(h)
<1> DEFINE k == FirstFree(free_open_file_entries)
<1>1. CASE k = -1
  BY <1>1 DEF AddToOpenFileTable, openFiles, IsOpen, Inum, Offset
<1>2. CASE k # -1
  <2>1. /\ free_open_file_entries' = [free_open_file_entries EXCEPT ![k] = "TAKEN"]
        /\ open_file_table' = [open_file_table EXCEPT ![k] =
                                 [of_inumber |-> i, of_offset |-> offset]]
    BY <1>2 DEF AddToOpenFileTable
  <2>2. k \in Handles
    BY <1>2, FirstFreeFinds DEF TypeOK
  <2> HIDE DEF k
  <2>3. CASE h = k
    BY <2>1, <2>2, <2>3 DEF TypeOK, Inum, Offset
  <2>4. CASE h # k
    BY <2>1, <2>2, <2>4 DEF TypeOK, IsOpen, Inum, Offset
  <2> QED
    BY <2>3, <2>4
<1> QED
  BY <1>1, <1>2

\* The handles after a write: only the one written through has moved.
LEMMA HandleWritten ==
  ASSUME TypeOK, NEW h \in Handles, NEW buffer \in Buffers, WriteData(h, buffer)
  PROVE  /\ IsOpen(h)
         /\ \A k \in Handles : /\ IsOpen(k)' = IsOpen(k) /\ Inum(k)' = Inum(k)
                               /\ k # h => Offset(k)' = Offset(k)
<1>1. PICK n \in 1 .. Len(buffer) :
        /\ open_file_table' = [open_file_table EXCEPT ![h] =
             [of_inumber |-> Inum(h), of_offset |-> Offset(h) + n]]
        /\ UNCHANGED free_open_file_entries
  BY WriteEffect
<1>2. IsOpen(h)
  BY DEF WriteData
<1> QED
  BY <1>1, <1>2 DEF TypeOK, IsOpen, Inum, Offset

\* A handle that is open has a file in the directory.
LEMMA KeepsOpenFilesLive ==
  NeverRemovesOpen => (IInv /\ OpenFilesLive /\ [Next]_vars => OpenFilesLive')
<1> SUFFICES ASSUME NeverRemovesOpen, IInv, OpenFilesLive, [Next]_vars
             PROVE  OpenFilesLive'
  OBVIOUS
<1>T. TypeOK /\ LiveFiles \in SUBSET Inodes
  BY DEF IInv, LiveFiles
<1>Z. 0 \in 0 .. MaxOffset
  OBVIOUS
<1>1. ASSUME NEW name \in Names \cup BadNames, NEW mode \in Modes,
             OpenExisting(name, mode)
      PROVE  OpenFilesLive'
  <2>1. PICK i \in LiveFiles :
          /\ UNCHANGED <<freeinode_ts, dir>>
          /\ AddToOpenFileTable(i, 0) \/ AddToOpenFileTable(i, inode_table[i].i_size)
    BY <1>1, OpenExistingEffect
  <2>2. LiveFiles' = LiveFiles
    BY <2>1, DirectoryFrame
  <2>3. inode_table[i].i_size \in 0 .. MaxOffset
    BY <1>T DEF TypeOK
  <2>4. \A h \in Handles : IsOpen(h)' =>
          Inum(h)' = i \/ (IsOpen(h) /\ Inum(h)' = Inum(h))
    BY <1>T, <1>Z, <2>1, <2>3, HandleAdded
  <2> QED
    BY <2>2, <2>4 DEF OpenFilesLive
<1>2. ASSUME NEW name \in Names \cup BadNames, NEW mode \in Modes, OpenNew(name, mode)
      PROVE  OpenFilesLive'
  <2>1. PICK i \in Inodes \ {0} :
           \/ UNCHANGED <<freeinode_ts, dir, free_open_file_entries, open_file_table>>
           \/ \E e \in EmptyEntries :
                /\ freeinode_ts' = [freeinode_ts EXCEPT ![i] = "TAKEN"]
                /\ dir' = [dir EXCEPT ![e] = [d_name |-> name, d_inumber |-> i]]
                /\ AddToOpenFileTable(i, 0)
    BY <1>2, OpenNewEffect
  <2>2. CASE UNCHANGED <<freeinode_ts, dir, free_open_file_entries, open_file_table>>
    BY <2>2, DirectoryFrame DEF OpenFilesLive, IsOpen, Inum
  <2>3. ASSUME NEW e \in EmptyEntries,
               freeinode_ts' = [freeinode_ts EXCEPT ![i] = "TAKEN"],
               dir' = [dir EXCEPT ![e] = [d_name |-> name, d_inumber |-> i]],
               AddToOpenFileTable(i, 0)
        PROVE  OpenFilesLive'
    <3>1. LiveFiles' = LiveFiles \cup {i}
      BY <1>T, <2>3, EnterName
    <3>2. \A h \in Handles : IsOpen(h)' =>
            Inum(h)' = i \/ (IsOpen(h) /\ Inum(h)' = Inum(h))
      BY <1>T, <1>Z, <2>3, HandleAdded
    <3> QED
      BY <3>1, <3>2 DEF OpenFilesLive
  <2> QED
    BY <2>1, <2>2, <2>3
<1>3. ASSUME NEW h \in Handles, NEW buffer \in Buffers, WriteData(h, buffer)
      PROVE  OpenFilesLive'
  <2>1. LiveFiles' = LiveFiles
    BY <1>3, DirectoryFrame DEF WriteData
  <2> QED
    BY <1>T, <1>3, <2>1, HandleWritten DEF OpenFilesLive
<1>4. ASSUME NEW name \in Names \cup BadNames, UnlinkFile(name)
      PROVE  OpenFilesLive'
  <2>1. PICK i \in LiveFiles, e \in UsedEntries :
          /\ i = Lookup(name) /\ MayUnlink(name)
          /\ freeinode_ts' = [freeinode_ts EXCEPT ![i] = "FREE"]
          /\ dir' = [dir EXCEPT ![e] = [d_name |-> NoName, d_inumber |-> -1]]
          /\ UNCHANGED <<free_open_file_entries, open_file_table>>
    BY <1>4, UnlinkEffect
  <2>2. LiveFiles' = LiveFiles \ {i}
    BY <1>T, <2>1, RemoveName
  <2>3. \A h \in Handles : IsOpen(h) => Inum(h) # i
    BY <2>1 DEF MayUnlink, NeverRemovesOpen
  <2>4. \A h \in Handles : IsOpen(h)' = IsOpen(h) /\ Inum(h)' = Inum(h)
    BY <2>1 DEF IsOpen, Inum
  <2> QED
    BY <2>2, <2>3, <2>4 DEF OpenFilesLive
<1>5. CASE Stutters
  <2>1. LiveFiles' = LiveFiles
    BY <1>5, DirectoryFrame DEF Stutters
  <2> QED
    BY <1>5, <2>1 DEF Stutters, HandlesKept, OpenFilesLive
<1> QED
  BY <1>T, <1>1, <1>2, <1>3, <1>4, <1>5, StepCases

\* A block is given back with its file, and taken only for a file that stays.
LEMMA KeepsNoBlockLeaked ==
  IInv /\ OpenFilesLive /\ NoBlockLeaked /\ [Next]_vars => NoBlockLeaked'
<1> SUFFICES ASSUME IInv, OpenFilesLive, NoBlockLeaked, [Next]_vars
             PROVE  NoBlockLeaked'
  OBVIOUS
<1>T. TypeOK /\ LiveBlocksExclusive
  BY DEF IInv
<1>S. /\ inode_table \in [Inodes -> [i_size : 0 .. BLOCK_SIZE,
                                     i_data_block : Blocks \cup {-1}]]
      /\ free_blocks \in [Blocks -> States]
      /\ LiveFiles \in SUBSET Inodes
  BY <1>T DEF TypeOK, LiveFiles
<1> USE DEF HasBlock, BlockOf
<1>1. ASSUME NEW name \in Names \cup BadNames, NEW mode \in Modes,
             OpenExisting(name, mode)
      PROVE  NoBlockLeaked'
  <2>1. PICK i \in LiveFiles :
          /\ UNCHANGED <<freeinode_ts, dir>>
          /\ \/ UNCHANGED <<free_blocks, inode_table>>
             \/ /\ inode_table[i].i_size > 0
                /\ free_blocks' = [free_blocks EXCEPT ![inode_table[i].i_data_block] = "FREE"]
                /\ inode_table' = [inode_table EXCEPT ![i].i_size = 0]
    BY <1>1, OpenExistingEffect
  <2>2. LiveFiles' = LiveFiles
    BY <2>1, DirectoryFrame
  <2>3. CASE UNCHANGED <<free_blocks, inode_table>>
    BY <2>2, <2>3 DEF NoBlockLeaked
  <2>4. CASE /\ inode_table[i].i_size > 0
             /\ free_blocks' = [free_blocks EXCEPT ![inode_table[i].i_data_block] = "FREE"]
             /\ inode_table' = [inode_table EXCEPT ![i].i_size = 0]
    <3> SUFFICES ASSUME NEW b \in Blocks \ {0}, free_blocks'[b] = "TAKEN"
                 PROVE  \E j \in LiveFiles : HasBlock(j)' /\ BlockOf(j)' = b
      BY <2>2 DEF NoBlockLeaked
    <3>1. b # inode_table[i].i_data_block /\ free_blocks[b] = "TAKEN"
      BY <1>S, <2>4
    <3>2. PICK j \in LiveFiles : HasBlock(j) /\ BlockOf(j) = b
      BY <3>1 DEF NoBlockLeaked
    <3>3. j # i
      BY <3>1, <3>2
    <3> QED
      BY <1>S, <2>4, <3>2, <3>3
  <2> QED
    BY <2>1, <2>3, <2>4
<1>2. ASSUME NEW name \in Names \cup BadNames, NEW mode \in Modes, OpenNew(name, mode)
      PROVE  NoBlockLeaked'
  <2>1. PICK i \in Inodes \ {0} :
          /\ freeinode_ts[i] = "FREE"
          /\ inode_table' = [inode_table EXCEPT ![i] = [i_size |-> 0, i_data_block |-> -1]]
          /\ UNCHANGED free_blocks
          /\ \/ UNCHANGED <<freeinode_ts, dir>>
             \/ \E e \in EmptyEntries :
                  /\ freeinode_ts' = [freeinode_ts EXCEPT ![i] = "TAKEN"]
                  /\ dir' = [dir EXCEPT ![e] = [d_name |-> name, d_inumber |-> i]]
    BY <1>2, OpenNewEffect
  <2>2. LiveFiles \in SUBSET (LiveFiles') /\ i \notin LiveFiles
    BY <1>T, <2>1, DirectoryFrame, EnterName DEF LiveFiles
  <2>3. \A j \in LiveFiles : inode_table'[j] = inode_table[j]
    BY <1>S, <2>1, <2>2
  <2> QED
    BY <2>1, <2>2, <2>3 DEF NoBlockLeaked
<1>3. ASSUME NEW h \in Handles, NEW buffer \in Buffers, WriteData(h, buffer)
      PROVE  NoBlockLeaked'
  <2>1. PICK n \in 1 .. Len(buffer), b \in Blocks, size \in 1 .. BLOCK_SIZE :
          /\ b = BlockFor(h)
          /\ free_blocks' = [free_blocks EXCEPT ![b] = IF Size(h) = 0 THEN "TAKEN" ELSE @]
          /\ inode_table' = [inode_table EXCEPT ![Inum(h)] =
                               [i_size |-> size, i_data_block |-> b]]
          /\ UNCHANGED <<freeinode_ts, dir>>
    BY <1>T, <1>3, WriteEffect
  <2>2. LiveFiles' = LiveFiles
    BY <2>1, DirectoryFrame
  <2>3. Inum(h) \in LiveFiles
    BY <1>3 DEF WriteData, OpenFilesLive
  <2>4. /\ inode_table'[Inum(h)] = [i_size |-> size, i_data_block |-> b]
        /\ \A j \in LiveFiles \ {Inum(h)} : inode_table'[j] = inode_table[j]
    BY <1>S, <2>1, <2>3
  <2> SUFFICES ASSUME NEW c \in Blocks \ {0}, free_blocks'[c] = "TAKEN"
               PROVE  \E j \in LiveFiles : HasBlock(j)' /\ BlockOf(j)' = c
    BY <2>2 DEF NoBlockLeaked
  <2>5. CASE c = b
    BY <2>3, <2>4, <2>5
  <2>6. CASE c # b
    <3>1. free_blocks[c] = "TAKEN"
      BY <1>S, <2>1, <2>6
    <3>2. PICK j \in LiveFiles : HasBlock(j) /\ BlockOf(j) = c
      BY <3>1 DEF NoBlockLeaked
    <3>3. j # Inum(h)
      <4> SUFFICES ASSUME j = Inum(h) PROVE FALSE
        OBVIOUS
      <4>1. Size(h) > 0 /\ Block(h) = c
        BY <3>2 DEF Size, Block
      <4>2. BlockFor(h) = Block(h)
        BY <1>T, <4>1, BlockForFinds
      <4> QED
        BY <2>1, <2>6, <4>1, <4>2
    <3> QED
      BY <2>4, <3>2, <3>3
  <2> QED
    BY <2>5, <2>6
<1>4. ASSUME NEW name \in Names \cup BadNames, UnlinkFile(name)
      PROVE  NoBlockLeaked'
  <2>1. PICK i \in LiveFiles, e \in UsedEntries :
          /\ free_blocks' = [b \in Blocks |->
               IF inode_table[i].i_size > 0 /\ b = inode_table[i].i_data_block
                 THEN "FREE" ELSE free_blocks[b]]
          /\ freeinode_ts' = [freeinode_ts EXCEPT ![i] = "FREE"]
          /\ dir' = [dir EXCEPT ![e] = [d_name |-> NoName, d_inumber |-> -1]]
          /\ UNCHANGED inode_table
    BY <1>4, UnlinkEffect
  <2>2. LiveFiles' = LiveFiles \ {i}
    BY <1>T, <2>1, RemoveName
  <2> SUFFICES ASSUME NEW b \in Blocks \ {0}, free_blocks'[b] = "TAKEN"
               PROVE  \E j \in LiveFiles' : HasBlock(j)' /\ BlockOf(j)' = b
    BY DEF NoBlockLeaked
  <2>3. /\ free_blocks[b] = "TAKEN"
        /\ ~(inode_table[i].i_size > 0 /\ b = inode_table[i].i_data_block)
    BY <2>1
  <2>4. PICK j \in LiveFiles : HasBlock(j) /\ BlockOf(j) = b
    BY <2>3 DEF NoBlockLeaked
  <2> QED
    BY <2>1, <2>2, <2>3, <2>4
<1>5. CASE Stutters
  BY <1>5, DirectoryFrame DEF Stutters, NoBlockLeaked
<1> QED
  BY <1>T, <1>1, <1>2, <1>3, <1>4, <1>5, StepCases

\* A read through a handle that is not past the end of its file stops there.
LEMMA ReadToSize ==
  ASSUME TypeOK, NEW h \in Handles, Offset(h) <= Size(h), NEW len \in 1 .. MaxLen
  PROVE  Offset(h) + ToRead(h, len) <= Size(h)
<1>1. Offset(h) \in 0 .. MaxOffset /\ Size(h) \in 0 .. BLOCK_SIZE
  BY HandleTyped
<1>2. Size(h) - Offset(h) \in 0 .. Word - 1
  BY <1>1
<1>3. (Size(h) - Offset(h)) % Word = Size(h) - Offset(h)
  BY <1>2, ModSmall
<1>4. ToRead(h, len) <= Size(h) - Offset(h)
  BY <1>1, <1>3 DEF ToRead, Least
<1> QED
  BY <1>1, <1>4, ReadBounded

\* No handle gets past the end of its file.
LEMMA KeepsOffsetsInFile ==
  NeverTruncates =>
    (IInv /\ OpenFilesLive /\ OffsetsInFile /\ [Next]_vars => OffsetsInFile')
<1> SUFFICES ASSUME NeverTruncates, IInv, OpenFilesLive, OffsetsInFile, [Next]_vars
             PROVE  OffsetsInFile'
  OBVIOUS
<1>T. TypeOK
  BY DEF IInv
<1>S. /\ inode_table \in [Inodes -> [i_size : 0 .. BLOCK_SIZE,
                                     i_data_block : Blocks \cup {-1}]]
      /\ LiveFiles \in SUBSET Inodes
  BY <1>T DEF TypeOK, LiveFiles
<1>Z. 0 \in 0 .. MaxOffset
  OBVIOUS
<1>1. ASSUME NEW name \in Names \cup BadNames, NEW mode \in Modes,
             OpenExisting(name, mode)
      PROVE  OffsetsInFile'
  <2>1. PICK i \in LiveFiles :
          /\ UNCHANGED inode_table
          /\ AddToOpenFileTable(i, 0) \/ AddToOpenFileTable(i, inode_table[i].i_size)
    BY <1>1, OpenExistingEffect DEF NeverTruncates
  <2>2. inode_table[i].i_size \in 0 .. MaxOffset
    BY <1>S
  <2>3. ASSUME NEW h \in Handles, IsOpen(h)' PROVE Offset(h)' <= Size(h)'
    <3>1. \/ Inum(h)' = i /\ Offset(h)' \in {0, inode_table[i].i_size}
          \/ IsOpen(h) /\ Inum(h)' = Inum(h) /\ Offset(h)' = Offset(h)
      BY <1>T, <1>S, <1>Z, <2>1, <2>2, <2>3, HandleAdded
    <3> QED
      BY <2>1, <2>2, <3>1 DEF OffsetsInFile, Size
  <2> QED
    BY <2>3 DEF OffsetsInFile
<1>2. ASSUME NEW name \in Names \cup BadNames, NEW mode \in Modes, OpenNew(name, mode)
      PROVE  OffsetsInFile'
  <2>1. PICK i \in Inodes \ {0} :
          /\ freeinode_ts[i] = "FREE"
          /\ inode_table' = [inode_table EXCEPT ![i] = [i_size |-> 0, i_data_block |-> -1]]
          /\ \/ UNCHANGED <<free_open_file_entries, open_file_table>>
             \/ AddToOpenFileTable(i, 0)
    BY <1>2, OpenNewEffect
  <2>2. /\ inode_table'[i].i_size = 0
        /\ \A j \in LiveFiles : inode_table'[j] = inode_table[j]
    BY <1>S, <2>1 DEF LiveFiles
  <2>3. ASSUME NEW h \in Handles, IsOpen(h)' PROVE Offset(h)' <= Size(h)'
    <3>1. \/ Inum(h)' = i /\ Offset(h)' = 0
          \/ IsOpen(h) /\ Inum(h)' = Inum(h) /\ Offset(h)' = Offset(h)
      <4>1. CASE UNCHANGED <<free_open_file_entries, open_file_table>>
        BY <2>3, <4>1 DEF IsOpen, Inum, Offset
      <4>2. CASE AddToOpenFileTable(i, 0)
        BY <1>T, <1>Z, <2>3, <4>2, HandleAdded
      <4> QED
        BY <2>1, <4>1, <4>2
    <3>2. CASE Inum(h)' = i /\ Offset(h)' = 0
      BY <2>2, <3>2 DEF Size
    <3>3. CASE IsOpen(h) /\ Inum(h)' = Inum(h) /\ Offset(h)' = Offset(h)
      <4>1. Inum(h) \in LiveFiles /\ Offset(h) <= Size(h)
        BY <3>3 DEF OpenFilesLive, OffsetsInFile
      <4> QED
        BY <2>2, <3>3, <4>1 DEF Size
    <3> QED
      BY <3>1, <3>2, <3>3
  <2> QED
    BY <2>3 DEF OffsetsInFile
<1>3. ASSUME NEW h \in Handles, NEW buffer \in Buffers, WriteData(h, buffer)
      PROVE  OffsetsInFile'
  <2>1. PICK n \in 1 .. Len(buffer), b \in Blocks, size \in 1 .. BLOCK_SIZE :
          /\ Offset(h) + n <= size /\ Size(h) <= size
          /\ inode_table' = [inode_table EXCEPT ![Inum(h)] =
                               [i_size |-> size, i_data_block |-> b]]
          /\ open_file_table' = [open_file_table EXCEPT ![h] =
               [of_inumber |-> Inum(h), of_offset |-> Offset(h) + n]]
    BY <1>T, <1>3, WriteEffect
  <2>2. \A k \in Handles : Inum(k) \in Inodes /\ Offset(k) \in 0 .. MaxOffset
                           /\ Size(k) \in 0 .. BLOCK_SIZE
    BY <1>T, HandleTyped
  <2>3. /\ inode_table'[Inum(h)].i_size = size
        /\ \A j \in Inodes \ {Inum(h)} : inode_table'[j] = inode_table[j]
    BY <1>S, <2>1, <2>2
  <2>4. /\ IsOpen(h)
        /\ \A k \in Handles : /\ IsOpen(k)' = IsOpen(k) /\ Inum(k)' = Inum(k)
                              /\ k # h => Offset(k)' = Offset(k)
    BY <1>T, <1>3, HandleWritten
  <2>5. Offset(h)' = Offset(h) + n
    BY <1>T, <2>1 DEF Offset, TypeOK
  <2>6. ASSUME NEW k \in Handles, IsOpen(k)' PROVE Offset(k)' <= Size(k)'
    <3>1. Size(k)' \in Nat /\ Size(k)' >= Size(k)
      <4>1. CASE Inum(k) = Inum(h)
        BY <2>1, <2>2, <2>3, <2>4, <4>1 DEF Size
      <4>2. CASE Inum(k) # Inum(h)
        <5>1. Size(k)' = Size(k)
          BY <2>2, <2>3, <2>4, <4>2 DEF Size
        <5> QED
          BY <2>2, <5>1
      <4> QED
        BY <4>1, <4>2
    <3>2. CASE k = h
      BY <2>1, <2>2, <2>3, <2>4, <2>5, <3>2 DEF Size
    <3>3. CASE k # h
      BY <2>2, <2>4, <2>6, <3>1, <3>3 DEF OffsetsInFile
    <3> QED
      BY <3>2, <3>3
  <2> QED
    BY <2>6 DEF OffsetsInFile
<1>4. ASSUME NEW name \in Names \cup BadNames, UnlinkFile(name)
      PROVE  OffsetsInFile'
  <2>1. UNCHANGED <<inode_table, free_open_file_entries, open_file_table>>
    BY <1>4, UnlinkEffect
  <2> QED
    BY <2>1 DEF OffsetsInFile, IsOpen, Offset, Size, Inum
<1>5. CASE Stutters
  <2>1. ASSUME NEW h \in Handles, IsOpen(h)' PROVE Offset(h)' <= Size(h)'
    <3>1. IsOpen(h) /\ Inum(h)' = Inum(h) /\ Size(h)' = Size(h)
      BY <1>5, <2>1 DEF Stutters, HandlesKept, Size
    <3>2. Offset(h) <= Size(h)
      BY <3>1 DEF OffsetsInFile
    <3>3. \/ Offset(h)' = Offset(h)
          \/ \E len \in 1 .. MaxLen : Offset(h)' = Offset(h) + ToRead(h, len)
      BY <1>5, <2>1 DEF Stutters, HandlesKept
    <3> QED
      BY <1>T, <3>1, <3>2, <3>3, ReadToSize
  <2> QED
    BY <2>1 DEF OffsetsInFile
<1> QED
  BY <1>T, <1>1, <1>2, <1>3, <1>4, <1>5, StepCases

\* data_block_get is asked for blocks of the device only, and no length wraps.
LEMMA KeepsNeverHalts ==
  IInv /\ OpenFilesLive /\ OffsetsInFile /\ NeverHalts /\ [Next]_vars => NeverHalts'
<1> SUFFICES ASSUME IInv, OpenFilesLive, OffsetsInFile, NeverHalts, [Next]_vars
             PROVE  NeverHalts'
  OBVIOUS
<1>T. TypeOK
  BY DEF IInv
<1>H. ASSUME NEW h \in Handles, IsOpen(h)
      PROVE  /\ Offset(h) \in 0 .. BLOCK_SIZE /\ Size(h) \in 0 .. BLOCK_SIZE
             /\ Offset(h) <= Size(h)
             /\ Size(h) > 0 => Block(h) \in Blocks
  <2>1. Inum(h) \in LiveFiles /\ Offset(h) <= Size(h)
    BY <1>H DEF OpenFilesLive, OffsetsInFile
  <2>2. Size(h) > 0 => Block(h) \in Blocks
    BY <2>1 DEF IInv, LiveBlocksExclusive, HasBlock, BlockOf, Size, Block
  <2> QED
    BY <1>T, <2>1, <2>2, HandleTyped
<1>W. ASSUME NEW h \in Handles, NEW buffer \in Buffers, WriteHalts(h, buffer)
      PROVE  FALSE
  <2>1. IsOpen(h) /\ Len(buffer) \in 1 .. MaxLen
    BY <1>W, BufferTyped DEF WriteHalts
  <2>2. ToWrite(h, Len(buffer)) <= Len(buffer)
    <3>1. CASE Len(buffer) + Offset(h) > BLOCK_SIZE
      <4>1. BLOCK_SIZE - Offset(h) \in 0 .. Word - 1
        BY <1>H, <2>1
      <4>2. (BLOCK_SIZE - Offset(h)) % Word = BLOCK_SIZE - Offset(h)
        BY <4>1, ModSmall
      <4> QED
        BY <1>H, <2>1, <3>1, <4>2 DEF ToWrite
    <3>2. CASE ~(Len(buffer) + Offset(h) > BLOCK_SIZE)
      BY <2>1, <3>2 DEF ToWrite
    <3> QED
      BY <3>1, <3>2
  <2>3. ~valid_block_number(BlockFor(h))
    BY <1>W, <1>H, <2>1, <2>2 DEF WriteHalts, ToWrite
  <2>4. BlockFor(h) = -1 /\ Size(h) = 0
    BY <1>T, <1>H, <2>1, <2>3, BlockForFinds DEF valid_block_number
  <2>5. FirstFree(free_blocks) = -1
    BY <2>4 DEF BlockFor
  <2> QED
    BY <1>W, <2>4, <2>5 DEF WriteHalts
<1>R. ASSUME NEW h \in Handles, NEW len \in 1 .. MaxLen, ReadHalts(h, len)
      PROVE  FALSE
  <2>1. IsOpen(h) /\ ToRead(h, len) > 0 /\ Block(h) \notin Blocks
    BY <1>R DEF ReadHalts, valid_block_number
  <2>2. Offset(h) + ToRead(h, len) <= Size(h) /\ ToRead(h, len) \in 0 .. len
    BY <1>T, <1>H, <2>1, ReadToSize, ReadBounded
  <2> QED
    BY <1>H, <2>1, <2>2
<1>1. CASE UNCHANGED vars
  BY <1>1 DEF vars, NeverHalts
<1>2. ASSUME NEW name \in Names \cup BadNames, NEW mode \in Modes, tfs_open(name, mode)
      PROVE  NeverHalts'
  BY <1>2 DEF tfs_open, OpenExisting, OpenNew, OpenRefused, NeverHalts
<1>3. ASSUME NEW h \in Handles, tfs_close(h) PROVE NeverHalts'
  BY <1>3 DEF tfs_close, NotOpen, NeverHalts
<1>4. ASSUME NEW h \in Handles, NEW buffer \in Buffers, tfs_write(h, buffer)
      PROVE  NeverHalts'
  BY <1>4, <1>W DEF tfs_write, NotOpen, WriteData, WriteNothing, NeverHalts
<1>5. ASSUME NEW h \in Handles, NEW len \in 1 .. MaxLen, tfs_read(h, len)
      PROVE  NeverHalts'
  BY <1>5, <1>R DEF tfs_read, NotOpen, ReadData, NeverHalts
<1>6. ASSUME NEW name \in Names \cup BadNames, tfs_unlink(name)
      PROVE  NeverHalts'
  BY <1>6 DEF tfs_unlink, UnlinkFile, UnlinkNothing, NeverHalts
<1> QED
  BY <1>1, <1>2, <1>3, <1>4, <1>5, <1>6 DEF Next

-----------------------------------------------------------------------------
\* The file system starts without open handles, and with the root's block taken.
LEMMA InitHoldsMore == Init => OpenFilesLive /\ OffsetsInFile /\ NoBlockLeaked /\ NeverHalts
BY DEF Init, OpenFilesLive, OffsetsInFile, NoBlockLeaked, NeverHalts, IsOpen

\* As long as callers remove no file that is open, no block of the device is lost
\* whatever files are written, truncated and removed.
THEOREM NothingLeaked == ASSUME NeverRemovesOpen PROVE Spec => []NoBlockLeaked
<1>1. IInv /\ OpenFilesLive /\ NoBlockLeaked /\ IInv' /\ [Next]_vars
        => OpenFilesLive' /\ NoBlockLeaked'
  BY NeverRemovesOpen, KeepsOpenFilesLive, KeepsNoBlockLeaked
<1>2. Init => OpenFilesLive /\ NoBlockLeaked
  BY InitHoldsMore
<1> QED
  BY Invariance, <1>1, <1>2, PTL DEF Spec

\* Handles of callers like the broker, which neither truncate a file nor remove
\* an open one, stay inside their files.
LEMMA BrokerInvariance ==
  ASSUME NeverRemovesOpen, NeverTruncates
  PROVE  Spec => [](IInv /\ OpenFilesLive /\ OffsetsInFile /\ NeverHalts)
<1>1. IInv /\ OpenFilesLive /\ OffsetsInFile /\ NeverHalts /\ [Next]_vars
        => OpenFilesLive' /\ OffsetsInFile' /\ NeverHalts'
  BY NeverRemovesOpen, NeverTruncates, KeepsOpenFilesLive, KeepsOffsetsInFile,
     KeepsNeverHalts
<1>2. Init => OpenFilesLive /\ OffsetsInFile /\ NeverHalts
  BY InitHoldsMore
<1> QED
  BY Invariance, <1>1, <1>2, PTL DEF Spec

\* For such callers no call gets to the PANIC of data_block_get, or to a memcpy
\* whose length has wrapped.
THEOREM CallsNeverHalt ==
  ASSUME NeverRemovesOpen, NeverTruncates PROVE Spec => []NeverHalts
<1>1. Spec => [](IInv /\ OpenFilesLive /\ OffsetsInFile /\ NeverHalts)
  BY NeverRemovesOpen, NeverTruncates, BrokerInvariance
<1> QED
  BY <1>1, PTL

\* For such callers tfs_read returns nothing from past the end of a file.
THEOREM ReadsStop ==
  ASSUME NeverRemovesOpen, NeverTruncates PROVE Spec => ReadStopsAtSize
<1> DEFINE Stops == \A h \in Handles, len \in 1 .. MaxLen :
             IsOpen(h) /\ ReadData(h, len) => Offset(h)' <= Size(h) \/ ret'.value = 0
<1>1. IInv /\ OffsetsInFile /\ [Next]_vars => [Stops]_vars
  <2> SUFFICES ASSUME IInv, OffsetsInFile, NEW h \in Handles, NEW len \in 1 .. MaxLen,
                      IsOpen(h), ReadData(h, len)
               PROVE  Offset(h)' <= Size(h)
    OBVIOUS
  <2>1. TypeOK /\ Offset(h) <= Size(h)
    BY DEF IInv, OffsetsInFile
  <2>2. Offset(h)' = Offset(h) + ToRead(h, len)
    BY <2>1 DEF ReadData, TypeOK, Offset
  <2> QED
    BY <2>1, <2>2, ReadToSize
<1>2. Spec => [](IInv /\ OpenFilesLive /\ OffsetsInFile /\ NeverHalts)
  BY NeverRemovesOpen, NeverTruncates, BrokerInvariance
<1> QED
  BY <1>1, <1>2, PTL DEF Spec, ReadStopsAtSize
-----------------------------------------------------------------------------
(* TecnicoFS implements FileStore: inodes, blocks, directory entries and     *)
(* offsets are seen as a set of named byte sequences.                        *)

HIDE FSAssumption DEF ROOT_DIR_INUM, Inodes, Blocks, Handles, Entries, Addresses,
     States

\* The refinement mapping, by name.
Files == [name \in Listed |-> Contents(Lookup(name))]
OpenAs(h) == IF IsOpen(h) THEN [name |-> NameOf(Inum(h)), offset |-> Offset(h)] ELSE NoName
Opened == [h \in Handles |-> OpenAs(h)]

\* The name of every entry in use is one a caller gave.
NamesGiven == \A e \in UsedEntries : dir[e].d_name \in Names

\* What a step starts from.
Sound == IInv /\ OpenFilesLive /\ OffsetsInFile /\ NamesGiven

-----------------------------------------------------------------------------
(* Names and inodes *)

\* An entry in use is found by its name, and its inode leads back to it.
LEMMA EntryFound ==
  ASSUME Sound, NEW e \in UsedEntries
  PROVE  /\ Lookup(dir[e].d_name) = dir[e].d_inumber
         /\ NameOf(dir[e].d_inumber) = dir[e].d_name
         /\ dir[e].d_inumber \in LiveFiles
<1>1. dir[e].d_name \in Names /\ e \in Entries /\ dir[e].d_inumber # -1
  BY DEF Sound, NamesGiven, UsedEntries
<1>2. Matches(dir[e].d_name) = {e}
  <2>1. Matches(dir[e].d_name) \subseteq UsedEntries
    BY DEF Matches, UsedEntries
  <2> QED
    BY <1>1, <2>1 DEF Sound, IInv, DirectorySound, Matches
<1>3. Lookup(dir[e].d_name) = dir[e].d_inumber
  <2>1. FirstOf({e}) = e
    BY <1>1 DEF FirstOf
  <2> QED
    BY <1>1, <1>2, <2>1 DEF Lookup
<1>4. (CHOOSE f \in UsedEntries : dir[f].d_inumber = dir[e].d_inumber) = e
  BY DEF Sound, IInv, DirectorySound
<1>5. dir[e].d_inumber \in LiveFiles
  BY DEF Sound, IInv, DirectorySound
<1> QED
  BY <1>3, <1>4, <1>5 DEF NameOf

\* The same of the directory after a step.
EntriesFound == \A e \in UsedEntries : /\ Lookup(dir[e].d_name) = dir[e].d_inumber
                                       /\ NameOf(dir[e].d_inumber) = dir[e].d_name

LEMMA EntriesFoundAfter == Sound' => EntriesFound'
<1>1. Sound => EntriesFound
  BY EntryFound DEF EntriesFound
<1> QED
  BY <1>1, PTL

\* A name is in the directory if and only if it is found.
LEMMA ListedFound ==
  ASSUME Sound, NEW name \in Names \cup BadNames
  PROVE  /\ name \in Listed <=> Lookup(name) # -1
         /\ name \in Listed => /\ Lookup(name) \in LiveFiles
                               /\ NameOf(Lookup(name)) = name
<1>T. TypeOK
  BY DEF Sound, IInv
<1>1. CASE name \in Listed
  <2>1. PICK e \in UsedEntries : dir[e].d_name = name
    BY <1>1 DEF Listed
  <2> QED
    BY <1>1, <2>1, EntryFound DEF UsedEntries
<1>2. CASE name \notin Listed
  <2>1. ASSUME Lookup(name) # -1 PROVE FALSE
    <3>1. FirstOf(Matches(name)) \in UsedEntries /\ dir[FirstOf(Matches(name))].d_name = name
      BY <1>T, <2>1, LookupFinds
    <3> QED
      BY <1>2, <3>1 DEF Listed
  <2> QED
    BY <1>2, <2>1
<1> QED
  BY <1>1, <1>2

\* A file is listed under its name.
LEMMA LiveNamed ==
  ASSUME Sound, NEW i \in LiveFiles
  PROVE  NameOf(i) \in Listed /\ NameOf(i) \in Names /\ Lookup(NameOf(i)) = i
<1>1. PICK e \in UsedEntries : dir[e].d_inumber = i
  BY DEF Sound, IInv, DirectorySound
<1> QED
  BY <1>1, EntryFound DEF Listed, Sound, NamesGiven

\* A call that leaves the directory alone leaves names and inodes alone.
LEMMA SameNames ==
  ASSUME UNCHANGED dir
  PROVE  /\ UsedEntries' = UsedEntries /\ Listed' = Listed
         /\ \A name : Lookup(name)' = Lookup(name)
         /\ \A i : NameOf(i)' = NameOf(i)
         /\ NamesGiven => NamesGiven'
BY DEF UsedEntries, Listed, Lookup, Matches, NameOf, NamesGiven

\* A name that is entered comes to those that are there.
LEMMA NewName ==
  ASSUME Sound, Sound', NEW i \in Inodes \ {0}, NEW e \in EmptyEntries, NEW name \in Names,
         freeinode_ts' = [freeinode_ts EXCEPT ![i] = "TAKEN"],
         dir' = [dir EXCEPT ![e] = [d_name |-> name, d_inumber |-> i]]
  PROVE  /\ Listed' = Listed \cup {name}
         /\ Lookup(name)' = i /\ NameOf(i)' = name
         /\ \A n \in Listed : n # name => Lookup(n)' = Lookup(n)
         /\ \A j \in LiveFiles : j # i => NameOf(j)' = NameOf(j)
<1>T. TypeOK
  BY DEF Sound, IInv
<1>1. UsedEntries' = UsedEntries \cup {e}
  BY <1>T, EnterName
<1>2. /\ e \in Entries /\ e \notin UsedEntries
      /\ dir'[e] = [d_name |-> name, d_inumber |-> i]
      /\ \A f \in UsedEntries : f \in Entries /\ dir'[f] = dir[f]
  BY <1>T DEF EmptyEntries, UsedEntries, TypeOK
<1>3. \A f \in UsedEntries' : /\ Lookup(dir[f].d_name)' = dir'[f].d_inumber
                              /\ NameOf(dir[f].d_inumber)' = dir'[f].d_name
  BY EntriesFoundAfter DEF EntriesFound
<1>4. \A f \in UsedEntries : /\ Lookup(dir[f].d_name)' = dir[f].d_inumber
                             /\ Lookup(dir[f].d_name) = dir[f].d_inumber
                             /\ NameOf(dir[f].d_inumber)' = dir[f].d_name
                             /\ NameOf(dir[f].d_inumber) = dir[f].d_name
  <2> TAKE f \in UsedEntries
  <2>1. f \in UsedEntries' /\ dir'[f] = dir[f]
    BY <1>1, <1>2
  <2> QED
    BY <1>3, <2>1, EntryFound
<1>5. Lookup(name)' = i /\ NameOf(i)' = name
  <2>1. e \in UsedEntries' /\ dir'[e].d_name = name /\ dir'[e].d_inumber = i
    BY <1>1, <1>2
  <2> QED
    BY <1>3, <2>1
<1>6. Listed' = Listed \cup {name}
  BY <1>1, <1>2 DEF Listed
<1>7. \A n \in Listed : Lookup(n)' = Lookup(n)
  BY <1>2, <1>4 DEF Listed
<1>8. \A j \in LiveFiles : NameOf(j)' = NameOf(j)
  BY <1>2, <1>4 DEF Sound, IInv, DirectorySound
<1> QED
  BY <1>5, <1>6, <1>7, <1>8

\* A name that is removed leaves the others as they are.
LEMMA NameRemoved ==
  ASSUME Sound, Sound', NEW i \in LiveFiles, NEW e \in UsedEntries,
         dir[e].d_inumber = i,
         freeinode_ts' = [freeinode_ts EXCEPT ![i] = "FREE"],
         dir' = [dir EXCEPT ![e] = [d_name |-> NoName, d_inumber |-> -1]]
  PROVE  /\ Listed' = Listed \ {dir[e].d_name}
         /\ \A n \in Listed' : Lookup(n)' = Lookup(n)
         /\ \A j \in LiveFiles \ {i} : NameOf(j)' = NameOf(j)
<1>T. TypeOK
  BY DEF Sound, IInv
<1>1. UsedEntries' = UsedEntries \ {e}
  BY <1>T, RemoveName
<1>2. \A f \in UsedEntries \ {e} : f \in Entries /\ dir'[f] = dir[f]
  BY <1>T DEF UsedEntries, TypeOK
<1>3. \A f \in UsedEntries' : /\ Lookup(dir[f].d_name)' = dir'[f].d_inumber
                              /\ NameOf(dir[f].d_inumber)' = dir'[f].d_name
  BY EntriesFoundAfter DEF EntriesFound
<1>4. \A f \in UsedEntries' : /\ dir'[f] = dir[f]
                              /\ Lookup(dir[f].d_name)' = dir[f].d_inumber
                              /\ Lookup(dir[f].d_name) = dir[f].d_inumber
                              /\ NameOf(dir[f].d_inumber)' = dir[f].d_name
                              /\ NameOf(dir[f].d_inumber) = dir[f].d_name
  <2> TAKE f \in UsedEntries'
  <2>1. f \in UsedEntries /\ dir'[f] = dir[f]
    BY <1>1, <1>2
  <2> QED
    BY <1>3, <2>1, EntryFound
<1>5. \A f \in UsedEntries : f # e => dir[f].d_name # dir[e].d_name
  BY DEF Sound, IInv, DirectorySound
<1>6. Listed' = Listed \ {dir[e].d_name}
  BY <1>1, <1>4, <1>5 DEF Listed
<1>7. \A n \in Listed' : Lookup(n)' = Lookup(n)
  BY <1>4 DEF Listed
<1>8. \A j \in LiveFiles \ {i} : NameOf(j)' = NameOf(j)
  <2>1. \A j \in LiveFiles \ {i} : \E f \in UsedEntries' : dir[f].d_inumber = j
    BY <1>1 DEF Sound, IInv, DirectorySound
  <2> QED
    BY <1>4, <2>1
<1> QED
  BY <1>6, <1>7, <1>8

-----------------------------------------------------------------------------
(* Blocks and their bytes *)

USE FSAssumption DEF Inodes, Blocks, Handles, Entries, Addresses

\* Blocks are laid out one after the other.
LEMMA NextBlock ==
  ASSUME NEW m \in Nat, NEW b \in Nat, NEW c \in Nat, b < c
  PROVE  b * m + m <= c * m
<1>1. PICK d \in Nat : c = b + 1 + d
  <2>1. c - b - 1 \in Nat /\ c = b + 1 + (c - b - 1)
    OBVIOUS
  <2> QED
    BY <2>1
<1>2. c * m = b * m + m + d * m
  BY <1>1
<1>3. d * m \in Nat /\ b * m \in Nat
  OBVIOUS
<1> QED
  BY <1>2, <1>3

\* The bytes of a block have addresses,
LEMMA InMemory ==
  ASSUME NEW b \in Blocks, NEW k \in 0 .. BLOCK_SIZE - 1
  PROVE  b * BLOCK_SIZE + k \in Addresses
<1>1. b * BLOCK_SIZE + BLOCK_SIZE <= DATA_BLOCKS * BLOCK_SIZE
  BY NextBlock
<1>2. b * BLOCK_SIZE \in Nat /\ DATA_BLOCKS * BLOCK_SIZE \in Nat
  OBVIOUS
<1> QED
  BY <1>1, <1>2

\* and those of two blocks have different ones.
LEMMA BlocksApart ==
  ASSUME NEW b \in Blocks, NEW c \in Blocks, b # c,
         NEW j \in 0 .. BLOCK_SIZE - 1, NEW k \in 0 .. BLOCK_SIZE - 1
  PROVE  b * BLOCK_SIZE + j # c * BLOCK_SIZE + k
<1>1. b * BLOCK_SIZE \in Nat /\ c * BLOCK_SIZE \in Nat
  OBVIOUS
<1>2. CASE b < c
  <2>1. b * BLOCK_SIZE + BLOCK_SIZE <= c * BLOCK_SIZE
    BY <1>2, NextBlock
  <2> QED
    BY <1>1, <2>1
<1>3. CASE c < b
  <2>1. c * BLOCK_SIZE + BLOCK_SIZE <= b * BLOCK_SIZE
    BY <1>3, NextBlock
  <2> QED
    BY <1>1, <2>1
<1> QED
  BY <1>2, <1>3

\* What tfs_write changes of the bytes of all blocks.
LEMMA BytesWritten ==
  ASSUME TypeOK, NEW h \in Handles, NEW buffer \in Buffers, WriteData(h, buffer),
         NEW c \in Blocks, NEW k \in 0 .. BLOCK_SIZE - 1
  PROVE  ByteAt(c, k)' =
           IF c = BlockFor(h) /\ k \in Offset(h) .. Offset(h) + ToWrite(h, Len(buffer)) - 1
             THEN buffer[k - Offset(h) + 1] ELSE ByteAt(c, k)
<1> DEFINE n == ToWrite(h, Len(buffer))
           b == BlockFor(h)
           o == Offset(h)
           base == b * BLOCK_SIZE
           a == c * BLOCK_SIZE + k
<1>1. n \in 1 .. Len(buffer) /\ b \in Blocks /\ Len(buffer) \in 1 .. MaxLen
  BY BufferTyped DEF WriteData, valid_block_number
<1>2. o \in Nat /\ o + n <= BLOCK_SIZE
  BY <1>1, WriteFits, HandleTyped
<1>3. a \in Addresses /\ base \in Nat
  BY <1>1, InMemory
<1>4. fs_data' = [x \in Addresses |-> IF x \in base + o .. base + o + n - 1
                                        THEN buffer[x - (base + o) + 1] ELSE fs_data[x]]
  BY DEF WriteData
<1>5. ByteAt(c, k)' = fs_data'[a] /\ ByteAt(c, k) = fs_data[a]
  BY <1>3 DEF ByteAt
<1>6. CASE c = b
  <2>1. a = base + k
    BY <1>6
  <2> HIDE DEF a, base, n, o, b
  <2>2. a \in base + o .. base + o + n - 1 <=> k \in o .. o + n - 1
    BY <1>1, <1>2, <1>3, <2>1
  <2>3. a - (base + o) + 1 = k - o + 1
    BY <1>2, <1>3, <2>1
  <2> QED
    BY <1>3, <1>4, <1>5, <1>6, <2>2, <2>3 DEF b, n, o
<1>7. CASE c # b
  <2>1. \A j \in 0 .. BLOCK_SIZE - 1 : a # base + j
    BY <1>1, <1>7, BlocksApart
  <2> HIDE DEF a, base, n, o
  <2>2. a \notin base + o .. base + o + n - 1
    <3>1. ASSUME a \in base + o .. base + o + n - 1 PROVE FALSE
      <4>1. a - base \in 0 .. BLOCK_SIZE - 1 /\ a = base + (a - base)
        BY <1>1, <1>2, <1>3, <3>1
      <4> QED
        BY <2>1, <4>1
    <3> QED
      BY <3>1
  <2> QED
    BY <1>3, <1>4, <1>5, <1>7, <2>2
<1> QED
  BY <1>6, <1>7

Cell == Bytes \cup {Junk}

\* A block's bytes are what the memory holds.
LEMMA ByteTyped ==
  ASSUME TypeOK, NEW c \in Blocks, NEW k \in 0 .. BLOCK_SIZE - 1
  PROVE  ByteAt(c, k) \in Cell
BY InMemory DEF ByteAt, TypeOK, Cell

\* A file's size and block.
LEMMA FileTyped ==
  ASSUME Sound, NEW i \in LiveFiles
  PROVE  /\ inode_table[i].i_size \in 0 .. BLOCK_SIZE
         /\ inode_table[i].i_size > 0 => BlockOf(i) \in Blocks
<1>1. inode_table[i] \in [i_size : 0 .. BLOCK_SIZE, i_data_block : Blocks \cup {-1}]
  BY DEF Sound, IInv, TypeOK, LiveFiles
<1>2. inode_table[i].i_size > 0 => BlockOf(i) \in Blocks
  BY DEF Sound, IInv, LiveBlocksExclusive, HasBlock
<1> QED
  BY <1>1, <1>2

\* A file is a sequence of its size, read off its block.
LEMMA ContentsTyped ==
  ASSUME Sound, NEW i \in LiveFiles
  PROVE  /\ Contents(i) \in Seq(Cell)
         /\ Len(Contents(i)) = inode_table[i].i_size
         /\ \A k \in 1 .. inode_table[i].i_size :
              Contents(i)[k] = ByteAt(BlockOf(i), k - 1)
<1> DEFINE size == inode_table[i].i_size
           e(k) == ByteAt(BlockOf(i), k - 1)
<1>1. size \in 0 .. BLOCK_SIZE /\ (size > 0 => BlockOf(i) \in Blocks)
  BY FileTyped
<1>2. \A k \in 1 .. size : e(k) \in Cell
  <2> TAKE k \in 1 .. size
  <2>1. k - 1 \in 0 .. BLOCK_SIZE - 1 /\ BlockOf(i) \in Blocks
    BY <1>1
  <2> QED
    BY <2>1, ByteTyped DEF Sound, IInv
<1>3. Contents(i) = [k \in 1 .. size |-> e(k)]
  BY DEF Contents
<1> HIDE DEF e, size
<1>4. [k \in 1 .. size |-> e(k)] \in [1 .. size -> Cell]
  BY <1>2
<1>5. Contents(i) \in Seq(Cell) /\ Len(Contents(i)) = size
  BY <1>1, <1>3, <1>4
<1>6. \A k \in 1 .. size : Contents(i)[k] = e(k)
  BY <1>3
<1> QED
  BY <1>5, <1>6 DEF e, size

\* The same of the files after a step.
ContentsSound == \A i \in LiveFiles :
  /\ Contents(i) \in Seq(Cell)
  /\ Len(Contents(i)) = inode_table[i].i_size
  /\ \A k \in 1 .. inode_table[i].i_size : Contents(i)[k] = ByteAt(BlockOf(i), k - 1)

LEMMA ContentsSoundAfter == Sound' => ContentsSound'
<1>1. Sound => ContentsSound
  BY ContentsTyped DEF ContentsSound
<1> QED
  BY <1>1, PTL

\* A file nothing is written to keeps its contents.
LEMMA SameContents ==
  ASSUME UNCHANGED fs_data, NEW i, inode_table'[i] = inode_table[i]
  PROVE  Contents(i)' = Contents(i)
BY DEF Contents, ByteAt, BlockOf

\* What FileStore says a write leaves, byte by byte.
Overwritten(w, T, content, o, data) ==
  /\ w \in Seq(T)
  /\ Len(w) = IF o + Len(data) > Len(content) THEN o + Len(data) ELSE Len(content)
  /\ \A k \in 1 .. Len(w) :
       w[k] = IF k \in o + 1 .. o + Len(data) THEN data[k - o] ELSE content[k]

LEMMA OverwriteBytes ==
  ASSUME NEW T, NEW content \in Seq(T), NEW data \in Seq(T), NEW o \in 0 .. Len(content)
  PROVE  Overwritten(Store!Overwrite(content, o, data), T, content, o, data)
<1>1. Len(content) \in Nat /\ Len(data) \in Nat /\ \A k \in 1 .. Len(content) : content[k] \in T
  BY ElementOfSeq, LenProperties
<1>e. PICK e \in Nat : e = o + Len(data)
  BY <1>1
<1> DEFINE s == SubSeq(content, 1, o)
           t == SubSeq(content, e + 1, Len(content))
           w == Store!Overwrite(content, o, data)
<1>2. s \in Seq(T) /\ Len(s) = o /\ \A k \in 1 .. o : s[k] = content[k]
  <2>1. \A k \in 1 .. o : content[k] \in T
    BY <1>1
  <2> QED
    BY <1>1, <2>1, SubSeqProperties
<1>3. /\ t \in Seq(T) /\ Len(t) = IF e + 1 <= Len(content) THEN Len(content) - e ELSE 0
      /\ \A k \in 1 .. Len(content) - e : t[k] = content[e + k]
  <2>1. \A k \in e + 1 .. Len(content) : content[k] \in T
    BY <1>1
  <2> QED
    BY <1>1, <2>1, SubSeqProperties
<1> DEFINE u == s \o data
<1>4. w = u \o t
  BY <1>e DEF Store!Overwrite
<1>5. /\ u \in Seq(T) /\ Len(u) = e
      /\ \A k \in 1 .. e : u[k] = IF k <= o THEN s[k] ELSE data[k - o]
  <2> HIDE DEF s, w
  <2> QED
    BY <1>2, <1>e, ConcatProperties
<1>E. e \in Nat /\ e >= o /\ o \in Nat /\ Len(t) \in Nat
  BY <1>1, <1>3, <1>e
<1>L. Len(t) = IF e + 1 <= Len(content) THEN Len(content) - e ELSE 0
  BY <1>3
<1> HIDE DEF s, t, w, u
<1>6. /\ w \in Seq(T) /\ Len(w) = e + Len(t)
      /\ \A k \in 1 .. e + Len(t) : w[k] = IF k <= e THEN u[k] ELSE t[k - e]
  <2>1. u \o t \in Seq(T) /\ Len(u \o t) = Len(u) + Len(t)
        /\ \A k \in 1 .. Len(u) + Len(t) : (u \o t)[k] = IF k <= Len(u) THEN u[k] ELSE t[k - Len(u)]
    <3>1. u \in Seq(T) /\ t \in Seq(T)
      BY <1>3, <1>5
    <3> QED
      BY <3>1, ConcatProperties, Zenon
  <2> QED
    BY <1>4, <1>5, <2>1
<1>C. PICK c \in Nat, l \in Nat : c = Len(content) /\ l = Len(t)
  BY <1>1, <1>E
<1>W. Len(w) = e + l
  BY <1>C, <1>6
<1>7. \A k \in 1 .. Len(w) : w[k] = IF k \in o + 1 .. e THEN data[k - o] ELSE content[k]
  <2> TAKE k \in 1 .. Len(w)
  <2>0. k \in Nat /\ k >= 1 /\ k <= e + l
    BY <1>E, <1>C, <1>W
  <2>1. CASE k <= o
    BY <1>2, <1>5, <1>6, <1>E, <2>0, <2>1
  <2>2. CASE k \in o + 1 .. e
    BY <1>5, <1>6, <1>E, <2>0, <2>2
  <2>3. CASE k > e
    <3>1. k - e \in 1 .. Len(t) /\ Len(t) = Len(content) - e /\ e + (k - e) = k
      <4>1. l = IF e + 1 <= c THEN c - e ELSE 0
        BY <1>L, <1>C
      <4>2. k - e \in 1 .. l /\ l = c - e /\ e + (k - e) = k
        BY <1>E, <4>1, <2>0, <2>3
      <4> QED
        BY <1>C, <4>2
    <3>2. w[k] = t[k - e]
      BY <1>E, <1>6, <2>3
    <3>3. t[k - e] = content[k]
      BY <1>3, <3>1
    <3> QED
      BY <1>E, <2>3, <3>2, <3>3
  <2> QED
    BY <1>E, <2>0, <2>1, <2>2, <2>3
<1>8. Len(w) = IF e > Len(content) THEN e ELSE Len(content)
  <2>1. l = IF e + 1 <= c THEN c - e ELSE 0
    BY <1>L, <1>C
  <2>2. e + l = IF e > c THEN e ELSE c
    BY <1>E, <2>1
  <2> QED
    BY <1>C, <1>W, <2>2
<1> QED
  <2>1. w \in Seq(T) /\ Len(w) = IF o + Len(data) > Len(content) THEN o + Len(data) ELSE Len(content)
    BY <1>6, <1>8, <1>e
  <2>2. \A k \in 1 .. Len(w) : w[k] = IF k \in o + 1 .. o + Len(data) THEN data[k - o] ELSE content[k]
    BY <1>7, <1>e
  <2>3. Overwritten(w, T, content, o, data)
    BY <2>1, <2>2, Zenon DEF Overwritten
  <2> QED
    BY <2>3 DEF w

\* An open handle is that of a file, and not past the end of it.
LEMMA HandleSound ==
  ASSUME Sound, NEW h \in Handles, IsOpen(h)
  PROVE  /\ Inum(h) \in LiveFiles /\ Inum(h) \in Inodes
         /\ Size(h) \in 0 .. BLOCK_SIZE /\ Offset(h) \in 0 .. Size(h)
         /\ Size(h) = inode_table[Inum(h)].i_size
<1>1. Inum(h) \in LiveFiles /\ Offset(h) <= Size(h)
  BY DEF Sound, OpenFilesLive, OffsetsInFile
<1>2. Inum(h) \in Inodes /\ Offset(h) \in 0 .. MaxOffset /\ Size(h) \in 0 .. BLOCK_SIZE
  BY HandleTyped DEF Sound, IInv
<1> QED
  BY <1>1, <1>2 DEF Size

\* What of a buffer is written: what fits behind the offset.
LEMMA WritesWhatFits ==
  ASSUME Sound, NEW h \in Handles, IsOpen(h), NEW len \in 1 .. MaxLen
  PROVE  /\ ToWrite(h, len) = Store!Least(len, BLOCK_SIZE - Offset(h))
         /\ ToWrite(h, len) \in 0 .. len
<1>1. Offset(h) \in 0 .. BLOCK_SIZE
  BY HandleSound
<1>2. (BLOCK_SIZE - Offset(h)) % Word = BLOCK_SIZE - Offset(h)
  <2>1. BLOCK_SIZE - Offset(h) \in 0 .. Word - 1
    BY <1>1
  <2> QED
    BY <2>1, ModSmall
<1> QED
  BY <1>1, <1>2 DEF ToWrite, Store!Least

\* A buffer is a sequence of bytes.
LEMMA BufferSeq ==
  ASSUME NEW buffer \in Buffers
  PROVE  buffer \in Seq(Cell) /\ Len(buffer) \in 1 .. MaxLen
<1>1. PICK n \in 1 .. MaxLen : buffer \in [1 .. n -> Bytes]
  BY DEF Buffers
<1>2. buffer \in [1 .. n -> Cell]
  BY <1>1 DEF Cell
<1> QED
  BY <1>1, <1>2

\* The block a write goes to is no other file's.
LEMMA BlockForOwn ==
  ASSUME Sound, NEW h \in Handles, IsOpen(h), BlockFor(h) \in Blocks,
         NEW j \in LiveFiles, j # Inum(h), inode_table[j].i_size > 0
  PROVE  BlockOf(j) # BlockFor(h)
<1>1. BlockOf(j) \in Blocks /\ free_blocks[BlockOf(j)] = "TAKEN"
  BY DEF Sound, IInv, LiveBlocksExclusive, HasBlock
<1>2. Inum(h) \in LiveFiles
  BY HandleSound
<1>3. CASE Size(h) > 0
  <2>1. BlockFor(h) = BlockOf(Inum(h))
    BY <1>3 DEF BlockFor, Block, BlockOf
  <2> QED
    BY <1>2, <1>3, <2>1 DEF Sound, IInv, LiveBlocksExclusive, HasBlock, Size
<1>4. CASE Size(h) = 0
  <2>1. free_blocks[BlockFor(h)] = "FREE"
    BY <1>4, BlockForFinds DEF Sound, IInv
  <2> QED
    BY <1>1, <2>1
<1> QED
  BY <1>3, <1>4, HandleSound

\* A write leaves the other files as they are,
LEMMA OthersKept ==
  ASSUME Sound, NEW h \in Handles, NEW buffer \in Buffers, WriteData(h, buffer),
         NEW j \in LiveFiles, j # Inum(h)
  PROVE  Contents(j)' = Contents(j)
<1>T. TypeOK
  BY DEF Sound, IInv
<1>1. IsOpen(h) /\ BlockFor(h) \in Blocks
  BY DEF WriteData, valid_block_number
<1>2. inode_table'[j] = inode_table[j]
  BY <1>T DEF WriteData, TypeOK, LiveFiles
<1> DEFINE size == inode_table[j].i_size
<1>3. size \in 0 .. BLOCK_SIZE /\ (size > 0 => BlockOf(j) \in Blocks)
  BY FileTyped
<1>4. \A k \in 1 .. size : ByteAt(BlockOf(j), k - 1)' = ByteAt(BlockOf(j), k - 1)
  <2> TAKE k \in 1 .. size
  <2>1. BlockOf(j) \in Blocks /\ BlockOf(j) # BlockFor(h) /\ k - 1 \in 0 .. BLOCK_SIZE - 1
    BY <1>1, <1>3, BlockForOwn
  <2>2. BlockOf(j)' = BlockOf(j)
    BY <1>2 DEF BlockOf
  <2> QED
    BY <1>T, <2>1, <2>2, BytesWritten
<1>5. inode_table'[j].i_size = size
  BY <1>2
<1> QED
  BY <1>4, <1>5 DEF Contents

\* and overwrites its own from the handle's offset on.
LEMMA OwnOverwritten ==
  ASSUME Sound, Sound', NEW h \in Handles, NEW buffer \in Buffers, WriteData(h, buffer),
         NEW i, i = Inum(h)
  PROVE  Contents(i)' = Store!Overwrite(Contents(i), Offset(h),
                                        SubSeq(buffer, 1, ToWrite(h, Len(buffer))))
<1>n. PICK n : n = ToWrite(h, Len(buffer))
  OBVIOUS
<1>b. PICK b : b = BlockFor(h)
  OBVIOUS
<1>o. PICK o : o = Offset(h)
  OBVIOUS
<1> DEFINE data == SubSeq(buffer, 1, n)
           size == inode_table[i].i_size
           w == Store!Overwrite(Contents(i), o, data)
<1>T. TypeOK
  BY DEF Sound, IInv
<1>1. IsOpen(h) /\ b \in Blocks /\ n \in 1 .. Len(buffer)
  BY <1>n, <1>b DEF WriteData, valid_block_number
<1>2. i \in LiveFiles /\ i \in Inodes /\ size \in 0 .. BLOCK_SIZE /\ o \in 0 .. size /\ size = Size(h)
  BY <1>1, <1>o, HandleSound
<1>3. buffer \in Seq(Cell) /\ Len(buffer) \in 1 .. MaxLen
  BY BufferSeq
<1>4. o + n <= BLOCK_SIZE
  BY <1>T, <1>1, <1>3, <1>n, <1>o, WriteFits
<1>5. data \in Seq(Cell) /\ Len(data) = n /\ \A k \in 1 .. n : data[k] = buffer[k]
  <2>1. \A k \in 1 .. n : buffer[k] \in Cell
    BY <1>1, <1>3, ElementOfSeq
  <2>2. /\ SubSeq(buffer, 1, n) \in Seq(Cell)
        /\ Len(SubSeq(buffer, 1, n)) = IF 1 <= n THEN n - 1 + 1 ELSE 0
        /\ \A k \in 1 .. n - 1 + 1 : SubSeq(buffer, 1, n)[k] = buffer[1 + k - 1]
    BY <1>1, <1>3, <2>1, SubSeqProperties
  <2> QED
    BY <1>1, <1>3, <2>2
<1>6. /\ Contents(i) \in Seq(Cell) /\ Len(Contents(i)) = size
      /\ \A k \in 1 .. size : Contents(i)[k] = ByteAt(BlockOf(i), k - 1)
  BY <1>2, ContentsTyped
<1>7. /\ inode_table'[i].i_size = IF o + n > size THEN o + n ELSE size
      /\ inode_table'[i].i_data_block = b
  BY <1>T, <1>2, <1>n, <1>b, <1>o DEF WriteData, TypeOK
<1> HIDE DEF data, size, w
<1>8. /\ w \in Seq(Cell)
      /\ Len(w) = IF o + n > size THEN o + n ELSE size
      /\ \A k \in 1 .. Len(w) : w[k] = IF k \in o + 1 .. o + n THEN data[k - o]
                                                               ELSE Contents(i)[k]
  <2>1. Contents(i) \in Seq(Cell) /\ data \in Seq(Cell) /\ o \in 0 .. Len(Contents(i))
    BY <1>2, <1>5, <1>6
  <2>2. /\ w \in Seq(Cell)
        /\ Len(w) = IF o + Len(data) > Len(Contents(i)) THEN o + Len(data)
                                                        ELSE Len(Contents(i))
        /\ \A k \in 1 .. Len(w) : w[k] = IF k \in o + 1 .. o + Len(data) THEN data[k - o]
                                                                       ELSE Contents(i)[k]
    <3>1. Overwritten(w, Cell, Contents(i), o, data)
      BY <2>1, OverwriteBytes DEF w
    <3> QED
      BY <3>1 DEF Overwritten
  <2> QED
    BY <1>5, <1>6, <2>2
<1>9. /\ Contents(i)' \in Seq(Cell) /\ Len(Contents(i)') = Len(w)
      /\ \A k \in 1 .. Len(w) : Contents(i)'[k] = ByteAt(b, k - 1)'
  <2>1. i \in LiveFiles'
    BY <1>2 DEF WriteData, LiveFiles
  <2>2. b = BlockOf(i)'
    BY <1>7 DEF BlockOf
  <2>3. /\ Contents(i)' \in Seq(Cell) /\ Len(Contents(i)') = inode_table'[i].i_size
        /\ \A k \in 1 .. inode_table'[i].i_size : Contents(i)'[k] = ByteAt(BlockOf(i), k - 1)'
    BY <2>1, ContentsSoundAfter DEF ContentsSound
  <2> QED
    BY <1>7, <1>8, <2>2, <2>3
<1>10. ASSUME NEW k \in 1 .. Len(w) PROVE Contents(i)'[k] = w[k]
  <2>1. k - 1 \in 0 .. BLOCK_SIZE - 1 /\ k \in Nat
    <3>1. PICK l \in Nat : l = Len(w)
      BY <1>8, LenProperties
    <3>2. l <= BLOCK_SIZE
      BY <1>2, <1>4, <1>8, <3>1
    <3>3. BLOCK_SIZE \in Nat /\ k \in 1 .. l
      BY <3>1
    <3> QED
      BY <3>2, <3>3
  <2>2. ByteAt(b, k - 1)' = IF k - 1 \in o .. o + n - 1 THEN buffer[k - 1 - o + 1]
                                                        ELSE ByteAt(b, k - 1)
    BY <1>1, <1>T, <1>n, <1>b, <1>o, <2>1, BytesWritten
  <2>3. CASE k \in o + 1 .. o + n
    <3>1. k - 1 \in o .. o + n - 1 /\ k - 1 - o + 1 = k - o /\ k - o \in 1 .. n
      BY <1>1, <1>2, <1>3, <2>1, <2>3
    <3> QED
      BY <1>5, <1>8, <1>9, <2>2, <2>3, <3>1
  <2>4. CASE k \notin o + 1 .. o + n
    <3>1. k \in 1 .. size
      <4>1. Len(w) = (IF o + n > size THEN o + n ELSE size) /\ k <= Len(w) /\ n \in Nat
        BY <1>1, <1>2, <1>3, <1>8
      <4> QED
        BY <1>2, <2>1, <2>4, <4>1
    <3>2. b = BlockOf(i)
      BY <1>2, <1>b, <3>1 DEF BlockFor, Block, BlockOf
    <3>3. k - 1 \notin o .. o + n - 1
      BY <1>1, <1>2, <1>3, <2>1, <2>4
    <3> QED
      BY <1>6, <1>8, <1>9, <2>2, <2>4, <3>1, <3>2, <3>3
  <2> QED
    BY <2>3, <2>4
<1>11. Contents(i)' = w
  BY <1>8, <1>9, <1>10, SeqEqual
<1> QED
  BY <1>11, <1>n, <1>o DEF w, data

-----------------------------------------------------------------------------
(* What FileStore sees of a step *)

\* A handle is seen as open if it is, with the name of its file.
LEMMA HandleSeen ==
  ASSUME Sound, NEW h \in Handles
  PROVE  /\ Opened[h] # NoName <=> IsOpen(h)
         /\ IsOpen(h) => /\ Opened[h] = [name |-> NameOf(Inum(h)), offset |-> Offset(h)]
                         /\ NameOf(Inum(h)) \in Listed
                         /\ Files[NameOf(Inum(h))] = Contents(Inum(h))
<1>1. CASE IsOpen(h)
  <2>1. Inum(h) \in LiveFiles /\ Offset(h) \in Nat
    BY <1>1, HandleSound
  <2>2. /\ NameOf(Inum(h)) \in Listed /\ NameOf(Inum(h)) \in Names
        /\ Lookup(NameOf(Inum(h))) = Inum(h)
    BY <2>1, LiveNamed
  <2>3. Opened[h] = [name |-> NameOf(Inum(h)), offset |-> Offset(h)]
    BY <1>1 DEF Opened, OpenAs
  <2>4. Opened[h] \in [name : Names, offset : Nat]
    BY <2>1, <2>2, <2>3
  <2> QED
    BY <1>1, <2>2, <2>3, <2>4, NoNameAssumption DEF Files
<1>2. CASE ~IsOpen(h)
  BY <1>2 DEF Opened, OpenAs
<1> QED
  BY <1>1, <1>2

\* The handle add_to_open_file_table takes, if there is one.
LEMMA HandleTaken ==
  ASSUME Sound, NEW i \in Inodes, NEW o \in 0 .. MaxOffset, AddToOpenFileTable(i, o),
         \A j \in LiveFiles : NameOf(j)' = NameOf(j)
  PROVE  \/ \E h \in Handles :
              /\ Returns(h, <<>>) /\ ~IsOpen(h)
              /\ Opened' = [Opened EXCEPT ![h] = [name |-> NameOf(i)', offset |-> o]]
         \/ /\ Returns(-1, <<>>) /\ \A h \in Handles : IsOpen(h)
            /\ Opened' = Opened
<1>1. PICK h : h = FirstFree(free_open_file_entries)
  OBVIOUS
<1>T. TypeOK
  BY DEF Sound, IInv
<1>2. \/ h = -1 /\ \A k \in Handles : free_open_file_entries[k] = "TAKEN"
      \/ h \in Handles /\ free_open_file_entries[h] = "FREE"
  BY <1>T, <1>1, FirstFreeFinds DEF TypeOK
<1>3. Returns(h, <<>>)
  BY <1>1 DEF AddToOpenFileTable
<1>5. CASE h = -1
  <2>1. UNCHANGED openFiles
    BY <1>1, <1>5 DEF AddToOpenFileTable
  <2>2. \A k \in Handles : OpenAs(k)' = OpenAs(k)
    <3> TAKE k \in Handles
    <3>1. IsOpen(k)' = IsOpen(k) /\ Inum(k)' = Inum(k) /\ Offset(k)' = Offset(k)
      BY <2>1 DEF openFiles, IsOpen, Inum, Offset
    <3>2. IsOpen(k) => Inum(k) \in LiveFiles
      BY HandleSound
    <3> QED
      BY <3>1, <3>2 DEF OpenAs
  <2>3. Opened' = Opened
    BY <2>2 DEF Opened
  <2> QED
    BY <1>2, <1>3, <1>5, <2>3 DEF IsOpen
<1>6. CASE h # -1
  <2>1. /\ free_open_file_entries' = [free_open_file_entries EXCEPT ![h] = "TAKEN"]
        /\ open_file_table' = [open_file_table EXCEPT ![h] =
                                 [of_inumber |-> i, of_offset |-> o]]
    BY <1>1, <1>6 DEF AddToOpenFileTable
  <2>2. h \in Handles /\ ~IsOpen(h)
    BY <1>2, <1>6 DEF IsOpen
  <2>3. OpenAs(h)' = [name |-> NameOf(i)', offset |-> o]
    <3>1. IsOpen(h)' /\ Inum(h)' = i /\ Offset(h)' = o
      BY <1>T, <2>1, <2>2 DEF TypeOK, IsOpen, Inum, Offset
    <3> QED
      BY <3>1 DEF OpenAs
  <2>4. \A k \in Handles \ {h} : OpenAs(k)' = OpenAs(k)
    <3> TAKE k \in Handles \ {h}
    <3>1. IsOpen(k)' = IsOpen(k) /\ Inum(k)' = Inum(k) /\ Offset(k)' = Offset(k)
      BY <1>T, <2>1, <2>2 DEF TypeOK, IsOpen, Inum, Offset
    <3>2. IsOpen(k) => Inum(k) \in LiveFiles
      BY HandleSound
    <3> QED
      BY <3>1, <3>2 DEF OpenAs
  <2>5. Opened' = [Opened EXCEPT ![h] = [name |-> NameOf(i)', offset |-> o]]
    BY <2>2, <2>3, <2>4 DEF Opened
  <2> QED
    BY <1>3, <2>2, <2>5
<1> QED
  BY <1>5, <1>6

\* Files are seen unchanged if the directory and what is in them are.
LEMMA FilesSame ==
  ASSUME Sound, UNCHANGED dir, \A j \in LiveFiles : Contents(j)' = Contents(j)
  PROVE  Files' = Files
<1>1. Listed' = Listed /\ \A name : Lookup(name)' = Lookup(name)
  BY SameNames
<1>2. \A name \in Listed : name \in Names /\ Lookup(name) \in LiveFiles
  BY ListedFound DEF Listed, Sound, NamesGiven
<1> QED
  BY <1>1, <1>2 DEF Files

\* Handles are seen unchanged if they are and no name has changed.
LEMMA HandlesSame ==
  ASSUME Sound, UNCHANGED <<openFiles, dir>>
  PROVE  Opened' = Opened
<1>1. \A i : NameOf(i)' = NameOf(i)
  BY SameNames
<1>2. \A h \in Handles : IsOpen(h)' = IsOpen(h) /\ Inum(h)' = Inum(h) /\ Offset(h)' = Offset(h)
  BY DEF openFiles, IsOpen, Inum, Offset
<1> QED
  BY <1>1, <1>2 DEF Opened, OpenAs

\* A call that fails and changes nothing.
LEMMA NothingSeen ==
  ASSUME Sound, UNCHANGED <<inodes, blocks, dir, openFiles>>
  PROVE  Files' = Files /\ Opened' = Opened
<1>1. \A j \in LiveFiles : Contents(j)' = Contents(j)
  BY SameContents DEF inodes, blocks
<1> QED
  BY <1>1, FilesSame, HandlesSame

\* The actions of FileStore in terms of the mapping.
LEMMA SeenOpen ==
  ASSUME NEW name, NEW mode,
         \/ /\ name \in Listed \/ "CREAT" \in mode
            /\ \/ \E h \in Handles :
                    /\ Returns(h, <<>>) /\ Opened[h] = NoName
                    /\ Opened' = [Opened EXCEPT ![h] =
                         [name |-> name,
                          offset |-> IF "APPEND" \in mode /\ name \in Listed
                                       THEN Len(Files[name]) ELSE 0]]
               \/ /\ Returns(-1, <<>>) /\ \A h \in Handles : Opened[h] # NoName
                  /\ Opened' = Opened
            /\ Files' = [n \in Listed \cup {name} |-> IF n \in Listed THEN Files[n] ELSE <<>>]
         \/ Returns(-1, <<>>) /\ name \notin Listed /\ Files' = Files /\ Opened' = Opened
  PROVE  Store!Open(name, mode)
<1>1. DOMAIN Files = Listed
  BY DEF Files
<1> QED
  BY <1>1 DEF Store!Open, Store!Exists, Store!IsOpen, Store!Returns, Store!Touch, Returns,
              Files, Opened, OpenAs

LEMMA SeenClose ==
  ASSUME NEW h \in Handles,
         \/ /\ Returns(0, <<>>) /\ Opened[h] # NoName
            /\ Opened' = [Opened EXCEPT ![h] = NoName] /\ Files' = Files
         \/ Returns(-1, <<>>) /\ Opened[h] = NoName /\ Files' = Files /\ Opened' = Opened
  PROVE  Store!Close(h)
BY DEF Store!Close, Store!IsOpen, Store!Returns, Returns, Files, Opened, OpenAs

LEMMA SeenWrite ==
  ASSUME NEW h \in Handles, NEW buffer,
         \/ /\ Opened[h] # NoName
            /\ \E name, o, n :
                 /\ name = Opened[h].name /\ o = Opened[h].offset
                 /\ n = Store!Least(Len(buffer), BLOCK_SIZE - o)
                 /\ Returns(n, <<>>)
                 /\ Opened' = [Opened EXCEPT ![h].offset = o + n]
                 /\ Files' = [Files EXCEPT ![name] =
                                Store!Overwrite(Files[name], o, SubSeq(buffer, 1, n))]
         \/ /\ Returns(-1, <<>>)
            /\ Opened[h] # NoName => Files[Opened[h].name] = <<>>
            /\ Files' = Files /\ Opened' = Opened
  PROVE  Store!Write(h, buffer)
<1>1. DOMAIN Files = Listed
  BY DEF Files
<1> QED
  BY <1>1 DEF Store!Write, Store!IsOpen, Store!Returns, Returns, Files, Opened, OpenAs

LEMMA SeenRead ==
  ASSUME NEW h \in Handles, NEW len,
         \/ /\ Opened[h] # NoName
            /\ \E content, o, bytes :
                 /\ content = Files[Opened[h].name] /\ o = Opened[h].offset
                 /\ bytes = SubSeq(content, o + 1, Store!Least(o + len, Len(content)))
                 /\ Returns(Len(bytes), bytes)
                 /\ Opened' = [Opened EXCEPT ![h].offset = o + Len(bytes)]
            /\ Files' = Files
         \/ Returns(-1, <<>>) /\ Opened[h] = NoName /\ Files' = Files /\ Opened' = Opened
  PROVE  Store!Read(h, len)
BY DEF Store!Read, Store!IsOpen, Store!Returns, Returns, Files, Opened, OpenAs

LEMMA SeenUnlink ==
  ASSUME NEW name,
         \/ /\ Returns(0, <<>>) /\ name \in Listed
            /\ \A h \in Handles : Opened[h] # NoName => Opened[h].name # name
            /\ Opened' = Opened
            /\ Files' = [n \in Listed \ {name} |-> Files[n]]
         \/ Returns(-1, <<>>) /\ name \notin Listed /\ Files' = Files /\ Opened' = Opened
  PROVE  Store!Unlink(name)
<1>1. DOMAIN Files = Listed
  BY DEF Files
<1> QED
  BY <1>1 DEF Store!Unlink, Store!Exists, Store!IsOpen, Store!Returns, Returns,
              Files, Opened, OpenAs

-----------------------------------------------------------------------------
(* tfs_open *)

LEMMA OpenExistingSeen ==
  ASSUME Sound, NeverTruncates, NEW name \in Names \cup BadNames, NEW mode \in Modes,
         OpenExisting(name, mode)
  PROVE  Store!Open(name, mode)
<1>1. PICK i : i = Lookup(name)
  OBVIOUS
<1>2. /\ i # -1 /\ i \in LiveFiles /\ i \in Inodes
      /\ name \in Listed /\ NameOf(i) = name
  BY <1>1, ListedFound DEF OpenExisting, LiveFiles
<1>3. PICK size \in 0 .. BLOCK_SIZE : size = inode_table[i].i_size
  BY <1>2, FileTyped
<1>4. PICK o : o = IF "APPEND" \in mode THEN size ELSE 0
  OBVIOUS
<1>5. AddToOpenFileTable(i, o) /\ UNCHANGED <<freeinode_ts, inode_table, fs_data, dir>>
  BY <1>1, <1>3, <1>4 DEF OpenExisting, NeverTruncates
<1>6. o \in 0 .. MaxOffset
  BY <1>4
<1>7. NameOf(i)' = name /\ \A j \in LiveFiles : NameOf(j)' = NameOf(j)
  BY <1>2, <1>5, SameNames
<1>8. Files' = Files
  <2>1. \A j \in LiveFiles : Contents(j)' = Contents(j)
    BY <1>5, SameContents
  <2> QED
    BY <1>5, <2>1, FilesSame
<1>9. Files' = [n \in Listed \cup {name} |-> IF n \in Listed THEN Files[n] ELSE <<>>]
  <2>1. Listed \cup {name} = Listed
    BY <1>2
  <2> QED
    BY <1>8, <2>1 DEF Files
<1>10. o = IF "APPEND" \in mode /\ name \in Listed THEN Len(Files[name]) ELSE 0
  <2>1. Files[name] = Contents(i) /\ Len(Contents(i)) = size
    BY <1>1, <1>2, <1>3, ContentsTyped DEF Files
  <2> QED
    BY <1>2, <1>4, <2>1
<1>11. \/ \E h \in Handles :
            /\ Returns(h, <<>>) /\ ~IsOpen(h)
            /\ Opened' = [Opened EXCEPT ![h] = [name |-> NameOf(i)', offset |-> o]]
       \/ /\ Returns(-1, <<>>) /\ \A h \in Handles : IsOpen(h)
          /\ Opened' = Opened
  BY <1>2, <1>5, <1>6, <1>7, HandleTaken
<1>12. \A h \in Handles : Opened[h] # NoName <=> IsOpen(h)
  BY HandleSeen
<1>13. \/ \E h \in Handles :
            /\ Returns(h, <<>>) /\ Opened[h] = NoName
            /\ Opened' = [Opened EXCEPT ![h] =
                 [name |-> name,
                  offset |-> IF "APPEND" \in mode /\ name \in Listed
                               THEN Len(Files[name]) ELSE 0]]
       \/ /\ Returns(-1, <<>>) /\ \A h \in Handles : Opened[h] # NoName
          /\ Opened' = Opened
  BY <1>7, <1>10, <1>11, <1>12
<1> QED
  BY <1>2, <1>9, <1>13, SeenOpen

\* A file that is created appears empty; a full directory refuses it.
LEMMA OpenNewSeen ==
  ASSUME Sound, Sound', NEW name \in Names \cup BadNames, NEW mode \in Modes,
         OpenNew(name, mode)
  PROVE  Store!Open(name, mode)
<1>T. TypeOK
  BY DEF Sound, IInv
<1>1. PICK i \in Inodes \ {0} :
        /\ freeinode_ts[i] = "FREE"
        /\ inode_table' = [inode_table EXCEPT ![i] = [i_size |-> 0, i_data_block |-> -1]]
        /\ \/ UNCHANGED <<freeinode_ts, dir, free_open_file_entries, open_file_table>>
           \/ \E e \in EmptyEntries :
                /\ freeinode_ts' = [freeinode_ts EXCEPT ![i] = "TAKEN"]
                /\ dir' = [dir EXCEPT ![e] = [d_name |-> name, d_inumber |-> i]]
                /\ AddToOpenFileTable(i, 0)
  BY OpenNewEffect DEF Sound
<1>2. name \in Names /\ "CREAT" \in mode /\ name \notin Listed
  BY ListedFound DEF OpenNew
<1>3. i \notin LiveFiles /\ LiveFiles \in SUBSET Inodes
  BY <1>1 DEF LiveFiles
<1>4. \A j \in LiveFiles : Contents(j)' = Contents(j)
  <2> TAKE j \in LiveFiles
  <2>1. inode_table'[j] = inode_table[j]
    BY <1>T, <1>1, <1>3 DEF TypeOK
  <2> QED
    BY <2>1, SameContents DEF OpenNew, blocks
<1>5. CASE EmptyEntries = {}
  <2>1. Fails /\ UNCHANGED <<dir, openFiles>>
    BY <1>5 DEF OpenNew
  <2>2. Files' = Files /\ Opened' = Opened
    BY <1>4, <2>1, FilesSame, HandlesSame
  <2> QED
    BY <1>2, <2>1, <2>2, SeenOpen DEF Fails
<1>6. CASE EmptyEntries # {}
  <2>0. freeinode_ts' = [freeinode_ts EXCEPT ![FirstFree(freeinode_ts)] = "TAKEN"]
    BY <1>6 DEF OpenNew
  <2>1. FirstFree(freeinode_ts) \in Inodes /\ freeinode_ts[FirstFree(freeinode_ts)] = "FREE"
    BY <1>T, FirstFreeFinds DEF OpenNew, TypeOK
  <2>2. freeinode_ts' # freeinode_ts
    BY <1>T, <2>0, <2>1 DEF TypeOK
  <2>3. PICK e \in EmptyEntries :
          /\ freeinode_ts' = [freeinode_ts EXCEPT ![i] = "TAKEN"]
          /\ dir' = [dir EXCEPT ![e] = [d_name |-> name, d_inumber |-> i]]
          /\ AddToOpenFileTable(i, 0)
    BY <1>1, <2>2
  <2>4. /\ Listed' = Listed \cup {name}
        /\ Lookup(name)' = i /\ NameOf(i)' = name
        /\ \A n \in Listed : n # name => Lookup(n)' = Lookup(n)
        /\ \A j \in LiveFiles : j # i => NameOf(j)' = NameOf(j)
    BY <1>2, <2>3, NewName
  <2>5. Contents(i)' = <<>>
    <3>1. i \in LiveFiles'
      BY <1>T, <2>3 DEF TypeOK, LiveFiles, ROOT_DIR_INUM
    <3>2. Contents(i)' \in Seq(Cell) /\ Len(Contents(i)') = inode_table'[i].i_size
      BY <3>1, ContentsSoundAfter DEF ContentsSound
    <3>3. inode_table'[i].i_size = 0
      BY <1>T, <1>1 DEF TypeOK
    <3> QED
      BY <3>2, <3>3, EmptySeq
  <2>6. Files' = [n \in Listed \cup {name} |-> IF n \in Listed THEN Files[n] ELSE <<>>]
    <3>1. \A n \in Listed : n # name /\ Lookup(n) \in LiveFiles
      BY <1>2, ListedFound DEF Listed, Sound, NamesGiven
    <3>2. \A n \in Listed : Contents(Lookup(n))' = Contents(Lookup(n))
      BY <1>4, <2>4, <3>1
    <3>3. Contents(Lookup(name))' = <<>>
      BY <2>4, <2>5
    <3>4. Files' = [n \in Listed' |-> Contents(Lookup(n))']
      BY DEF Files
    <3> QED
      BY <1>2, <2>4, <3>2, <3>3, <3>4 DEF Files
  <2>7. \/ \E h \in Handles :
             /\ Returns(h, <<>>) /\ ~IsOpen(h)
             /\ Opened' = [Opened EXCEPT ![h] = [name |-> NameOf(i)', offset |-> 0]]
        \/ /\ Returns(-1, <<>>) /\ \A h \in Handles : IsOpen(h)
           /\ Opened' = Opened
    <3>1. \A j \in LiveFiles : NameOf(j)' = NameOf(j)
      BY <1>3, <2>4
    <3> QED
      BY <2>3, <3>1, HandleTaken
  <2>8. \A h \in Handles : Opened[h] # NoName <=> IsOpen(h)
    BY HandleSeen
  <2>9. \/ \E h \in Handles :
             /\ Returns(h, <<>>) /\ Opened[h] = NoName
             /\ Opened' = [Opened EXCEPT ![h] =
                  [name |-> name,
                   offset |-> IF "APPEND" \in mode /\ name \in Listed
                                THEN Len(Files[name]) ELSE 0]]
        \/ /\ Returns(-1, <<>>) /\ \A h \in Handles : Opened[h] # NoName
           /\ Opened' = Opened
    BY <1>2, <2>4, <2>7, <2>8
  <2> QED
    BY <1>2, <2>6, <2>9, SeenOpen
<1> QED
  BY <1>5, <1>6

LEMMA OpenSeen ==
  ASSUME Sound, Sound', NeverTruncates, NEW name \in Names \cup BadNames, NEW mode \in Modes,
         tfs_open(name, mode)
  PROVE  Store!Open(name, mode)
<1>1. CASE OpenRefused(name, mode)
  <2>1. Lookup(name) = -1 /\ Fails /\ UNCHANGED <<inodes, blocks, dir, openFiles>>
    BY <1>1 DEF OpenRefused
  <2>2. name \notin Listed /\ Files' = Files /\ Opened' = Opened
    BY <2>1, ListedFound, NothingSeen
  <2> QED
    BY <2>1, <2>2, SeenOpen DEF Fails
<1> QED
  BY <1>1, OpenExistingSeen, OpenNewSeen DEF tfs_open

-----------------------------------------------------------------------------
(* tfs_close, tfs_write, tfs_read *)

LEMMA CloseSeen ==
  ASSUME Sound, NEW h \in Handles, tfs_close(h)
  PROVE  Store!Close(h)
<1>S. Opened[h] # NoName <=> IsOpen(h)
  BY HandleSeen
<1>1. CASE NotOpen(h)
  <2>1. ~IsOpen(h) /\ Returns(-1, <<>>) /\ Files' = Files /\ Opened' = Opened
    BY <1>1, NothingSeen DEF NotOpen, Fails
  <2> QED
    BY <1>S, <2>1, SeenClose
<1>2. CASE ~NotOpen(h)
  <2>1. /\ IsOpen(h) /\ Returns(0, <<>>)
        /\ free_open_file_entries' = [free_open_file_entries EXCEPT ![h] = "FREE"]
        /\ UNCHANGED <<inodes, blocks, dir, open_file_table>>
    BY <1>2 DEF tfs_close
  <2>2. Files' = Files
    <3>1. \A j \in LiveFiles : Contents(j)' = Contents(j)
      BY <2>1, SameContents DEF inodes, blocks
    <3> QED
      BY <2>1, <3>1, FilesSame
  <2>3. OpenAs(h)' = NoName
    BY <2>1 DEF OpenAs, IsOpen, Sound, IInv, TypeOK
  <2>4. \A k \in Handles \ {h} : OpenAs(k)' = OpenAs(k)
    <3> TAKE k \in Handles \ {h}
    <3>1. IsOpen(k)' = IsOpen(k) /\ Inum(k)' = Inum(k) /\ Offset(k)' = Offset(k)
      BY <2>1 DEF Sound, IInv, TypeOK, IsOpen, Inum, Offset
    <3>2. \A i : NameOf(i)' = NameOf(i)
      BY <2>1, SameNames
    <3> QED
      BY <3>1, <3>2 DEF OpenAs
  <2>5. Opened' = [Opened EXCEPT ![h] = NoName]
    BY <2>3, <2>4 DEF Opened
  <2> QED
    BY <1>S, <2>1, <2>2, <2>5, SeenClose
<1> QED
  BY <1>1, <1>2

\* A handle that moves keeps its file; the others stay where they are.
LEMMA HandleMoved ==
  ASSUME Sound, NEW h \in Handles, IsOpen(h), NEW n \in Nat, UNCHANGED dir,
         open_file_table' = [open_file_table EXCEPT ![h].of_offset = @ + n],
         UNCHANGED free_open_file_entries
  PROVE  Opened' = [Opened EXCEPT ![h].offset = Offset(h) + n]
<1>1. \A i : NameOf(i)' = NameOf(i)
  BY SameNames
<1>2. /\ IsOpen(h)' /\ Inum(h)' = Inum(h) /\ Offset(h)' = Offset(h) + n
      /\ \A k \in Handles \ {h} :
           IsOpen(k)' = IsOpen(k) /\ Inum(k)' = Inum(k) /\ Offset(k)' = Offset(k)
  BY DEF Sound, IInv, TypeOK, IsOpen, Inum, Offset
<1>3. OpenAs(h)' = [name |-> NameOf(Inum(h)), offset |-> Offset(h) + n]
  BY <1>1, <1>2 DEF OpenAs
<1>4. \A k \in Handles \ {h} : OpenAs(k)' = OpenAs(k)
  BY <1>1, <1>2 DEF OpenAs
<1>5. Opened[h] = [name |-> NameOf(Inum(h)), offset |-> Offset(h)]
  BY HandleSeen
<1>6. [Opened[h] EXCEPT !.offset = Offset(h) + n] =
        [name |-> NameOf(Inum(h)), offset |-> Offset(h) + n]
  BY <1>5
<1> QED
  BY <1>3, <1>4, <1>6 DEF Opened

LEMMA WriteDataSeen ==
  ASSUME Sound, Sound', NEW h \in Handles, NEW buffer \in Buffers, WriteData(h, buffer)
  PROVE  Store!Write(h, buffer)
<1>1. PICK n : n = ToWrite(h, Len(buffer))
  OBVIOUS
<1>2. PICK o : o = Offset(h)
  OBVIOUS
<1>3. PICK i : i = Inum(h)
  OBVIOUS
<1>4. PICK name : name = NameOf(i)
  OBVIOUS
<1>5. IsOpen(h) /\ Returns(n, <<>>) /\ n \in 1 .. Len(buffer)
  BY <1>1 DEF WriteData
<1>6. n = Store!Least(Len(buffer), BLOCK_SIZE - o) /\ n \in Nat
  BY <1>1, <1>2, <1>5, WritesWhatFits, BufferSeq
<1>7. i \in LiveFiles /\ name \in Listed /\ Lookup(name) = i
  BY <1>3, <1>4, <1>5, HandleSound, LiveNamed
<1>8. /\ Opened[h] # NoName
      /\ Opened[h] = [name |-> name, offset |-> o]
      /\ Files[name] = Contents(i)
  BY <1>2, <1>3, <1>4, <1>5, HandleSeen
<1>9. Opened' = [Opened EXCEPT ![h].offset = o + n]
  BY <1>1, <1>2, <1>5, <1>6, HandleMoved DEF WriteData
<1>10. Files' = [Files EXCEPT ![name] = Store!Overwrite(Files[name], o, SubSeq(buffer, 1, n))]
  <2>1. Listed' = Listed /\ \A x : Lookup(x)' = Lookup(x)
    BY SameNames DEF WriteData
  <2>2. Contents(i)' = Store!Overwrite(Contents(i), o, SubSeq(buffer, 1, n))
    BY <1>1, <1>2, <1>3, OwnOverwritten
  <2>3. \A x \in Listed : x # name => Lookup(x) \in LiveFiles /\ Lookup(x) # i
    BY <1>4, ListedFound DEF Listed, Sound, NamesGiven
  <2>4. \A x \in Listed : x # name => Contents(Lookup(x))' = Contents(Lookup(x))
    BY <1>3, <2>1, <2>3, OthersKept
  <2>5. Contents(Lookup(name))' = Store!Overwrite(Files[name], o, SubSeq(buffer, 1, n))
    BY <1>7, <1>8, <2>1, <2>2
  <2>6. Files' = [x \in Listed |-> Contents(Lookup(x))']
    BY <2>1 DEF Files
  <2> QED
    BY <1>7, <2>4, <2>5, <2>6 DEF Files
<1> QED
  <2>1. /\ name = Opened[h].name /\ o = Opened[h].offset
        /\ n = Store!Least(Len(buffer), BLOCK_SIZE - o)
        /\ Returns(n, <<>>)
        /\ Opened' = [Opened EXCEPT ![h].offset = o + n]
        /\ Files' = [Files EXCEPT ![name] =
                        Store!Overwrite(Files[name], o, SubSeq(buffer, 1, n))]
    BY <1>5, <1>6, <1>8, <1>9, <1>10
  <2> QED
    BY <1>8, <2>1, SeenWrite

\* Writing nothing leaves a file as it is.
LEMMA WriteNothingSeen ==
  ASSUME Sound, NEW h \in Handles, NEW buffer \in Buffers, WriteNothing(h, buffer)
  PROVE  Store!Write(h, buffer)
<1>1. PICK i : i = Inum(h)
  OBVIOUS
<1>2. PICK o : o = Offset(h)
  OBVIOUS
<1>3. PICK name : name = NameOf(i)
  OBVIOUS
<1>4. IsOpen(h) /\ Files' = Files /\ Opened' = Opened
  BY NothingSeen DEF WriteNothing
<1>5. /\ i \in LiveFiles /\ name \in Listed
      /\ Opened[h] # NoName /\ Opened[h] = [name |-> name, offset |-> o]
      /\ Files[name] = Contents(i)
  BY <1>1, <1>2, <1>3, <1>4, HandleSound, HandleSeen
<1>6. o \in 0 .. Len(Contents(i)) /\ Contents(i) \in Seq(Cell) /\ Len(Contents(i)) = Size(h)
  BY <1>1, <1>2, <1>4, <1>5, HandleSound, ContentsTyped
<1>7. CASE ToWrite(h, Len(buffer)) = 0
  <2>1. 0 = Store!Least(Len(buffer), BLOCK_SIZE - o) /\ Returns(0, <<>>)
    BY <1>2, <1>4, <1>7, WritesWhatFits, BufferSeq DEF WriteNothing
  <2> DEFINE data == SubSeq(buffer, 1, 0)
             w == Store!Overwrite(Contents(i), o, data)
  <2>2. data \in Seq(Cell) /\ Len(data) = 0
    <3>1. \A k \in 1 .. 0 : buffer[k] \in Cell
      OBVIOUS
    <3> QED
      BY <3>1, BufferSeq, SubSeqProperties
  <2>3. w = Contents(i)
    <3> HIDE DEF data
    <3>1. /\ w \in Seq(Cell)
          /\ Len(w) = IF o + Len(data) > Len(Contents(i)) THEN o + Len(data)
                                                          ELSE Len(Contents(i))
          /\ \A k \in 1 .. Len(w) : w[k] = IF k \in o + 1 .. o + Len(data) THEN data[k - o]
                                                                         ELSE Contents(i)[k]
      <4>1. Contents(i) \in Seq(Cell) /\ data \in Seq(Cell) /\ o \in 0 .. Len(Contents(i))
        BY <1>6, <2>2
      <4> HIDE DEF w
      <4> QED
        <5>1. Overwritten(w, Cell, Contents(i), o, data)
          BY <4>1, OverwriteBytes DEF w
        <5> QED
          BY <5>1 DEF Overwritten
    <3> HIDE DEF w
    <3>2. Len(w) = Len(Contents(i)) /\ \A k \in 1 .. Len(w) : w[k] = Contents(i)[k]
      BY <1>6, <2>2, <3>1
    <3> QED
      BY <1>6, <3>1, <3>2, SeqEqual
  <2>4. /\ name = Opened[h].name /\ o = Opened[h].offset
        /\ Opened' = [Opened EXCEPT ![h].offset = o + 0]
    <3>1. Opened[h].offset = o /\ o + 0 = o
      BY <1>5, <1>6
    <3>2. [Opened[h] EXCEPT !.offset = o + 0] = Opened[h]
      BY <1>5, <3>1
    <3>3. DOMAIN Opened = Handles /\ Opened = [k \in Handles |-> Opened[k]] /\ h \in Handles
      BY DEF Opened
    <3>4. Opened' = Opened
      BY <1>4
    <3> HIDE DEF Opened
    <3>5. [Opened EXCEPT ![h] = Opened[h]] = Opened
      BY <3>3
    <3> QED
      BY <1>5, <3>1, <3>2, <3>4, <3>5
  <2>5. Files' = [Files EXCEPT ![name] = Store!Overwrite(Files[name], o, SubSeq(buffer, 1, 0))]
    BY <1>4, <1>5, <2>3 DEF Files
  <2> QED
    BY <1>5, <2>1, <2>4, <2>5, SeenWrite
<1>8. CASE ToWrite(h, Len(buffer)) # 0
  <2>1. Returns(-1, <<>>) /\ Size(h) = 0
    BY <1>8 DEF WriteNothing, Fails
  <2>2. Files[Opened[h].name] = <<>>
    BY <1>5, <1>6, <2>1, EmptySeq
  <2> QED
    BY <1>4, <2>1, <2>2, SeenWrite
<1> QED
  BY <1>7, <1>8

LEMMA WriteSeen ==
  ASSUME Sound, Sound', ~halted', NEW h \in Handles, NEW buffer \in Buffers,
         tfs_write(h, buffer)
  PROVE  Store!Write(h, buffer)
<1>1. CASE NotOpen(h)
  <2>1. ~IsOpen(h) /\ Returns(-1, <<>>) /\ Files' = Files /\ Opened' = Opened
    BY <1>1, NothingSeen DEF NotOpen, Fails
  <2>2. Opened[h] = NoName
    BY <2>1, HandleSeen
  <2> QED
    BY <2>1, <2>2, SeenWrite
<1>2. CASE WriteHalts(h, buffer)
  BY <1>2 DEF WriteHalts, Halts
<1> QED
  BY <1>1, <1>2, WriteDataSeen, WriteNothingSeen DEF tfs_write

\* What is read is the part of the file behind the offset.
LEMMA ReadDataSeen ==
  ASSUME Sound, NEW h \in Handles, NEW len \in 1 .. MaxLen, ReadData(h, len)
  PROVE  Store!Read(h, len)
<1>1. PICK n : n = ToRead(h, len)
  OBVIOUS
<1>2. PICK o : o = Offset(h)
  OBVIOUS
<1>3. PICK i : i = Inum(h)
  OBVIOUS
<1>4. PICK name : name = NameOf(i)
  OBVIOUS
<1>5. PICK size : size = Size(h)
  OBVIOUS
<1> DEFINE content == Contents(i)
           data == [k \in 1 .. n |-> ByteAt(Block(h), Offset(h) + k - 1)]
           bytes == SubSeq(content, o + 1, o + n)
<1>6. IsOpen(h) /\ Returns(n, data)
  BY <1>1 DEF ReadData
<1>7. /\ Opened[h] # NoName /\ Opened[h] = [name |-> name, offset |-> o]
      /\ Files[name] = content
  BY <1>2, <1>3, <1>4, <1>6, HandleSeen
<1>8. /\ i \in LiveFiles /\ size = inode_table[i].i_size
      /\ size \in 0 .. BLOCK_SIZE /\ o \in 0 .. size
  BY <1>2, <1>3, <1>5, <1>6, HandleSound
<1>9. /\ content \in Seq(Cell) /\ Len(content) = size
      /\ \A k \in 1 .. size : content[k] = ByteAt(Block(h), k - 1)
  BY <1>3, <1>8, ContentsTyped DEF Block, BlockOf
<1>10. n = Store!Least(size - o, len) /\ n \in 0 .. len
  <2>1. (size - o) % Word = size - o
    <3>1. size - o \in 0 .. Word - 1
      BY <1>8
    <3> QED
      BY <3>1, ModSmall
  <2>2. ToRead(h, len) = Least((size - o) % Word, len)
    BY <1>2, <1>5 DEF ToRead
  <2>3. n = Least(size - o, len)
    BY <1>1, <2>1, <2>2
  <2>4. PICK d \in Nat : d = size - o
    BY <1>8
  <2>5. n = Least(d, len) /\ len \in Nat
    BY <2>3, <2>4
  <2>6. n = (IF d <= len THEN d ELSE len) /\ n \in 0 .. len
    BY <2>5 DEF Least
  <2>7. n = Store!Least(d, len)
    BY <2>6 DEF Store!Least
  <2> QED
    BY <2>4, <2>6, <2>7
<1>11. n \in Nat /\ o + n <= size /\ o + n = Store!Least(o + len, Len(content))
  <2>1. n \in Nat
    BY <1>10
  <2>2. n = IF size - o <= len THEN size - o ELSE len
    BY <1>10 DEF Store!Least
  <2>3. o + n <= size /\ o + n = IF o + len <= size THEN o + len ELSE size
    BY <1>8, <2>1, <2>2
  <2>4. Store!Least(o + len, Len(content)) = IF o + len <= size THEN o + len ELSE size
    BY <1>9 DEF Store!Least
  <2> QED
    BY <2>1, <2>3, <2>4
<1>12. bytes \in Seq(Cell) /\ Len(bytes) = n /\ \A k \in 1 .. n : bytes[k] = ByteAt(Block(h), o + k - 1)
  <2> HIDE DEF content
  <2>1. \A k \in o + 1 .. o + n : content[k] \in Cell
    BY <1>8, <1>9, <1>11, ElementOfSeq
  <2>2. /\ bytes \in Seq(Cell)
        /\ Len(bytes) = IF o + 1 <= o + n THEN (o + n) - (o + 1) + 1 ELSE 0
        /\ \A k \in 1 .. (o + n) - (o + 1) + 1 : bytes[k] = content[o + 1 + k - 1]
    BY <1>8, <1>9, <1>11, <2>1, SubSeqProperties
  <2> HIDE DEF bytes
  <2>3. Len(bytes) = n
    BY <1>8, <1>11, <2>2
  <2>4. ASSUME NEW k \in 1 .. n PROVE bytes[k] = ByteAt(Block(h), o + k - 1)
    <3>1. o + k \in 1 .. size /\ o + 1 + k - 1 = o + k /\ k \in 1 .. (o + n) - (o + 1) + 1
      BY <1>8, <1>11
    <3>2. bytes[k] = content[o + 1 + k - 1]
      BY <2>2, <3>1
    <3>3. PICK x \in 1 .. size : x = o + k
      BY <3>1
    <3>4. content[x] = ByteAt(Block(h), x - 1)
      BY <1>9, <3>3
    <3>5. bytes[k] = content[x]
      BY <3>1, <3>2, <3>3
    <3>6. x - 1 = o + k - 1
      BY <1>8, <1>11, <3>3
    <3> QED
      BY <3>4, <3>5, <3>6
  <2> QED
    BY <2>2, <2>3, <2>4
<1>13. data = bytes
  <2> DEFINE e(k) == ByteAt(Block(h), o + k - 1)
  <2>1. data = [k \in 1 .. n |-> e(k)]
    BY <1>2
  <2>2. \A k \in 1 .. n : bytes[k] = e(k)
    BY <1>12
  <2> HIDE DEF data, bytes, e
  <2>3. bytes \in [1 .. n -> Cell]
    BY <1>11, <1>12
  <2> QED
    BY <2>1, <2>2, <2>3
<1>14. Opened' = [Opened EXCEPT ![h].offset = o + Len(bytes)]
  <2>1. /\ IsOpen(h) /\ UNCHANGED <<dir, free_open_file_entries>>
        /\ open_file_table' = [open_file_table EXCEPT ![h].of_offset = @ + n]
    BY <1>1 DEF ReadData
  <2>2. Opened' = [Opened EXCEPT ![h].offset = Offset(h) + n]
    BY <1>11, <2>1, HandleMoved
  <2>3. Offset(h) = o /\ Len(bytes) = n
    BY <1>2, <1>12
  <2> QED
    BY <2>2, <2>3
<1>15. Files' = Files
  <2>1. \A j \in LiveFiles : Contents(j)' = Contents(j)
    BY SameContents DEF ReadData, inodes, blocks
  <2> QED
    BY <2>1, FilesSame DEF ReadData
<1>16. /\ content = Files[Opened[h].name] /\ o = Opened[h].offset
       /\ bytes = SubSeq(content, o + 1, Store!Least(o + len, Len(content)))
       /\ Returns(Len(bytes), bytes)
  <2>1. content = Files[Opened[h].name] /\ o = Opened[h].offset
    BY <1>7
  <2>2. bytes = SubSeq(content, o + 1, Store!Least(o + len, Len(content)))
    BY <1>11
  <2> HIDE DEF data, bytes
  <2>3. Returns(Len(bytes), bytes)
    BY <1>6, <1>12, <1>13
  <2> QED
    BY <2>1, <2>2, <2>3
<1> HIDE DEF content, bytes
<1> QED
  BY <1>7, <1>14, <1>15, <1>16, SeenRead

LEMMA ReadSeen ==
  ASSUME Sound, ~halted', NEW h \in Handles, NEW len \in 1 .. MaxLen, tfs_read(h, len)
  PROVE  Store!Read(h, len)
<1>1. CASE NotOpen(h)
  <2>1. ~IsOpen(h) /\ Returns(-1, <<>>) /\ Files' = Files /\ Opened' = Opened
    BY <1>1, NothingSeen DEF NotOpen, Fails
  <2>2. Opened[h] = NoName
    BY <2>1, HandleSeen
  <2> QED
    BY <2>1, <2>2, SeenRead
<1>2. CASE ReadHalts(h, len)
  BY <1>2 DEF ReadHalts, Halts
<1> QED
  BY <1>1, <1>2, ReadDataSeen DEF tfs_read

-----------------------------------------------------------------------------
(* tfs_unlink *)

LEMMA UnlinkFileSeen ==
  ASSUME Sound, Sound', NeverRemovesOpen, NEW name \in Names \cup BadNames, UnlinkFile(name)
  PROVE  Store!Unlink(name)
<1>1. PICK i \in LiveFiles, e \in UsedEntries :
        /\ i = Lookup(name) /\ dir[e].d_inumber = i
        /\ MayUnlink(name)
        /\ freeinode_ts' = [freeinode_ts EXCEPT ![i] = "FREE"]
        /\ dir' = [dir EXCEPT ![e] = [d_name |-> NoName, d_inumber |-> -1]]
        /\ UNCHANGED <<inode_table, free_open_file_entries, open_file_table>>
  BY UnlinkEffect DEF Sound
<1>2. name \in Listed /\ NameOf(i) = name /\ Returns(0, <<>>)
  BY <1>1, ListedFound DEF UnlinkFile
<1>3. dir[e].d_name = name
  BY <1>1, <1>2, EntryFound
<1>4. /\ Listed' = Listed \ {name}
      /\ \A n \in Listed' : Lookup(n)' = Lookup(n)
      /\ \A j \in LiveFiles \ {i} : NameOf(j)' = NameOf(j)
  BY <1>1, <1>3, NameRemoved
<1>5. \A h \in Handles : IsOpen(h) => Inum(h) \in LiveFiles \ {i}
  BY <1>1, HandleSound DEF MayUnlink, NeverRemovesOpen
<1>6. \A h \in Handles : Opened[h] # NoName => Opened[h].name # name
  <2> SUFFICES ASSUME NEW h \in Handles, Opened[h] # NoName, Opened[h].name = name
               PROVE  FALSE
    OBVIOUS
  <2>1. IsOpen(h) /\ NameOf(Inum(h)) = name
    <3>1. IsOpen(h)
      BY HandleSeen
    <3>2. Opened[h] = [name |-> NameOf(Inum(h)), offset |-> Offset(h)]
      BY <3>1, HandleSeen
    <3> QED
      BY <3>1, <3>2
  <2>2. Inum(h) = Lookup(name)
    BY <1>5, <2>1, LiveNamed
  <2> QED
    BY <1>1, <1>5, <2>1, <2>2
<1>7. Opened' = Opened
  <2>1. \A h \in Handles : OpenAs(h)' = OpenAs(h)
    <3> TAKE h \in Handles
    <3>1. IsOpen(h)' = IsOpen(h) /\ Inum(h)' = Inum(h) /\ Offset(h)' = Offset(h)
      BY <1>1 DEF IsOpen, Inum, Offset
    <3> QED
      BY <1>4, <1>5, <3>1 DEF OpenAs
  <2> QED
    BY <2>1 DEF Opened
<1>8. Files' = [n \in Listed \ {name} |-> Files[n]]
  <2>1. \A n \in Listed \ {name} : Contents(Lookup(n))' = Contents(Lookup(n))
    <3> TAKE n \in Listed \ {name}
    <3>1. PICK j : j = Lookup(n)
      OBVIOUS
    <3>2. Contents(j)' = Contents(j)
      BY <1>1, SameContents DEF UnlinkFile
    <3> QED
      BY <1>4, <3>1, <3>2
  <2>2. Files' = [n \in Listed' |-> Contents(Lookup(n))']
    BY DEF Files
  <2> QED
    BY <1>4, <2>1, <2>2 DEF Files
<1> QED
  BY <1>2, <1>6, <1>7, <1>8, SeenUnlink

LEMMA UnlinkSeen ==
  ASSUME Sound, Sound', NeverRemovesOpen, NEW name \in Names \cup BadNames, tfs_unlink(name)
  PROVE  Store!Unlink(name)
<1>1. CASE UnlinkNothing(name)
  <2>1. name \notin Listed /\ Returns(-1, <<>>) /\ Files' = Files /\ Opened' = Opened
    BY <1>1, ListedFound, NothingSeen DEF UnlinkNothing, Fails
  <2> QED
    BY <2>1, SeenUnlink
<1> QED
  BY <1>1, UnlinkFileSeen DEF tfs_unlink

-----------------------------------------------------------------------------
(* The refinement *)

\* Names enter the directory by tfs_open only.
LEMMA KeepsNamesGiven == Sound /\ [Next]_vars => NamesGiven'
<1> SUFFICES ASSUME Sound, [Next]_vars PROVE NamesGiven'
  OBVIOUS
<1>T. TypeOK
  BY DEF Sound, IInv
<1>1. CASE UNCHANGED dir
  BY <1>1, SameNames DEF Sound
<1>2. ASSUME NEW name \in Names \cup BadNames, NEW mode \in Modes, OpenNew(name, mode)
      PROVE  NamesGiven'
  <2>1. PICK i \in Inodes \ {0} :
          \/ UNCHANGED dir
          \/ \E e \in EmptyEntries :
               /\ freeinode_ts' = [freeinode_ts EXCEPT ![i] = "TAKEN"]
               /\ dir' = [dir EXCEPT ![e] = [d_name |-> name, d_inumber |-> i]]
    BY <1>2, OpenNewEffect DEF Sound
  <2>2. ASSUME NEW e \in EmptyEntries,
               freeinode_ts' = [freeinode_ts EXCEPT ![i] = "TAKEN"],
               dir' = [dir EXCEPT ![e] = [d_name |-> name, d_inumber |-> i]]
        PROVE  NamesGiven'
    <3>1. UsedEntries' = UsedEntries \cup {e}
      BY <1>T, <2>2, EnterName
    <3>2. dir'[e].d_name = name /\ \A f \in UsedEntries : f # e => dir'[f] = dir[f]
      BY <1>T, <2>2 DEF TypeOK, EmptyEntries, UsedEntries
    <3>3. name \in Names
      BY <1>2 DEF OpenNew
    <3> QED
      BY <3>1, <3>2, <3>3 DEF Sound, NamesGiven
  <2> QED
    BY <1>1, <2>1, <2>2
<1>3. ASSUME NEW name \in Names \cup BadNames, UnlinkFile(name) PROVE NamesGiven'
  <2>1. PICK i \in LiveFiles, e \in UsedEntries :
          /\ freeinode_ts' = [freeinode_ts EXCEPT ![i] = "FREE"]
          /\ dir' = [dir EXCEPT ![e] = [d_name |-> NoName, d_inumber |-> -1]]
    BY <1>3, UnlinkEffect DEF Sound
  <2>2. UsedEntries' = UsedEntries \ {e}
    BY <1>T, <2>1, RemoveName
  <2>3. \A f \in UsedEntries \ {e} : dir'[f] = dir[f]
    BY <1>T, <2>1 DEF TypeOK, UsedEntries
  <2> QED
    BY <2>2, <2>3 DEF Sound, NamesGiven
<1>4. ASSUME NEW name \in Names \cup BadNames, NEW mode \in Modes, OpenExisting(name, mode)
      PROVE  UNCHANGED dir
  BY <1>4 DEF OpenExisting
<1>5. ASSUME NEW h \in Handles, NEW buffer \in Buffers, WriteData(h, buffer)
      PROVE  UNCHANGED dir
  BY <1>5 DEF WriteData
<1>6. CASE Stutters
  BY <1>1, <1>6 DEF Stutters
<1> QED
  BY <1>T, <1>1, <1>2, <1>3, <1>4, <1>5, <1>6, StepCases

\* The file system starts empty, with every handle closed.
LEMMA InitSeen == Init => NamesGiven /\ Store!Init
<1> SUFFICES ASSUME Init PROVE NamesGiven /\ Store!Init
  OBVIOUS
<1>1. UsedEntries = {}
  BY DEF Init, UsedEntries
<1>2. Listed = {}
  BY <1>1 DEF Listed
<1>3. Files = <<>>
  BY <1>2 DEF Files
<1>4. Opened = [h \in Handles |-> NoName]
  BY DEF Init, Opened, OpenAs, IsOpen
<1>5. Store!Init
  BY <1>3, <1>4 DEF Init, Store!Init, Files, Opened, OpenAs
<1> QED
  BY <1>1, <1>5 DEF NamesGiven

\* Every call is one of FileStore's, or changes nothing it sees.
LEMMA StepSeen ==
  ASSUME NeverRemovesOpen, NeverTruncates
  PROVE  Sound /\ Sound' /\ NeverHalts' /\ [Next]_vars => [Store!Next]_(Store!vars)
<1> SUFFICES ASSUME Sound, Sound', NeverHalts', [Next]_vars
             PROVE  Store!Next \/ UNCHANGED Store!vars
  OBVIOUS
<1>1. CASE UNCHANGED vars
  <2>1. UNCHANGED <<inodes, blocks, dir, openFiles, ret>>
    BY <1>1 DEF vars
  <2>2. Files' = Files /\ Opened' = Opened
    BY <2>1, NothingSeen
  <2> QED
    BY <2>1, <2>2 DEF Store!vars, Files, Opened, OpenAs
<1>2. ASSUME NEW name \in Names \cup BadNames, NEW mode \in Modes, tfs_open(name, mode)
      PROVE  Store!Next
  BY <1>2, NeverTruncates, OpenSeen DEF Store!Next
<1>3. ASSUME NEW h \in Handles, tfs_close(h) PROVE Store!Next
  BY <1>3, CloseSeen DEF Store!Next
<1>4. ASSUME NEW h \in Handles, NEW buffer \in Buffers, tfs_write(h, buffer)
      PROVE  Store!Next
  <2>1. Store!Write(h, buffer)
    BY <1>4, WriteSeen DEF NeverHalts
  <2>2. buffer \in Store!Buffers
    BY DEF Buffers, Store!Buffers
  <2> QED
    BY <2>1, <2>2 DEF Store!Next
<1>5. ASSUME NEW h \in Handles, NEW len \in 1 .. MaxLen, tfs_read(h, len) PROVE Store!Next
  BY <1>5, ReadSeen DEF Store!Next, NeverHalts
<1>6. ASSUME NEW name \in Names \cup BadNames, tfs_unlink(name) PROVE Store!Next
  BY <1>6, NeverRemovesOpen, UnlinkSeen DEF Store!Next
<1> QED
  BY <1>1, <1>2, <1>3, <1>4, <1>5, <1>6 DEF Next

\* The calls of fs/operations.h behave as a set of named byte sequences: what is
\* read from a file is what was written to it, for callers that do not truncate
\* and remove no open file.
THEOREM FilesKeepTheirBytes ==
  ASSUME NeverRemovesOpen, NeverTruncates PROVE Spec => ImplementsFileStore
<1>1. Spec => [](IInv /\ OpenFilesLive /\ OffsetsInFile /\ NeverHalts)
  BY NeverRemovesOpen, NeverTruncates, BrokerInvariance
<1>2. IInv /\ OpenFilesLive /\ OffsetsInFile /\ NamesGiven /\ [Next]_vars => NamesGiven'
  BY KeepsNamesGiven DEF Sound
<1>3. Spec => [](Sound /\ NeverHalts)
  BY <1>1, <1>2, InitSeen, PTL DEF Spec, Sound
<1>4. Sound /\ Sound' /\ NeverHalts' /\ [Next]_vars => [Store!Next]_(Store!vars)
  BY NeverRemovesOpen, NeverTruncates, StepSeen
<1> QED
  BY <1>3, <1>4, InitSeen, PTL DEF Spec, ImplementsFileStore, Store!Spec

=============================================================================
