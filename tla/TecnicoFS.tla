----------------------------- MODULE TecnicoFS -----------------------------
(***************************************************************************)
(* fs/operations.c and fs/state.c: the file system in memory the broker    *)
(* keeps its boxes in.  Every call holds g_library_mutex from its first    *)
(* line to its last, so a call is one step; the sessions that make the     *)
(* calls interleave between them.                                          *)
(***************************************************************************)
EXTENDS Integers, Sequences, FiniteSets

CONSTANTS
  Names,            \* the valid path names
  BadNames,         \* path names valid_pathname refuses
  Modes,            \* sets of the flags "CREAT", "TRUNC" and "APPEND"
  Bytes,            \* what a file may hold
  Junk,             \* what memory nobody has written to holds
  NoName,           \* a cleared directory entry
  INODE_TABLE_SIZE, DATA_BLOCKS, MAX_OPEN_FILES, MAX_DIR_ENTRIES, BLOCK_SIZE,
  Word,             \* the number of values of a size_t
  MaxLen,           \* bound on the length of a buffer
  MaxOffset,        \* bound on the offset of a handle
  UnlinkWhileOpen   \* whether callers remove files that are open

ASSUME FSAssumption ==
  /\ INODE_TABLE_SIZE \in Nat \ {0} /\ DATA_BLOCKS \in Nat \ {0}
  /\ MAX_OPEN_FILES \in Nat /\ MAX_DIR_ENTRIES \in Nat
  /\ BLOCK_SIZE \in Nat \ {0} /\ MaxLen \in Nat /\ MaxOffset \in Nat
  /\ MaxOffset >= BLOCK_SIZE
  /\ Word \in Nat /\ Word > MaxOffset + MaxLen /\ Word > BLOCK_SIZE + MaxLen
  /\ Names \cap BadNames = {} /\ NoName \notin Names
  /\ Junk \notin Bytes
  /\ UnlinkWhileOpen \in BOOLEAN

\* NoName is of its own kind: it also stands for a handle that is closed.
ASSUME NoNameAssumption == NoName \notin [name : Names, offset : Nat]

VARIABLES
  freeinode_ts, inode_table,
  free_blocks, fs_data,
  dir,                 \* the entries in the root directory's block
  free_open_file_entries, open_file_table,
  halted,              \* a PANIC or a fault has ended the process
  ret                  \* what the last call returned, and the bytes it read

inodes == <<freeinode_ts, inode_table>>
blocks == <<free_blocks, fs_data>>
openFiles == <<free_open_file_entries, open_file_table>>
vars == <<inodes, blocks, dir, openFiles, halted, ret>>

ROOT_DIR_INUM == 0
Inodes == 0 .. INODE_TABLE_SIZE - 1
Blocks == 0 .. DATA_BLOCKS - 1
Handles == 0 .. MAX_OPEN_FILES - 1
Entries == 0 .. MAX_DIR_ENTRIES - 1
Addresses == 0 .. DATA_BLOCKS * BLOCK_SIZE - 1

Least(m, n) == IF m <= n THEN m ELSE n

\* The first FREE place of a table, -1 if all are TAKEN.
FirstFree(table) ==
  IF \E i \in DOMAIN table : table[i] = "FREE"
    THEN CHOOSE i \in DOMAIN table :
           /\ table[i] = "FREE"
           /\ \A j \in DOMAIN table : table[j] = "FREE" => i <= j
    ELSE -1

\* Of the entries that satisfy a condition, the first one.
FirstOf(S) == CHOOSE i \in S : \A j \in S : i <= j

Returns(value, data) == ret' = [value |-> value, data |-> data]
Fails == Returns(-1, <<>>)

\* The memory at an offset from a block: an offset past the block is in the
\* blocks that follow it, one past them all is outside fs_data.
ByteAt(block, offset) ==
  LET a == block * BLOCK_SIZE + offset
  IN IF a \in Addresses THEN fs_data[a] ELSE Junk

\* tfs_init: the root directory takes inode 0 and block 0.
Init ==
  /\ freeinode_ts = [i \in Inodes |-> IF i = ROOT_DIR_INUM THEN "TAKEN" ELSE "FREE"]
  /\ inode_table = [i \in Inodes |->
       IF i = ROOT_DIR_INUM THEN [i_size |-> BLOCK_SIZE, i_data_block |-> 0]
                            ELSE [i_size |-> 0, i_data_block |-> -1]]
  /\ free_blocks = [b \in Blocks |-> IF b = 0 THEN "TAKEN" ELSE "FREE"]
  /\ fs_data = [a \in Addresses |-> Junk]
  /\ dir = [e \in Entries |-> [d_name |-> NoName, d_inumber |-> -1]]
  /\ free_open_file_entries = [h \in Handles |-> "FREE"]
  /\ open_file_table = [h \in Handles |-> [of_inumber |-> 0, of_offset |-> 0]]
  /\ halted = FALSE
  /\ ret = [value |-> 0, data |-> <<>>]

\* find_in_dir, after valid_pathname.
Matches(name) == {e \in Entries : dir[e].d_inumber # -1 /\ dir[e].d_name = name}
Lookup(name) == IF name \in Names /\ Matches(name) # {}
                  THEN dir[FirstOf(Matches(name))].d_inumber ELSE -1

EmptyEntries == {e \in Entries : dir[e].d_inumber = -1}

valid_block_number(b) == b \in Blocks

\* The last step of tfs_open: the file stays as it is if no handle is free.
AddToOpenFileTable(inum, offset) ==
  LET h == FirstFree(free_open_file_entries) IN
  /\ Returns(h, <<>>)
  /\ IF h = -1 THEN UNCHANGED openFiles
     ELSE /\ free_open_file_entries' = [free_open_file_entries EXCEPT ![h] = "TAKEN"]
          /\ open_file_table' = [open_file_table EXCEPT ![h] =
                                   [of_inumber |-> inum, of_offset |-> offset]]

-----------------------------------------------------------------------------
(* tfs_open *)

OpenExisting(name, mode) ==
  LET inum == Lookup(name)
      size == inode_table[inum].i_size
      cut == "TRUNC" \in mode /\ size > 0
  IN /\ inum # -1
     /\ IF cut
          THEN /\ free_blocks' = [free_blocks EXCEPT
                                    ![inode_table[inum].i_data_block] = "FREE"]
               /\ inode_table' = [inode_table EXCEPT ![inum].i_size = 0]
          ELSE UNCHANGED <<free_blocks, inode_table>>
     /\ AddToOpenFileTable(inum, IF "APPEND" \in mode /\ ~cut THEN size ELSE 0)
     /\ UNCHANGED <<freeinode_ts, fs_data, dir, halted>>

\* Mutant: the inode is not given back when the directory is full.
OpenNew_NoRollback(name, mode) ==
  LET inum == FirstFree(freeinode_ts) IN
  /\ name \in Names /\ Lookup(name) = -1 /\ "CREAT" \in mode /\ inum # -1
  /\ freeinode_ts' = [freeinode_ts EXCEPT ![inum] = "TAKEN"]
  /\ inode_table' = [inode_table EXCEPT ![inum] = [i_size |-> 0, i_data_block |-> -1]]
  /\ IF EmptyEntries = {}
       THEN Fails /\ UNCHANGED <<dir, openFiles>>
       ELSE /\ dir' = [dir EXCEPT ![FirstOf(EmptyEntries)] =
                         [d_name |-> name, d_inumber |-> inum]]
            /\ AddToOpenFileTable(inum, 0)
  /\ UNCHANGED <<blocks, halted>>

\* Mutant: the new inode keeps the size and the block of the old one.
OpenNew_KeepsSize(name, mode) ==
  LET inum == FirstFree(freeinode_ts) IN
  /\ name \in Names /\ Lookup(name) = -1 /\ "CREAT" \in mode
  /\ inum # -1 /\ EmptyEntries # {}
  /\ freeinode_ts' = [freeinode_ts EXCEPT ![inum] = "TAKEN"]
  /\ dir' = [dir EXCEPT ![FirstOf(EmptyEntries)] =
                  [d_name |-> name, d_inumber |-> inum]]
  /\ AddToOpenFileTable(inum, 0)
  /\ UNCHANGED <<inode_table, blocks, halted>>

\* inode_create and add_dir_entry; a full directory gives the inode back.
OpenNew(name, mode) ==
  LET inum == FirstFree(freeinode_ts) IN
  /\ name \in Names /\ Lookup(name) = -1 /\ "CREAT" \in mode /\ inum # -1
  /\ inode_table' = [inode_table EXCEPT ![inum] = [i_size |-> 0, i_data_block |-> -1]]
  /\ IF EmptyEntries = {}
       THEN Fails /\ UNCHANGED <<freeinode_ts, dir, openFiles>>
       ELSE /\ freeinode_ts' = [freeinode_ts EXCEPT ![inum] = "TAKEN"]
            /\ dir' = [dir EXCEPT ![FirstOf(EmptyEntries)] =
                         [d_name |-> name, d_inumber |-> inum]]
            /\ AddToOpenFileTable(inum, 0)
  /\ UNCHANGED <<blocks, halted>>

OpenRefused(name, mode) ==
  /\ Lookup(name) = -1
  /\ name \in BadNames \/ "CREAT" \notin mode \/ FirstFree(freeinode_ts) = -1
  /\ Fails
  /\ UNCHANGED <<inodes, blocks, dir, openFiles, halted>>

tfs_open(name, mode) ==
  OpenExisting(name, mode) \/ OpenNew(name, mode) \/ OpenRefused(name, mode)

-----------------------------------------------------------------------------
(* tfs_close, tfs_write, tfs_read *)

IsOpen(h) == free_open_file_entries[h] = "TAKEN"

\* get_open_file_entry returns NULL.
NotOpen(h) == /\ ~IsOpen(h) /\ Fails
              /\ UNCHANGED <<inodes, blocks, dir, openFiles, halted>>

Halts == /\ halted' = TRUE /\ Fails
         /\ UNCHANGED <<inodes, blocks, dir, openFiles>>

tfs_close(h) ==
  \/ NotOpen(h)
  \/ /\ IsOpen(h)
     /\ free_open_file_entries' = [free_open_file_entries EXCEPT ![h] = "FREE"]
     /\ Returns(0, <<>>)
     /\ UNCHANGED <<inodes, blocks, dir, open_file_table, halted>>

Inum(h) == open_file_table[h].of_inumber
Offset(h) == open_file_table[h].of_offset
Size(h) == inode_table[Inum(h)].i_size
Block(h) == inode_table[Inum(h)].i_data_block

\* What is written of len bytes: up to the end of the block.  The difference
\* is a size_t, and so is an offset past the block's end.
ToWrite(h, len) ==
  IF len + Offset(h) > BLOCK_SIZE THEN (BLOCK_SIZE - Offset(h)) % Word ELSE len

\* The first byte of an empty file allocates its block.
BlockFor(h) == IF Size(h) = 0 THEN FirstFree(free_blocks) ELSE Block(h)

\* Mutant: the size grows by what is written, wherever the offset was.
WriteData_SizeAdds(h, buffer) ==
  LET n == ToWrite(h, Len(buffer))
      b == BlockFor(h)
      start == b * BLOCK_SIZE + Offset(h)
  IN /\ IsOpen(h) /\ n \in 1 .. Len(buffer) /\ valid_block_number(b)
     /\ free_blocks' = [free_blocks EXCEPT ![b] = IF Size(h) = 0 THEN "TAKEN" ELSE @]
     /\ fs_data' = [a \in Addresses |-> IF a \in start .. start + n - 1
                                          THEN buffer[a - start + 1] ELSE fs_data[a]]
     /\ inode_table' = [inode_table EXCEPT ![Inum(h)] =
          [i_size |-> Size(h) + n, i_data_block |-> b]]
     /\ open_file_table' = [open_file_table EXCEPT ![h].of_offset = @ + n]
     /\ Returns(n, <<>>)
     /\ UNCHANGED <<freeinode_ts, dir, free_open_file_entries, halted>>

WriteData(h, buffer) ==
  LET n == ToWrite(h, Len(buffer))
      b == BlockFor(h)
      start == b * BLOCK_SIZE + Offset(h)
  IN /\ IsOpen(h) /\ n \in 1 .. Len(buffer) /\ valid_block_number(b)
     /\ free_blocks' = [free_blocks EXCEPT ![b] = IF Size(h) = 0 THEN "TAKEN" ELSE @]
     /\ fs_data' = [a \in Addresses |-> IF a \in start .. start + n - 1
                                          THEN buffer[a - start + 1] ELSE fs_data[a]]
     /\ inode_table' = [inode_table EXCEPT ![Inum(h)] =
          [i_size |-> IF Offset(h) + n > @.i_size THEN Offset(h) + n ELSE @.i_size,
           i_data_block |-> b]]
     /\ open_file_table' = [open_file_table EXCEPT ![h].of_offset = @ + n]
     /\ Returns(n, <<>>)
     /\ UNCHANGED <<freeinode_ts, dir, free_open_file_entries, halted>>

\* Nothing to write, or no block to write it to.
WriteNothing(h, buffer) ==
  /\ IsOpen(h)
  /\ \/ ToWrite(h, Len(buffer)) = 0 /\ Returns(0, <<>>)
     \/ ToWrite(h, Len(buffer)) > 0 /\ BlockFor(h) = -1 /\ Size(h) = 0 /\ Fails
  /\ UNCHANGED <<inodes, blocks, dir, openFiles, halted>>

\* data_block_get refuses the block, or memcpy runs through all of memory.
WriteHalts(h, buffer) ==
  /\ IsOpen(h) /\ ToWrite(h, Len(buffer)) > 0
  /\ Size(h) = 0 => FirstFree(free_blocks) # -1
  /\ valid_block_number(BlockFor(h)) => ToWrite(h, Len(buffer)) > Len(buffer)
  /\ Halts

tfs_write(h, buffer) == NotOpen(h) \/ WriteData(h, buffer)
                          \/ WriteNothing(h, buffer) \/ WriteHalts(h, buffer)

\* Mutant: len bytes are read whatever the size of the file.
ToRead_NoLimit(h, len) == len

\* What is read of len bytes: up to the size.  An offset past the size makes
\* the size_t difference huge.
ToRead(h, len) == Least((Size(h) - Offset(h)) % Word, len)

ReadData(h, len) ==
  LET n == ToRead(h, len) IN
  /\ IsOpen(h)
  /\ n > 0 => valid_block_number(Block(h))
  /\ Offset(h) + n <= MaxOffset
  /\ open_file_table' = [open_file_table EXCEPT ![h].of_offset = @ + n]
  /\ Returns(n, [i \in 1 .. n |-> ByteAt(Block(h), Offset(h) + i - 1)])
  /\ UNCHANGED <<inodes, blocks, dir, free_open_file_entries, halted>>

\* data_block_get refuses the block of an empty file.
ReadHalts(h, len) ==
  /\ IsOpen(h) /\ ToRead(h, len) > 0 /\ ~valid_block_number(Block(h))
  /\ Halts

tfs_read(h, len) == NotOpen(h) \/ ReadData(h, len) \/ ReadHalts(h, len)

-----------------------------------------------------------------------------
(* tfs_unlink *)

\* The environment: whether a caller removes a file that is open.
MayUnlink(name) ==
  UnlinkWhileOpen \/ \A h \in Handles : IsOpen(h) => Inum(h) # Lookup(name)

\* inode_delete, then clear_dir_entry.  The inode keeps its size and block.
UnlinkFile(name) ==
  LET inum == Lookup(name) IN
  /\ inum # -1 /\ MayUnlink(name)
  /\ free_blocks' = [b \in Blocks |->
       IF inode_table[inum].i_size > 0 /\ b = inode_table[inum].i_data_block
         THEN "FREE" ELSE free_blocks[b]]
  /\ freeinode_ts' = [freeinode_ts EXCEPT ![inum] = "FREE"]
  /\ dir' = [dir EXCEPT ![FirstOf(Matches(name))] =
                  [d_name |-> NoName, d_inumber |-> -1]]
  /\ Returns(0, <<>>)
  /\ UNCHANGED <<inode_table, fs_data, openFiles, halted>>

UnlinkNothing(name) ==
  /\ Lookup(name) = -1 /\ Fails
  /\ UNCHANGED <<inodes, blocks, dir, openFiles, halted>>

tfs_unlink(name) == UnlinkFile(name) \/ UnlinkNothing(name)

-----------------------------------------------------------------------------
Buffers == UNION {[1 .. n -> Bytes] : n \in 1 .. MaxLen}

Next ==
  /\ ~halted
  /\ \/ \E name \in Names \cup BadNames, mode \in Modes : tfs_open(name, mode)
     \/ \E h \in Handles : tfs_close(h)
     \/ \E h \in Handles, buffer \in Buffers : tfs_write(h, buffer)
     \/ \E h \in Handles, len \in 1 .. MaxLen : tfs_read(h, len)
     \/ \E name \in Names \cup BadNames : tfs_unlink(name)

Spec == Init /\ [][Next]_vars

-----------------------------------------------------------------------------
(* Properties *)

States == {"FREE", "TAKEN"}

\* Every table holds values of its type; inode 0 and block 0 stay the root's.
TypeOK ==
  /\ freeinode_ts \in [Inodes -> States] /\ freeinode_ts[ROOT_DIR_INUM] = "TAKEN"
  /\ inode_table \in [Inodes -> [i_size : 0 .. BLOCK_SIZE, i_data_block : Blocks \cup {-1}]]
  /\ free_blocks \in [Blocks -> States] /\ free_blocks[0] = "TAKEN"
  /\ fs_data \in [Addresses -> Bytes \cup {Junk}]
  /\ dir \in [Entries -> [d_name : Names \cup {NoName}, d_inumber : Inodes \cup {-1}]]
  /\ free_open_file_entries \in [Handles -> States]
  /\ open_file_table \in [Handles -> [of_inumber : Inodes, of_offset : 0 .. MaxOffset]]
  /\ halted \in BOOLEAN
  /\ ret \in [value : -1 .. MAX_OPEN_FILES + MaxLen + MaxOffset,
              data : Seq(Bytes \cup {Junk})]

UsedEntries == {e \in Entries : dir[e].d_inumber # -1}
LiveFiles == {i \in Inodes \ {ROOT_DIR_INUM} : freeinode_ts[i] = "TAKEN"}
HasBlock(i) == inode_table[i].i_size > 0
BlockOf(i) == inode_table[i].i_data_block

\* Directory and inode table agree: no name and no inode is entered twice,
\* every entry has a TAKEN inode, and no inode is left without an entry by a
\* call that failed halfway.
DirectorySound ==
  /\ \A e, f \in UsedEntries : e # f => /\ dir[e].d_name # dir[f].d_name
                                      /\ dir[e].d_inumber # dir[f].d_inumber
  /\ LiveFiles = {dir[e].d_inumber : e \in UsedEntries}

\* Two files in the directory never share a block, and a block in use is not
\* on offer, even when callers write through handles of files that are gone.
LiveBlocksExclusive ==
  \A i, j \in LiveFiles :
    /\ HasBlock(i) => BlockOf(i) \in Blocks \ {0} /\ free_blocks[BlockOf(i)] = "TAKEN"
    /\ i # j /\ HasBlock(i) /\ HasBlock(j) => BlockOf(i) # BlockOf(j)

\* No block is lost: each TAKEN one is the root's or that of a file.
NoBlockLeaked ==
  \A b \in Blocks \ {0} : free_blocks[b] = "TAKEN" =>
     \E i \in LiveFiles : HasBlock(i) /\ BlockOf(i) = b

\* state.c, "data_block_get: invalid block number": no call gets there.
NeverHalts == ~halted

\* operations.h, tfs_read "can be lower than 'len' if the file size was
\* reached": reading never takes a handle past the end of its file.
ReadStopsAtSize ==
  [][\A h \in Handles, len \in 1 .. MaxLen :
       IsOpen(h) /\ ReadData(h, len) => Offset(h)' <= Size(h) \/ ret'.value = 0]_vars

\* The files as their callers see them.
Listed == {dir[e].d_name : e \in UsedEntries}
Contents(i) == [k \in 1 .. inode_table[i].i_size |-> ByteAt(BlockOf(i), k - 1)]
NameOf(i) == dir[CHOOSE e \in UsedEntries : dir[e].d_inumber = i].d_name

Store == INSTANCE FileStore WITH
  Names <- Names \cup BadNames, MaxSize <- BLOCK_SIZE, Closed <- NoName,
  files <- [name \in Listed |-> Contents(Lookup(name))],
  handles <- [h \in Handles |->
    IF IsOpen(h) THEN [name |-> NameOf(Inum(h)), offset |-> Offset(h)] ELSE NoName]

\* As long as open files are not removed, the inodes, blocks and offsets
\* behave as a set of named byte sequences: what is read from a file is what
\* was written to that file.
ImplementsFileStore == Store!Spec
=============================================================================
