----------------------------- MODULE FileStore -----------------------------
(***************************************************************************)
(* What fs/operations.h promises of TecnicoFS: a flat set of named files,  *)
(* each a sequence of bytes of bounded length, read and written through    *)
(* handles that keep an offset.  It says nothing of a file that is removed *)
(* or truncated while it is open.                                          *)
(***************************************************************************)
EXTENDS Integers, Sequences

CONSTANTS
  Names, Handles, Bytes,
  Modes,    \* sets of the flags "CREAT" and "APPEND"
  MaxSize,  \* the longest a file can be
  MaxLen,   \* the longest buffer of one call
  Closed    \* what a handle that is not open stands for

VARIABLES
  files,    \* the contents of each file that exists
  handles,  \* the name and the offset of each open handle, or Closed
  ret       \* what the last call returned: a number, and the bytes read

vars == <<files, handles, ret>>

Exists(name) == name \in DOMAIN files
IsOpen(h) == handles[h] # Closed
Returns(value, data) == ret' = [value |-> value, data |-> data]

Least(m, n) == IF m <= n THEN m ELSE n

\* bytes written over content, starting offset bytes into it.
Overwrite(content, offset, bytes) ==
  SubSeq(content, 1, offset) \o bytes
    \o SubSeq(content, offset + Len(bytes) + 1, Len(content))

Init == /\ files = <<>>
        /\ handles = [h \in Handles |-> Closed]
        /\ ret = [value |-> 0, data |-> <<>>]

Touch(name) ==
  files' = [n \in DOMAIN files \cup {name} |-> IF Exists(n) THEN files[n] ELSE <<>>]

\* A new file may be refused for lack of room; once it is there it stays,
\* whether or not a handle is left for it.
Open(name, mode) ==
  \/ /\ Exists(name) \/ "CREAT" \in mode
     /\ \/ \E h \in Handles :
             /\ Returns(h, <<>>) /\ ~IsOpen(h)
             /\ handles' = [handles EXCEPT ![h] =
                  [name |-> name,
                   offset |-> IF "APPEND" \in mode /\ Exists(name)
                                THEN Len(files[name]) ELSE 0]]
        \/ /\ Returns(-1, <<>>) /\ \A h \in Handles : IsOpen(h)
           /\ UNCHANGED handles
     /\ Touch(name)
  \/ Returns(-1, <<>>) /\ ~Exists(name) /\ UNCHANGED <<files, handles>>

Close(h) ==
  \/ /\ Returns(0, <<>>) /\ IsOpen(h)
     /\ handles' = [handles EXCEPT ![h] = Closed]
     /\ UNCHANGED files
  \/ Returns(-1, <<>>) /\ ~IsOpen(h) /\ UNCHANGED <<files, handles>>

\* Writes what fits; only the first byte of a file can find no space.
Write(h, buffer) ==
  \/ /\ IsOpen(h)
     /\ LET name == handles[h].name
            offset == handles[h].offset
            n == Least(Len(buffer), MaxSize - offset)
        IN /\ Returns(n, <<>>)
           /\ handles' = [handles EXCEPT ![h].offset = offset + n]
           /\ files' = [files EXCEPT ![name] =
                          Overwrite(@, offset, SubSeq(buffer, 1, n))]
  \/ /\ Returns(-1, <<>>)
     /\ IsOpen(h) => files[handles[h].name] = <<>>
     /\ UNCHANGED <<files, handles>>

Read(h, len) ==
  \/ /\ IsOpen(h)
     /\ LET content == files[handles[h].name]
            offset == handles[h].offset
            bytes == SubSeq(content, offset + 1, Least(offset + len, Len(content)))
        IN /\ Returns(Len(bytes), bytes)
           /\ handles' = [handles EXCEPT ![h].offset = offset + Len(bytes)]
     /\ UNCHANGED files
  \/ Returns(-1, <<>>) /\ ~IsOpen(h) /\ UNCHANGED <<files, handles>>

Unlink(name) ==
  \/ /\ Returns(0, <<>>) /\ Exists(name)
     /\ \A h \in Handles : IsOpen(h) => handles[h].name # name
     /\ UNCHANGED handles
     /\ files' = [n \in DOMAIN files \ {name} |-> files[n]]
  \/ Returns(-1, <<>>) /\ ~Exists(name) /\ UNCHANGED <<files, handles>>

Buffers == UNION {[1 .. n -> Bytes] : n \in 1 .. MaxLen}

Next ==
  \/ \E name \in Names, mode \in Modes : Open(name, mode)
  \/ \E h \in Handles : Close(h)
  \/ \E h \in Handles, len \in 1 .. MaxLen : Read(h, len)
  \/ \E name \in Names : Unlink(name)
  \/ \E h \in Handles, buffer \in Buffers : Write(h, buffer)

Spec == Init /\ [][Next]_vars
============================================================================
