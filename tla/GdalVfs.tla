-------------------------------- MODULE GdalVfs --------------------------------
(***************************************************************************)
(* The files of DuckDB as GDAL sees them: DuckDBFileHandle gives GDAL the  *)
(* calls of stdio, over a handle that may read or write less than it was   *)
(* asked for, or throw.  What it throws is not let through: GDAL learns of *)
(* it from the number of items.                                            *)
(***************************************************************************)
EXTENDS Integers, Sequences

VARIABLES
  contents, \* the bytes of the file
  handle,   \* the flags it was opened with, and the position of its handle
  reading   \* a call of Read: the bytes that remain, and those in the buffer

vfsVars == <<contents, handle, reading>>

NoHandle == [flags |-> {}, position |-> 0]
NoCall   == [remaining |-> 0, buffer |-> <<>>]

VfsInit ==
  /\ contents = <<>>
  /\ handle = NoHandle
  /\ reading = NoCall

-----------------------------------------------------------------------------
(* Open.  An access of stdio, character by character, makes the flags.     *)
Flags(access) ==
  LET plus == \E i \in DOMAIN access : i \in {2, 3} /\ access[i] = "+"
  IN  CASE access[1] = "r" -> {"READ"} \cup (IF plus THEN {"WRITE"} ELSE {})
        [] access[1] = "w" -> {"WRITE", "CREATE_NEW"} \cup (IF plus THEN {"READ"} ELSE {})
        [] access[1] = "a" -> {"APPEND"} \cup (IF plus THEN {"READ"} ELSE {})

Created(access) == [flags |-> Flags(access), position |-> 0]

(* Seek.  To go to the start is to reset the handle, which compressed files*)
(* can do too.                                                             *)
Target(position, offset, whence) ==
  CASE whence = "SET" -> offset
    [] whence = "CUR" -> position + offset
    [] whence = "END" -> Len(contents) + offset

Seek(h, offset, whence) == [h EXCEPT !.position = Target(@, offset, whence)]

-----------------------------------------------------------------------------
(* Write: what is written is k bytes, 0 if DuckDB throws.                  *)
Overwritten(position, bytes) ==
  SubSeq(contents, 1, position) \o bytes
    \o SubSeq(contents, position + Len(bytes) + 1, Len(contents))

Wrote(h, bytes, k) ==
  /\ "WRITE" \in h.flags \/ k = 0
  /\ contents' = Overwritten(h.position, SubSeq(bytes, 1, k))
  /\ handle' = [h EXCEPT !.position = @ + k]

BugAllCounted(k, size, count) == count

ItemsWritten(k, size, count) == k \div size

(* Read asks for what remains until it has it, the file is at its end, or  *)
(* DuckDB throws.                                                          *)
BeginRead(h, size, count) ==
  /\ handle' = h
  /\ reading' = [remaining |-> size * count, buffer |-> <<>>]
  /\ UNCHANGED contents

BugBufferNotAdvanced(buffer, bytes) == bytes \o SubSeq(buffer, Len(bytes) + 1, Len(buffer))

Placed(buffer, bytes) == buffer \o bytes

ReadSome ==
  /\ "READ" \in handle.flags
  /\ \E k \in 1..reading.remaining :
       /\ handle.position + k <= Len(contents)
       /\ reading' = [remaining |-> reading.remaining - k,
                      buffer    |-> Placed(reading.buffer,
                                           SubSeq(contents, handle.position + 1, handle.position + k))]
       /\ handle' = [handle EXCEPT !.position = @ + k]
  /\ UNCHANGED contents

ItemsRead(size, count) == count - (reading.remaining \div size)

=============================================================================
