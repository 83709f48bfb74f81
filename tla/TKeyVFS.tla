------------------------------ MODULE TKeyVFS ------------------------------
(***************************************************************************)
(* The file system that SQLite uses for the database RootFileDB of a ROOT  *)
(* file (Persistency/RootDB/tkeyvfs.cc, SQLite3Wrapper.cc).  A file is a   *)
(* buffer in memory; the main database is filled from the newest cycle of  *)
(* its key when it is opened, and stored as a new cycle when it is closed. *)
(*                                                                         *)
(* A byte is a cell, MEMPAGE is counted in cells.  What malloc and realloc *)
(* leave in new memory is Junk.  Locks, syncs and the system calls that    *)
(* can be replaced keep no data and are left out of the state; so are the  *)
(* transaction counter's flags, which inNormalWrite, never set, guards.    *)
(***************************************************************************)
EXTENDS Integers, Sequences

CONSTANTS Handles,   \* unixFile objects
          Writes,    \* what is written at a time: sequences of cells
          MEMPAGE,   \* cells of a page of memory
          Chunks,    \* chunk sizes, 0 for none
          MaxSize,   \* bound: cells of a file
          MaxKeys    \* bound: cycles of the key

Zero == 0
Junk == -1
VFSAssumption ==
  /\ MEMPAGE \in Nat \ {0} /\ MaxSize \in Nat /\ MaxKeys \in Nat /\ Chunks \subseteq Nat
  /\ Writes \subseteq Seq(Nat) \ {<<>>}

VARIABLES unixFiles, \* handle -> unixFile
          keys,      \* cycles of the key in the ROOT file, oldest first
          writable,  \* the ROOT file is open for writing
          written,   \* history: handle -> what was written, cell by cell
          stored     \* history: what had been written to each cycle of the key

vfsVars == <<unixFiles, keys, writable, written, stored>>

(* The fields of a unixFile; pBuf has bufAllocated cells. *)
UnixFile(root, save, buf, size) ==
  [isOpen |-> TRUE, rootFile |-> root, saveToRootFile |-> save, pBuf |-> buf,
   fileSize |-> size, szChunk |-> 0]
Closed == [isOpen |-> FALSE, rootFile |-> FALSE, saveToRootFile |-> FALSE,
           pBuf |-> <<>>, fileSize |-> 0, szChunk |-> 0]

RoundUp(n, unit) == IF unit = 0 THEN n ELSE ((n + unit - 1) \div unit) * unit
Realloc(buf, n) == [i \in 1..n |-> IF i <= Len(buf) THEN buf[i] ELSE Junk]
ClearedFrom(buf, n) == [i \in DOMAIN buf |-> IF i > n THEN Zero ELSE buf[i]]
Calloc(n) == [i \in 1..n |-> Zero]

---------------------------------------------------------------------------
(* xOpen.  A main database is created empty, whatever the key holds, or is *)
(* read from the newest cycle; other files (journals, temporary ones) have no  *)
(* ROOT file.  Without a key the real code does not return: the reader  *)
(* of a ROOT file has made sure, from its version, that there is one.      *)
NewestCycle == keys[Len(keys)]
OpenMain(create) ==
  LET save == writable   \* opened with READWRITE and never DELETEONCLOSE
  IN IF create THEN UnixFile(TRUE, save, Calloc(MEMPAGE), 0)
     ELSE UnixFile(TRUE, save, Realloc(NewestCycle, RoundUp(Len(NewestCycle), MEMPAGE)),
                   Len(NewestCycle))
OpenOther == UnixFile(FALSE, FALSE, Calloc(MEMPAGE), 0)

Open(h) ==
  /\ ~unixFiles[h].isOpen
  /\ \/ /\ \A g \in Handles : ~unixFiles[g].rootFile
        /\ \E create \in BOOLEAN :
             /\ create = writable /\ (create \/ keys # <<>>)
             /\ unixFiles' = [unixFiles EXCEPT ![h] = OpenMain(create)]
             /\ written' = [written EXCEPT ![h] = IF create THEN <<>> ELSE stored[Len(stored)]]
     \/ /\ unixFiles' = [unixFiles EXCEPT ![h] = OpenOther]
        /\ written' = [written EXCEPT ![h] = <<>>]
  /\ UNCHANGED <<keys, writable, stored>>

(* The read that stops at the end of the file: the number of cells copied. *)
SeekAndRead(f, offset, cnt) ==
  IF offset >= f.fileSize THEN 0
  ELSE IF offset + cnt > f.fileSize THEN (offset + cnt) - f.fileSize ELSE cnt
Cell(f, i) == IF i \in DOMAIN f.pBuf THEN f.pBuf[i] ELSE Junk
UnixRead(f, offset, amt) ==
  LET got == SeekAndRead(f, offset, amt)
  IN [rc |-> IF got = amt THEN "ok" ELSE "short",
      cells |-> [i \in 1..amt |-> IF i <= got THEN Cell(f, offset + i) ELSE Zero]]

(* A write past the allocated buffer enlarges it first, to whole pages. *)
Enlarged(f, end) ==
  IF end <= Len(f.pBuf) THEN f.pBuf
  ELSE ClearedFrom(Realloc(f.pBuf, RoundUp(RoundUp(end, f.szChunk), MEMPAGE)), end)
SeekAndWrite(f, offset, cells) ==
  LET end == offset + Len(cells)
      buf == Enlarged(f, end)
  IN [f EXCEPT !.pBuf = [i \in DOMAIN buf |->
                           IF i \in offset + 1..end THEN cells[i - offset] ELSE buf[i]],
               !.fileSize = IF end > @ THEN end ELSE @]

(* What the client may rely on after a write or a change of the size. *)
Unwritten == -2
Overwritten(w, offset, cells) ==
  LET end == offset + Len(cells)
  IN [i \in 1..(IF end > Len(w) THEN end ELSE Len(w)) |->
        IF i \in offset + 1..end THEN cells[i - offset]
        ELSE IF i <= Len(w) THEN w[i] ELSE Unwritten]
Resized(w, n) == [i \in 1..n |-> IF i <= Len(w) THEN w[i] ELSE Unwritten]

(* xWrite; the allocation fails (SQLITE_FULL) and nothing is changed, or not. *)
UnixWrite(h, offset, cells) ==
  /\ unixFiles[h].isOpen /\ offset + Len(cells) <= MaxSize
  /\ \/ /\ unixFiles' = [unixFiles EXCEPT ![h] = SeekAndWrite(@, offset, cells)]
        /\ written' = [written EXCEPT ![h] = Overwritten(@, offset, cells)]
     \/ /\ offset + Len(cells) > Len(unixFiles[h].pBuf)
        /\ UNCHANGED <<unixFiles, written>>
  /\ UNCHANGED <<keys, writable, stored>>

(* xTruncate: to whole chunks; to nothing through a buffer of its own. *)
TruncateTo(f, nByte) ==
  [f EXCEPT !.pBuf = IF nByte = 0 THEN Calloc(MEMPAGE)
                     ELSE ClearedFrom(Realloc(@, RoundUp(nByte, MEMPAGE)), nByte),
            !.fileSize = nByte]
UnixTruncate(h, n) ==
  LET nByte == RoundUp(n, unixFiles[h].szChunk)
  IN /\ unixFiles[h].isOpen /\ nByte <= MaxSize
     /\ \/ /\ unixFiles' = [unixFiles EXCEPT ![h] = TruncateTo(@, nByte)]
           /\ written' = [written EXCEPT ![h] = Resized(@, nByte)]
        \/ /\ nByte = 0    \* the allocation fails, the old buffer is freed already
           /\ unixFiles' = [unixFiles EXCEPT ![h].pBuf = <<>>, ![h].fileSize = 0]
           /\ written' = [written EXCEPT ![h] = <<>>]
        \/ /\ nByte > 0 /\ UNCHANGED <<unixFiles, written>>
     /\ UNCHANGED <<keys, writable, stored>>

(* SQLITE_FCNTL_SIZE_HINT: only a hint past the allocated buffer has an effect. *)
SizeHint(f, n) ==
  LET nSize == RoundUp(n, f.szChunk)
      nAlloc == RoundUp(nSize, MEMPAGE)
  IN IF f.szChunk # 0 /\ nSize > f.fileSize /\ nAlloc > Len(f.pBuf)
     THEN [f EXCEPT !.pBuf = ClearedFrom(Realloc(@, nAlloc), f.fileSize), !.fileSize = nSize]
     ELSE f
FileControl(h) ==
  /\ unixFiles[h].isOpen
  /\ \/ \E c \in Chunks : /\ unixFiles' = [unixFiles EXCEPT ![h].szChunk = c]
                          /\ UNCHANGED written
     \/ \E n \in 1..MaxSize :
          /\ RoundUp(n, unixFiles[h].szChunk) <= MaxSize
          /\ unixFiles' = [unixFiles EXCEPT ![h] = SizeHint(@, n)]
          /\ written' = [written EXCEPT ![h] =
                           IF unixFiles'[h].fileSize > Len(@) THEN Resized(@, unixFiles'[h].fileSize) ELSE @]
  /\ UNCHANGED <<keys, writable, stored>>

(* xClose: the main database of a writable file becomes the newest cycle. *)
\* Faulty: the whole buffer is stored, with what lies behind the file.
StoredBuffer(f) == f.pBuf

StoredCells(f) == SubSeq(f.pBuf, 1, f.fileSize)
CloseUnixFile(h) ==
  /\ unixFiles[h].isOpen
  /\ unixFiles[h].saveToRootFile => Len(keys) < MaxKeys
  /\ IF unixFiles[h].saveToRootFile
     THEN /\ keys' = Append(keys, StoredCells(unixFiles[h]))
          /\ stored' = Append(stored, written[h])
     ELSE UNCHANGED <<keys, stored>>
  /\ unixFiles' = [unixFiles EXCEPT ![h] = Closed]
  /\ written' = [written EXCEPT ![h] = <<>>]
  /\ UNCHANGED writable

(* RootOutputFile closes its database before the file, a later job opens the file to read. *)
ReopenRootFile ==
  /\ writable /\ keys # <<>> /\ \A h \in Handles : ~unixFiles[h].rootFile
  /\ writable' = FALSE
  /\ UNCHANGED <<unixFiles, keys, written, stored>>

Init ==
  /\ unixFiles = [h \in Handles |-> Closed] /\ keys = <<>> /\ stored = <<>> /\ writable = TRUE
  /\ written = [h \in Handles |-> <<>>]

Next ==
  \/ \E h \in Handles :
       \/ Open(h) \/ CloseUnixFile(h) \/ FileControl(h)
       \/ \E n \in 0..MaxSize : UnixTruncate(h, n)
       \/ \E offset \in 0..MaxSize : \E cells \in Writes : UnixWrite(h, offset, cells)
  \/ ReopenRootFile

Spec == Init /\ [][Next]_vfsVars

---------------------------------------------------------------------------
Agrees(cells, w) ==
  Len(cells) = Len(w) /\ \A i \in DOMAIN w : w[i] # Unwritten => cells[i] = w[i]

(* What a job had written to the database when it closed it is what a later *)
(* job finds in the file.                                                   *)
CyclesKept == \A k \in DOMAIN keys : Agrees(keys[k], stored[k])

(* What was written to a file and not cut off is in it and is read back,    *)
(* however the file grew.                                                   *)
ReadsBack ==
  \A h \in {g \in Handles : unixFiles[g].isOpen} :
    LET f == unixFiles[h]
    IN /\ Agrees(StoredCells(f), written[h])
       /\ \A offset \in 0 .. f.fileSize : \A amt \in 0 .. f.fileSize - offset :
            LET read == UnixRead(f, offset, amt)
            IN amt > 0 => read.rc = "ok" /\ Agrees(read.cells, SubSeq(written[h], offset + 1, offset + amt))
=============================================================================
