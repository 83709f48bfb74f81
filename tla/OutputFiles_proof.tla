------------------------- MODULE OutputFiles_proof -------------------------
(***************************************************************************)
(* Theorems about what goes with an output file.                           *)
(*                                                                         *)
(* The database in it (TKeyVFS): what was written to a file of SQLite is   *)
(* read back, and what a job had written when it closed its database is    *)
(* what the next one finds, for any files, writes, chunks and pages, and   *)
(* whatever allocation fails.                                              *)
(*                                                                         *)
(* What is said of it (FileStats): for any runs, sub-runs, events, input   *)
(* files and patterns, a file is named by the range of what was written to *)
(* it, lists the input files it was made from and is not replaced.         *)
(***************************************************************************)
EXTENDS TKeyVFS, SequenceTheorems, TLAPS

Cells == Seq(Int)
UnixFiles ==
  [isOpen : BOOLEAN, rootFile : BOOLEAN, saveToRootFile : BOOLEAN, pBuf : Cells,
   fileSize : Nat, szChunk : Nat]

-----------------------------------------------------------------------------
(* The inductive invariant.                                                 *)

\* What a buffer of at least n cells has of what was written to the n cells of a file.
Keeps(buf, w, n) ==
  /\ buf \in Cells /\ w \in Cells /\ n \in Nat
  /\ Len(w) = n /\ n <= Len(buf)
  /\ \A i \in 1 .. n : w[i] # Unwritten => buf[i] = w[i]

FilesFit ==
  /\ unixFiles \in [Handles -> UnixFiles] /\ written \in [Handles -> Cells]
  /\ \A h \in Handles : Keeps(unixFiles[h].pBuf, written[h], unixFiles[h].fileSize)

KeysFit ==
  /\ keys \in Seq(Cells) /\ stored \in Seq(Cells) /\ Len(keys) = Len(stored)
  /\ \A k \in 1 .. Len(keys) : Agrees(keys[k], stored[k])
  /\ writable \in BOOLEAN

VFSInv == FilesFit /\ KeysFit

-----------------------------------------------------------------------------
(* Buffers.                                                                 *)

LEMMA CellsOfLength ==
  ASSUME NEW n \in Nat, NEW s, s \in [1 .. n -> Int]
  PROVE  s \in Cells /\ Len(s) = n
<1>1. s \in Seq(Int)
  OBVIOUS
<1>2. Len(s) \in Nat /\ DOMAIN s = 1 .. Len(s)
  BY <1>1, LenProperties
<1> QED BY <1>1, <1>2 DEF Cells

LEMMA RoundedUp ==
  ASSUME NEW n \in Nat, NEW unit \in Nat
  PROVE  RoundUp(n, unit) \in Nat /\ RoundUp(n, unit) >= n
<1>1. CASE unit = 0
  BY <1>1 DEF RoundUp
<1>2. CASE unit # 0
  <2> DEFINE m == n + unit - 1
             q == m \div unit
  <2>1. m \in Nat /\ m = n + unit - 1
    BY <1>2
  <2> HIDE DEF m
  <2>2. q \in Nat /\ m < unit * (q + 1)
    BY <1>2, <2>1
  <2>3. unit * (q + 1) = q * unit + unit /\ q * unit \in Nat
    BY <2>2
  <2>4. q * unit >= n
    BY <2>1, <2>2, <2>3
  <2>5. RoundUp(n, unit) = q * unit
    BY <1>2 DEF RoundUp, m
  <2> QED BY <2>3, <2>4, <2>5
<1> QED BY <1>1, <1>2

\* A buffer that is not made smaller than a file keeps it, and what is cleared
\* lies behind the file.
LEMMA ReallocKept ==
  ASSUME NEW buf, NEW w, NEW n, NEW size \in Nat, Keeps(buf, w, n), n <= size
  PROVE  Keeps(Realloc(buf, size), w, n) /\ Len(Realloc(buf, size)) = size
<1> DEFINE new == Realloc(buf, size)
<1>1. new \in [1 .. size -> Int] /\ \A i \in 1 .. n : new[i] = buf[i]
  BY DEF Realloc, Keeps, Cells, Junk
<1>2. new \in Cells /\ Len(new) = size
  BY <1>1, CellsOfLength
<1> QED BY <1>1, <1>2 DEF Keeps

LEMMA ClearKept ==
  ASSUME NEW buf, NEW w, NEW n, NEW keep \in Nat, Keeps(buf, w, n), n <= keep
  PROVE  Keeps(ClearedFrom(buf, keep), w, n) /\ Len(ClearedFrom(buf, keep)) = Len(buf)
<1> DEFINE new == ClearedFrom(buf, keep)
<1>1. Len(buf) \in Nat /\ DOMAIN buf = 1 .. Len(buf) /\ \A i \in 1 .. Len(buf) : buf[i] \in Int
  BY LenProperties DEF Keeps, Cells
<1>2. new \in [1 .. Len(buf) -> Int] /\ \A i \in 1 .. n : new[i] = buf[i]
  BY <1>1 DEF ClearedFrom, Zero, Keeps
<1>3. new \in Cells /\ Len(new) = Len(buf)
  BY <1>1, <1>2, CellsOfLength
<1> QED BY <1>1, <1>2, <1>3 DEF Keeps

LEMMA Callocated ==
  ASSUME VFSAssumption
  PROVE  Keeps(Calloc(MEMPAGE), <<>>, 0)
<1>1. Calloc(MEMPAGE) \in [1 .. MEMPAGE -> Int] /\ MEMPAGE \in Nat
  BY DEF Calloc, Zero, VFSAssumption
<1>2. Calloc(MEMPAGE) \in Cells /\ Len(Calloc(MEMPAGE)) = MEMPAGE
  BY <1>1, CellsOfLength
<1> QED BY <1>1, <1>2 DEF Keeps, Cells

LEMMA NothingKept ==
  ASSUME NEW buf \in Cells, NEW w, NEW n, Keeps(buf, w, n)
  PROVE  Keeps(buf, <<>>, 0) /\ Keeps(<<>>, <<>>, 0)
BY LenProperties DEF Keeps, Cells

\* The cells written are those of the file, and the others are as they were.
LEMMA WriteKept ==
  ASSUME NEW buf, NEW w, NEW n, NEW cells \in Cells, NEW offset \in Nat,
         Keeps(buf, w, n), offset + Len(cells) <= Len(buf)
  PROVE  LET end == offset + Len(cells)
         IN Keeps([i \in DOMAIN buf |-> IF i \in offset + 1 .. end THEN cells[i - offset] ELSE buf[i]],
                  Overwritten(w, offset, cells), IF end > n THEN end ELSE n)
<1> DEFINE end == offset + Len(cells)
           size == IF end > n THEN end ELSE n
           new == [i \in DOMAIN buf |-> IF i \in offset + 1 .. end THEN cells[i - offset] ELSE buf[i]]
           now == Overwritten(w, offset, cells)
<1>1. /\ Len(cells) \in Nat /\ \A i \in 1 .. Len(cells) : cells[i] \in Int
      /\ Len(buf) \in Nat /\ DOMAIN buf = 1 .. Len(buf) /\ \A i \in 1 .. Len(buf) : buf[i] \in Int
      /\ n \in Nat /\ Len(w) = n /\ \A i \in 1 .. n : w[i] \in Int
  BY LenProperties DEF Keeps, Cells
<1>2. end \in Nat /\ end <= Len(buf) /\ size \in Nat /\ size <= Len(buf) /\ Len(cells) = end - offset
  BY <1>1 DEF Keeps
<1> HIDE DEF end, size
<1>3. \A i \in offset + 1 .. end : i - offset \in 1 .. Len(cells)
  BY <1>1, <1>2
<1>4. new \in [1 .. Len(buf) -> Int]
  BY <1>1, <1>3
<1>5. now = [i \in 1 .. size |-> IF i \in offset + 1 .. end THEN cells[i - offset]
                                 ELSE IF i <= n THEN w[i] ELSE Unwritten]
  BY <1>1 DEF Overwritten, end, size
<1>6. now \in [1 .. size -> Int]
  BY <1>1, <1>2, <1>3, <1>5 DEF Unwritten
<1>7. new \in Cells /\ Len(new) = Len(buf) /\ now \in Cells /\ Len(now) = size
  BY <1>1, <1>2, <1>4, <1>6, CellsOfLength
<1>8. ASSUME NEW i \in 1 .. size, now[i] # Unwritten PROVE new[i] = now[i]
  <2>1. i \in 1 .. Len(buf)
    BY <1>1, <1>2
  <2>2. CASE i \in offset + 1 .. end
    BY <1>1, <1>5, <2>1, <2>2
  <2>3. CASE i \notin offset + 1 .. end
    <3>1. i \in 1 .. n /\ now[i] = w[i]
      BY <1>1, <1>2, <1>5, <1>8, <2>3
    <3>2. new[i] = buf[i]
      BY <1>1, <2>1, <2>3
    <3> QED BY <1>8, <3>1, <3>2 DEF Keeps
  <2> QED BY <2>2, <2>3
<1>9. Keeps(new, now, size)
  BY <1>2, <1>7, <1>8 DEF Keeps
<1> QED BY <1>9 DEF new, now, end, size

\* A file that is cut or grows keeps what is not behind its new end.
LEMMA ResizeKept ==
  ASSUME NEW buf, NEW w, NEW n, NEW m \in Nat, Keeps(buf, w, n), m <= n
  PROVE  Keeps(buf, Resized(w, m), m)
<1>1. n \in Nat /\ Len(w) = n /\ \A i \in 1 .. n : w[i] \in Int
  BY LenProperties DEF Keeps, Cells
<1>2. Resized(w, m) = [i \in 1 .. m |-> w[i]]
  BY <1>1 DEF Resized
<1>3. Resized(w, m) \in [1 .. m -> Int]
  BY <1>1, <1>2
<1>4. Resized(w, m) \in Cells /\ Len(Resized(w, m)) = m
  BY <1>3, CellsOfLength
<1>5. buf \in Cells /\ Len(buf) \in Nat /\ n <= Len(buf)
  BY LenProperties DEF Keeps, Cells
<1> QED BY <1>1, <1>2, <1>4, <1>5 DEF Keeps

LEMMA GrowthKept ==
  ASSUME NEW buf, NEW w, NEW n, NEW m \in Nat, Keeps(buf, w, n), n <= m, m <= Len(buf)
  PROVE  Keeps(buf, Resized(w, m), m)
<1>1. n \in Nat /\ Len(w) = n /\ \A i \in 1 .. n : w[i] \in Int
  BY LenProperties DEF Keeps, Cells
<1>2. Resized(w, m) = [i \in 1 .. m |-> IF i <= n THEN w[i] ELSE Unwritten]
  BY <1>1 DEF Resized
<1>3. Resized(w, m) \in [1 .. m -> Int]
  BY <1>1, <1>2 DEF Unwritten
<1>4. Resized(w, m) \in Cells /\ Len(Resized(w, m)) = m
  BY <1>3, CellsOfLength
<1>5. ASSUME NEW i \in 1 .. m, Resized(w, m)[i] # Unwritten PROVE buf[i] = Resized(w, m)[i]
  <2>1. i \in 1 .. n /\ Resized(w, m)[i] = w[i]
    BY <1>1, <1>2, <1>5
  <2> QED BY <1>5, <2>1 DEF Keeps
<1> QED BY <1>4, <1>5 DEF Keeps

LEMMA EnlargedKept ==
  ASSUME VFSAssumption, NEW f \in UnixFiles, NEW w, NEW end \in Nat, Keeps(f.pBuf, w, f.fileSize)
  PROVE  Keeps(Enlarged(f, end), w, f.fileSize) /\ end <= Len(Enlarged(f, end))
<1>1. f.pBuf \in Cells /\ f.fileSize \in Nat /\ f.szChunk \in Nat /\ Len(f.pBuf) \in Nat
  BY LenProperties DEF UnixFiles, Cells
<1>2. CASE end <= Len(f.pBuf)
  BY <1>2 DEF Enlarged
<1>3. CASE ~(end <= Len(f.pBuf))
  <2> DEFINE size == RoundUp(RoundUp(end, f.szChunk), MEMPAGE)
             bare == Realloc(f.pBuf, size)
  <2>1. size \in Nat /\ end <= size
    <3> DEFINE chunks == RoundUp(end, f.szChunk)
    <3>1. chunks \in Nat /\ end <= chunks
      BY <1>1, RoundedUp
    <3> HIDE DEF chunks
    <3>2. RoundUp(chunks, MEMPAGE) \in Nat /\ chunks <= RoundUp(chunks, MEMPAGE)
      BY <3>1, RoundedUp DEF VFSAssumption
    <3> QED BY <3>1, <3>2 DEF chunks
  <2>2. f.fileSize <= end
    BY <1>1, <1>3 DEF Keeps
  <2> HIDE DEF size
  <2>3. Keeps(bare, w, f.fileSize) /\ Len(bare) = size
    BY <1>1, <2>1, <2>2, ReallocKept
  <2>4. Enlarged(f, end) = ClearedFrom(bare, end)
    BY <1>3 DEF Enlarged, size
  <2> HIDE DEF bare
  <2> QED BY <2>1, <2>2, <2>3, <2>4, ClearKept
<1> QED BY <1>2, <1>3

-----------------------------------------------------------------------------
(* The steps.                                                               *)

LEMMA FileChanges ==
  ASSUME FilesFit, NEW h \in Handles, NEW f \in UnixFiles, NEW w, Keeps(f.pBuf, w, f.fileSize),
         unixFiles' = [unixFiles EXCEPT ![h] = f], written' = [written EXCEPT ![h] = w]
  PROVE  FilesFit'
BY DEF FilesFit, Keeps

LEMMA FileOf ==
  ASSUME FilesFit, NEW h \in Handles
  PROVE  /\ unixFiles[h] \in UnixFiles /\ Keeps(unixFiles[h].pBuf, written[h], unixFiles[h].fileSize)
         /\ unixFiles[h].fileSize \in Nat /\ unixFiles[h].szChunk \in Nat /\ unixFiles[h].pBuf \in Cells
         /\ Len(unixFiles[h].pBuf) \in Nat
BY LenProperties DEF FilesFit, UnixFiles, Cells

LEMMA Opens ==
  ASSUME VFSAssumption, VFSInv, NEW h \in Handles, Open(h)
  PROVE  FilesFit'
<1> USE DEF VFSInv
<1>1. \A root, save \in BOOLEAN : \A buf \in Cells : \A size \in Nat :
        /\ UnixFile(root, save, buf, size) \in UnixFiles
        /\ UnixFile(root, save, buf, size).pBuf = buf /\ UnixFile(root, save, buf, size).fileSize = size
  BY DEF UnixFile, UnixFiles
<1>2. Calloc(MEMPAGE) \in Cells /\ Keeps(Calloc(MEMPAGE), <<>>, 0)
  BY Callocated DEF Keeps
<1>3. CASE unixFiles' = [unixFiles EXCEPT ![h] = OpenOther] /\ written' = [written EXCEPT ![h] = <<>>]
  <2>1. OpenOther \in UnixFiles /\ OpenOther.pBuf = Calloc(MEMPAGE) /\ OpenOther.fileSize = 0
    BY <1>1, <1>2 DEF OpenOther
  <2> QED BY <1>2, <1>3, <2>1, FileChanges
<1>4. ASSUME NEW create \in BOOLEAN, create = writable, create \/ keys # <<>>,
             unixFiles' = [unixFiles EXCEPT ![h] = OpenMain(create)],
             written' = [written EXCEPT ![h] = IF create THEN <<>> ELSE stored[Len(stored)]]
      PROVE  FilesFit'
  <2>1. writable \in BOOLEAN
    BY DEF KeysFit
  <2>2. CASE create
    <3> DEFINE f == UnixFile(TRUE, writable, Calloc(MEMPAGE), 0)
    <3>1. f \in UnixFiles /\ f.pBuf = Calloc(MEMPAGE) /\ f.fileSize = 0
      BY <1>2, <2>1 DEF UnixFile, UnixFiles
    <3>2. f = OpenMain(create)
      BY <2>2 DEF OpenMain
    <3> HIDE DEF f
    <3>3. unixFiles' = [unixFiles EXCEPT ![h] = f] /\ written' = [written EXCEPT ![h] = <<>>]
      BY <1>4, <2>2, <3>2
    <3> QED BY <1>2, <3>1, <3>3, FileChanges
  <2>3. CASE ~create
    <3> DEFINE k == Len(keys)
               size == RoundUp(Len(NewestCycle), MEMPAGE)
               buf == Realloc(NewestCycle, size)
               f == UnixFile(TRUE, writable, buf, Len(NewestCycle))
    <3>1. /\ k \in 1 .. Len(keys) /\ Len(stored) = k /\ NewestCycle = keys[k]
          /\ keys[k] \in Cells /\ stored[k] \in Cells /\ Agrees(keys[k], stored[k])
      BY <1>4, <2>3, LenProperties, EmptySeq DEF KeysFit, NewestCycle
    <3> HIDE DEF k
    <3>2. Len(keys[k]) \in Nat /\ Len(stored[k]) = Len(keys[k]) /\ DOMAIN stored[k] = 1 .. Len(keys[k])
      BY <3>1, LenProperties DEF Agrees, Cells
    <3>3. Keeps(keys[k], stored[k], Len(keys[k]))
      BY <3>1, <3>2 DEF Keeps, Agrees
    <3>4. size \in Nat /\ Len(keys[k]) <= size
      BY <3>1, <3>2, RoundedUp DEF VFSAssumption
    <3> HIDE DEF size
    <3>5. Keeps(buf, stored[k], Len(keys[k])) /\ buf \in Cells
      <4>1. buf = Realloc(keys[k], size)
        BY <3>1
      <4>2. Keeps(Realloc(keys[k], size), stored[k], Len(keys[k]))
        BY <3>2, <3>3, <3>4, ReallocKept
      <4> QED BY <4>1, <4>2 DEF Keeps
    <3> HIDE DEF buf
    <3>6. f \in UnixFiles /\ f.pBuf = buf /\ f.fileSize = Len(keys[k])
      <4>1. UnixFile(TRUE, writable, buf, Len(keys[k])) \in UnixFiles
        BY <1>1, <2>1, <3>2, <3>5
      <4> QED BY <3>1, <4>1 DEF UnixFile
    <3>7. f = OpenMain(create)
      BY <2>3 DEF OpenMain, buf, size
    <3>8. written' = [written EXCEPT ![h] = stored[k]]
      BY <1>4, <2>3, <3>1
    <3> HIDE DEF f
    <3> QED BY <1>4, <3>5, <3>6, <3>7, <3>8, FileChanges
  <2> QED BY <2>2, <2>3
<1> QED BY <1>3, <1>4 DEF Open

LEMMA Writing ==
  ASSUME VFSAssumption, VFSInv, NEW h \in Handles, NEW offset \in 0 .. MaxSize, NEW cells \in Writes,
         UnixWrite(h, offset, cells)
  PROVE  FilesFit'
<1> DEFINE f == unixFiles[h]
           end == offset + Len(cells)
           buf == Enlarged(f, end)
           size == IF end > f.fileSize THEN end ELSE f.fileSize
           new == [i \in DOMAIN buf |-> IF i \in offset + 1 .. end THEN cells[i - offset] ELSE buf[i]]
<1>0. FilesFit
  BY DEF VFSInv
<1>1. cells \in Cells /\ Len(cells) \in Nat /\ offset \in Nat /\ end \in Nat
  BY LenProperties DEF VFSAssumption, Cells
<1>2. f \in UnixFiles /\ Keeps(f.pBuf, written[h], f.fileSize) /\ f.fileSize \in Nat
  BY <1>0, FileOf
<1>3. Keeps(buf, written[h], f.fileSize) /\ end <= Len(buf)
  BY <1>1, <1>2, EnlargedKept
<1>4. Keeps(new, Overwritten(written[h], offset, cells), size)
  BY <1>1, <1>3, WriteKept
<1>5. SeekAndWrite(f, offset, cells) = [f EXCEPT !.pBuf = new, !.fileSize = size]
  BY DEF SeekAndWrite
<1> DEFINE g == [f EXCEPT !.pBuf = new, !.fileSize = size]
<1> HIDE DEF new
<1>6. new \in Cells /\ size \in Nat
  BY <1>1, <1>2, <1>4 DEF Keeps
<1> HIDE DEF size
<1>7. g \in UnixFiles /\ g.pBuf = new /\ g.fileSize = size
  BY <1>2, <1>6 DEF UnixFiles
<1> HIDE DEF g
<1>8. CASE UNCHANGED <<unixFiles, written>>
  BY <1>0, <1>8 DEF FilesFit
<1>9. CASE /\ unixFiles' = [unixFiles EXCEPT ![h] = SeekAndWrite(@, offset, cells)]
           /\ written' = [written EXCEPT ![h] = Overwritten(@, offset, cells)]
  <2>1. unixFiles' = [unixFiles EXCEPT ![h] = g]
    BY <1>9, <1>5 DEF g
  <2>2. written' = [written EXCEPT ![h] = Overwritten(written[h], offset, cells)]
    BY <1>9
  <2> QED BY <1>0, <1>4, <1>7, <2>1, <2>2, FileChanges
<1> QED BY <1>8, <1>9 DEF UnixWrite

LEMMA Truncating ==
  ASSUME VFSAssumption, VFSInv, NEW h \in Handles, NEW n \in 0 .. MaxSize, UnixTruncate(h, n)
  PROVE  FilesFit'
<1> DEFINE f == unixFiles[h]
           nByte == RoundUp(n, f.szChunk)
<1>0. FilesFit
  BY DEF VFSInv
<1>1. f \in UnixFiles /\ Keeps(f.pBuf, written[h], f.fileSize) /\ f.fileSize \in Nat /\ f.szChunk \in Nat
  BY <1>0, FileOf
<1>2. nByte \in Nat
  <2>1. n \in Nat
    BY DEF VFSAssumption
  <2> QED BY <1>1, <2>1, RoundedUp
<1> HIDE DEF nByte
<1>3. Len(written[h]) = f.fileSize
  BY <1>1 DEF Keeps
<1>4. Resized(written[h], 0) = <<>>
  BY <1>1 DEF Resized
<1>5. CASE UNCHANGED <<unixFiles, written>>
  BY <1>0, <1>5 DEF FilesFit
<1>6. CASE /\ nByte = 0 /\ unixFiles' = [unixFiles EXCEPT ![h].pBuf = <<>>, ![h].fileSize = 0]
           /\ written' = [written EXCEPT ![h] = <<>>]
  <2> DEFINE g == [f EXCEPT !.pBuf = <<>>, !.fileSize = 0]
  <2>0. <<>> \in Cells
    BY DEF Cells
  <2>1. g \in UnixFiles /\ g.pBuf = <<>> /\ g.fileSize = 0
    BY <1>1, <2>0 DEF UnixFiles
  <2>2. unixFiles' = [unixFiles EXCEPT ![h] = g]
    BY <1>6
  <2>3. Keeps(<<>>, <<>>, 0)
    BY DEF Keeps, Cells
  <2> HIDE DEF g
  <2> QED BY <1>0, <1>6, <2>1, <2>2, <2>3, FileChanges
<1>7. CASE /\ unixFiles' = [unixFiles EXCEPT ![h] = TruncateTo(@, nByte)]
           /\ written' = [written EXCEPT ![h] = Resized(@, nByte)]
  <2> DEFINE buf == IF nByte = 0 THEN Calloc(MEMPAGE)
                    ELSE ClearedFrom(Realloc(f.pBuf, RoundUp(nByte, MEMPAGE)), nByte)
             g == [f EXCEPT !.pBuf = buf, !.fileSize = nByte]
  <2>1. Keeps(buf, Resized(written[h], nByte), nByte)
    <3>1. CASE nByte = 0
      BY <1>4, <3>1, Callocated
    <3>2. CASE nByte # 0
      <4>1. RoundUp(nByte, MEMPAGE) \in Nat /\ nByte <= RoundUp(nByte, MEMPAGE)
        BY <1>2, RoundedUp DEF VFSAssumption
      <4> DEFINE size == RoundUp(nByte, MEMPAGE)
                 bare == Realloc(f.pBuf, size)
      <4> HIDE DEF size
      <4>2. CASE nByte <= f.fileSize
        <5>1. Keeps(f.pBuf, Resized(written[h], nByte), nByte)
          BY <1>1, <1>2, <4>2, ResizeKept
        <5>2. Keeps(bare, Resized(written[h], nByte), nByte)
          BY <1>2, <4>1, <5>1, ReallocKept DEF size
        <5> HIDE DEF bare
        <5>3. Keeps(ClearedFrom(bare, nByte), Resized(written[h], nByte), nByte)
          BY <1>2, <5>2, ClearKept
        <5> QED BY <3>2, <5>3 DEF bare, size
      <4>3. CASE ~(nByte <= f.fileSize)
        <5>1. Keeps(bare, written[h], f.fileSize) /\ Len(bare) = size
          BY <1>1, <1>2, <4>1, <4>3, ReallocKept DEF size
        <5> HIDE DEF bare
        <5>2. Keeps(ClearedFrom(bare, nByte), written[h], f.fileSize) /\ Len(ClearedFrom(bare, nByte)) = size
          BY <1>1, <1>2, <4>3, <5>1, ClearKept
        <5>3. Keeps(ClearedFrom(bare, nByte), Resized(written[h], nByte), nByte)
          BY <1>1, <1>2, <4>1, <4>3, <5>2, GrowthKept DEF size
        <5> QED BY <3>2, <5>3 DEF bare, size
      <4> QED BY <4>2, <4>3
    <3> QED BY <3>1, <3>2
  <2>2. unixFiles' = [unixFiles EXCEPT ![h] = g]
    BY <1>7 DEF TruncateTo
  <2>3. written' = [written EXCEPT ![h] = Resized(written[h], nByte)]
    BY <1>7
  <2> HIDE DEF buf
  <2>4. g \in UnixFiles /\ g.pBuf = buf /\ g.fileSize = nByte
    BY <1>1, <1>2, <2>1 DEF UnixFiles, Keeps
  <2> HIDE DEF g
  <2> QED BY <1>0, <2>1, <2>2, <2>3, <2>4, FileChanges
<1> QED BY <1>5, <1>6, <1>7 DEF UnixTruncate, nByte

LEMMA Controlling ==
  ASSUME VFSAssumption, VFSInv, NEW h \in Handles, FileControl(h)
  PROVE  FilesFit'
<1> DEFINE f == unixFiles[h]
<1>0. FilesFit
  BY DEF VFSInv
<1>1. f \in UnixFiles /\ Keeps(f.pBuf, written[h], f.fileSize) /\ f.fileSize \in Nat /\ f.szChunk \in Nat
      /\ Len(f.pBuf) \in Nat
  BY <1>0, FileOf
<1>2. Len(written[h]) = f.fileSize
  BY <1>1 DEF Keeps
<1>3. ASSUME NEW c \in Chunks, unixFiles' = [unixFiles EXCEPT ![h].szChunk = c], UNCHANGED written
      PROVE  FilesFit'
  <2> DEFINE g == [f EXCEPT !.szChunk = c]
  <2>1. c \in Nat
    BY DEF VFSAssumption
  <2>2. g \in UnixFiles /\ g.pBuf = f.pBuf /\ g.fileSize = f.fileSize
    BY <1>1, <2>1 DEF UnixFiles
  <2>3. unixFiles' = [unixFiles EXCEPT ![h] = g]
    BY <1>3
  <2>4. written' = [written EXCEPT ![h] = written[h]]
    BY <1>0, <1>3 DEF FilesFit
  <2> HIDE DEF g
  <2> QED BY <1>0, <1>1, <2>2, <2>3, <2>4, FileChanges
<1>4. ASSUME NEW n \in 1 .. MaxSize, unixFiles' = [unixFiles EXCEPT ![h] = SizeHint(@, n)],
             written' = [written EXCEPT ![h] =
                           IF unixFiles'[h].fileSize > Len(@) THEN Resized(@, unixFiles'[h].fileSize) ELSE @]
      PROVE  FilesFit'
  <2> DEFINE nSize == RoundUp(n, f.szChunk)
             nAlloc == RoundUp(nSize, MEMPAGE)
             grows == f.szChunk # 0 /\ nSize > f.fileSize /\ nAlloc > Len(f.pBuf)
             bare == Realloc(f.pBuf, nAlloc)
             buf == ClearedFrom(bare, f.fileSize)
             g == [f EXCEPT !.pBuf = buf, !.fileSize = nSize]
  <2>1. nSize \in Nat /\ nAlloc \in Nat /\ nSize <= nAlloc
    <3>1. n \in Nat
      BY DEF VFSAssumption
    <3>2. nSize \in Nat
      BY <1>1, <3>1, RoundedUp
    <3> HIDE DEF nSize
    <3> QED BY <3>2, RoundedUp DEF VFSAssumption
  <2>2. unixFiles'[h] = SizeHint(f, n)
    BY <1>0, <1>4 DEF FilesFit
  <2>3. SizeHint(f, n) = IF grows THEN g ELSE f
    BY DEF SizeHint
  <2>4. CASE ~grows
    <3>1. unixFiles'[h] = f /\ unixFiles' = [unixFiles EXCEPT ![h] = f]
      BY <1>4, <2>2, <2>3, <2>4
    <3>2. written' = [written EXCEPT ![h] = written[h]]
      <4>1. unixFiles'[h].fileSize = f.fileSize
        BY <3>1
      <4>2. ~(unixFiles'[h].fileSize > Len(written[h]))
        BY <1>1, <1>2, <4>1
      <4> QED BY <1>4, <4>2
    <3> QED BY <1>0, <1>1, <3>1, <3>2, FileChanges
  <2>5. CASE grows
    <3>0. nSize > f.fileSize
      BY <2>5
    <3> HIDE DEF nSize, nAlloc
    <3>1. Keeps(bare, written[h], f.fileSize) /\ Len(bare) = nAlloc
      BY <1>1, <2>1, <3>0, ReallocKept
    <3> HIDE DEF bare
    <3>2. Keeps(buf, written[h], f.fileSize) /\ Len(buf) = nAlloc
      <4>1. f.fileSize <= f.fileSize
        BY <1>1
      <4> QED BY <1>1, <3>1, <4>1, ClearKept
    <3> HIDE DEF buf
    <3>3. Keeps(buf, Resized(written[h], nSize), nSize)
      BY <1>1, <2>1, <3>0, <3>2, GrowthKept
    <3>4. g \in UnixFiles /\ g.pBuf = buf /\ g.fileSize = nSize
      BY <1>1, <2>1, <3>2 DEF UnixFiles, Keeps
    <3>5. unixFiles' = [unixFiles EXCEPT ![h] = g]
      BY <1>4, <2>3, <2>5
    <3>6. written' = [written EXCEPT ![h] = Resized(written[h], nSize)]
      BY <1>2, <1>4, <2>1, <2>2, <2>3, <2>5, <3>0, <3>4
    <3> HIDE DEF g
    <3> QED BY <1>0, <3>3, <3>4, <3>5, <3>6, FileChanges
  <2> QED BY <2>4, <2>5
<1> QED BY <1>3, <1>4 DEF FileControl

\* What a file is stored as has what was written to it.
LEMMA StoredFits ==
  ASSUME FilesFit, NEW h \in Handles
  PROVE  /\ StoredCells(unixFiles[h]) \in Cells /\ written[h] \in Cells
         /\ Agrees(StoredCells(unixFiles[h]), written[h])
<1> DEFINE f == unixFiles[h]
           n == f.fileSize
           cells == SubSeq(f.pBuf, 1, n)
<1>1. Keeps(f.pBuf, written[h], n) /\ n \in Nat /\ Len(f.pBuf) \in Nat
  BY FileOf
<1>2. \A i \in 1 .. n : f.pBuf[i] \in Int
  BY <1>1 DEF Keeps, Cells
<1>3. cells \in Seq(Int) /\ Len(cells) = n /\ \A i \in 1 .. n : cells[i] = f.pBuf[i]
  BY <1>1, <1>2, SubSeqProperties
<1>4. DOMAIN written[h] = 1 .. n /\ Len(written[h]) = n /\ written[h] \in Cells
  BY <1>1, LenProperties DEF Keeps, Cells
<1>5. \A i \in 1 .. n : written[h][i] # Unwritten => cells[i] = written[h][i]
  BY <1>1, <1>3 DEF Keeps
<1>6. StoredCells(f) = cells
  BY DEF StoredCells
<1> HIDE DEF cells
<1> QED BY <1>3, <1>4, <1>5, <1>6 DEF Agrees, Cells

LEMMA Closing ==
  ASSUME VFSInv, NEW h \in Handles, CloseUnixFile(h)
  PROVE  VFSInv'
<1>0. FilesFit /\ KeysFit
  BY DEF VFSInv
<1>1. FilesFit'
  <2>1. Closed \in UnixFiles /\ Closed.pBuf = <<>> /\ Closed.fileSize = 0 /\ Keeps(<<>>, <<>>, 0)
    BY DEF Closed, UnixFiles, Cells, Keeps
  <2>2. unixFiles' = [unixFiles EXCEPT ![h] = Closed] /\ written' = [written EXCEPT ![h] = <<>>]
    BY DEF CloseUnixFile
  <2> QED BY <1>0, <2>1, <2>2, FileChanges
<1>2. KeysFit'
  <2>1. CASE UNCHANGED <<keys, stored>>
    BY <1>0, <2>1 DEF KeysFit, CloseUnixFile
  <2>2. CASE /\ keys' = Append(keys, StoredCells(unixFiles[h])) /\ stored' = Append(stored, written[h])
    <3> DEFINE cells == StoredCells(unixFiles[h])
               w == written[h]
    <3>1. cells \in Cells /\ w \in Cells /\ Agrees(cells, w)
      BY <1>0, StoredFits
    <3>2. keys' = Append(keys, cells) /\ stored' = Append(stored, w) /\ writable' = writable
      BY <2>2 DEF CloseUnixFile
    <3> HIDE DEF cells, w
    <3>3. /\ keys' \in Seq(Cells) /\ Len(keys') = Len(keys) + 1 /\ keys'[Len(keys) + 1] = cells
          /\ \A k \in 1 .. Len(keys) : keys'[k] = keys[k]
      BY <1>0, <3>1, <3>2, AppendProperties DEF KeysFit
    <3>4. /\ stored' \in Seq(Cells) /\ Len(stored') = Len(stored) + 1 /\ stored'[Len(stored) + 1] = w
          /\ \A k \in 1 .. Len(stored) : stored'[k] = stored[k]
      BY <1>0, <3>1, <3>2, AppendProperties DEF KeysFit
    <3>5. Len(keys) = Len(stored) /\ Len(keys) \in Nat /\ writable \in BOOLEAN
      BY <1>0, LenProperties DEF KeysFit
    <3>6. ASSUME NEW k \in 1 .. Len(keys) + 1 PROVE Agrees(keys'[k], stored'[k])
      <4>1. CASE k = Len(keys) + 1
        BY <3>1, <3>3, <3>4, <3>5, <4>1
      <4>2. CASE k \in 1 .. Len(keys)
        BY <1>0, <3>3, <3>4, <3>5, <4>2 DEF KeysFit
      <4> QED BY <3>5, <4>1, <4>2
    <3> QED BY <3>2, <3>3, <3>4, <3>5, <3>6 DEF KeysFit
  <2> QED BY <2>1, <2>2 DEF CloseUnixFile
<1> QED BY <1>1, <1>2 DEF VFSInv

-----------------------------------------------------------------------------
(* The theorems.                                                            *)

LEMMA VFSStarts == VFSAssumption /\ Init => VFSInv
<1> SUFFICES ASSUME VFSAssumption, Init PROVE VFSInv
  OBVIOUS
<1>1. Closed \in UnixFiles /\ Closed.pBuf = <<>> /\ Closed.fileSize = 0 /\ Keeps(<<>>, <<>>, 0)
  BY DEF Closed, UnixFiles, Cells, Keeps
<1>2. FilesFit
  BY <1>1 DEF FilesFit, Init, Keeps
<1>3. KeysFit
  BY DEF KeysFit, Init
<1> QED BY <1>2, <1>3 DEF VFSInv

LEMMA VFSSteps == VFSAssumption /\ VFSInv /\ [Next]_vfsVars => VFSInv'
<1> SUFFICES ASSUME VFSAssumption, VFSInv, [Next]_vfsVars PROVE VFSInv'
  OBVIOUS
<1>0. FilesFit /\ KeysFit
  BY DEF VFSInv
<1>1. ASSUME UNCHANGED <<keys, stored>>, writable' \in BOOLEAN PROVE KeysFit'
  BY <1>0, <1>1 DEF KeysFit
<1>2. CASE UNCHANGED vfsVars
  BY <1>0, <1>2 DEF vfsVars, VFSInv, FilesFit, KeysFit
<1>3. CASE ReopenRootFile
  BY <1>0, <1>3 DEF ReopenRootFile, VFSInv, FilesFit, KeysFit
<1>4. ASSUME NEW h \in Handles, Open(h) PROVE VFSInv'
  <2>1. UNCHANGED <<keys, stored, writable>>
    BY <1>4 DEF Open
  <2> QED BY <1>0, <1>1, <1>4, <2>1, Opens DEF VFSInv, KeysFit
<1>5. ASSUME NEW h \in Handles, CloseUnixFile(h) PROVE VFSInv'
  BY <1>5, Closing
<1>6. ASSUME NEW h \in Handles, FileControl(h) PROVE VFSInv'
  <2>1. UNCHANGED <<keys, stored, writable>>
    BY <1>6 DEF FileControl
  <2> QED BY <1>0, <1>1, <1>6, <2>1, Controlling DEF VFSInv, KeysFit
<1>7. ASSUME NEW h \in Handles, NEW n \in 0 .. MaxSize, UnixTruncate(h, n) PROVE VFSInv'
  <2>1. UNCHANGED <<keys, stored, writable>>
    BY <1>7 DEF UnixTruncate
  <2> QED BY <1>0, <1>1, <1>7, <2>1, Truncating DEF VFSInv, KeysFit
<1>8. ASSUME NEW h \in Handles, NEW offset \in 0 .. MaxSize, NEW cells \in Writes, UnixWrite(h, offset, cells)
      PROVE  VFSInv'
  <2>1. UNCHANGED <<keys, stored, writable>>
    BY <1>8 DEF UnixWrite
  <2> QED BY <1>0, <1>1, <1>8, <2>1, Writing DEF VFSInv, KeysFit
<1> QED BY <1>2, <1>3, <1>4, <1>5, <1>6, <1>7, <1>8 DEF Next

LEMMA KeptCycles == VFSInv => CyclesKept
<1> SUFFICES ASSUME VFSInv PROVE CyclesKept
  OBVIOUS
<1>1. DOMAIN keys = 1 .. Len(keys)
  BY LenProperties DEF VFSInv, KeysFit
<1> QED BY <1>1 DEF VFSInv, KeysFit, CyclesKept

LEMMA KeptFiles == VFSInv => ReadsBack
<1> SUFFICES ASSUME VFSInv, NEW h \in Handles PROVE
      LET f == unixFiles[h]
      IN /\ Agrees(StoredCells(f), written[h])
         /\ \A offset \in 0 .. f.fileSize : \A amt \in 0 .. f.fileSize - offset :
              LET read == UnixRead(f, offset, amt)
              IN amt > 0 => read.rc = "ok" /\ Agrees(read.cells, SubSeq(written[h], offset + 1, offset + amt))
  BY DEF ReadsBack
<1> DEFINE f == unixFiles[h]
           w == written[h]
<1>1. FilesFit
  BY DEF VFSInv
<1>2. /\ Keeps(f.pBuf, w, f.fileSize) /\ f.fileSize \in Nat /\ Len(f.pBuf) \in Nat
      /\ DOMAIN f.pBuf = 1 .. Len(f.pBuf) /\ DOMAIN w = 1 .. f.fileSize
      /\ \A i \in 1 .. Len(f.pBuf) : f.pBuf[i] \in Int
      /\ \A i \in 1 .. f.fileSize : w[i] \in Int
  BY <1>1, FileOf, LenProperties DEF Keeps, Cells
<1>3. ASSUME NEW offset \in 0 .. f.fileSize, NEW amt \in 0 .. f.fileSize - offset, amt > 0
      PROVE  /\ UnixRead(f, offset, amt).rc = "ok"
             /\ Agrees(UnixRead(f, offset, amt).cells, SubSeq(w, offset + 1, offset + amt))
  <2> DEFINE cells == [i \in 1 .. amt |-> f.pBuf[offset + i]]
             was == SubSeq(w, offset + 1, offset + amt)
  <2>1. amt \in Nat /\ offset \in Nat /\ offset + amt <= f.fileSize /\ offset + amt <= Len(f.pBuf)
    BY <1>2, <1>3 DEF Keeps
  <2>2. SeekAndRead(f, offset, amt) = amt
    BY <1>2, <1>3, <2>1 DEF SeekAndRead
  <2>3. \A i \in 1 .. amt : offset + i \in DOMAIN f.pBuf
    BY <1>2, <2>1
  <2>4. UnixRead(f, offset, amt) = [rc |-> "ok", cells |-> cells]
    <3>1. [i \in 1 .. amt |-> IF i <= amt THEN Cell(f, offset + i) ELSE Zero] = cells
      BY <2>1, <2>3 DEF Cell
    <3> QED BY <2>2, <3>1 DEF UnixRead
  <2>5. cells \in [1 .. amt -> Int]
    BY <1>2, <2>3
  <2>6. Len(cells) = amt
    BY <2>1, <2>5, CellsOfLength
  <2>7. \A i \in offset + 1 .. offset + amt : w[i] \in Int
    BY <1>2, <2>1
  <2>8. /\ was \in Seq(Int) /\ Len(was) = amt
        /\ \A i \in 1 .. amt : was[i] = w[offset + i]
    BY <2>1, <2>7, SubSeqProperties, <1>3
  <2> HIDE DEF was
  <2>9. ASSUME NEW i \in 1 .. amt, was[i] # Unwritten PROVE cells[i] = was[i]
    <3>1. offset + i \in 1 .. f.fileSize /\ was[i] = w[offset + i] /\ cells[i] = f.pBuf[offset + i]
      BY <1>2, <2>1, <2>8
    <3> QED BY <1>2, <2>9, <3>1 DEF Keeps
  <2>10. DOMAIN was = 1 .. amt
    BY <2>8, LenProperties
  <2> HIDE DEF cells
  <2>11. Agrees(cells, was)
    BY <2>6, <2>8, <2>9, <2>10 DEF Agrees
  <2> QED BY <2>4, <2>11 DEF was
<1> QED BY <1>1, <1>3, StoredFits

\* What a job had written to its database when it closed it is what a later job
\* finds in the newest cycle of the key (closeUnixFile, unixOpen).
THEOREM DatabasesArePassedOn ==
  ASSUME VFSAssumption
  PROVE  Spec => []CyclesKept
<1> QED BY VFSStarts, VFSSteps, KeptCycles, PTL DEF Spec

\* What SQLite has written to a file and not cut off is in it and is read back as it
\* was written, however the file grew, was cut and by whatever allocation failed
\* (seekAndWrite, unixTruncate, fcntlSizeHint, unixRead).
THEOREM FilesReadBack ==
  ASSUME VFSAssumption
  PROVE  Spec => []ReadsBack
<1> QED BY VFSStarts, VFSSteps, KeptFiles, PTL DEF Spec

-----------------------------------------------------------------------------
(* What is said of an output file.                                          *)

CONSTANTS Runs, SubRuns, Events, Inputs, Pattern, MaxFiles, MaxSources, MaxRecords
VARIABLES stats, isOpen, input, run, subRun, drops, recorded, sources, files, disk

Stats == INSTANCE FileStats

Numbers == Nat \union {Stats!None}
Names == Inputs \union {Stats!Absent}
SubRunIDs == [run : Numbers, subRun : Numbers]
EventIDs == [run : Numbers, subRun : Numbers, event : Numbers]
Collectors ==
  [lowest : SubRunIDs, highest : SubRunIDs, firstEvent : EventIDs, lastEvent : EventIDs,
   seqNo : Nat, lastInput : Names, inputs : Seq(Names), nEvents : Nat, seen : SUBSET SubRunIDs]
Records == [run : Nat] \union [run : Nat, subRun : Nat] \union [run : Nat, subRun : Nat, event : Nat]

-----------------------------------------------------------------------------
(* The inductive invariant.                                                 *)

\* The collector, and the entries that are open and written.
CollectorFits ==
  /\ stats \in Collectors /\ input \in Names
  /\ run \in Numbers /\ subRun \in Numbers
  /\ (subRun # Stats!None => run # Stats!None) /\ (run # Stats!None => isOpen)
  /\ recorded \subseteq Records

\* The input files noted are those that were open, and are handed on with the file.
ParentsFit == (isOpen => stats.inputs = sources) /\ Stats!ParentsOfFile

\* The files are counted, and each has a name.
NamesFit ==
  /\ files \in Seq(Range(files)) /\ stats.seqNo = Len(files)
  /\ \A i \in 1 .. Len(files) : files[i].name \in DOMAIN disk

StatsInv == CollectorFits /\ Stats!RangeOfFile /\ ParentsFit /\ NamesFit

\* The numbers that are open and written are those in use.
InUse ==
  /\ run \in Runs \union {Stats!None} /\ subRun \in SubRuns \union {Stats!None}
  /\ \A x \in recorded : x.run \in Runs /\ ("subRun" \in DOMAIN x => x.subRun \in SubRuns)
  /\ isOpen => Len(files) < MaxFiles

\* Each file is named by its number, and by others, and is found under that name.
KeptInv ==
  /\ InUse
  /\ \A i \in 1 .. Len(files) :
       \E st \in Stats!NamedBy(i) : files[i].name = Stats!ApplySubstitutions(st)
  /\ Stats!EachFileKept

-----------------------------------------------------------------------------
(* The range of runs and sub-runs.                                          *)

\* What IsLowest and IsHighest say, of the runs and the sub-runs that were written.
LowestOf(a, R, S) ==
  LET mine == {sr \in S : sr.run = a.run} IN
  IF R = {} THEN a = Stats!NoSubRun
  ELSE /\ a.run \in R /\ \A r \in R : a.run <= r
       /\ IF mine = {} THEN a.subRun = Stats!None
          ELSE a \in mine /\ \A sr \in mine : a.subRun <= sr.subRun

HighestOf(a, R, S) ==
  LET mine == {sr \in S : sr.run = a.run} IN
  IF R = {} THEN a = Stats!NoSubRun
  ELSE /\ a.run \in R /\ \A r \in R : r <= a.run
       /\ IF mine = {} THEN a.subRun = Stats!None
          ELSE a \in mine /\ \A sr \in mine : sr.subRun <= a.subRun

\* Sub-runs of these runs.
SubRunsIn(S, R) == R \subseteq Nat /\ S \subseteq [run : R, subRun : Nat]

LEMMA RangeIsOf ==
  ASSUME NEW rec, NEW a
  PROVE  /\ Stats!IsLowest(a, rec) <=> LowestOf(a, Stats!RunsOf(rec), Stats!SubRunsOf(rec))
         /\ Stats!IsHighest(a, rec) <=> HighestOf(a, Stats!RunsOf(rec), Stats!SubRunsOf(rec))
<1>1. rec = {} <=> Stats!RunsOf(rec) = {}
  BY DEF Stats!RunsOf
<1> QED BY <1>1 DEF Stats!IsLowest, Stats!IsHighest, LowestOf, HighestOf

LEMMA RunExtends ==
  ASSUME NEW R, NEW S, SubRunsIn(S, R), NEW st \in Collectors, NEW r \in Nat,
         LowestOf(st.lowest, R, S), HighestOf(st.highest, R, S)
  PROVE  /\ Stats!RecordRun(st, r) \in Collectors
         /\ SubRunsIn(S, R \union {r})
         /\ LowestOf(Stats!RecordRun(st, r).lowest, R \union {r}, S)
         /\ HighestOf(Stats!RecordRun(st, r).highest, R \union {r}, S)
<1> DEFINE a == st.lowest
           b == st.highest
           low == IF a.run = Stats!None \/ r < a.run THEN Stats!SubRunID(r, Stats!None) ELSE a
           high == IF r > b.run THEN Stats!SubRunID(r, Stats!None) ELSE b
<1>1. /\ a \in SubRunIDs /\ b \in SubRunIDs /\ a.run \in Numbers /\ b.run \in Numbers
      /\ R \subseteq Nat /\ S \subseteq [run : R, subRun : Nat]
  BY DEF Collectors, SubRunIDs, SubRunsIn
<1>2. Stats!SubRunID(r, Stats!None) \in SubRunIDs
  BY DEF Stats!SubRunID, SubRunIDs, Numbers
<1>3. Stats!RecordRun(st, r) = [st EXCEPT !.lowest = low, !.highest = high]
  BY DEF Stats!RecordRun
<1> HIDE DEF low, high
<1>4. low \in SubRunIDs /\ high \in SubRunIDs
  BY <1>1, <1>2 DEF low, high
<1>5. /\ Stats!RecordRun(st, r) \in Collectors
      /\ Stats!RecordRun(st, r).lowest = low /\ Stats!RecordRun(st, r).highest = high
  BY <1>3, <1>4 DEF Collectors
<1>6. SubRunsIn(S, R \union {r})
  BY <1>1 DEF SubRunsIn
<1>7. R # {} => a.run \in R /\ \A q \in R : a.run <= q
  BY DEF LowestOf
<1>8. R # {} => b.run \in R /\ \A q \in R : q <= b.run
  BY DEF HighestOf
<1> HIDE DEF a, b
<1>9. \A q \in R : q \in Nat
  BY <1>1
<1>10. R # {} => a.run \in Nat /\ b.run \in Nat
  BY <1>7, <1>8, <1>9
<1>11. LowestOf(low, R \union {r}, S)
  <2>1. CASE R = {}
    <3>1. a.run = Stats!None /\ S = {}
      BY <1>1, <2>1 DEF a, LowestOf, Stats!NoSubRun, Stats!SubRunID
    <3>2. low.run = r /\ low.subRun = Stats!None
      BY <3>1 DEF low, Stats!SubRunID
    <3> QED BY <2>1, <3>1, <3>2 DEF LowestOf
  <2>2. CASE R # {} /\ r < a.run
    <3>1. low.run = r /\ low.subRun = Stats!None
      BY <2>2 DEF low, Stats!SubRunID
    <3>2. \A q \in R : q \in Nat /\ r < q
      BY <1>7, <1>9, <1>10, <2>2
    <3>3. {sr \in S : sr.run = r} = {}
      BY <1>1, <3>2
    <3> QED BY <3>1, <3>2, <3>3 DEF LowestOf
  <2>3. CASE R # {} /\ ~(r < a.run)
    <3>1. a.run \in R /\ a.run # Stats!None
      BY <1>7, <1>10, <2>3 DEF Stats!None
    <3>2. low = a
      BY <2>3, <3>1 DEF low
    <3>3. a.run \in Nat /\ a.run <= r
      BY <1>10, <2>3
    <3> QED BY <2>3, <3>2, <3>3 DEF a, LowestOf
  <2> QED BY <2>1, <2>2, <2>3
<1>12. HighestOf(high, R \union {r}, S)
  <2>1. CASE R = {}
    <3>1. b.run = -1 /\ S = {}
      BY <1>1, <2>1 DEF b, HighestOf, Stats!NoSubRun, Stats!SubRunID, Stats!None
    <3>2. high.run = r /\ high.subRun = Stats!None
      BY <3>1 DEF high, Stats!SubRunID
    <3> QED BY <2>1, <3>1, <3>2 DEF HighestOf
  <2>2. CASE R # {} /\ r > b.run
    <3>1. high.run = r /\ high.subRun = Stats!None
      BY <2>2 DEF high, Stats!SubRunID
    <3>2. \A q \in R : q \in Nat /\ q < r
      BY <1>8, <1>9, <1>10, <2>2
    <3>3. {sr \in S : sr.run = r} = {}
      BY <1>1, <3>2
    <3> QED BY <3>1, <3>2, <3>3 DEF HighestOf
  <2>3. CASE R # {} /\ ~(r > b.run)
    <3>1. high = b /\ b.run \in R
      BY <1>8, <2>3 DEF high
    <3>2. b.run \in Nat /\ r <= b.run
      BY <1>10, <2>3
    <3> QED BY <2>3, <3>1, <3>2 DEF b, HighestOf
  <2> QED BY <2>1, <2>2, <2>3
<1> QED BY <1>5, <1>6, <1>11, <1>12

LEMMA SubRunExtends ==
  ASSUME NEW R, NEW S, SubRunsIn(S, R), NEW st \in Collectors, NEW r \in Nat, NEW s \in Nat,
         LowestOf(st.lowest, R, S), HighestOf(st.highest, R, S)
  PROVE  LET sr == Stats!SubRunID(r, s)
             new == Stats!RecordSubRun(st, sr)
         IN /\ new \in Collectors
            /\ LowestOf(new.lowest, R \union {r}, S \union {sr})
            /\ HighestOf(new.highest, R \union {r}, S \union {sr})
<1> DEFINE sr == Stats!SubRunID(r, s)
           ran == Stats!RecordRun(st, r)
           Q == R \union {r}
           a == ran.lowest
           b == ran.highest
           low == IF sr.run = a.run /\ (a.subRun = Stats!None \/ Stats!SubRunLess(sr, a)) THEN sr ELSE a
           high == IF Stats!SubRunLess(b, sr) THEN sr ELSE b
           T == S \union {sr}
           new == Stats!RecordSubRun(st, sr)
<1>1. /\ ran \in Collectors /\ SubRunsIn(S, Q) /\ LowestOf(a, Q, S) /\ HighestOf(b, Q, S)
  BY RunExtends
<1>2. sr.run = r /\ sr.subRun = s /\ sr \in SubRunIDs
  BY DEF Stats!SubRunID, SubRunIDs, Numbers
<1>3. new = [ran EXCEPT !.lowest = low, !.highest = high, !.seen = @ \union {sr}]
  BY <1>2 DEF Stats!RecordSubRun
<1> HIDE DEF ran, sr
<1>4. low \in SubRunIDs /\ high \in SubRunIDs /\ a \in SubRunIDs /\ b \in SubRunIDs
  BY <1>1, <1>2 DEF Collectors
<1> HIDE DEF low, high
<1>5. new \in Collectors /\ new.lowest = low /\ new.highest = high
  <2> DEFINE noted == ran.seen \union {sr}
  <2>1. noted \in SUBSET SubRunIDs
    BY <1>1, <1>2 DEF Collectors
  <2>2. new = [ran EXCEPT !.lowest = low, !.highest = high, !.seen = noted]
    BY <1>3
  <2> HIDE DEF noted, new
  <2> QED BY <1>1, <1>4, <2>1, <2>2 DEF Collectors
<1> HIDE DEF new, a, b
<1>6. /\ r \in Q /\ Q # {} /\ \A q \in Q : q \in Nat
      /\ \A x \in S : x.run \in Q /\ x.subRun \in Nat
  BY <1>1 DEF SubRunsIn
<1> HIDE DEF Q
<1>7. a.run \in Q /\ a.run \in Nat /\ \A q \in Q : a.run <= q
  BY <1>1, <1>6 DEF LowestOf
<1>8. b.run \in Q /\ b.run \in Nat /\ \A q \in Q : q <= b.run
  BY <1>1, <1>6 DEF HighestOf
<1>9. LowestOf(low, Q, T)
  <2> DEFINE mine == {x \in S : x.run = a.run}
             ours == {x \in T : x.run = low.run}
  <2>1. IF mine = {} THEN a.subRun = Stats!None
        ELSE a \in mine /\ \A x \in mine : a.subRun <= x.subRun
    BY <1>1, <1>6 DEF LowestOf
  <2>2. low.run = a.run
    BY <1>2 DEF low
  <2>3. ours # {} => low \in ours /\ \A x \in ours : low.subRun <= x.subRun
    <3>1. CASE sr.run # a.run
      <4>1. low = a /\ ours = mine
        BY <2>2, <3>1 DEF low
      <4> QED BY <2>1, <4>1
    <3>2. CASE sr.run = a.run /\ mine = {}
      <4>1. low = sr /\ \A x \in ours : x = sr
        BY <2>1, <2>2, <3>2 DEF low
      <4> QED BY <1>2, <4>1
    <3>3. CASE sr.run = a.run /\ mine # {}
      <4>1. a \in mine /\ a.subRun \in Nat /\ \A x \in mine : a.subRun <= x.subRun
        BY <1>6, <2>1, <3>3
      <4>2. low = IF s < a.subRun THEN sr ELSE a
        BY <1>2, <1>7, <3>3, <4>1 DEF low, Stats!SubRunLess, Stats!None
      <4>3. \A x \in ours : x = sr \/ x \in mine
        BY <2>2
      <4>4. low \in ours
        BY <2>2, <3>3, <4>1, <4>2
      <4>5. low.subRun <= s /\ low.subRun <= a.subRun /\ low.subRun \in Nat
        BY <1>2, <4>1, <4>2
      <4>6. ASSUME NEW x \in ours PROVE low.subRun <= x.subRun
        <5>1. x \in mine => x.subRun \in Nat /\ a.subRun <= x.subRun
          BY <1>6, <4>1
        <5> QED BY <1>2, <4>1, <4>3, <4>5, <5>1
      <4> QED BY <4>4, <4>6
    <3> QED BY <3>1, <3>2, <3>3
  <2>4. ours = {} => low.subRun = Stats!None
    <3>1. ours = {} => mine = {} /\ low = a
      BY <1>2, <2>2 DEF low
    <3> QED BY <2>1, <3>1
  <2> HIDE DEF mine
  <2> QED BY <1>6, <1>7, <2>2, <2>3, <2>4 DEF LowestOf
<1>10. HighestOf(high, Q, T)
  <2> DEFINE mine == {x \in S : x.run = b.run}
             ours == {x \in T : x.run = high.run}
  <2>1. IF mine = {} THEN b.subRun = Stats!None
        ELSE b \in mine /\ \A x \in mine : x.subRun <= b.subRun
    BY <1>1, <1>6 DEF HighestOf
  <2>2. r <= b.run
    BY <1>6, <1>8
  <2>3. Stats!SubRunLess(b, sr) <=> r = b.run /\ b.subRun < s
    BY <1>2, <1>8, <2>2 DEF Stats!SubRunLess
  <2>4. high.run = b.run
    BY <1>2, <2>3 DEF high
  <2>5. ours # {} => high \in ours /\ \A x \in ours : x.subRun <= high.subRun
    <3>1. CASE sr.run # b.run
      <4>1. high = b /\ ours = mine
        BY <1>2, <2>3, <2>4, <3>1 DEF high
      <4> QED BY <2>1, <4>1
    <3>2. CASE sr.run = b.run /\ mine = {}
      <4>1. b.subRun = -1
        BY <2>1, <3>2 DEF Stats!None
      <4>2. high = sr /\ \A x \in ours : x = sr
        BY <1>2, <2>3, <2>4, <3>2, <4>1 DEF high
      <4> QED BY <1>2, <4>2
    <3>3. CASE sr.run = b.run /\ mine # {}
      <4>1. b \in mine /\ b.subRun \in Nat /\ \A x \in mine : x.subRun <= b.subRun
        BY <1>6, <2>1, <3>3
      <4>2. high = IF b.subRun < s THEN sr ELSE b
        BY <1>2, <2>3, <3>3 DEF high
      <4>3. \A x \in ours : x = sr \/ x \in mine
        BY <2>4
      <4>4. high \in ours
        BY <2>4, <3>3, <4>1, <4>2
      <4>5. s <= high.subRun /\ b.subRun <= high.subRun /\ high.subRun \in Nat
        BY <1>2, <4>1, <4>2
      <4>6. ASSUME NEW x \in ours PROVE x.subRun <= high.subRun
        <5>1. x \in mine => x.subRun \in Nat /\ x.subRun <= b.subRun
          BY <1>6, <4>1
        <5> QED BY <1>2, <4>1, <4>3, <4>5, <5>1
      <4> QED BY <4>4, <4>6
    <3> QED BY <3>1, <3>2, <3>3
  <2>6. ours = {} => high.subRun = Stats!None
    <3>1. ours = {} => mine = {} /\ high = b
      BY <1>2, <2>3, <2>4 DEF high
    <3> QED BY <2>1, <3>1
  <2> HIDE DEF mine
  <2> QED BY <1>6, <1>8, <2>4, <2>5, <2>6 DEF HighestOf
<1> QED BY <1>5, <1>9, <1>10 DEF new, sr, Q

\* The records of the entries.
LEMMA RecordsAreOf ==
  ASSUME NEW rec \in SUBSET Records
  PROVE  SubRunsIn(Stats!SubRunsOf(rec), Stats!RunsOf(rec))
<1>1. \A x \in rec : x.run \in Nat
  BY DEF Records
<1>2. \A x \in rec : "subRun" \in DOMAIN x => x.subRun \in Nat
  BY DEF Records
<1>3. Stats!RunsOf(rec) \subseteq Nat
  BY <1>1 DEF Stats!RunsOf
<1>4. \A x \in rec : x.run \in Stats!RunsOf(rec)
  BY DEF Stats!RunsOf
<1>5. Stats!SubRunsOf(rec) \subseteq [run : Stats!RunsOf(rec), subRun : Nat]
  BY <1>2, <1>4 DEF Stats!SubRunsOf, Stats!SubRunID
<1> QED BY <1>3, <1>5 DEF SubRunsIn

LEMMA RunAdded ==
  ASSUME NEW rec \in SUBSET Records, NEW r \in Nat
  PROVE  LET now == rec \union {[run |-> r]}
         IN /\ now \subseteq Records /\ Stats!RunsOf(now) = Stats!RunsOf(rec) \union {r}
            /\ Stats!SubRunsOf(now) = Stats!SubRunsOf(rec)
<1> DEFINE x == [run |-> r]
<1>1. x \in Records /\ x.run = r /\ "subRun" \notin DOMAIN x
  BY DEF Records
<1> HIDE DEF x
<1>2. Stats!RunsOf(rec \union {x}) = Stats!RunsOf(rec) \union {r}
  BY <1>1 DEF Stats!RunsOf
<1>3. Stats!SubRunsOf(rec \union {x}) = Stats!SubRunsOf(rec)
  BY <1>1 DEF Stats!SubRunsOf
<1> QED BY <1>1, <1>2, <1>3 DEF x

\* The record of a sub-run, or of an event of it.
OfSubRun(x, r, s) == x = Stats!SubRunID(r, s) \/ \E e \in Nat : x = Stats!EventID(r, s, e)

LEMMA SubRunAdded ==
  ASSUME NEW rec \in SUBSET Records, NEW r \in Nat, NEW s \in Nat, NEW x,
         OfSubRun(x, r, s)
  PROVE  LET now == rec \union {x}
         IN /\ now \subseteq Records /\ Stats!RunsOf(now) = Stats!RunsOf(rec) \union {r}
            /\ Stats!SubRunsOf(now) = Stats!SubRunsOf(rec) \union {Stats!SubRunID(r, s)}
<1>1. x \in Records /\ x.run = r /\ x.subRun = s /\ "subRun" \in DOMAIN x
  BY DEF OfSubRun, Records, Stats!SubRunID, Stats!EventID
<1>2. Stats!RunsOf(rec \union {x}) = Stats!RunsOf(rec) \union {r}
  BY <1>1 DEF Stats!RunsOf
<1>3. Stats!SubRunsOf(rec \union {x}) = Stats!SubRunsOf(rec) \union {Stats!SubRunID(r, s)}
  BY <1>1 DEF Stats!SubRunsOf
<1> QED BY <1>1, <1>2, <1>3

\* A collector has the range of what was written.
Ranges(st, rec) == Stats!IsLowest(st.lowest, rec) /\ Stats!IsHighest(st.highest, rec)

LEMMA RunNoted ==
  ASSUME NEW rec \in SUBSET Records, NEW st \in Collectors, Ranges(st, rec), NEW r \in Nat
  PROVE  LET now == rec \union {[run |-> r]}
         IN now \subseteq Records /\ Stats!RecordRun(st, r) \in Collectors /\ Ranges(Stats!RecordRun(st, r), now)
<1> DEFINE R == Stats!RunsOf(rec)
           S == Stats!SubRunsOf(rec)
           now == rec \union {[run |-> r]}
<1>1. SubRunsIn(S, R) /\ LowestOf(st.lowest, R, S) /\ HighestOf(st.highest, R, S)
  BY RecordsAreOf, RangeIsOf DEF Ranges
<1>2. now \subseteq Records /\ Stats!RunsOf(now) = R \union {r} /\ Stats!SubRunsOf(now) = S
  BY RunAdded
<1> HIDE DEF R, S, now
<1>3. /\ Stats!RecordRun(st, r) \in Collectors
      /\ LowestOf(Stats!RecordRun(st, r).lowest, R \union {r}, S)
      /\ HighestOf(Stats!RecordRun(st, r).highest, R \union {r}, S)
  BY <1>1, RunExtends
<1>4. Ranges(Stats!RecordRun(st, r), now)
  BY <1>2, <1>3, RangeIsOf DEF Ranges
<1> QED BY <1>2, <1>3, <1>4 DEF now

LEMMA SubRunNoted ==
  ASSUME NEW rec \in SUBSET Records, NEW st \in Collectors, Ranges(st, rec), NEW r \in Nat, NEW s \in Nat,
         NEW x, OfSubRun(x, r, s)
  PROVE  LET now == rec \union {x}
             new == Stats!RecordSubRun(st, Stats!SubRunID(r, s))
         IN now \subseteq Records /\ new \in Collectors /\ Ranges(new, now)
<1> DEFINE R == Stats!RunsOf(rec)
           S == Stats!SubRunsOf(rec)
           now == rec \union {x}
           new == Stats!RecordSubRun(st, Stats!SubRunID(r, s))
<1>1. SubRunsIn(S, R) /\ LowestOf(st.lowest, R, S) /\ HighestOf(st.highest, R, S)
  BY RecordsAreOf, RangeIsOf DEF Ranges
<1>2. /\ now \subseteq Records /\ Stats!RunsOf(now) = R \union {r}
      /\ Stats!SubRunsOf(now) = S \union {Stats!SubRunID(r, s)}
  BY SubRunAdded
<1> HIDE DEF R, S, now
<1>3. /\ new \in Collectors
      /\ LowestOf(new.lowest, R \union {r}, S \union {Stats!SubRunID(r, s)})
      /\ HighestOf(new.highest, R \union {r}, S \union {Stats!SubRunID(r, s)})
  BY <1>1, SubRunExtends
<1> HIDE DEF new
<1>4. Ranges(new, now)
  BY <1>2, <1>3, RangeIsOf DEF Ranges
<1> QED BY <1>2, <1>3, <1>4 DEF now, new

\* What the steps that note an entry leave alone.
LEMMA NotingKeeps ==
  ASSUME NEW st \in Collectors, NEW r, NEW sr
  PROVE  /\ Stats!RecordRun(st, r).inputs = st.inputs /\ Stats!RecordRun(st, r).seqNo = st.seqNo
         /\ Stats!RecordSubRun(st, sr).inputs = st.inputs /\ Stats!RecordSubRun(st, sr).seqNo = st.seqNo
BY DEF Collectors, Stats!RecordRun, Stats!RecordSubRun

-----------------------------------------------------------------------------
(* The steps.                                                               *)

LEMMA Appended ==
  ASSUME NEW s, s \in Seq(Range(s)), NEW x
  PROVE  LET t == Append(s, x)
         IN /\ t \in Seq(Range(t)) /\ Len(s) \in Nat /\ Len(t) = Len(s) + 1 /\ t[Len(s) + 1] = x
            /\ \A i \in 1 .. Len(s) : t[i] = s[i]
<1> DEFINE S == Range(s) \union {x}
<1>1. s \in Seq(S) /\ x \in S
  <2>1. /\ Len(s) \in Nat /\ s \in [1 .. Len(s) -> Range(s)]
    BY LenProperties
  <2>2. s \in [1 .. Len(s) -> S]
    BY <2>1
  <2> QED BY <2>1, <2>2
<1> HIDE DEF S
<1>2. Append(s, x) \in Seq(S)
  BY <1>1
<1>3. Append(s, x) \in Seq(Range(Append(s, x)))
  BY <1>2, SeqOfRange
<1> QED BY <1>1, <1>3, AppendProperties, LenProperties

LEMMA StatsStarts == Stats!StatsAssumption /\ Stats!Init => StatsInv
<1> SUFFICES ASSUME Stats!StatsAssumption, Stats!Init PROVE StatsInv
  OBVIOUS
<1>1. stats = Stats!NewStats /\ isOpen = FALSE /\ input = Stats!Absent /\ run = Stats!None
      /\ subRun = Stats!None /\ recorded = {} /\ files = <<>>
  BY DEF Stats!Init
<1>2. Stats!NoSubRun \in SubRunIDs /\ Stats!NoEvent \in EventIDs
  BY DEF Stats!NoSubRun, Stats!SubRunID, SubRunIDs, Stats!NoEvent, Stats!EventID, EventIDs, Numbers
<1>3. CollectorFits
  BY <1>1, <1>2 DEF CollectorFits, Stats!NewStats, Collectors, Names, Numbers
<1>4. Stats!RangeOfFile /\ ParentsFit
  BY <1>1 DEF Stats!RangeOfFile, ParentsFit, Stats!ParentsOfFile
<1>5. NamesFit
  <2>1. stats.seqNo = 0
    BY <1>1 DEF Stats!NewStats
  <2>2. files \in Seq(Range(files)) /\ Len(files) = 0 /\ DOMAIN files = {}
    BY <1>1, EmptySeq
  <2> QED BY <2>1, <2>2 DEF NamesFit
<1> QED BY <1>3, <1>4, <1>5 DEF StatsInv

\* A step that notes an entry, or none.
LEMMA Notes ==
  ASSUME StatsInv, stats' \in Collectors, stats'.inputs = stats.inputs, stats'.seqNo = stats.seqNo,
         recorded' \subseteq Records, isOpen => Ranges(stats', recorded'),
         run' \in Numbers, subRun' \in Numbers, subRun' # Stats!None => run' # Stats!None,
         run' # Stats!None => isOpen,
         UNCHANGED <<isOpen, input, drops, sources, files, disk>>
  PROVE  StatsInv'
<1>1. CollectorFits'
  BY DEF StatsInv, CollectorFits
<1>2. Stats!RangeOfFile'
  BY DEF Stats!RangeOfFile, Ranges
<1>3. ParentsFit'
  BY DEF StatsInv, ParentsFit, Stats!ParentsOfFile
<1>4. NamesFit'
  BY DEF StatsInv, NamesFit
<1> QED BY <1>1, <1>2, <1>3, <1>4 DEF StatsInv

LEMMA EntrySteps ==
  ASSUME Stats!StatsAssumption, StatsInv,
         \/ \E r \in Runs : Stats!BeginRun(r)
         \/ \E s \in SubRuns : Stats!BeginSubRun(s)
         \/ \E e \in Events : Stats!WriteEvent(e)
         \/ Stats!WriteSubRun \/ Stats!WriteRun
  PROVE  StatsInv'
<1>1. /\ stats \in Collectors /\ recorded \in SUBSET Records /\ run \in Numbers /\ subRun \in Numbers
      /\ (subRun # Stats!None => run # Stats!None) /\ (run # Stats!None => isOpen)
      /\ isOpen => Ranges(stats, recorded)
  BY DEF StatsInv, CollectorFits, Ranges, Stats!RangeOfFile
<1>2. Stats!None \in Numbers /\ Runs \subseteq Numbers /\ SubRuns \subseteq Numbers
      /\ \A n \in Nat : n # Stats!None
  BY DEF Numbers, Stats!StatsAssumption, Stats!None
<1>3. run # Stats!None => run \in Nat /\ Ranges(stats, recorded)
  BY <1>1 DEF Numbers
<1>4. subRun # Stats!None => subRun \in Nat /\ run \in Nat /\ Ranges(stats, recorded)
  BY <1>1, <1>3 DEF Numbers
<1>5. ASSUME NEW r \in Runs, Stats!BeginRun(r) PROVE StatsInv'
  <2>1. r \in Nat /\ r # Stats!None /\ r \in Numbers
    BY <1>2 DEF Stats!StatsAssumption
  <2>2. UNCHANGED <<stats, isOpen, input, subRun, drops, recorded, sources, files, disk>> /\ run' = r
        /\ isOpen
    BY <1>5 DEF Stats!BeginRun
  <2> QED BY <1>1, <2>1, <2>2, Notes
<1>6. ASSUME NEW s \in SubRuns, Stats!BeginSubRun(s) PROVE StatsInv'
  <2>1. UNCHANGED <<stats, isOpen, input, run, drops, recorded, sources, files, disk>> /\ subRun' = s
        /\ run # Stats!None
    BY <1>6 DEF Stats!BeginSubRun
  <2> QED BY <1>1, <1>2, <2>1, Notes
<1>7. ASSUME NEW e \in Events, Stats!WriteEvent(e) PROVE StatsInv'
  <2> DEFINE x == Stats!EventID(run, subRun, e)
             sr == Stats!SubRunID(run, subRun)
             firstOne == IF stats.firstEvent = Stats!NoEvent \/ Stats!EventLess(x, stats.firstEvent)
                         THEN x ELSE stats.firstEvent
             count == stats.nEvents + 1
             lastOne == IF Stats!EventLess(stats.lastEvent, x) THEN x ELSE stats.lastEvent
             st == [stats EXCEPT !.nEvents = count, !.firstEvent = firstOne, !.lastEvent = lastOne]
             new == Stats!RecordSubRun(st, sr)
  <2>1. run \in Nat /\ subRun \in Nat /\ e \in Nat /\ Ranges(stats, recorded) /\ run # Stats!None
    BY <1>1, <1>4, <1>7 DEF Stats!WriteEvent, Stats!StatsAssumption
  <2>2. x \in EventIDs /\ x.run = run /\ x.subRun = subRun
    BY <2>1 DEF Stats!EventID, EventIDs, Numbers
  <2>3. OfSubRun(x, run, subRun)
    BY <2>1 DEF OfSubRun
  <2>4. stats' = Stats!RecordSubRun(st, sr) /\ recorded' = recorded \union {x}
        /\ UNCHANGED <<isOpen, input, run, subRun, drops, sources, files, disk>>
    BY <1>7, <2>2 DEF Stats!WriteEvent, Stats!RecordEvent, Stats!Written
  <2> HIDE DEF x
  <2>5. firstOne \in EventIDs /\ lastOne \in EventIDs /\ count \in Nat
    BY <1>1, <2>2 DEF Collectors
  <2> HIDE DEF firstOne, lastOne, count
  <2>6. st \in Collectors /\ st.inputs = stats.inputs /\ st.seqNo = stats.seqNo
        /\ st.lowest = stats.lowest /\ st.highest = stats.highest
    BY <1>1, <2>5 DEF Collectors
  <2> HIDE DEF st
  <2>7. Ranges(st, recorded)
    BY <2>1, <2>6 DEF Ranges
  <2>8. new \in Collectors /\ Ranges(new, recorded') /\ recorded' \subseteq Records
    BY <1>1, <2>1, <2>3, <2>4, <2>6, <2>7, SubRunNoted
  <2>9. new.inputs = stats.inputs /\ new.seqNo = stats.seqNo
    BY <2>6, NotingKeeps
  <2> HIDE DEF new
  <2> QED BY <1>1, <2>1, <2>4, <2>8, <2>9, Notes DEF new
<1>8. ASSUME Stats!WriteSubRun PROVE StatsInv'
  <2> DEFINE sr == Stats!SubRunID(run, subRun)
  <2>1. run \in Nat /\ subRun \in Nat /\ Ranges(stats, recorded) /\ run # Stats!None
    BY <1>1, <1>4, <1>8 DEF Stats!WriteSubRun
  <2>2. subRun' = Stats!None /\ UNCHANGED <<isOpen, input, run, drops, sources, files, disk>>
    BY <1>8 DEF Stats!WriteSubRun
  <2>3. CASE UNCHANGED <<stats, recorded>>
    BY <1>1, <1>2, <2>2, <2>3, Notes
  <2>4. CASE stats' = Stats!RecordSubRun(stats, sr) /\ recorded' = recorded \union {sr}
    <3>1. OfSubRun(sr, run, subRun)
      BY DEF OfSubRun
    <3> DEFINE new == Stats!RecordSubRun(stats, Stats!SubRunID(run, subRun))
    <3>2. new \in Collectors /\ Ranges(new, recorded') /\ recorded' \subseteq Records
      <4> HIDE DEF sr
      <4> QED BY <1>1, <2>1, <2>4, <3>1, SubRunNoted
    <3>3. new.inputs = stats.inputs /\ new.seqNo = stats.seqNo
      BY <1>1, NotingKeeps
    <3>4. stats' = new
      BY <2>4
    <3> HIDE DEF new
    <3> QED BY <1>1, <1>2, <2>1, <2>2, <3>2, <3>3, <3>4, Notes
  <2> QED BY <1>8, <2>3, <2>4 DEF Stats!WriteSubRun, Stats!Written
<1>9. ASSUME Stats!WriteRun PROVE StatsInv'
  <2>1. run \in Nat /\ run' = Stats!None /\ subRun = Stats!None
        /\ stats' = Stats!RecordRun(stats, run) /\ recorded' = recorded \union {[run |-> run]}
        /\ UNCHANGED <<isOpen, input, subRun, drops, sources, files, disk>>
    BY <1>3, <1>9 DEF Stats!WriteRun, Stats!Written
  <2> DEFINE new == Stats!RecordRun(stats, run)
  <2>2. new \in Collectors /\ Ranges(new, recorded') /\ recorded' \subseteq Records
    BY <1>1, <1>3, <1>9, <2>1, RunNoted DEF Stats!WriteRun
  <2>3. new.inputs = stats.inputs /\ new.seqNo = stats.seqNo
    BY <1>1, NotingKeeps
  <2> HIDE DEF new
  <2> QED BY <1>1, <1>2, <2>1, <2>2, <2>3, Notes DEF new
<1> QED BY <1>5, <1>6, <1>7, <1>8, <1>9

LEMMA InputSteps ==
  ASSUME StatsInv, \E f \in Inputs : Stats!OpenInput(f)
  PROVE  StatsInv'
<1> PICK f \in Inputs : Stats!OpenInput(f)
  OBVIOUS
<1>1. /\ stats \in Collectors /\ input' = f /\ f \in Names
      /\ UNCHANGED <<isOpen, run, subRun, drops, recorded, files, disk>>
  BY DEF StatsInv, CollectorFits, Stats!OpenInput, Names
<1>2. CASE isOpen
  <2> DEFINE new == Stats!RecordInputFile(stats, f)
             list == Append(stats.inputs, f)
  <2>1. stats' = new /\ sources' = Append(sources, f)
    BY <1>2 DEF Stats!OpenInput
  <2>2. list \in Seq(Names)
    BY <1>1, AppendProperties DEF Collectors
  <2>3. new = [stats EXCEPT !.inputs = list, !.lastInput = f]
    BY DEF Stats!RecordInputFile
  <2> HIDE DEF list
  <2>4. /\ new \in Collectors /\ new.inputs = list /\ new.seqNo = stats.seqNo
        /\ new.lowest = stats.lowest /\ new.highest = stats.highest
    BY <1>1, <2>2, <2>3 DEF Collectors
  <2> HIDE DEF new
  <2>5. CollectorFits' /\ Stats!RangeOfFile'
    BY <1>1, <2>1, <2>4 DEF StatsInv, CollectorFits, Stats!RangeOfFile
  <2>6. ParentsFit'
    BY <1>1, <1>2, <2>1, <2>4 DEF StatsInv, ParentsFit, Stats!ParentsOfFile, list
  <2>7. NamesFit'
    BY <1>1, <2>1, <2>4 DEF StatsInv, NamesFit
  <2> QED BY <2>5, <2>6, <2>7 DEF StatsInv
<1>3. CASE ~isOpen
  <2>1. UNCHANGED <<stats, sources>>
    BY <1>3 DEF Stats!OpenInput
  <2>2. CollectorFits' /\ Stats!RangeOfFile'
    BY <1>1, <2>1 DEF StatsInv, CollectorFits, Stats!RangeOfFile
  <2>3. ParentsFit' /\ NamesFit'
    BY <1>1, <2>1 DEF StatsInv, ParentsFit, Stats!ParentsOfFile, NamesFit
  <2> QED BY <2>2, <2>3 DEF StatsInv
<1> QED BY <1>2, <1>3

LEMMA OutputStep ==
  ASSUME StatsInv, Stats!OpenOutput
  PROVE  StatsInv'
<1> DEFINE fresh == Stats!Reset(stats)
           new == Stats!RecordInputFile(Stats!RecordFileOpen(stats), input)
<1>1. /\ stats \in Collectors /\ input \in Names /\ ~isOpen
      /\ stats' = new /\ isOpen' = TRUE /\ recorded' = {} /\ sources' = << input >>
      /\ UNCHANGED <<input, run, subRun, drops, files, disk>>
  BY DEF StatsInv, CollectorFits, Stats!OpenOutput
<1>2. Stats!NoSubRun \in SubRunIDs
  BY DEF Stats!NoSubRun, Stats!SubRunID, SubRunIDs, Numbers
<1>3. /\ fresh \in Collectors /\ fresh.inputs = <<>> /\ fresh.seqNo = stats.seqNo
      /\ fresh.lowest = Stats!NoSubRun /\ fresh.highest = Stats!NoSubRun
  <2> DEFINE low == Stats!NoSubRun
  <2>1. fresh = [stats EXCEPT !.lowest = low, !.highest = low, !.inputs = <<>>, !.nEvents = 0, !.seen = {}]
    BY DEF Stats!Reset
  <2>2. low \in SubRunIDs /\ <<>> \in Seq(Names) /\ 0 \in Nat /\ {} \in SUBSET SubRunIDs
    BY <1>2
  <2> HIDE DEF low, fresh
  <2>3. /\ fresh \in Collectors /\ fresh.inputs = <<>> /\ fresh.seqNo = stats.seqNo
        /\ fresh.lowest = low /\ fresh.highest = low
    BY <1>1, <2>1, <2>2 DEF Collectors
  <2> QED BY <2>3 DEF low
<1> HIDE DEF fresh
<1>4. Stats!RecordFileOpen(stats) = fresh
  BY <1>3 DEF Stats!RecordFileOpen, fresh
<1>5. Append(<<>>, input) = << input >> /\ << input >> \in Seq(Names)
  BY <1>1
<1>6. new = [fresh EXCEPT !.inputs = << input >>, !.lastInput = input]
  BY <1>3, <1>4, <1>5 DEF Stats!RecordInputFile
<1>7. /\ new \in Collectors /\ new.inputs = << input >> /\ new.seqNo = stats.seqNo
      /\ new.lowest = Stats!NoSubRun /\ new.highest = Stats!NoSubRun
  BY <1>1, <1>3, <1>5, <1>6 DEF Collectors
<1> HIDE DEF new
<1>8. CollectorFits'
  BY <1>1, <1>7 DEF StatsInv, CollectorFits
<1>9. Stats!RangeOfFile'
  BY <1>1, <1>7 DEF Stats!RangeOfFile, Stats!IsLowest, Stats!IsHighest
<1>10. ParentsFit' /\ NamesFit'
  BY <1>1, <1>7 DEF StatsInv, ParentsFit, Stats!ParentsOfFile, NamesFit
<1> QED BY <1>8, <1>9, <1>10 DEF StatsInv

LEMMA CloseStep ==
  ASSUME StatsInv, Stats!CloseOutput
  PROVE  StatsInv'
<1> DEFINE n == Len(files)
           new == Stats!RecordFileClose(stats)
           name == Stats!ApplySubstitutions(new)
           entry == [metadata |-> Stats!Metadata(stats), name |-> name,
                     events |-> Stats!EventsOf(recorded), sources |-> sources]
<1>1. /\ stats \in Collectors /\ stats.seqNo = n /\ isOpen /\ run = Stats!None
      /\ stats' = new /\ files' = Append(files, entry) /\ disk' = Stats!MaybeRenameFile(name, n + 1)
      /\ isOpen' = FALSE /\ UNCHANGED <<input, run, subRun, drops, recorded, sources>>
  BY DEF StatsInv, CollectorFits, NamesFit, Stats!CloseOutput
<1>2. new \in Collectors /\ new.seqNo = n + 1
  <2> DEFINE count == n + 1
  <2>1. new = [stats EXCEPT !.seqNo = count]
    BY <1>1 DEF Stats!RecordFileClose
  <2>2. count \in Nat
    BY <1>1 DEF Collectors
  <2> HIDE DEF count, new
  <2>3. new \in Collectors /\ new.seqNo = count
    BY <1>1, <2>1, <2>2 DEF Collectors
  <2> QED BY <2>3 DEF count
<1>3. /\ files' \in Seq(Range(files')) /\ n \in Nat /\ Len(files') = n + 1 /\ files'[n + 1] = entry
      /\ \A i \in 1 .. n : files'[i] = files[i]
  <2> HIDE DEF entry
  <2>1. files \in Seq(Range(files))
    BY DEF StatsInv, NamesFit
  <2> QED BY <1>1, <2>1, Appended
<1>5. entry.name = name /\ entry.metadata.parents = stats.inputs /\ entry.sources = sources
  BY DEF Stats!Metadata
<1> HIDE DEF new, name, entry
<1>6. CollectorFits' /\ Stats!RangeOfFile'
  BY <1>1, <1>2 DEF StatsInv, CollectorFits, Stats!RangeOfFile
<1>7. DOMAIN files = 1 .. n /\ DOMAIN files' = 1 .. n + 1
  BY <1>3, LenProperties DEF StatsInv, NamesFit
<1>8. ParentsFit'
  <2>1. ASSUME NEW i \in 1 .. n + 1 PROVE files'[i].metadata.parents = files'[i].sources
    <3>1. CASE i = n + 1
      BY <1>1, <1>3, <1>5, <3>1 DEF StatsInv, ParentsFit
    <3>2. CASE i \in 1 .. n
      BY <1>3, <1>7, <3>2 DEF StatsInv, ParentsFit, Stats!ParentsOfFile
    <3> QED BY <1>3, <3>1, <3>2
  <2> QED BY <1>1, <1>7, <2>1 DEF ParentsFit, Stats!ParentsOfFile
<1>9. DOMAIN disk' = DOMAIN disk \union {name} /\ disk'[name] = n + 1
      /\ \A x \in DOMAIN disk : x # name => disk'[x] = disk[x]
  BY <1>1 DEF Stats!MaybeRenameFile
<1>10. NamesFit'
  <2>1. ASSUME NEW i \in 1 .. n + 1
        PROVE  files'[i].name \in DOMAIN disk'
    <3>1. CASE i = n + 1
      BY <1>3, <1>5, <1>9, <3>1
    <3>2. CASE i \in 1 .. n
      BY <1>3, <1>7, <1>9, <3>2 DEF StatsInv, NamesFit
    <3> QED BY <1>3, <3>1, <3>2
  <2>2. stats'.seqNo = Len(files')
    BY <1>1, <1>2, <1>3
  <2> QED BY <1>3, <1>7, <2>1, <2>2 DEF NamesFit
<1> QED BY <1>6, <1>8, <1>10 DEF StatsInv

LEMMA StatsSteps == Stats!StatsAssumption /\ StatsInv /\ [Stats!Next]_(Stats!vars) => StatsInv'
<1> SUFFICES ASSUME Stats!StatsAssumption, StatsInv, [Stats!Next]_(Stats!vars) PROVE StatsInv'
  OBVIOUS
<1>1. CASE UNCHANGED Stats!vars
  <2>1. UNCHANGED <<stats, isOpen, input, run, subRun, drops, recorded, sources, files, disk>>
    BY <1>1 DEF Stats!vars
  <2> QED BY <2>1 DEF StatsInv, CollectorFits, Stats!RangeOfFile, ParentsFit, Stats!ParentsOfFile,
             NamesFit
<1>2. CASE Stats!Next
  BY <1>2, InputSteps, OutputStep, CloseStep, EntrySteps DEF Stats!Next
<1> QED BY <1>1, <1>2

-----------------------------------------------------------------------------
(* The names.                                                               *)

LEMMA KeptStarts == Stats!Init => KeptInv
<1>1. Stats!Init => run = Stats!None /\ subRun = Stats!None /\ recorded = {} /\ ~isOpen /\ files = <<>>
  BY DEF Stats!Init
<1>2. Len(<<>>) = 0 /\ DOMAIN <<>> = {}
  BY EmptySeq
<1> QED BY <1>1, <1>2 DEF KeptInv, InUse, Stats!EachFileKept

\* A step that closes no file keeps the names.
LEMMA KeepsNames ==
  ASSUME KeptInv, InUse', UNCHANGED <<files, disk>>
  PROVE  KeptInv'
BY DEF KeptInv, Stats!EachFileKept

\* The range of a file that is open is of numbers in use.
LEMMA RangeInUse ==
  ASSUME StatsInv, InUse, isOpen
  PROVE  LET ids == [run : Runs \union {Stats!None}, subRun : SubRuns \union {Stats!None}]
         IN stats.lowest \in ids /\ stats.highest \in ids
<1> DEFINE low == stats.lowest
           high == stats.highest
<1>1. low \in SubRunIDs /\ high \in SubRunIDs
  BY DEF StatsInv, CollectorFits, Collectors
<1>2. Stats!IsLowest(low, recorded) /\ Stats!IsHighest(high, recorded)
  BY DEF StatsInv, Stats!RangeOfFile
<1> HIDE DEF low, high
<1>3. \A r \in Stats!RunsOf(recorded) : r \in Runs
  BY DEF Stats!RunsOf, InUse
<1>4. \A sr \in Stats!SubRunsOf(recorded) : sr.subRun \in SubRuns
  BY DEF Stats!SubRunsOf, Stats!SubRunID, InUse
<1>5. low.run \in Runs \union {Stats!None} /\ low.subRun \in SubRuns \union {Stats!None}
  BY <1>2, <1>3, <1>4 DEF Stats!IsLowest, Stats!NoSubRun, Stats!SubRunID
<1>6. high.run \in Runs \union {Stats!None} /\ high.subRun \in SubRuns \union {Stats!None}
  BY <1>2, <1>3, <1>4 DEF Stats!IsHighest, Stats!NoSubRun, Stats!SubRunID
<1> QED BY <1>1, <1>5, <1>6 DEF SubRunIDs, low, high

\* The closed file is named by its number and by values in use.
LEMMA NamedByNumber ==
  ASSUME StatsInv, InUse, Stats!CloseOutput
  PROVE  LET n == Len(files)
             name == Stats!ApplySubstitutions(Stats!RecordFileClose(stats))
         IN \E st \in Stats!NamedBy(n + 1) : name = Stats!ApplySubstitutions(st)
<1> DEFINE n == Len(files)
           count == n + 1
           low == stats.lowest
           high == stats.highest
           from == stats.lastInput
           closed == Stats!RecordFileClose(stats)
           st == [seqNo |-> count, lowest |-> low, highest |-> high, lastInput |-> from]
<1>1. stats \in Collectors /\ stats.seqNo = n /\ isOpen /\ n \in Nat
  BY DEF StatsInv, CollectorFits, NamesFit, Collectors, Stats!CloseOutput
<1>2. /\ closed.seqNo = count /\ closed.lowest = low /\ closed.highest = high
      /\ closed.lastInput = from
  BY <1>1 DEF Stats!RecordFileClose, Collectors
<1>3. st \in Stats!NamedBy(count)
  <2>1. from \in Inputs \union {Stats!Absent}
    BY <1>1 DEF Collectors, Names
  <2>2. /\ low \in [run : Runs \union {Stats!None}, subRun : SubRuns \union {Stats!None}]
        /\ high \in [run : Runs \union {Stats!None}, subRun : SubRuns \union {Stats!None}]
    BY <1>1, RangeInUse
  <2> HIDE DEF low, high, from, count
  <2> QED BY <2>1, <2>2 DEF Stats!NamedBy
<1>4. \A code : Stats!Substitution(closed, code) = Stats!Substitution(st, code)
  <2> HIDE DEF low, high, from, count, closed
  <2> QED BY <1>2 DEF Stats!Substitution
<1> HIDE DEF st, closed
<1>5. [i \in DOMAIN Pattern |-> Stats!Substitution(closed, Pattern[i])]
        = [i \in DOMAIN Pattern |-> Stats!Substitution(st, Pattern[i])]
  BY <1>4
<1>6. Stats!ApplySubstitutions(closed) = Stats!ApplySubstitutions(st)
  BY <1>5 DEF Stats!ApplySubstitutions
<1> QED BY <1>3, <1>6 DEF closed

\* A pattern that tells the numbers apart gives the closed file a name that no file
\* before it has.
LEMMA KeptClose ==
  ASSUME Stats!StatsAssumption, Stats!Numbered, StatsInv, KeptInv, Stats!CloseOutput
  PROVE  KeptInv'
<1> DEFINE n == Len(files)
           name == Stats!ApplySubstitutions(Stats!RecordFileClose(stats))
           entry == [metadata |-> Stats!Metadata(stats), name |-> name,
                     events |-> Stats!EventsOf(recorded), sources |-> sources]
<1>1. /\ files' = Append(files, entry) /\ disk' = Stats!MaybeRenameFile(name, n + 1)
      /\ isOpen /\ ~isOpen' /\ UNCHANGED <<run, subRun, recorded>>
  BY DEF Stats!CloseOutput
<1>2. PICK new \in Stats!NamedBy(n + 1) : name = Stats!ApplySubstitutions(new)
  BY NamedByNumber DEF KeptInv
<1>3. entry.name = name
  OBVIOUS
<1> HIDE DEF name, entry
<1>4. /\ n \in Nat /\ Len(files') = n + 1 /\ files'[n + 1] = entry
      /\ \A i \in 1 .. n : files'[i] = files[i]
      /\ DOMAIN files = 1 .. n /\ DOMAIN files' = 1 .. n + 1
  BY <1>1, Appended, LenProperties DEF StatsInv, NamesFit
<1>5. /\ \A i \in 1 .. n : files[i].name \in DOMAIN disk
      /\ disk'[name] = n + 1 /\ \A x \in DOMAIN disk : x # name => disk'[x] = disk[x]
  BY <1>1 DEF StatsInv, NamesFit, Stats!MaybeRenameFile
<1>6. InUse'
  BY <1>1 DEF KeptInv, InUse
<1>7. ASSUME NEW i \in 1 .. n + 1
      PROVE  /\ \E st \in Stats!NamedBy(i) : files'[i].name = Stats!ApplySubstitutions(st)
             /\ disk'[files'[i].name] = i
  <2>1. CASE i = n + 1
    BY <1>2, <1>3, <1>4, <1>5, <2>1
  <2>2. CASE i \in 1 .. n
    <3>1. PICK st \in Stats!NamedBy(i) : files[i].name = Stats!ApplySubstitutions(st)
      BY <2>2 DEF KeptInv
    <3>2. i \in 1 .. MaxFiles /\ n + 1 \in 1 .. MaxFiles /\ i # n + 1
      BY <1>1, <1>4, <2>2 DEF KeptInv, InUse, Stats!StatsAssumption
    <3>3. files[i].name # name
      BY <1>2, <3>1, <3>2 DEF Stats!Numbered
    <3>4. disk[files[i].name] = i
      BY <1>4, <2>2 DEF KeptInv, Stats!EachFileKept
    <3> QED BY <1>4, <1>5, <2>2, <3>1, <3>3, <3>4
  <2> QED BY <1>4, <2>1, <2>2
<1> QED BY <1>4, <1>6, <1>7 DEF KeptInv, Stats!EachFileKept

LEMMA KeptSteps ==
  Stats!StatsAssumption /\ Stats!Numbered /\ StatsInv /\ KeptInv /\ [Stats!Next]_(Stats!vars) => KeptInv'
<1> SUFFICES ASSUME Stats!StatsAssumption, Stats!Numbered, StatsInv, KeptInv,
                    [Stats!Next]_(Stats!vars)
             PROVE  KeptInv'
  OBVIOUS
<1>1. CASE UNCHANGED Stats!vars
  <2>1. InUse' /\ UNCHANGED <<files, disk>>
    BY <1>1 DEF Stats!vars, KeptInv, InUse
  <2> QED BY <2>1, KeepsNames
<1>2. ASSUME NEW f \in Inputs, Stats!OpenInput(f) PROVE KeptInv'
  <2>1. InUse' /\ UNCHANGED <<files, disk>>
    BY <1>2 DEF Stats!OpenInput, KeptInv, InUse
  <2> QED BY <2>1, KeepsNames
<1>3. CASE Stats!OpenOutput
  <2>1. InUse' /\ UNCHANGED <<files, disk>>
    BY <1>3 DEF Stats!OpenOutput, KeptInv, InUse
  <2> QED BY <2>1, KeepsNames
<1>4. ASSUME NEW r \in Runs, Stats!BeginRun(r) PROVE KeptInv'
  <2>1. InUse' /\ UNCHANGED <<files, disk>>
    BY <1>4 DEF Stats!BeginRun, KeptInv, InUse
  <2> QED BY <2>1, KeepsNames
<1>5. ASSUME NEW s \in SubRuns, Stats!BeginSubRun(s) PROVE KeptInv'
  <2>1. InUse' /\ UNCHANGED <<files, disk>>
    BY <1>5 DEF Stats!BeginSubRun, KeptInv, InUse
  <2> QED BY <2>1, KeepsNames
<1>6. subRun # Stats!None => run \in Runs /\ subRun \in SubRuns
  BY DEF StatsInv, CollectorFits, KeptInv, InUse
<1>7. ASSUME NEW e \in Events, Stats!WriteEvent(e) PROVE KeptInv'
  <2> DEFINE x == Stats!EventID(run, subRun, e)
  <2>1. /\ recorded' = recorded \union {x} /\ subRun # Stats!None
        /\ UNCHANGED <<isOpen, run, subRun, files, disk>>
    BY <1>7 DEF Stats!WriteEvent, Stats!Written
  <2>2. x.run \in Runs /\ x.subRun \in SubRuns
    BY <1>6, <2>1 DEF Stats!EventID
  <2> HIDE DEF x
  <2>3. InUse'
    BY <2>1, <2>2 DEF KeptInv, InUse
  <2> QED BY <2>1, <2>3, KeepsNames
<1>8. CASE Stats!WriteSubRun
  <2> DEFINE x == Stats!SubRunID(run, subRun)
  <2>1. /\ recorded' = recorded \/ recorded' = recorded \union {x}
        /\ subRun # Stats!None /\ subRun' = Stats!None
        /\ UNCHANGED <<isOpen, run, files, disk>>
    BY <1>8 DEF Stats!WriteSubRun, Stats!Written
  <2>2. x.run \in Runs /\ x.subRun \in SubRuns
    BY <1>6, <2>1 DEF Stats!SubRunID
  <2> HIDE DEF x
  <2>3. InUse'
    BY <2>1, <2>2 DEF KeptInv, InUse
  <2> QED BY <2>1, <2>3, KeepsNames
<1>9. CASE Stats!WriteRun
  <2> DEFINE x == [run |-> run]
  <2>1. /\ recorded' = recorded \union {x} /\ run # Stats!None /\ run' = Stats!None
        /\ UNCHANGED <<isOpen, subRun, files, disk>>
    BY <1>9 DEF Stats!WriteRun, Stats!Written
  <2>2. x.run \in Runs /\ "subRun" \notin DOMAIN x
    BY <2>1 DEF KeptInv, InUse
  <2> HIDE DEF x
  <2>3. InUse'
    BY <2>1, <2>2 DEF KeptInv, InUse
  <2> QED BY <2>1, <2>3, KeepsNames
<1>10. CASE Stats!CloseOutput
  BY <1>10, KeptClose
<1> QED BY <1>1, <1>2, <1>3, <1>4, <1>5, <1>7, <1>8, <1>9, <1>10 DEF Stats!Next

-----------------------------------------------------------------------------
(* The theorems.                                                            *)

\* The range of runs and sub-runs a file is named by is that of what was written to
\* it, in any order and whatever the files before it held (FileStatsCollector).
THEOREM RangesAreTrue ==
  ASSUME Stats!StatsAssumption
  PROVE  Stats!Spec => []Stats!RangeOfFile
<1>1. StatsInv => Stats!RangeOfFile
  BY DEF StatsInv
<1> QED BY <1>1, StatsStarts, StatsSteps, PTL DEF Stats!Spec

\* The parents a file lists are the input files that were open while it was
\* (RootOutput, FileStatsCollector).
THEOREM ParentsAreTrue ==
  ASSUME Stats!StatsAssumption
  PROVE  Stats!Spec => []Stats!ParentsOfFile
<1>1. StatsInv => Stats!ParentsOfFile
  BY DEF StatsInv, ParentsFit
<1> QED BY <1>1, StatsStarts, StatsSteps, PTL DEF Stats!Spec

\* When the file name's pattern gives files of different sequence numbers different
\* names, whatever runs, sub-runs and input files the names are made of too, no closed
\* file is replaced by a later one (RootOutput, PostCloseFileRenamer).
THEOREM NamesAreKept ==
  ASSUME Stats!StatsAssumption, Stats!Numbered
  PROVE  Stats!Spec => []Stats!EachFileKept
<1>1. KeptInv => Stats!EachFileKept
  BY DEF KeptInv
<1> QED BY <1>1, StatsStarts, StatsSteps, KeptStarts, KeptSteps, PTL DEF Stats!Spec
=============================================================================
