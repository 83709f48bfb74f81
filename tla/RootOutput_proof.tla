--------------------------- MODULE RootOutput_proof ---------------------------
(***************************************************************************)
(* Theorems about the rows of RootOutput, for all jobs, branches and       *)
(* events: the index of a file leads to the rows of its events, whichever  *)
(* branches were copied, filled or added late, the branches of a file that *)
(* was read to its end are of one length, and each event that was to be    *)
(* written is in one file.                                                 *)
(*                                                                         *)
(* They are about jobs in which what is copied at once is then written     *)
(* event by event (NothingLeftOut), and in which a module that is disabled *)
(* for a time misses no branch (NothingMissed).                            *)
(***************************************************************************)
EXTENDS RootOutput, SequenceTheorems, TLAPS

\* With fast cloning every event of a file is written: the module is never
\* disabled, no write fails, no event is skipped.
NothingLeftOut ==
  TRUE \in FastCloning =>
    MaxToggles = 0 /\ ~WriteFails /\ \A j \in Jobs : \A n \in DOMAIN j : ~SkipsSome(j[n])

\* A module that is disabled when a file is opened does not hear of the branches
\* of that file.  Where it may be disabled, no file between the first and the
\* last has a branch that the first has not.
NothingMissed ==
  MaxToggles # 0 =>
    \A j \in Jobs : \A n \in 2 .. Len(j) - 1 : j[n].branches \subseteq j[1].branches

-----------------------------------------------------------------------------
(* The invariant of a tree.                                                 *)

IsSeq(s) == s \in Seq({s[i] : i \in DOMAIN s})

TreeFields == {"cloning", "rows", "read", "uncloned", "entries", "filled", "meta", "index", "nextEntry"}

\* A branch is read or produced.
BranchesFit(t) ==
  /\ Aux \in t.read /\ t.read \cap Produced = {}
  /\ t.read \subseteq DOMAIN t.rows /\ DOMAIN t.rows \subseteq t.read \union Produced

\* Each row so far has what the event has, in every branch.
RowsFit(t) ==
  \A b \in DOMAIN t.rows :
    /\ IsSeq(t.rows[b]) /\ Len(t.rows[b]) >= t.filled
    /\ \A k \in 1 .. t.filled : t.rows[b][k] = Datum(b, t.meta[k])

IndexFits(t) ==
  /\ t.filled \in Nat /\ t.nextEntry = t.filled
  /\ IsSeq(t.meta) /\ Len(t.meta) = t.filled
  /\ IsSeq(t.index)
  /\ \A i \in DOMAIN t.index : t.index[i].row \in 1 .. t.filled /\ t.index[i].key = t.meta[t.index[i].row]

TreeFits(t) == DOMAIN t = TreeFields /\ t.cloning \in BOOLEAN /\ BranchesFit(t) /\ RowsFit(t) /\ IndexFits(t)

\* All branches are of one length.
Level(t) == \A b \in DOMAIN t.rows : Len(t.rows[b]) = t.filled

\* The branches that were copied hold the events that are still to be read.
Copied(t, f) == {b \in t.read : b = Aux \/ b \in f.branches}
Ahead(t, which, f, rest) ==
  IF ~t.cloning THEN Level(t)
  ELSE /\ IsSeq(rest)
       /\ t.uncloned = t.read \ Copied(t, f)
       /\ \A b \in DOMAIN t.rows \ Copied(t, f) : Len(t.rows[b]) = t.filled
       /\ \A b \in Copied(t, f) :
            /\ Len(t.rows[b]) = t.filled + Len(rest)
            /\ \A k \in 1 .. Len(rest) : t.rows[b][t.filled + k] = [file |-> which, entry |-> rest[k]]

\* The branches of the files up to n are known, but for the last file, behind
\* which no branch can be added.
Known(branches, n) ==
  Produced \subseteq branches /\ \A i \in 1 .. n : i < Len(job) => job[i].branches \subseteq branches
MetaFits(t, n) == \A k \in 1 .. t.filled : t.meta[k].file \in 1 .. n

-----------------------------------------------------------------------------
(* The inductive invariant.                                                 *)

JobFits ==
  /\ job \in Jobs /\ fastCloning \in FastCloning /\ fastCloning \in BOOLEAN
  /\ number \in 0 .. Len(job) /\ at \in {"start", "events", "end"}
  /\ at = "start" => number = 0 /\ out = Closed /\ files = <<>>
  /\ at # "start" => number >= 1
  /\ enabled \in BOOLEAN /\ toggles \in Nat
  /\ (MaxToggles = 0 => enabled)
  /\ stopped \in BOOLEAN

OutFits ==
  IsOpen(out) =>
    /\ TreeFits(out) /\ Known(DOMAIN out.rows, number) /\ MetaFits(out, number)
    /\ out.cloning => fastCloning
    /\ at = "events" => Ahead(out, number, job[number], left)

\* What is kept, once a file was opened by the module.
KeptFits ==
  /\ Produced \subseteq kept
  /\ IsOpen(out) => Known(kept, number)

FileFits(t) == TreeFits(t) /\ (~stopped => Level(t) /\ t.entries = t.filled)
FilesFit == IsSeq(files) /\ \A o \in DOMAIN files : FileFits(files[o])

RowsInv == JobFits /\ OutFits /\ KeptFits /\ FilesFit

-----------------------------------------------------------------------------
(* Sequences of anything.                                                   *)

LEMMA SeqFacts ==
  ASSUME NEW s, IsSeq(s)
  PROVE  Len(s) \in Nat /\ DOMAIN s = 1 .. Len(s) /\ s = [i \in 1 .. Len(s) |-> s[i]]
BY LenProperties DEF IsSeq

LEMMA SeqOfLength ==
  ASSUME NEW n \in Nat, NEW s, s = [i \in 1 .. n |-> s[i]]
  PROVE  IsSeq(s) /\ Len(s) = n
<1> DEFINE S == {s[i] : i \in DOMAIN s}
<1>1. s \in [1 .. n -> S]
  OBVIOUS
<1>2. s \in Seq(S)
  BY <1>1
<1>3. Len(s) \in Nat /\ DOMAIN s = 1 .. Len(s)
  BY <1>2, LenProperties
<1>4. DOMAIN s = 1 .. n
  BY <1>1
<1>5. Len(s) = n
  BY <1>3, <1>4
<1> QED BY <1>2, <1>5 DEF IsSeq

LEMMA Appended ==
  ASSUME NEW s, NEW e, IsSeq(s)
  PROVE  /\ IsSeq(Append(s, e)) /\ Len(Append(s, e)) = Len(s) + 1
         /\ DOMAIN Append(s, e) = 1 .. Len(s) + 1
         /\ \A i \in 1 .. Len(s) : Append(s, e)[i] = s[i]
         /\ Append(s, e)[Len(s) + 1] = e
<1> DEFINE S == {s[i] : i \in DOMAIN s} \union {e}
           t == Append(s, e)
<1>1. s \in Seq(S)
  <2>1. Len(s) \in Nat /\ s = [i \in 1 .. Len(s) |-> s[i]] /\ DOMAIN s = 1 .. Len(s)
    BY SeqFacts
  <2>2. s \in [1 .. Len(s) -> S]
    BY <2>1
  <2> QED BY <2>1, <2>2
<1>2. /\ t \in Seq(S) /\ Len(t) = Len(s) + 1
      /\ \A i \in 1 .. Len(s) : t[i] = s[i]
      /\ t[Len(s) + 1] = e
  BY <1>1, AppendProperties
<1>3. t = [i \in 1 .. Len(t) |-> t[i]] /\ Len(t) \in Nat /\ DOMAIN t = 1 .. Len(t)
  BY <1>2, LenProperties
<1>4. IsSeq(t)
  BY <1>3, SeqOfLength
<1> QED BY <1>2, <1>3, <1>4

LEMMA Joined ==
  ASSUME NEW s, NEW r, IsSeq(s), IsSeq(r)
  PROVE  /\ IsSeq(s \o r) /\ Len(s \o r) = Len(s) + Len(r)
         /\ \A i \in 1 .. Len(s) : (s \o r)[i] = s[i]
         /\ \A i \in 1 .. Len(r) : (s \o r)[Len(s) + i] = r[i]
<1> DEFINE S == {s[i] : i \in DOMAIN s} \union {r[i] : i \in DOMAIN r}
           t == s \o r
<1>1. Len(s) \in Nat /\ s = [i \in 1 .. Len(s) |-> s[i]] /\ DOMAIN s = 1 .. Len(s)
  BY SeqFacts
<1>2. Len(r) \in Nat /\ r = [i \in 1 .. Len(r) |-> r[i]] /\ DOMAIN r = 1 .. Len(r)
  BY SeqFacts
<1>3. s \in [1 .. Len(s) -> S] /\ r \in [1 .. Len(r) -> S]
  BY <1>1, <1>2
<1>4. s \in Seq(S) /\ r \in Seq(S)
  BY <1>1, <1>2, <1>3
<1>5. /\ t \in Seq(S) /\ Len(t) = Len(s) + Len(r)
      /\ \A i \in 1 .. Len(s) + Len(r) : t[i] = IF i <= Len(s) THEN s[i] ELSE r[i - Len(s)]
  BY <1>4, ConcatProperties
<1>6. t = [i \in 1 .. Len(t) |-> t[i]] /\ Len(t) \in Nat
  BY <1>5, LenProperties
<1>7. IsSeq(t)
  BY <1>6, SeqOfLength
<1>8. ASSUME NEW i \in 1 .. Len(s) PROVE t[i] = s[i]
  BY <1>1, <1>2, <1>5
<1>9. ASSUME NEW i \in 1 .. Len(r) PROVE t[Len(s) + i] = r[i]
  <2>1. Len(s) + i \in 1 .. Len(s) + Len(r) /\ ~(Len(s) + i <= Len(s)) /\ Len(s) + i - Len(s) = i
    BY <1>1, <1>2
  <2> QED BY <2>1, <1>5
<1> QED BY <1>5, <1>7, <1>8, <1>9

LEMMA RestOf ==
  ASSUME NEW s, IsSeq(s), s # <<>>
  PROVE  /\ IsSeq(Tail(s)) /\ Len(Tail(s)) = Len(s) - 1 /\ Head(s) = s[1] /\ Len(s) >= 1
         /\ \A i \in 1 .. Len(s) - 1 : Tail(s)[i] = s[i + 1]
<1> DEFINE S == {s[i] : i \in DOMAIN s}
           t == Tail(s)
<1>1. s \in Seq(S)
  BY DEF IsSeq
<1>2. /\ t \in Seq(S) /\ Len(t) = Len(s) - 1 /\ \A i \in 1 .. Len(t) : t[i] = s[i + 1]
  BY <1>1, HeadTailProperties
<1>3. t = [i \in 1 .. Len(t) |-> t[i]] /\ Len(t) \in Nat
  BY <1>2, LenProperties
<1>4. IsSeq(t)
  BY <1>3, SeqOfLength
<1>5. Len(s) \in Nat
  BY SeqFacts
<1>6. Head(s) = s[1]
  BY <1>1
<1> QED BY <1>2, <1>3, <1>4, <1>5, <1>6

LEMMA NoElements ==
  /\ IsSeq(<<>>) /\ Len(<<>>) = 0
  /\ \A s : IsSeq(s) /\ Len(s) = 0 => s = <<>>
<1>1. <<>> \in Seq({<<>>[i] : i \in DOMAIN <<>>}) /\ Len(<<>>) = 0
  BY EmptySeq
<1>2. ASSUME NEW s, IsSeq(s), Len(s) = 0 PROVE s = <<>>
  <2>1. DOMAIN s = 1 .. 0
    BY <1>2, SeqFacts
  <2>2. 1 .. 0 = {} /\ DOMAIN s = {}
    BY <2>1
  <2>3. s \in Seq({}) /\ Len(s) = 0
    BY <1>2, <2>2 DEF IsSeq
  <2> QED BY <2>3, EmptySeq
<1> QED BY <1>1, <1>2 DEF IsSeq

-----------------------------------------------------------------------------
(* The operators on a tree.                                                 *)

LEMMA NewTreeFits ==
  ASSUME Aux \notin Produced
  PROVE  LET t == NewTree
         IN /\ TreeFits(t) /\ Level(t) /\ t.entries = t.filled /\ t.filled = 0 /\ DOMAIN t.rows = {Aux}
            /\ t.index = <<>>
<1> DEFINE t == NewTree
<1>1. /\ DOMAIN t = TreeFields /\ t.cloning = TRUE /\ t.rows = [x \in {Aux} |-> <<>>] /\ t.read = {Aux}
      /\ t.filled = 0 /\ t.entries = 0 /\ t.nextEntry = 0 /\ t.meta = <<>> /\ t.index = <<>>
  BY DEF NewTree, TreeFields
<1>2. IsSeq(<<>>) /\ Len(<<>>) = 0 /\ DOMAIN <<>> = {}
  BY NoElements
<1>3. RowsFit(t)
  BY <1>1, <1>2 DEF RowsFit
<1>4. IndexFits(t)
  BY <1>1, <1>2 DEF IndexFits
<1>5. Level(t)
  BY <1>1, <1>2 DEF Level
<1>6. BranchesFit(t)
  BY <1>1 DEF BranchesFit
<1> QED BY <1>1, <1>3, <1>4, <1>5, <1>6 DEF TreeFits

\* No event so far had a branch that is to be added.
Unmet(t, selected) ==
  \A k \in 1 .. t.filled : \A b \in selected \ DOMAIN t.rows : Datum(b, t.meta[k]) = Dummy

LEMMA BranchesKnown ==
  ASSUME NEW t, NEW selected, NEW n \in Nat, BranchesFit(t), Known(DOMAIN t.rows, n), MetaFits(t, n),
         Len(job) \in Nat, n < Len(job)
  PROVE  Unmet(t, selected)
<1> SUFFICES ASSUME NEW k \in 1 .. t.filled, NEW b \in selected \ DOMAIN t.rows
             PROVE  Datum(b, t.meta[k]) = Dummy
  BY DEF Unmet
<1>1. b # Aux /\ b \notin Produced
  BY DEF BranchesFit, Known
<1>2. t.meta[k].file \in 1 .. n
  BY DEF MetaFits
<1>3. job[t.meta[k].file].branches \subseteq DOMAIN t.rows
  BY <1>2 DEF Known
<1> QED BY <1>1, <1>3 DEF Datum

LEMMA AddKeeps ==
  ASSUME NEW t, NEW selected, TreeFits(t), Level(t), Unmet(t, selected)
  PROVE  LET a == AddOutputBranches(t, selected)
         IN /\ TreeFits(a) /\ Level(a) /\ DOMAIN a.rows = DOMAIN t.rows \union selected
            /\ a.entries = t.entries /\ a.filled = t.filled /\ a.meta = t.meta /\ a.index = t.index
            /\ a.cloning = t.cloning
<1> DEFINE a == AddOutputBranches(t, selected)
           new == selected \ DOMAIN t.rows
<1>1. /\ DOMAIN a = TreeFields /\ a.cloning = t.cloning /\ a.entries = t.entries /\ a.filled = t.filled
      /\ a.meta = t.meta /\ a.index = t.index /\ a.nextEntry = t.nextEntry
      /\ a.read = t.read \union (new \ Produced)
      /\ a.rows = [b \in DOMAIN t.rows \union selected |-> IF b \in new THEN Dummies(t.filled) ELSE t.rows[b]]
  BY DEF AddOutputBranches, TreeFits, TreeFields
<1>2. t.filled \in Nat
  BY DEF TreeFits, IndexFits
<1>3. IsSeq(Dummies(t.filled)) /\ Len(Dummies(t.filled)) = t.filled
  <2>1. Dummies(t.filled) = [i \in 1 .. t.filled |-> Dummies(t.filled)[i]]
    BY DEF Dummies
  <2> QED BY <1>2, <2>1, SeqOfLength
<1>4. BranchesFit(a)
  BY <1>1 DEF TreeFits, BranchesFit
<1>5. IndexFits(a)
  BY <1>1 DEF TreeFits, IndexFits
<1>6. ASSUME NEW b \in DOMAIN a.rows
      PROVE  /\ IsSeq(a.rows[b]) /\ Len(a.rows[b]) = t.filled /\ Len(a.rows[b]) >= t.filled
             /\ \A k \in 1 .. t.filled : a.rows[b][k] = Datum(b, t.meta[k])
  <2>1. CASE b \in new
    <3>1. a.rows[b] = Dummies(t.filled) /\ b \in selected \ DOMAIN t.rows
      BY <1>1, <2>1
    <3>2. ASSUME NEW k \in 1 .. t.filled PROVE Dummies(t.filled)[k] = Datum(b, t.meta[k])
      BY <3>1 DEF Dummies, Unmet
    <3> QED BY <1>2, <1>3, <3>1, <3>2
  <2>2. CASE b \notin new
    <3>1. a.rows[b] = t.rows[b] /\ b \in DOMAIN t.rows
      BY <1>1, <2>2
    <3> QED BY <3>1 DEF TreeFits, RowsFit, Level
  <2> QED BY <2>1, <2>2
<1>7. RowsFit(a)
  <2>0. a.filled = t.filled /\ a.meta = t.meta
    BY <1>1
  <2>1. \A b \in DOMAIN a.rows : IsSeq(a.rows[b]) /\ Len(a.rows[b]) >= a.filled
    BY <2>0, <1>6
  <2>2. \A b \in DOMAIN a.rows : \A k \in 1 .. a.filled : a.rows[b][k] = Datum(b, a.meta[k])
    BY <2>0, <1>6
  <2> QED BY <2>1, <2>2 DEF RowsFit
<1>8. Level(a)
  BY <1>1, <1>6 DEF Level
<1> QED BY <1>1, <1>4, <1>5, <1>7, <1>8 DEF TreeFits

LEMMA SetEntriesKeeps ==
  ASSUME NEW t, TreeFits(t)
  PROVE  LET s == SetEntries(t)
         IN /\ s.rows = t.rows /\ s.read = t.read /\ s.filled = t.filled /\ s.meta = t.meta
            /\ s.index = t.index /\ s.cloning = t.cloning /\ s.uncloned = t.uncloned
            /\ TreeFits(s)
            /\ Level(t) => Level(s) /\ s.entries = s.filled
<1> DEFINE s == SetEntries(t)
           lengths == {Len(t.rows[b]) : b \in DOMAIN t.rows}
<1>1. /\ DOMAIN s = TreeFields /\ s.rows = t.rows /\ s.read = t.read /\ s.filled = t.filled /\ s.meta = t.meta
      /\ s.index = t.index /\ s.cloning = t.cloning /\ s.uncloned = t.uncloned /\ s.nextEntry = t.nextEntry
      /\ s.entries = CHOOSE n \in lengths : \A b \in DOMAIN t.rows : Len(t.rows[b]) <= n
  BY DEF SetEntries, TreeFits, TreeFields
<1>2. TreeFits(s)
  BY <1>1 DEF TreeFits, BranchesFit, RowsFit, IndexFits, Datum
<1>3. ASSUME Level(t) PROVE Level(s) /\ s.entries = s.filled
  <2>1. t.filled \in Nat /\ Aux \in DOMAIN t.rows
    BY DEF TreeFits, IndexFits, BranchesFit
  <2>2. lengths = {t.filled}
    BY <1>3, <2>1 DEF Level
  <2>3. \A b \in DOMAIN t.rows : Len(t.rows[b]) <= t.filled
    BY <1>3, <2>1 DEF Level
  <2>4. s.entries = t.filled
    BY <1>1, <2>2, <2>3
  <2> QED BY <1>1, <1>3, <2>4 DEF Level
<1> QED BY <1>1, <1>2, <1>3

\* Files are of the types that are assumed.
IsFile(f) == f.events \in Seq(Nat) /\ {f.sameLayout, f.inOrder} \subseteq BOOLEAN

\* A file that is cloned is read in the order of its entries, and all of it.
LEMMA KeysFit ==
  ASSUME NEW which, NEW f, IsFile(f)
  PROVE  /\ Len(f.events) \in Nat /\ IsSeq(Keys(which, f)) /\ Len(Keys(which, f)) = Len(f.events)
         /\ FastClonable(f) => Len(f.events) > 0
         /\ FastClonable(f) /\ ~SkipsSome(f) =>
              /\ IsSeq(ReadOrder(f)) /\ Len(ReadOrder(f)) = Len(f.events)
              /\ \A k \in 1 .. Len(f.events) : Keys(which, f)[k] = [file |-> which, entry |-> ReadOrder(f)[k]]
<1>1. Len(f.events) \in Nat /\ (f.events # <<>> => Len(f.events) \in Nat \ {0})
  BY EmptySeq, LenProperties DEF IsFile
<1>2. Keys(which, f) = [i \in 1 .. Len(f.events) |-> Keys(which, f)[i]]
  BY DEF Keys
<1>3. IsSeq(Keys(which, f)) /\ Len(Keys(which, f)) = Len(f.events)
  BY <1>1, <1>2, SeqOfLength
<1>4. ASSUME FastClonable(f) PROVE Len(f.events) > 0
  BY <1>1, <1>4 DEF FastClonable
<1>5. ASSUME FastClonable(f), ~SkipsSome(f)
      PROVE  /\ IsSeq(ReadOrder(f)) /\ Len(ReadOrder(f)) = Len(f.events)
             /\ \A k \in 1 .. Len(f.events) : Keys(which, f)[k] = [file |-> which, entry |-> ReadOrder(f)[k]]
  <2>1. ReadOrder(f) = [i \in 1 .. Len(f.events) |-> i]
    BY <1>5 DEF ReadOrder, FastClonable
  <2>2. ReadOrder(f) = [i \in 1 .. Len(f.events) |-> ReadOrder(f)[i]]
    BY <2>1
  <2>3. IsSeq(ReadOrder(f)) /\ Len(ReadOrder(f)) = Len(f.events)
    BY <1>1, <2>2, SeqOfLength
  <2> QED BY <2>1, <2>3 DEF Keys
<1> QED BY <1>1, <1>3, <1>4, <1>5

LEMMA CloneKeeps ==
  ASSUME NEW t, NEW which, NEW f, NEW rest, IsFile(f), TreeFits(t), Level(t),
         t.cloning => t.entries = t.filled,
         t.cloning => FastClonable(f) /\ ~SkipsSome(f) /\ rest = ReadOrder(f)
  PROVE  LET c == FastCloneTree(t, which, f)
         IN /\ TreeFits(c) /\ Ahead(c, which, f, rest) /\ DOMAIN c.rows = DOMAIN t.rows
            /\ c.filled = t.filled /\ c.meta = t.meta /\ c.index = t.index /\ c.cloning = t.cloning
<1> DEFINE c == FastCloneTree(t, which, f)
<1>1. CASE ~t.cloning
  <2>1. /\ DOMAIN c = TreeFields /\ c.rows = t.rows /\ c.read = t.read /\ c.filled = t.filled /\ c.meta = t.meta
        /\ c.index = t.index /\ c.cloning = t.cloning /\ c.nextEntry = t.nextEntry
    BY <1>1 DEF FastCloneTree, TreeFits, TreeFields
  <2>2. TreeFits(c)
    BY <2>1 DEF TreeFits, BranchesFit, RowsFit, IndexFits
  <2>3. Ahead(c, which, f, rest)
    BY <1>1, <2>1 DEF Ahead, Level
  <2> QED BY <2>1, <2>2, <2>3
<1>2. CASE t.cloning
  <2> DEFINE copied == Copied(t, f)
             n == Len(f.events)
  <2>1. /\ f.events # <<>> /\ n \in Nat /\ n > 0
        /\ IsSeq(Keys(which, f)) /\ Len(Keys(which, f)) = n
        /\ IsSeq(rest) /\ Len(rest) = n
        /\ \A k \in 1 .. n : Keys(which, f)[k] = [file |-> which, entry |-> rest[k]]
    BY <1>2, KeysFit DEF FastClonable
  <2>2. t.filled \in Nat /\ copied \subseteq DOMAIN t.rows /\ copied \subseteq t.read /\ t.read \subseteq DOMAIN t.rows
    BY DEF TreeFits, IndexFits, BranchesFit, Copied
  <2> DEFINE rows == [b \in DOMAIN t.rows |-> IF b \in copied THEN t.rows[b] \o Keys(which, f) ELSE t.rows[b]]
  <2>3. /\ DOMAIN c = TreeFields /\ c.rows = rows /\ c.read = t.read /\ c.filled = t.filled /\ c.meta = t.meta
        /\ c.index = t.index /\ c.cloning = t.cloning /\ c.nextEntry = t.nextEntry
        /\ c.uncloned = {b \in t.read : Len(rows[b]) # t.entries + n}
    BY <1>2, <2>1 DEF FastCloneTree, Copied, TreeFits, TreeFields
  <2>4. ASSUME NEW b \in copied
        PROVE  /\ IsSeq(rows[b]) /\ Len(rows[b]) = t.filled + n /\ Len(rows[b]) >= t.filled
               /\ \A k \in 1 .. t.filled : rows[b][k] = t.rows[b][k]
               /\ \A k \in 1 .. n : rows[b][t.filled + k] = [file |-> which, entry |-> rest[k]]
    <3>1. b \in DOMAIN t.rows /\ rows[b] = t.rows[b] \o Keys(which, f)
      BY <2>2
    <3>2. IsSeq(t.rows[b]) /\ Len(t.rows[b]) = t.filled
      BY <3>1 DEF TreeFits, RowsFit, Level
    <3> DEFINE joined == t.rows[b] \o Keys(which, f)
    <3>3. /\ IsSeq(joined) /\ Len(joined) = Len(t.rows[b]) + Len(Keys(which, f))
          /\ \A k \in 1 .. Len(t.rows[b]) : joined[k] = t.rows[b][k]
          /\ \A k \in 1 .. Len(Keys(which, f)) : joined[Len(t.rows[b]) + k] = Keys(which, f)[k]
      <4>1. IsSeq(t.rows[b]) /\ IsSeq(Keys(which, f))
        BY <2>1, <3>2
      <4> QED BY <4>1, Joined
    <3> HIDE DEF joined
    <3>4. /\ IsSeq(joined) /\ Len(joined) = t.filled + n
          /\ \A k \in 1 .. t.filled : joined[k] = t.rows[b][k]
          /\ \A k \in 1 .. n : joined[t.filled + k] = [file |-> which, entry |-> rest[k]]
      BY <2>1, <3>2, <3>3
    <3>5. Len(joined) >= t.filled
      BY <2>1, <2>2, <3>4
    <3>6. rows[b] = joined
      BY <3>1 DEF joined
    <3> HIDE DEF rows
    <3> QED BY <3>4, <3>5, <3>6
  <2>5. ASSUME NEW b \in DOMAIN t.rows \ copied
        PROVE  rows[b] = t.rows[b] /\ IsSeq(rows[b]) /\ Len(rows[b]) = t.filled /\ Len(rows[b]) >= t.filled
    BY DEF TreeFits, RowsFit, Level
  <2> HIDE DEF rows, copied, n
  <2>6. RowsFit(c)
    <3>1. ASSUME NEW b \in DOMAIN t.rows
          PROVE  /\ IsSeq(rows[b]) /\ Len(rows[b]) >= t.filled
                 /\ \A k \in 1 .. t.filled : rows[b][k] = t.rows[b][k]
      <4>1. CASE b \in copied
        BY <2>4, <4>1
      <4>2. CASE b \notin copied
        BY <2>5, <4>2
      <4> QED BY <4>1, <4>2
    <3>2. \A b \in DOMAIN t.rows : \A k \in 1 .. t.filled : t.rows[b][k] = Datum(b, t.meta[k])
      BY DEF TreeFits, RowsFit
    <3>0. DOMAIN rows = DOMAIN t.rows
      BY DEF rows
    <3>3. \A b \in DOMAIN c.rows : IsSeq(c.rows[b]) /\ Len(c.rows[b]) >= c.filled
      BY <2>3, <3>0, <3>1
    <3>4. \A b \in DOMAIN c.rows : \A k \in 1 .. c.filled : c.rows[b][k] = Datum(b, c.meta[k])
      BY <2>3, <3>0, <3>1, <3>2
    <3> QED BY <3>3, <3>4 DEF RowsFit
  <2>7. TreeFits(c)
    BY <2>3, <2>6 DEF TreeFits, BranchesFit, IndexFits, rows
  <2>8. Copied(c, f) = copied
    BY <2>3 DEF Copied, copied
  <2>9. c.uncloned = t.read \ copied
    <3>1. t.entries = t.filled
      BY <1>2
    <3>2. \A b \in copied : Len(rows[b]) = t.entries + n
      BY <2>4, <3>1
    <3>3. \A b \in t.read \ copied : Len(rows[b]) # t.entries + n
      BY <2>1, <2>2, <2>5, <3>1
    <3> QED BY <2>2, <2>3, <3>2, <3>3
  <2>10. Ahead(c, which, f, rest)
    <3>1. \A b \in DOMAIN c.rows \ copied : Len(c.rows[b]) = c.filled
      BY <2>3, <2>5 DEF rows
    <3>2. \A b \in copied : Len(c.rows[b]) = c.filled + Len(rest)
      BY <2>1, <2>3, <2>4
    <3>3. \A b \in copied : \A k \in 1 .. Len(rest) : c.rows[b][c.filled + k] = [file |-> which, entry |-> rest[k]]
      BY <2>1, <2>3, <2>4
    <3> QED BY <1>2, <2>1, <2>3, <2>8, <2>9, <3>1, <3>2, <3>3 DEF Ahead
  <2> QED BY <2>3, <2>7, <2>10 DEF rows
<1> QED BY <1>1, <1>2

\* The row that an event gets, in a branch that is filled and in one that was copied.
\* The event that is read next, and the tree it is written to.
NextKey(which, rest) == [file |-> which, entry |-> Head(rest)]
Written(t, which, f, rest) == WriteOne(t, NextKey(which, rest), f)

OneMore(t, which, f, rest) ==
  LET key == NextKey(which, rest)
      w == Written(t, which, f, rest)
  IN /\ TreeFits(w) /\ Ahead(w, which, f, Tail(rest)) /\ DOMAIN w.rows = DOMAIN t.rows
     /\ w.filled = t.filled + 1 /\ w.meta = Append(t.meta, key) /\ w.cloning = t.cloning
     /\ w.index = Append(t.index, [key |-> key, row |-> t.filled + 1])

LEMMA FillKeeps ==
  ASSUME NEW t, NEW which, NEW f, NEW rest, TreeFits(t), Ahead(t, which, f, rest),
         f = job[which], t.cloning => rest # <<>>
  PROVE  OneMore(t, which, f, rest)
<1> DEFINE key == NextKey(which, rest)
           w == Written(t, which, f, rest)
           copied == IF t.cloning THEN Copied(t, f) ELSE {}
           value(b) == IF b = Aux \/ b \in Produced \/ b \in f.branches THEN key ELSE Dummy
           n == t.filled
           rows == [b \in DOMAIN t.rows |-> IF b \in copied THEN t.rows[b] ELSE Append(t.rows[b], value(b))]
<1>key. key = [file |-> which, entry |-> Head(rest)]
  BY DEF NextKey
<1>1. n \in Nat /\ t.nextEntry = n /\ IsSeq(t.meta) /\ Len(t.meta) = n /\ IsSeq(t.index)
  BY DEF TreeFits, IndexFits
<1>2. copied \subseteq t.read /\ copied \subseteq DOMAIN t.rows
  BY DEF TreeFits, BranchesFit, Copied
<1>3. \A b \in DOMAIN t.rows :
        b \in (DOMAIN t.rows \intersect Produced) \union (IF t.cloning THEN t.uncloned ELSE t.read) <=> b \notin copied
  <2>1. CASE ~t.cloning
    BY <2>1 DEF TreeFits, BranchesFit
  <2>2. CASE t.cloning
    <3>1. t.uncloned = t.read \ copied
      BY <2>2 DEF Ahead
    <3> QED BY <1>2, <2>2, <3>1 DEF TreeFits, BranchesFit
  <2> QED BY <2>1, <2>2
<1>4. /\ DOMAIN w = TreeFields /\ w.cloning = t.cloning /\ w.read = t.read /\ w.uncloned = t.uncloned
      /\ w.filled = n + 1 /\ w.meta = Append(t.meta, key) /\ w.nextEntry = t.nextEntry + 1
      /\ w.index = Append(t.index, [key |-> key, row |-> t.nextEntry + 1])
      /\ w.rows = [b \in DOMAIN t.rows |->
                     IF b \in (DOMAIN t.rows \intersect Produced) \union (IF t.cloning THEN t.uncloned ELSE t.read)
                     THEN Append(t.rows[b], value(b)) ELSE t.rows[b]]
  BY DEF Written, WriteOne, FillTree, TreeFits, TreeFields
<1>5. w.rows = rows
  BY <1>3, <1>4
<1>6. \A b \in DOMAIN t.rows : Datum(b, key) = value(b)
  BY <1>key DEF Datum
<1>7. ASSUME NEW b \in copied
      PROVE  /\ rows[b] = t.rows[b] /\ value(b) = key /\ IsSeq(rest) /\ Len(rest) \in Nat /\ rest # <<>>
             /\ IsSeq(t.rows[b]) /\ Len(t.rows[b]) = n + Len(rest)
             /\ \A k \in 1 .. Len(rest) : t.rows[b][n + k] = [file |-> which, entry |-> rest[k]]
  <2>1. t.cloning /\ b \in Copied(t, f) /\ b \in DOMAIN t.rows
    BY <1>2
  <2>2. rows[b] = t.rows[b] /\ value(b) = key
    BY <2>1 DEF Copied
  <2>3. IsSeq(rest) /\ rest # <<>> /\ Len(rest) \in Nat
    BY <2>1, SeqFacts DEF Ahead
  <2>4. /\ Len(t.rows[b]) = n + Len(rest)
        /\ \A k \in 1 .. Len(rest) : t.rows[b][n + k] = [file |-> which, entry |-> rest[k]]
    BY <2>1 DEF Ahead
  <2>5. IsSeq(t.rows[b])
    BY <2>1 DEF TreeFits, RowsFit
  <2> QED BY <2>2, <2>3, <2>4, <2>5
<1>8. ASSUME NEW b \in DOMAIN t.rows \ copied
      PROVE  /\ rows[b] = Append(t.rows[b], value(b)) /\ IsSeq(t.rows[b]) /\ Len(t.rows[b]) = n
             /\ IsSeq(rows[b]) /\ Len(rows[b]) = n + 1 /\ rows[b][n + 1] = value(b)
             /\ \A k \in 1 .. n : rows[b][k] = t.rows[b][k]
  <2>1. rows[b] = Append(t.rows[b], value(b))
    OBVIOUS
  <2>2. IsSeq(t.rows[b])
    BY DEF TreeFits, RowsFit
  <2>3. Len(t.rows[b]) = n
    BY DEF Ahead, Level
  <2> HIDE DEF rows, value
  <2> QED BY <2>1, <2>2, <2>3, Appended
<1> HIDE DEF rows, value, copied, n
<1>9. ASSUME NEW b \in DOMAIN t.rows
      PROVE  /\ IsSeq(rows[b]) /\ Len(rows[b]) >= n + 1
             /\ \A k \in 1 .. n : rows[b][k] = t.rows[b][k]
             /\ rows[b][n + 1] = Datum(b, key)
  <2>1. CASE b \in copied
    <3>1. rows[b] = t.rows[b] /\ IsSeq(t.rows[b])
      BY <1>7, <2>1
    <3>2. Len(rest) >= 1 /\ Head(rest) = rest[1] /\ Len(rest) \in Nat
      BY <1>7, <2>1, RestOf
    <3>3. Len(t.rows[b]) = n + Len(rest) /\ t.rows[b][n + 1] = [file |-> which, entry |-> rest[1]]
      BY <1>7, <2>1, <3>2
    <3>4. Len(t.rows[b]) >= n + 1
      BY <1>1, <3>2, <3>3 DEF n
    <3>5. t.rows[b][n + 1] = Datum(b, key)
      BY <1>6, <1>7, <1>key, <2>1, <3>2, <3>3
    <3> QED BY <3>1, <3>4, <3>5
  <2>2. CASE b \notin copied
    <3>1. Len(rows[b]) >= n + 1
      BY <1>1, <1>8, <2>2 DEF n
    <3>2. rows[b][n + 1] = Datum(b, key)
      BY <1>6, <1>8, <2>2
    <3> QED BY <1>8, <2>2, <3>1, <3>2
  <2> QED BY <2>1, <2>2
<1>10. /\ IsSeq(w.meta) /\ Len(w.meta) = n + 1 /\ w.meta[n + 1] = key
       /\ \A k \in 1 .. n : w.meta[k] = t.meta[k]
  <2>1. IsSeq(t.meta) /\ Len(t.meta) = n /\ w.meta = Append(t.meta, key)
    BY <1>1, <1>4 DEF n
  <2> HIDE DEF w, key
  <2> QED BY <2>1, Appended
<1>11. RowsFit(w)
  <2>1. DOMAIN rows = DOMAIN t.rows /\ w.filled = n + 1
    BY <1>4 DEF rows
  <2>2. ASSUME NEW b \in DOMAIN t.rows, NEW k \in 1 .. n + 1 PROVE rows[b][k] = Datum(b, w.meta[k])
    <3>1. CASE k \in 1 .. n
      <4>1. t.rows[b][k] = Datum(b, t.meta[k])
        BY <3>1 DEF TreeFits, RowsFit, n
      <4> QED BY <1>9, <1>10, <3>1, <4>1
    <3>2. CASE k = n + 1
      BY <1>9, <1>10, <3>2
    <3> QED BY <1>1, <3>1, <3>2 DEF n
  <2> QED BY <1>5, <1>9, <2>1, <2>2 DEF RowsFit
<1>12. IndexFits(w)
  <2> DEFINE entry == [key |-> key, row |-> n + 1]
  <2>1. /\ IsSeq(w.index) /\ DOMAIN w.index = 1 .. Len(t.index) + 1
        /\ \A i \in 1 .. Len(t.index) : w.index[i] = t.index[i]
        /\ w.index[Len(t.index) + 1] = entry
    <3>1. w.index = Append(t.index, entry)
      BY <1>1, <1>4 DEF n
    <3>2. IsSeq(t.index)
      BY <1>1
    <3> HIDE DEF w, entry
    <3> QED BY <3>1, <3>2, Appended
  <2>2. Len(t.index) \in Nat /\ DOMAIN t.index = 1 .. Len(t.index)
    BY <1>1, SeqFacts
  <2>3. ASSUME NEW i \in DOMAIN w.index
        PROVE  w.index[i].row \in 1 .. n + 1 /\ w.index[i].key = w.meta[w.index[i].row]
    <3>1. CASE i \in 1 .. Len(t.index)
      <4>1. w.index[i] = t.index[i] /\ t.index[i].row \in 1 .. n /\ t.index[i].key = t.meta[t.index[i].row]
        BY <2>1, <2>2, <3>1 DEF TreeFits, IndexFits, n
      <4>2. t.index[i].row \in 1 .. n + 1
        BY <1>1, <4>1 DEF n
      <4> QED BY <1>10, <4>1, <4>2
    <3>2. CASE i = Len(t.index) + 1
      <4>1. w.index[i].row = n + 1 /\ w.index[i].key = key
        BY <2>1, <3>2
      <4>2. n + 1 \in 1 .. n + 1
        BY <1>1 DEF n
      <4> QED BY <1>10, <4>1, <4>2
    <3> QED BY <2>1, <2>2, <3>1, <3>2
  <2>4. w.filled = n + 1 /\ w.filled \in Nat /\ w.nextEntry = w.filled
    BY <1>1, <1>4 DEF n
  <2> QED BY <1>10, <2>1, <2>3, <2>4 DEF IndexFits
<1>13. TreeFits(w)
  BY <1>4, <1>5, <1>11, <1>12 DEF TreeFits, BranchesFit, rows
<1>14. Ahead(w, which, f, Tail(rest))
  <2>1. CASE ~t.cloning
    <3>1. copied = {}
      BY <2>1 DEF copied
    <3>2. \A b \in DOMAIN t.rows : Len(rows[b]) = n + 1
      BY <1>8, <3>1
    <3>3. DOMAIN rows = DOMAIN t.rows /\ w.filled = n + 1 /\ ~w.cloning
      BY <1>4, <2>1 DEF rows
    <3> QED BY <1>5, <3>2, <3>3 DEF Ahead, Level
  <2>2. CASE t.cloning
    <3>1. Copied(w, f) = copied
      BY <1>4, <2>2 DEF Copied, copied
    <3>2. /\ IsSeq(rest) /\ IsSeq(Tail(rest)) /\ Len(Tail(rest)) = Len(rest) - 1 /\ Len(rest) \in Nat /\ Len(rest) >= 1
          /\ \A k \in 1 .. Len(rest) - 1 : Tail(rest)[k] = rest[k + 1]
      BY <2>2, RestOf, SeqFacts DEF Ahead
    <3>3. w.uncloned = w.read \ copied
      BY <1>4, <2>2 DEF Ahead, copied
    <3>4. DOMAIN rows = DOMAIN t.rows /\ w.filled = n + 1 /\ w.cloning
      BY <1>4, <2>2 DEF rows
    <3>5. \A b \in DOMAIN rows \ copied : Len(rows[b]) = n + 1
      BY <1>8, <3>4
    <3>6. ASSUME NEW b \in copied
          PROVE  /\ Len(rows[b]) = n + 1 + Len(Tail(rest))
                 /\ \A k \in 1 .. Len(Tail(rest)) : rows[b][n + 1 + k] = [file |-> which, entry |-> Tail(rest)[k]]
      <4>1. Len(rows[b]) = n + 1 + Len(Tail(rest))
        <5>1. Len(rows[b]) = n + Len(rest)
          BY <1>7
        <5> QED BY <1>1, <3>2, <5>1 DEF n
      <4>2. ASSUME NEW k \in 1 .. Len(Tail(rest)) PROVE rows[b][n + 1 + k] = [file |-> which, entry |-> Tail(rest)[k]]
        <5>1. k + 1 \in 1 .. Len(rest) /\ n + 1 + k = n + (k + 1) /\ Tail(rest)[k] = rest[k + 1]
          BY <1>1, <3>2 DEF n
        <5>2. rows[b][n + (k + 1)] = [file |-> which, entry |-> rest[k + 1]]
          BY <1>7, <5>1
        <5> QED BY <5>1, <5>2
      <4> QED BY <4>1, <4>2
    <3> QED BY <1>5, <3>1, <3>2, <3>3, <3>4, <3>5, <3>6 DEF Ahead
  <2> QED BY <2>1, <2>2
<1>15. DOMAIN w.rows = DOMAIN t.rows
  BY <1>5 DEF rows
<1> QED BY <1>1, <1>4, <1>13, <1>14, <1>15 DEF OneMore, n

-----------------------------------------------------------------------------
(* The module's part of a step.                                             *)

Plain == RootOutputAssumption /\ NothingLeftOut /\ NothingMissed

LEMMA JobFacts ==
  ASSUME Plain, JobFits
  PROVE  /\ Len(job) \in Nat \ {0} /\ number \in Nat
         /\ \A n \in 1 .. Len(job) : IsFile(job[n])
         /\ fastCloning => enabled /\ ~WriteFails /\ \A n \in 1 .. Len(job) : ~SkipsSome(job[n])
         /\ ~enabled => \A n \in 2 .. Len(job) - 1 : job[n].branches \subseteq job[1].branches
         /\ Aux \notin Produced
<1>1. Len(job) \in Nat \ {0} /\ DOMAIN job = 1 .. Len(job)
  BY DEF Plain, RootOutputAssumption, JobFits
<1>2. number \in Nat
  BY <1>1 DEF JobFits
<1>3. \A n \in 1 .. Len(job) : IsFile(job[n])
  BY <1>1 DEF Plain, RootOutputAssumption, JobFits, IsFile
<1>4. ASSUME fastCloning PROVE enabled /\ ~WriteFails /\ \A n \in 1 .. Len(job) : ~SkipsSome(job[n])
  <2>1. TRUE \in FastCloning
    BY <1>4 DEF JobFits
  <2> QED BY <1>1, <2>1 DEF Plain, NothingLeftOut, JobFits
<1>5. ASSUME ~enabled PROVE \A n \in 2 .. Len(job) - 1 : job[n].branches \subseteq job[1].branches
  BY <1>5 DEF Plain, NothingMissed, JobFits
<1>6. Aux \notin Produced
  BY DEF Plain, RootOutputAssumption, Aux
<1> QED BY <1>1, <1>2, <1>3, <1>4, <1>5, <1>6

LEMMA TreesAreOpen == \A t : TreeFits(t) => IsOpen(t)
<1> SUFFICES ASSUME NEW t, TreeFits(t) PROVE t # Closed
  BY DEF IsOpen
<1>1. "cloning" \in DOMAIN t /\ "cloning" \notin DOMAIN Closed
  BY DEF TreeFits, TreeFields, Closed
<1> QED BY <1>1

\* The branches known do not become fewer.
LEMMA KnownMore ==
  ASSUME NEW branches, NEW more, NEW n \in Nat, Known(branches, n), branches \subseteq more
  PROVE  /\ Known(more, n)
         /\ job[n + 1].branches \subseteq more => Known(more, n + 1)
<1>1. Known(more, n)
  BY DEF Known
<1>2. ASSUME job[n + 1].branches \subseteq more PROVE Known(more, n + 1)
  <2>1. \A i \in 1 .. n + 1 : i \in 1 .. n \/ i = n + 1
    OBVIOUS
  <2> QED BY <1>1, <1>2, <2>1 DEF Known
<1> QED BY <1>1, <1>2

\* Of a module that is disabled no branch is missed.
LEMMA KnownDisabled ==
  ASSUME Plain, JobFits, ~enabled, NEW branches, NEW n \in Nat, n >= 1, n < Len(job), Known(branches, n)
  PROVE  Known(branches, n + 1)
<1>1. Len(job) \in Nat /\ \A i \in 2 .. Len(job) - 1 : job[i].branches \subseteq job[1].branches
  BY JobFacts
<1>2. job[1].branches \subseteq branches
  <2>1. 1 \in 1 .. n /\ 1 < Len(job)
    BY <1>1
  <2> QED BY <2>1 DEF Known
<1>3. ASSUME NEW i \in 1 .. n + 1, i < Len(job) PROVE job[i].branches \subseteq branches
  <2>1. CASE i \in 1 .. n
    BY <1>3, <2>1 DEF Known
  <2>2. CASE i = n + 1
    <3>1. i \in 2 .. Len(job) - 1
      BY <1>1, <1>3, <2>2
    <3> QED BY <1>1, <1>2, <3>1
  <2> QED BY <2>1, <2>2
<1> QED BY <1>3 DEF Known

\* Of a new file: what it has is added, and its rows are copied if they may be.
LEMMA BeginKeeps ==
  ASSUME NEW t, NEW selected, NEW n, NEW f, NEW fast \in BOOLEAN, IsFile(f),
         TreeFits(t), Level(t), fast => t.entries = t.filled,
         Unmet(t, selected), fast => FastClonable(f) /\ ~SkipsSome(f)
  PROVE  LET b == BeginInputFile(t, selected, n, f, fast)
         IN /\ TreeFits(b) /\ Ahead(b, n, f, ReadOrder(f)) /\ DOMAIN b.rows = DOMAIN t.rows \union selected
            /\ b.filled = t.filled /\ b.meta = t.meta /\ b.index = t.index /\ (b.cloning => fast)
<1> DEFINE a == AddOutputBranches(t, selected)
           s == [a EXCEPT !.cloning = fast /\ f.sameLayout]
<1>1. /\ TreeFits(a) /\ Level(a) /\ DOMAIN a.rows = DOMAIN t.rows \union selected
      /\ a.entries = t.entries /\ a.filled = t.filled /\ a.meta = t.meta /\ a.index = t.index
  BY AddKeeps
<1> HIDE DEF a
<1>2. /\ DOMAIN s = TreeFields /\ s.rows = a.rows /\ s.read = a.read /\ s.filled = a.filled /\ s.meta = a.meta
      /\ s.index = a.index /\ s.entries = a.entries /\ s.nextEntry = a.nextEntry
      /\ s.cloning = (fast /\ f.sameLayout)
  BY <1>1 DEF TreeFits, TreeFields
<1>3. f.sameLayout \in BOOLEAN
  BY DEF IsFile
<1> HIDE DEF s
<1>4. s.cloning \in BOOLEAN /\ (s.cloning => fast)
  BY <1>2, <1>3
<1>5. TreeFits(s)
  BY <1>1, <1>2, <1>4 DEF TreeFits, BranchesFit, RowsFit, IndexFits
<1>6. Level(s)
  BY <1>1, <1>2 DEF Level
<1>7. s.cloning => s.entries = s.filled
  BY <1>1, <1>2, <1>4
<1>8. LET c == FastCloneTree(s, n, f)
      IN /\ TreeFits(c) /\ Ahead(c, n, f, ReadOrder(f)) /\ DOMAIN c.rows = DOMAIN s.rows
         /\ c.filled = s.filled /\ c.meta = s.meta /\ c.index = s.index /\ c.cloning = s.cloning
  BY <1>4, <1>5, <1>6, <1>7, CloneKeeps
<1>9. BeginInputFile(t, selected, n, f, fast) = FastCloneTree(s, n, f)
  BY DEF BeginInputFile, s, a
<1> QED BY <1>1, <1>2, <1>4, <1>8, <1>9

\* Between two files: what is open is level, and the files up to n are known.
ModuleFields == {"kept", "inputs", "out", "files", "failed"}
Between(t, n) ==
  /\ TreeFits(t) /\ Level(t) /\ Known(DOMAIN t.rows, n) /\ MetaFits(t, n)
  /\ fastCloning => t.entries = t.filled
Paused(m, n) ==
  /\ DOMAIN m = ModuleFields /\ Produced \subseteq m.kept /\ m.failed = "no"
  /\ Known(m.kept, n)
  /\ m.out = Closed \/ Between(m.out, n)

\* Within the file n, of which nothing has been read.
Begun(t, n) ==
  /\ TreeFits(t) /\ Ahead(t, n, job[n], ReadOrder(job[n])) /\ Known(DOMAIN t.rows, n) /\ MetaFits(t, n)
  /\ t.cloning => fastCloning
Reading(m, n) ==
  /\ DOMAIN m = ModuleFields /\ Produced \subseteq m.kept
  /\ enabled => Known(m.kept, n)
  /\ m.out = Closed \/ (Begun(m.out, n) /\ Known(m.kept, n))

OpenEvents(m) == IF IsOpen(m.out) THEN EventsOf(m.out) ELSE <<>>

LEMMA MetaMore ==
  ASSUME NEW t, NEW n \in Nat, MetaFits(t, n) PROVE MetaFits(t, n + 1)
BY DEF MetaFits

\* A tree that is level and not cloning is as good when a file is opened without it.
LEMMA LeftAlone ==
  ASSUME Plain, JobFits, ~enabled, NEW t, NEW n \in Nat, n >= 1, n < Len(job), Between(t, n), ~t.cloning
  PROVE  Begun(t, n + 1)
<1>1. Ahead(t, n + 1, job[n + 1], ReadOrder(job[n + 1]))
  BY DEF Between, Ahead
<1>2. Known(DOMAIN t.rows, n + 1)
  BY KnownDisabled DEF Between
<1> QED BY <1>1, <1>2, MetaMore DEF Between, Begun

\* What the module does with an open tree when it is told of the next file.
LEMMA OpenedTree ==
  ASSUME Plain, JobFits, NEW t, NEW kept0, NEW n \in Nat, n < Len(job), TreeFits(t), Level(t),
         fastCloning => t.entries = t.filled, MetaFits(t, n), Unmet(t, kept0),
         Known(kept0, n + 1)
  PROVE  LET b == BeginInputFile(t, kept0, n + 1, job[n + 1], fastCloning /\ FastClonable(job[n + 1]))
         IN Begun(b, n + 1) /\ b.index = t.index
<1> DEFINE f == job[n + 1]
           fast == fastCloning /\ FastClonable(f)
           b == BeginInputFile(t, kept0, n + 1, f, fast)
<1>1. Len(job) \in Nat /\ n + 1 \in 1 .. Len(job) /\ IsFile(f)
  BY JobFacts
<1>2. fast \in BOOLEAN /\ (fast => FastClonable(f) /\ ~SkipsSome(f)) /\ (fast => t.entries = t.filled)
  BY <1>1, JobFacts
<1> HIDE DEF fast
<1>3. /\ TreeFits(b) /\ Ahead(b, n + 1, f, ReadOrder(f)) /\ DOMAIN b.rows = DOMAIN t.rows \union kept0
      /\ b.filled = t.filled /\ b.meta = t.meta /\ b.index = t.index /\ (b.cloning => fast)
  BY <1>1, <1>2, BeginKeeps
<1> HIDE DEF b
<1>4. Known(DOMAIN b.rows, n + 1)
  BY <1>3 DEF Known
<1>5. MetaFits(b, n + 1)
  <2>1. MetaFits(t, n + 1)
    BY MetaMore
  <2> QED BY <1>3, <2>1 DEF MetaFits
<1>6. b.cloning => fastCloning
  BY <1>3 DEF fast
<1> QED BY <1>3, <1>4, <1>5, <1>6 DEF Begun, b, fast

LEMMA OpenInputKeeps ==
  ASSUME Plain, JobFits, NEW m, NEW n \in Nat, n < Len(job), Paused(m, n),
         n = 0 => m.out = Closed, ~enabled => m.out = Closed \/ ~m.out.cloning
  PROVE  LET o == OpenInput(m, n + 1)
         IN Reading(o, n + 1) /\ o.failed = "no" /\ o.files = m.files /\ OpenEvents(o) = OpenEvents(m)
<1> DEFINE f == job[n + 1]
           o == OpenInput(m, n + 1)
<1>1. Len(job) \in Nat /\ m.failed = "no"
  BY JobFacts DEF Paused
<1>2. CASE ~enabled
  <2>1. o = m
    BY <1>1, <1>2 DEF OpenInput, IfEnabled
  <2>2. CASE m.out = Closed
    BY <1>1, <1>2, <2>1, <2>2 DEF Paused, Reading
  <2>3. CASE m.out # Closed
    <3>1. Begun(m.out, n + 1) /\ Known(m.kept, n + 1)
      BY <1>2, <2>3, LeftAlone, KnownDisabled DEF Paused
    <3> QED BY <1>1, <1>2, <2>1, <2>3, <3>1 DEF Paused, Reading
  <2> QED BY <2>2, <2>3
<1>3. CASE enabled
  <2> DEFINE now == m.kept \union f.branches \union Produced
             added == AddOutputBranches(m.out, now)
             s == SelectProducts(m, f)
  <2>1. /\ DOMAIN s = ModuleFields /\ s.kept = now /\ s.files = m.files /\ s.failed = m.failed
        /\ s.out = IF IsOpen(m.out) THEN added ELSE m.out
    BY DEF SelectProducts, Paused, ModuleFields
  <2>2. /\ DOMAIN o = ModuleFields /\ o.kept = now /\ o.files = m.files /\ o.failed = "no"
        /\ o.out = IF IsOpen(s.out) THEN BeginInputFile(s.out, now, n + 1, f, fastCloning /\ FastClonable(f)) ELSE s.out
    <3>1. o = RespondToOpenInputFile(s, n + 1, f)
      BY <1>1, <1>3 DEF OpenInput, IfEnabled
    <3> HIDE DEF s, now
    <3> QED BY <1>1, <2>1, <3>1 DEF RespondToOpenInputFile, ModuleFields
  <2>3. Known(now, n + 1)
    BY KnownMore DEF Paused
  <2>4. CASE m.out = Closed
    <3>1. o.out = Closed
      BY <2>1, <2>2, <2>4 DEF IsOpen
    <3> QED BY <2>2, <2>3, <2>4, <3>1 DEF Reading, OpenEvents, IsOpen
  <2>5. CASE m.out # Closed
    <3>1. Between(m.out, n) /\ IsOpen(m.out) /\ s.out = added
      BY <2>1, <2>5 DEF Paused, IsOpen
    <3>2. n < Len(job) /\ Unmet(m.out, now)
      BY <1>1, <3>1, BranchesKnown DEF Between, TreeFits
    <3>3. /\ TreeFits(added) /\ Level(added) /\ DOMAIN added.rows = DOMAIN m.out.rows \union now
          /\ added.entries = m.out.entries /\ added.filled = m.out.filled /\ added.meta = m.out.meta
          /\ added.index = m.out.index
      BY <3>1, <3>2, AddKeeps DEF Between
    <3> HIDE DEF added, now
    <3>4. MetaFits(added, n) /\ Unmet(added, now) /\ (fastCloning => added.entries = added.filled)
      BY <3>1, <3>3 DEF Between, MetaFits, Unmet
    <3>5. o.out = BeginInputFile(added, now, n + 1, f, fastCloning /\ FastClonable(f))
      BY <2>2, <3>1, <3>3, TreesAreOpen
    <3>6. Begun(o.out, n + 1) /\ o.out.index = added.index
      BY <2>3, <3>3, <3>4, <3>5, OpenedTree
    <3>7. IsOpen(o.out)
      BY <3>6, TreesAreOpen DEF Begun
    <3>8. OpenEvents(o) = OpenEvents(m)
      BY <3>1, <3>3, <3>6, <3>7 DEF OpenEvents, EventsOf
    <3>9. Produced \subseteq now
      BY DEF now
    <3> QED BY <2>2, <2>3, <3>6, <3>8, <3>9 DEF Reading
  <2> QED BY <2>4, <2>5
<1> QED BY <1>2, <1>3 DEF JobFits

LEMMA OpenOutputKeeps ==
  ASSUME Plain, JobFits, NEW m, NEW n \in Nat, n < Len(job), Reading(m, n + 1)
  PROVE  LET o == OpenOutput(m, n + 1)
         IN Reading(o, n + 1) /\ o.files = m.files /\ OpenEvents(o) = OpenEvents(m)
<1> DEFINE f == job[n + 1]
           o == OpenOutput(m, n + 1)
<1>1. CASE m.failed # "no" \/ ~enabled \/ IsOpen(m.out)
  <2>1. o = m
    BY <1>1 DEF OpenOutput, OpenOutputFile, IfEnabled
  <2> QED BY <2>1
<1>2. CASE m.failed = "no" /\ enabled /\ ~IsOpen(m.out) /\ m.inputs = 0
  <2>1. o = [m EXCEPT !.failed = "exception"]
    BY <1>2 DEF OpenOutput, OpenOutputFile, IfEnabled
  <2>2. DOMAIN o = ModuleFields /\ o.kept = m.kept /\ o.out = m.out /\ o.files = m.files
    BY <2>1 DEF Reading, ModuleFields
  <2> QED BY <2>2 DEF Reading, OpenEvents
<1>3. CASE m.failed = "no" /\ enabled /\ ~IsOpen(m.out) /\ m.inputs # 0
  <2> DEFINE s == [m EXCEPT !.out = NewTree]
             t == NewTree
             b == BeginInputFile(t, m.kept, n + 1, f, fastCloning /\ FastClonable(f))
  <2>1. o = RespondToOpenInputFile(s, n + 1, f)
    BY <1>3 DEF OpenOutput, OpenOutputFile, IfEnabled
  <2>2. DOMAIN s = ModuleFields /\ s.out = t /\ s.kept = m.kept /\ s.files = m.files
    BY DEF Reading, ModuleFields
  <2>3. /\ TreeFits(t) /\ Level(t) /\ t.entries = t.filled /\ t.filled = 0 /\ DOMAIN t.rows = {Aux} /\ t.index = <<>>
    BY NewTreeFits, JobFacts
  <2> HIDE DEF s, t
  <2>4. IsOpen(t)
    BY <2>3, TreesAreOpen
  <2>5. DOMAIN o = ModuleFields /\ o.kept = m.kept /\ o.files = m.files /\ o.out = b
    BY <2>1, <2>2, <2>4 DEF RespondToOpenInputFile, ModuleFields
  <2>6. MetaFits(t, n) /\ Unmet(t, m.kept)
    BY <2>3 DEF MetaFits, Unmet
  <2>7. Known(m.kept, n + 1)
    BY <1>3 DEF Reading
  <2>8. Begun(b, n + 1) /\ b.index = t.index
    BY <2>3, <2>6, <2>7, OpenedTree
  <2> HIDE DEF b
  <2>9. IsOpen(o.out)
    BY <2>5, <2>8, TreesAreOpen DEF Begun
  <2>10. OpenEvents(o) = <<>>
    <3>1. DOMAIN o.out.index = {} /\ OpenEvents(o) = EventsOf(o.out)
      BY <2>3, <2>5, <2>8, <2>9 DEF OpenEvents
    <3> DEFINE none == EventsOf(o.out)
    <3>2. none = [i \in 1 .. 0 |-> none[i]]
      BY <3>1 DEF EventsOf
    <3>3. none = <<>>
      BY <3>2, SeqOfLength, NoElements
    <3> QED BY <3>1, <3>3
  <2>11. OpenEvents(m) = <<>>
    BY <1>3 DEF OpenEvents
  <2> QED BY <2>5, <2>7, <2>8, <2>10, <2>11 DEF Reading
<1> QED BY <1>1, <1>2, <1>3

\* What has been read to its end is level.
LEMMA ReadToEnd ==
  ASSUME NEW t, NEW n, NEW f, TreeFits(t), Ahead(t, n, f, <<>>)
  PROVE  Level(t)
<1>1. CASE ~t.cloning
  BY <1>1 DEF Ahead
<1>2. CASE t.cloning
  <2>1. ASSUME NEW b \in DOMAIN t.rows PROVE Len(t.rows[b]) = t.filled
    <3>1. CASE b \in Copied(t, f)
      <4>1. Len(t.rows[b]) = t.filled + Len(<<>>)
        BY <1>2, <3>1 DEF Ahead
      <4>2. t.filled \in Nat /\ Len(<<>>) = 0
        BY NoElements DEF TreeFits, IndexFits
      <4> QED BY <4>1, <4>2
    <3>2. CASE b \notin Copied(t, f)
      BY <1>2, <3>2 DEF Ahead
    <3> QED BY <3>1, <3>2
  <2> QED BY <2>1 DEF Level
<1> QED BY <1>1, <1>2 DEF TreeFits

LEMMA ModuleIs ==
  /\ DOMAIN Module = ModuleFields /\ Module.kept = kept /\ Module.out = out /\ Module.files = files
  /\ Module.failed = "no"
BY DEF Module, ModuleFields

\* The files of a module that is going to have closed one more.
FilesOf(m) == IsSeq(m.files) /\ \A o \in DOMAIN m.files : FileFits(m.files[o])

LEMMA ClosedFits ==
  ASSUME RowsInv, IsOpen(out), ~stopped => Level(out)
  PROVE  LET c == CloseOutputFile(Module)
         IN /\ DOMAIN c = ModuleFields /\ c.kept = kept /\ c.out = Closed /\ c.failed = "no"
            /\ c.files = Append(files, SetEntries(out)) /\ FilesOf(c)
            /\ EventsOf(SetEntries(out)) = EventsOf(out)
<1> DEFINE c == CloseOutputFile(Module)
           s == SetEntries(out)
<1>1. TreeFits(out)
  BY DEF RowsInv, OutFits
<1>2. /\ s.index = out.index /\ TreeFits(s) /\ (Level(out) => Level(s) /\ s.entries = s.filled)
  BY <1>1, SetEntriesKeeps
<1> HIDE DEF s
<1>3. /\ DOMAIN c = ModuleFields /\ c.kept = kept /\ c.out = Closed /\ c.failed = "no" /\ c.files = Append(files, s)
  BY ModuleIs DEF CloseOutputFile, ModuleFields, s
<1>4. FileFits(s)
  BY <1>2 DEF FileFits
<1>5. IsSeq(files) /\ \A o \in DOMAIN files : FileFits(files[o])
  BY DEF RowsInv, FilesFit
<1>6. Len(files) \in Nat /\ DOMAIN files = 1 .. Len(files)
  BY <1>5, SeqFacts
<1>7. /\ IsSeq(c.files) /\ DOMAIN c.files = 1 .. Len(files) + 1 /\ c.files[Len(files) + 1] = s
      /\ \A o \in 1 .. Len(files) : c.files[o] = files[o]
  BY <1>3, <1>5, Appended
<1>8. \A o \in 1 .. Len(files) + 1 : o \in DOMAIN files \/ o = Len(files) + 1
  BY <1>6
<1>9. FilesOf(c)
  BY <1>4, <1>5, <1>6, <1>7, <1>8 DEF FilesOf
<1> QED BY <1>2, <1>3, <1>9 DEF EventsOf, s

\* Before the next file is opened.
LEMMA PausedAtEnd ==
  ASSUME Plain, RowsInv, at = "events", left = <<>>, ~stopped, IsOpen(out)
  PROVE  /\ Paused(CloseInput(Module), number) /\ CloseInput(Module).files = files
         /\ OpenEvents(CloseInput(Module)) = OpenEvents(Module)
         /\ CloseInput(Module).out # Closed
         /\ ~enabled => ~CloseInput(Module).out.cloning
         /\ LET c == CloseInput(CloseOutput(Module))
            IN /\ Paused(c, number)
               /\ IF enabled
                  THEN /\ c.files = Append(files, SetEntries(out)) /\ FilesOf(c) /\ c.out = Closed
                       /\ EventsOf(SetEntries(out)) = EventsOf(out)
                  ELSE c = CloseInput(Module)
<1>1. /\ TreeFits(out) /\ Level(out) /\ Known(DOMAIN out.rows, number) /\ MetaFits(out, number)
      /\ (out.cloning => fastCloning) /\ Produced \subseteq kept /\ Known(kept, number)
  BY ReadToEnd DEF RowsInv, OutFits, KeptFits
<1>2. fastCloning => enabled
  BY JobFacts DEF RowsInv
<1>3. CASE enabled
  <2> DEFINE s == SetEntries(out)
             i == CloseInput(Module)
             c == CloseInput(CloseOutput(Module))
             d == CloseOutputFile(Module)
  <2>1. /\ s.rows = out.rows /\ s.index = out.index /\ s.filled = out.filled /\ s.meta = out.meta
        /\ TreeFits(s) /\ Level(s) /\ s.entries = s.filled
    BY <1>1, SetEntriesKeeps
  <2>2. DOMAIN i = ModuleFields /\ i.kept = kept /\ i.out = s /\ i.files = files /\ i.failed = "no"
    BY <1>3, ModuleIs DEF CloseInput, IfEnabled, RespondToCloseInputFile, ModuleFields
  <2> HIDE DEF s, i
  <2>3. Between(s, number)
    BY <1>1, <2>1 DEF Between, MetaFits
  <2>4. Paused(i, number)
    BY <1>1, <2>2, <2>3 DEF Paused
  <2>5. IsOpen(s)
    BY <2>1, TreesAreOpen
  <2>6. OpenEvents(i) = OpenEvents(Module)
    BY <2>1, <2>2, <2>5, ModuleIs DEF OpenEvents, EventsOf
  <2>7. /\ DOMAIN d = ModuleFields /\ d.kept = kept /\ d.out = Closed /\ d.failed = "no"
        /\ d.files = Append(files, s) /\ FilesOf(d) /\ EventsOf(s) = EventsOf(out)
    BY <1>1, ClosedFits DEF s
  <2>8. c = [d EXCEPT !.out = Closed]
    <3>1. CloseOutput(Module) = d
      BY <1>3 DEF CloseOutput, IfEnabled
    <3> HIDE DEF d
    <3> QED BY <1>3, <2>7, <3>1 DEF CloseInput, IfEnabled, RespondToCloseInputFile, IsOpen
  <2> HIDE DEF c, d
  <2>9. /\ DOMAIN c = ModuleFields /\ c.kept = kept /\ c.out = Closed /\ c.failed = "no" /\ c.files = d.files
    BY <2>7, <2>8 DEF ModuleFields
  <2>10. Paused(c, number)
    BY <1>1, <2>9 DEF Paused
  <2>11. FilesOf(c)
    BY <2>7, <2>9 DEF FilesOf
  <2> QED BY <1>3, <2>2, <2>4, <2>5, <2>6, <2>7, <2>9, <2>10, <2>11 DEF IsOpen, s, i, c
<1>4. CASE ~enabled
  <2>1. CloseOutput(Module) = Module /\ CloseInput(Module) = Module
    BY <1>4, ModuleIs DEF CloseOutput, CloseInput, IfEnabled
  <2>2. Between(out, number)
    BY <1>1, <1>2, <1>4 DEF Between
  <2>3. Paused(Module, number)
    BY <1>1, <2>2, ModuleIs DEF Paused
  <2> QED BY <1>1, <1>2, <1>4, <2>1, <2>3, ModuleIs DEF IsOpen
<1> QED BY <1>3, <1>4 DEF RowsInv, JobFits

-----------------------------------------------------------------------------
(* The steps.                                                               *)

\* Of a state only the job and how it was configured matter to a tree.
LEMMA SameTrees ==
  ASSUME job' = job, fastCloning' = fastCloning
  PROVE  /\ TreeFits(out') => TreeFits(out)'
         /\ \A o : TreeFits(files'[o]) => TreeFits(files[o])'
         /\ Known(DOMAIN out'.rows, number') => Known(DOMAIN out.rows, number)'
         /\ Known(kept', number') => Known(kept, number)'
<1>1. TreeFits(out') => TreeFits(out)'
  BY DEF TreeFits, BranchesFit, RowsFit, IndexFits, Datum
<1>2. \A o : TreeFits(files'[o]) => TreeFits(files[o])'
  BY DEF TreeFits, BranchesFit, RowsFit, IndexFits, Datum
<1>3. Known(DOMAIN out'.rows, number') => Known(DOMAIN out.rows, number)'
  BY DEF Known
<1>4. Known(kept', number') => Known(kept, number)'
  BY DEF Known
<1> QED BY <1>1, <1>2, <1>3, <1>4

LEMMA SameFiles ==
  ASSUME job' = job, fastCloning' = fastCloning, stopped => stopped',
         IsSeq(files'), \A o \in DOMAIN files' : FileFits(files'[o])
  PROVE  FilesFit'
<1>1. ASSUME NEW o \in DOMAIN files' PROVE FileFits(files[o])'
  <2>1. FileFits(files'[o]) /\ (TreeFits(files'[o]) => TreeFits(files[o])')
    BY SameTrees
  <2>2. TreeFits(files[o])'
    BY <2>1 DEF FileFits
  <2>3. ~stopped' => Level(files'[o]) /\ files'[o].entries = files'[o].filled
    BY <2>1 DEF FileFits
  <2>4. ~stopped' => (Level(files[o]) /\ files[o].entries = files[o].filled)'
    BY <2>3 DEF Level
  <2> QED BY <2>2, <2>4 DEF FileFits
<1> QED BY <1>1 DEF FilesFit

\* The state that is reached when a file has been opened.
LEMMA FileIsOpen ==
  ASSUME job' = job, fastCloning' = fastCloning, stopped' = stopped,
         NEW m, NEW n \in Nat, Reading(m, n), FilesOf(m), Becomes(m),
         number' = n, left' = ReadOrder(job[n])
  PROVE  OutFits' /\ KeptFits' /\ FilesFit'
<1>1. kept' = m.kept /\ out' = m.out /\ files' = m.files
  BY DEF Becomes
<1>2. Produced \subseteq m.kept
  BY DEF Reading
<1>3. FilesFit'
  BY <1>1, SameFiles DEF FilesOf
<1>4. CASE out' = Closed
  BY <1>1, <1>2, <1>3, <1>4 DEF OutFits, KeptFits, IsOpen
<1>5. CASE out' # Closed
  <2>1. Begun(out', n) /\ Known(kept', n)
    BY <1>1, <1>5 DEF Reading
  <2>2. TreeFits(out)' /\ Known(DOMAIN out.rows, number)' /\ Known(kept, number)'
    BY <2>1, SameTrees DEF Begun
  <2>3. MetaFits(out, number)'
    BY <2>1 DEF Begun, MetaFits
  <2>4. Ahead(out, number, job[number], left)'
    BY <2>1 DEF Begun, Ahead, Level, Copied
  <2>5. (out.cloning => fastCloning)'
    BY <2>1 DEF Begun
  <2>6. OutFits'
    BY <2>2, <2>3, <2>4, <2>5 DEF OutFits
  <2>7. KeptFits'
    BY <1>1, <1>2, <2>2 DEF KeptFits
  <2> QED BY <1>3, <2>6, <2>7
<1> QED BY <1>4, <1>5

LEMMA RowsStart == Plain /\ Init => RowsInv
<1> SUFFICES ASSUME Plain, Init PROVE RowsInv
  OBVIOUS
<1>1. JobFits
  <2>1. Len(job) \in Nat \ {0} /\ fastCloning \in BOOLEAN /\ MaxToggles \in Nat
    BY DEF Plain, RootOutputAssumption, Init
  <2>2. 0 \in 0 .. Len(job) /\ 0 \in Nat
    BY <2>1
  <2> QED BY <2>1, <2>2 DEF Init, JobFits
<1>2. OutFits /\ KeptFits
  BY DEF Init, OutFits, KeptFits, IsOpen
<1>3. FilesFit
  BY NoElements DEF Init, FilesFit
<1> QED BY <1>1, <1>2, <1>3 DEF RowsInv

LEMMA FileOpens == Plain /\ RowsInv /\ OpenFiles => RowsInv'
<1> SUFFICES ASSUME Plain, RowsInv, OpenFiles PROVE RowsInv'
  OBVIOUS
<1> DEFINE i == OpenInput(Module, 1)
           m == OpenOutput(i, 1)
<1>1. JobFits /\ out = Closed /\ Produced \subseteq kept /\ Len(job) \in Nat \ {0}
  BY JobFacts DEF RowsInv, OpenFiles, JobFits, KeptFits
<1>2. Known(kept, 0)
  BY <1>1 DEF Known
<1>3. Paused(Module, 0) /\ Module.out = Closed
  BY <1>1, <1>2, ModuleIs DEF Paused
<1>4. Reading(i, 1) /\ i.files = files
  <2>1. LET o == OpenInput(Module, 0 + 1)
        IN Reading(o, 0 + 1) /\ o.failed = "no" /\ o.files = Module.files /\ OpenEvents(o) = OpenEvents(Module)
    BY <1>1, <1>3, OpenInputKeeps
  <2> QED BY <2>1, ModuleIs
<1> HIDE DEF i
<1>5. Reading(m, 1) /\ m.files = files
  <2>1. LET o == OpenOutput(i, 0 + 1)
        IN Reading(o, 0 + 1) /\ o.files = i.files /\ OpenEvents(o) = OpenEvents(i)
    BY <1>1, <1>4, OpenOutputKeeps
  <2> QED BY <1>4, <2>1
<1>6. FilesOf(m)
  BY <1>5 DEF RowsInv, FilesFit, FilesOf
<1>7. /\ job' = job /\ fastCloning' = fastCloning /\ stopped' = stopped /\ number' = 1 /\ left' = ReadOrder(job[1])
      /\ Becomes(m) /\ enabled' = enabled /\ toggles' = toggles /\ at' = "events"
  BY DEF OpenFiles, i
<1> HIDE DEF m
<1>8. OutFits' /\ KeptFits' /\ FilesFit'
  BY <1>5, <1>6, <1>7, FileIsOpen
<1>9. JobFits'
  BY <1>1, <1>7 DEF JobFits
<1> QED BY <1>8, <1>9 DEF RowsInv

\* The module is told of the next file while its own stays open, or with a new one.
LEMMA NextInputKeeps == Plain /\ RowsInv /\ NextInput => RowsInv'
<1> SUFFICES ASSUME Plain, RowsInv, NextInput PROVE RowsInv'
  OBVIOUS
<1>1. JobFits /\ Len(job) \in Nat \ {0} /\ number \in Nat /\ number >= 1 /\ number < Len(job) /\ number + 1 \in Nat
  <2>1. JobFits /\ at = "events" /\ number < Len(job)
    BY DEF RowsInv, NextInput
  <2>2. Len(job) \in Nat \ {0} /\ number \in Nat
    BY <2>1, JobFacts
  <2>3. number >= 1
    BY <2>1 DEF JobFits
  <2> QED BY <2>1, <2>2, <2>3
<1>2. /\ at = "events" /\ left = <<>> /\ ~stopped /\ failed = "no"
      /\ job' = job /\ fastCloning' = fastCloning /\ stopped' = stopped /\ enabled' = enabled /\ toggles' = toggles
      /\ at' = "events"
  BY DEF NextInput
<1>3. CASE ~IsOpen(out)
  <2>1. UNCHANGED <<number, left, kept, out, files>>
    BY <1>3 DEF NextInput
  <2> QED BY <1>2, <2>1 DEF RowsInv, JobFits, OutFits, KeptFits, FilesFit, FileFits, TreeFits, BranchesFit,
        RowsFit, IndexFits, Datum, Known, MetaFits, Ahead, Level, Copied
<1>4. CASE IsOpen(out)
  <2> DEFINE c == CloseInput(Module)
             d == CloseInput(CloseOutput(Module))
             n == number + 1
  <2>1. /\ Paused(c, number) /\ c.files = files /\ (~enabled => ~c.out.cloning)
        /\ Paused(d, number) /\ FilesOf(d) /\ (~enabled => d.out = Closed \/ ~d.out.cloning)
    <3>1. IsSeq(files) /\ \A o \in DOMAIN files : FileFits(files[o])
      BY DEF RowsInv, FilesFit
    <3>2. /\ Paused(c, number) /\ c.files = files /\ (~enabled => ~c.out.cloning)
          /\ Paused(d, number)
          /\ IF enabled THEN FilesOf(d) ELSE d = c
      BY <1>2, <1>4, PausedAtEnd
    <3> HIDE DEF c, d
    <3> QED BY <3>1, <3>2 DEF FilesOf
  <2>2. PICK full \in BOOLEAN :
          /\ number' = n /\ left' = ReadOrder(job[n])
          /\ IF full THEN Becomes(OpenOutput(OpenInput(d, n), n)) ELSE Becomes(OpenInput(c, n))
    BY <1>4 DEF NextInput
  <2> HIDE DEF c, d
  <2>3. Reading(OpenInput(c, n), n) /\ OpenInput(c, n).files = files
    BY <1>1, <2>1, OpenInputKeeps
  <2>4. Reading(OpenInput(d, n), n) /\ OpenInput(d, n).files = d.files
    BY <1>1, <2>1, OpenInputKeeps
  <2>5. Reading(OpenOutput(OpenInput(d, n), n), n) /\ OpenOutput(OpenInput(d, n), n).files = d.files
    BY <1>1, <2>4, OpenOutputKeeps
  <2>6. FilesOf(OpenInput(c, n)) /\ FilesOf(OpenOutput(OpenInput(d, n), n))
    BY <2>1, <2>3, <2>5 DEF FilesOf, RowsInv, FilesFit
  <2>7. OutFits' /\ KeptFits' /\ FilesFit'
    <3>1. CASE full
      BY <1>1, <1>2, <2>2, <2>5, <2>6, <3>1, FileIsOpen
    <3>2. CASE ~full
      BY <1>1, <1>2, <2>2, <2>3, <2>6, <3>2, FileIsOpen
    <3> QED BY <3>1, <3>2
  <2>8. JobFits'
    BY <1>1, <1>2, <2>2 DEF JobFits
  <2> QED BY <2>7, <2>8 DEF RowsInv
<1> QED BY <1>3, <1>4

\* Steps that leave the files alone, and read events only where none was copied.
LEMMA SameOut ==
  ASSUME RowsInv, UNCHANGED <<job, fastCloning, number, kept, out, files>>, stopped => stopped',
         at' = "events" => at = "events" /\ (left' = left \/ ~fastCloning)
  PROVE  OutFits' /\ KeptFits' /\ FilesFit'
<1>1. FilesFit'
  BY SameFiles DEF RowsInv, FilesFit
<1>2. CASE ~IsOpen(out)
  <2>1. ~IsOpen(out')
    BY <1>2
  <2> QED BY <1>1, <2>1 DEF RowsInv, OutFits, KeptFits, IsOpen
<1>3. CASE IsOpen(out)
  <2>1. TreeFits(out)' /\ Known(DOMAIN out.rows, number)' /\ Known(kept, number)'
    BY <1>3, SameTrees DEF RowsInv, OutFits, KeptFits
  <2>2. MetaFits(out, number)' /\ (out.cloning => fastCloning)'
    BY <1>3 DEF RowsInv, OutFits, MetaFits
  <2>3. ASSUME at' = "events" PROVE Ahead(out, number, job[number], left)'
    <3>1. Ahead(out, number, job[number], left) /\ (out.cloning => fastCloning)
      BY <1>3, <2>3 DEF RowsInv, OutFits
    <3>2. CASE left' = left
      BY <3>1, <3>2 DEF Ahead, Level, Copied
    <3>3. CASE ~fastCloning
      BY <3>1, <3>3 DEF Ahead, Level
    <3> QED BY <2>3, <3>2, <3>3
  <2>4. OutFits'
    BY <2>1, <2>2, <2>3 DEF OutFits
  <2>5. KeptFits'
    BY <2>1 DEF RowsInv, KeptFits
  <2> QED BY <1>1, <2>4, <2>5
<1> QED BY <1>2, <1>3

LEMMA WriteKeeps == Plain /\ RowsInv /\ WriteEvent => RowsInv'
<1> SUFFICES ASSUME Plain, RowsInv, WriteEvent PROVE RowsInv'
  OBVIOUS
<1>1. JobFits /\ Len(job) \in Nat \ {0} /\ number \in Nat /\ (fastCloning => enabled)
  BY JobFacts DEF RowsInv
<1>2. /\ at = "events" /\ left # <<>> /\ left' = Tail(left)
      /\ UNCHANGED <<job, fastCloning, number, at, enabled, toggles, kept, inputs, files, stopped>>
  BY DEF WriteEvent
<1>3. JobFits'
  BY <1>1, <1>2 DEF JobFits
<1>4. CASE ~enabled
  <2>1. out' = out
    BY <1>4 DEF WriteEvent
  <2> QED BY <1>1, <1>2, <1>3, <1>4, <2>1, SameOut DEF RowsInv
<1>5. CASE enabled /\ ~IsOpen(out)
  <2>1. out' = out
    BY <1>5 DEF WriteEvent
  <2>2. FilesFit'
    BY <1>2, SameFiles DEF RowsInv, FilesFit
  <2> QED BY <1>2, <1>3, <1>5, <2>1, <2>2 DEF RowsInv, OutFits, KeptFits, IsOpen
<1>6. CASE enabled /\ IsOpen(out)
  <2> DEFINE key == NextKey(number, left)
             w == Written(out, number, job[number], left)
  <2>1. out' = w
    BY <1>6 DEF WriteEvent, Written, NextKey
  <2>2. /\ TreeFits(out) /\ Ahead(out, number, job[number], left) /\ Known(DOMAIN out.rows, number)
        /\ MetaFits(out, number) /\ Known(kept, number) /\ (out.cloning => fastCloning) /\ Produced \subseteq kept
    BY <1>2, <1>6 DEF RowsInv, OutFits, KeptFits
  <2>3. /\ TreeFits(w) /\ Ahead(w, number, job[number], Tail(left)) /\ DOMAIN w.rows = DOMAIN out.rows
        /\ w.filled = out.filled + 1 /\ w.meta = Append(out.meta, key) /\ w.cloning = out.cloning
    <3>1. TreeFits(out) /\ Ahead(out, number, job[number], left) /\ (out.cloning => left # <<>>)
      BY <1>2, <2>2
    <3>2. OneMore(out, number, job[number], left)
      BY <3>1, FillKeeps
    <3> QED BY <3>2 DEF OneMore
  <2>4. number \in 1 .. number
    BY <1>1, <1>2 DEF JobFits
  <2>5. MetaFits(w, number)
    <3>1. IsSeq(out.meta) /\ Len(out.meta) = out.filled /\ out.filled \in Nat
      BY <2>2 DEF TreeFits, IndexFits
    <3> HIDE DEF w, key
    <3>2. w.meta[out.filled + 1] = key /\ \A k \in 1 .. out.filled : w.meta[k] = out.meta[k]
      BY <2>3, <3>1, Appended
    <3>3. ASSUME NEW k \in 1 .. out.filled + 1 PROVE w.meta[k].file \in 1 .. number
      <4>1. CASE k \in 1 .. out.filled
        BY <2>2, <3>2, <4>1 DEF MetaFits
      <4>2. CASE k = out.filled + 1
        BY <2>4, <3>2, <4>2 DEF key, NextKey
      <4> QED BY <3>1, <4>1, <4>2
    <3> QED BY <2>3, <3>3 DEF MetaFits
  <2> HIDE DEF w
  <2>6. TreeFits(out') /\ Known(DOMAIN out'.rows, number') /\ Known(kept', number')
    BY <1>2, <2>1, <2>2, <2>3
  <2>7. TreeFits(out)' /\ Known(DOMAIN out.rows, number)' /\ Known(kept, number)'
    BY <1>2, <2>6, SameTrees
  <2>8. MetaFits(out, number)' /\ (out.cloning => fastCloning)'
    BY <1>2, <2>1, <2>2, <2>3, <2>5 DEF MetaFits
  <2>9. Ahead(out, number, job[number], left)'
    BY <1>2, <2>1, <2>3 DEF Ahead, Level, Copied
  <2>10. FilesFit'
    BY <1>2, SameFiles DEF RowsInv, FilesFit
  <2> QED BY <1>2, <1>3, <2>2, <2>7, <2>8, <2>9, <2>10 DEF RowsInv, OutFits, KeptFits
<1> QED BY <1>4, <1>5, <1>6

LEMMA CloseKeeps == Plain /\ RowsInv /\ CloseFiles => RowsInv'
<1> SUFFICES ASSUME Plain, RowsInv, CloseFiles PROVE RowsInv'
  OBVIOUS
<1> DEFINE c == CloseOutputFile(Module)
           m == CloseInput(CloseOutput(Module))
<1>1. /\ at = "events" /\ (stopped \/ left = <<>>) /\ at' = "end" /\ Becomes(m)
      /\ UNCHANGED <<job, fastCloning, number, left, enabled, toggles, wanted, stopped>>
  BY DEF CloseFiles
<1>2. JobFits'
  BY <1>1 DEF RowsInv, JobFits
<1>3. CASE enabled /\ IsOpen(out)
  <2>1. ~stopped => Level(out)
    BY <1>1, <1>3, ReadToEnd DEF RowsInv, OutFits
  <2>2. DOMAIN c = ModuleFields /\ c.kept = kept /\ c.out = Closed /\ c.failed = "no" /\ FilesOf(c)
    BY <1>3, <2>1, ClosedFits
  <2>3. CloseOutput(Module) = c
    BY <1>3 DEF CloseOutput, IfEnabled
  <2> HIDE DEF c
  <2>4. m = [c EXCEPT !.out = Closed]
    BY <1>3, <2>2, <2>3 DEF CloseInput, IfEnabled, RespondToCloseInputFile, IsOpen
  <2> HIDE DEF m
  <2>5. m.out = Closed /\ m.kept = kept /\ m.files = c.files
    BY <2>2, <2>4 DEF ModuleFields
  <2>6. out' = Closed /\ kept' = kept /\ files' = c.files
    BY <1>1, <2>5 DEF Becomes
  <2>7. FilesFit'
    BY <1>1, <2>2, <2>6, SameFiles DEF FilesOf
  <2> QED BY <1>2, <2>6, <2>7 DEF RowsInv, OutFits, KeptFits, IsOpen
<1>4. CASE ~(enabled /\ IsOpen(out))
  <2>1. m.out = out /\ m.kept = kept /\ m.files = files
    <3>1. CASE ~enabled
      BY <3>1, ModuleIs DEF CloseInput, CloseOutput, IfEnabled
    <3>2. CASE enabled /\ ~IsOpen(out) /\ files = <<>>
      <4> DEFINE f == [Module EXCEPT !.failed = "exception"]
      <4>1. f.failed = "exception" /\ f.out = out /\ f.kept = kept /\ f.files = files
        BY ModuleIs DEF ModuleFields
      <4>2. CloseOutput(Module) = f
        BY <3>2, ModuleIs DEF CloseOutput, IfEnabled, CloseOutputFile
      <4> HIDE DEF f
      <4>3. m = f
        BY <4>1, <4>2 DEF CloseInput
      <4> QED BY <4>1, <4>3
    <3>3. CASE enabled /\ ~IsOpen(out) /\ files # <<>>
      <4>1. CloseOutput(Module) = Module
        BY <3>3, ModuleIs DEF CloseOutput, IfEnabled, CloseOutputFile
      <4>2. m = [Module EXCEPT !.out = out]
        BY <3>3, <4>1, ModuleIs DEF CloseInput, IfEnabled, RespondToCloseInputFile
      <4> QED BY <4>2, ModuleIs DEF ModuleFields
    <3> QED BY <1>4, <3>1, <3>2, <3>3
  <2>2. out' = out /\ kept' = kept /\ files' = files
    BY <1>1, <2>1 DEF Becomes
  <2> QED BY <1>1, <1>2, <2>2, SameOut DEF RowsInv
<1> QED BY <1>3, <1>4

LEMMA RowsSteps == Plain /\ RowsInv /\ [Next]_vars => RowsInv'
<1> SUFFICES ASSUME Plain, RowsInv, [Next]_vars PROVE RowsInv'
  OBVIOUS
<1>1. JobFits /\ (fastCloning => enabled /\ ~WriteFails)
  BY JobFacts DEF RowsInv
<1>2. CASE WriteFailed
  <2>1. ~fastCloning
    BY <1>1, <1>2 DEF WriteFailed
  <2>2. OutFits' /\ KeptFits' /\ FilesFit'
    BY <1>2, <2>1, SameOut DEF WriteFailed
  <2>3. JobFits'
    BY <1>2 DEF WriteFailed, RowsInv, JobFits
  <2> QED BY <2>2, <2>3 DEF RowsInv
<1>3. CASE Shutdown
  <2>1. OutFits' /\ KeptFits' /\ FilesFit'
    BY <1>3, SameOut DEF Shutdown
  <2>2. JobFits'
    BY <1>3 DEF Shutdown, RowsInv, JobFits
  <2> QED BY <2>1, <2>2 DEF RowsInv
<1>4. CASE SetEnabled
  <2>1. OutFits' /\ KeptFits' /\ FilesFit'
    BY <1>4, SameOut DEF SetEnabled
  <2>2. MaxToggles # 0 /\ toggles' \in Nat
    BY <1>1, <1>4 DEF SetEnabled, JobFits
  <2>3. JobFits'
    BY <1>4, <2>2 DEF SetEnabled, RowsInv, JobFits
  <2> QED BY <2>1, <2>3 DEF RowsInv
<1>5. CASE UNCHANGED vars
  <2>1. OutFits' /\ KeptFits' /\ FilesFit'
    BY <1>5, SameOut DEF vars
  <2>2. JobFits'
    BY <1>5 DEF vars, RowsInv, JobFits
  <2> QED BY <2>1, <2>2 DEF RowsInv
<1> QED BY <1>2, <1>3, <1>4, <1>5, FileOpens, NextInputKeeps, WriteKeeps, CloseKeeps DEF Next

LEMMA RowsHold == Plain /\ Spec => []RowsInv
<1> SUFFICES ASSUME Plain PROVE Spec => []RowsInv
  OBVIOUS
<1> QED BY RowsStart, RowsSteps, PTL DEF Spec

-----------------------------------------------------------------------------

LEMMA AlignedRows == RowsInv => RowsAligned
<1> SUFFICES ASSUME RowsInv, NEW o \in 1 .. Len(files), NEW i \in DOMAIN files[o].index
             PROVE  LET e == files[o].index[i]
                    IN /\ files[o].meta[e.row] = e.key
                       /\ \A b \in DOMAIN files[o].rows :
                            e.row \in DOMAIN files[o].rows[b] /\ files[o].rows[b][e.row] = Datum(b, e.key)
  BY DEF RowsAligned
<1> DEFINE t == files[o]
           e == t.index[i]
<1>1. TreeFits(t)
  BY SeqFacts DEF RowsInv, FilesFit, FileFits
<1> HIDE DEF t
<1>2. e.row \in 1 .. t.filled /\ e.key = t.meta[e.row] /\ t.filled \in Nat
  BY <1>1 DEF TreeFits, IndexFits, t
<1> HIDE DEF e
<1>3. ASSUME NEW b \in DOMAIN t.rows PROVE e.row \in DOMAIN t.rows[b] /\ t.rows[b][e.row] = Datum(b, e.key)
  <2>1. IsSeq(t.rows[b]) /\ Len(t.rows[b]) >= t.filled /\ t.rows[b][e.row] = Datum(b, t.meta[e.row])
    BY <1>1, <1>2 DEF TreeFits, RowsFit
  <2>2. Len(t.rows[b]) \in Nat /\ DOMAIN t.rows[b] = 1 .. Len(t.rows[b])
    BY <2>1, SeqFacts
  <2>3. e.row \in DOMAIN t.rows[b]
    BY <1>2, <2>1, <2>2
  <2> QED BY <1>2, <2>1, <2>3
<1> QED BY <1>2, <1>3 DEF e, t

\* The index of each file that was closed leads to the rows of its events, whichever
\* branches were copied, filled or added late, and whatever files were switched
\* (RootOutputTree, RootOutputFile::writeOne).
THEOREM IndexLeadsToRows ==
  ASSUME RootOutputAssumption, NothingLeftOut, NothingMissed
  PROVE  Spec => []RowsAligned
<1>1. RowsInv => RowsAligned
  BY AlignedRows
<1> QED BY <1>1, RowsHold, PTL DEF Plain

LEMMA LevelRows == RowsInv => SameEntries
<1> SUFFICES ASSUME RowsInv, ~stopped, NEW o \in 1 .. Len(files), NEW b \in DOMAIN files[o].rows
             PROVE  Len(files[o].rows[b]) = files[o].entries
  BY DEF SameEntries
<1> QED BY SeqFacts DEF RowsInv, FilesFit, FileFits, Level

\* All branches of a file have a row for each of its events, where the input was
\* read to its end (RootOutputTree::setEntries).
THEOREM BranchesAreLevel ==
  ASSUME RootOutputAssumption, NothingLeftOut, NothingMissed
  PROVE  Spec => []SameEntries
<1>1. RowsInv => SameEntries
  BY LevelRows
<1> QED BY <1>1, RowsHold, PTL DEF Plain

-----------------------------------------------------------------------------
(* What was written, and in which order.  The recursion over the files is  *)
(* followed along the behaviour: a function that collects the events of    *)
(* the files so far gives one that collects those of one file more.        *)

Collects(g, fs) == g = [n \in 0 .. Len(fs) |-> IF n = 0 THEN <<>> ELSE g[n - 1] \o EventsOf(fs[n])]

EventsInOrder ==
  /\ \E g : Collects(g, files)
  /\ \A g : Collects(g, files) =>
       /\ IsSeq(g[Len(files)])
       /\ g[Len(files)] \o (IF IsOpen(out) THEN EventsOf(out) ELSE <<>>) = wanted

OnceInv == RowsInv /\ EventsInOrder

LEMMA CollectsMore ==
  ASSUME NEW fs, NEW t, IsSeq(fs)
  PROVE  /\ (\E g : Collects(g, fs)) => \E g : Collects(g, Append(fs, t))
         /\ \A g : Collects(g, Append(fs, t)) =>
              \E h : /\ Collects(h, fs)
                     /\ g[Len(Append(fs, t))] = h[Len(fs)] \o EventsOf(t)
<1> DEFINE gs == Append(fs, t)
           n == Len(fs)
<1>1. /\ n \in Nat /\ Len(gs) = n + 1 /\ gs[n + 1] = t
      /\ \A i \in 1 .. n : gs[i] = fs[i]
  BY Appended, SeqFacts
<1> HIDE DEF gs, n
<1>2. ASSUME NEW g, Collects(g, fs) PROVE \E h : Collects(h, gs)
  <2>1. g = [i \in 0 .. n |-> IF i = 0 THEN <<>> ELSE g[i - 1] \o EventsOf(fs[i])]
    BY <1>2 DEF Collects, n
  <2> DEFINE step(i) == IF i = 0 THEN <<>> ELSE g[i - 1] \o EventsOf(fs[i])
             h == [i \in 0 .. n + 1 |-> IF i = n + 1 THEN g[n] \o EventsOf(t) ELSE g[i]]
  <2>a. \A i \in 0 .. n : g[i] = step(i)
    <3> HIDE DEF step
    <3>1. g = [i \in 0 .. n |-> step(i)]
      BY <2>1 DEF step
    <3> QED BY <3>1
  <2>2. ASSUME NEW i \in 0 .. n + 1
        PROVE  h[i] = IF i = 0 THEN <<>> ELSE h[i - 1] \o EventsOf(gs[i])
    <3>1. CASE i = 0
      BY <1>1, <2>1, <3>1
    <3>2. CASE i \in 1 .. n
      <4>a. i # 0 /\ i \in 0 .. n /\ gs[i] = fs[i]
        BY <1>1, <3>2
      <4>1. g[i] = g[i - 1] \o EventsOf(fs[i]) /\ gs[i] = fs[i]
        BY <2>a, <4>a
      <4>2. h[i] = g[i] /\ h[i - 1] = g[i - 1] /\ i # 0
        BY <1>1, <3>2
      <4> QED BY <4>1, <4>2
    <3>3. CASE i = n + 1
      <4>1. h[i] = g[n] \o EventsOf(t) /\ h[i - 1] = g[n] /\ i # 0 /\ gs[i] = t
        BY <1>1, <3>3
      <4> QED BY <4>1
    <3> QED BY <1>1, <3>1, <3>2, <3>3
  <2>3. DOMAIN h = 0 .. n + 1 /\ h = [i \in 0 .. n + 1 |-> h[i]]
    OBVIOUS
  <2> HIDE DEF h
  <2>4. h = [i \in 0 .. n + 1 |-> IF i = 0 THEN <<>> ELSE h[i - 1] \o EventsOf(gs[i])]
    BY <2>2, <2>3
  <2> QED BY <1>1, <2>4 DEF Collects
<1>3. ASSUME NEW g, Collects(g, gs)
      PROVE  \E h : Collects(h, fs) /\ g[Len(gs)] = h[n] \o EventsOf(t)
  <2>1. g = [i \in 0 .. n + 1 |-> IF i = 0 THEN <<>> ELSE g[i - 1] \o EventsOf(gs[i])]
    BY <1>1, <1>3 DEF Collects
  <2> DEFINE step(i) == IF i = 0 THEN <<>> ELSE g[i - 1] \o EventsOf(gs[i])
             h == [i \in 0 .. n |-> g[i]]
  <2>a. \A i \in 0 .. n + 1 : g[i] = step(i)
    <3> HIDE DEF step
    <3>1. g = [i \in 0 .. n + 1 |-> step(i)]
      BY <2>1 DEF step
    <3> QED BY <3>1
  <2>2. ASSUME NEW i \in 0 .. n
        PROVE  h[i] = IF i = 0 THEN <<>> ELSE h[i - 1] \o EventsOf(fs[i])
    <3>1. CASE i = 0
      BY <1>1, <2>1, <3>1
    <3>2. CASE i \in 1 .. n
      <4>a. i # 0 /\ i \in 0 .. n + 1 /\ gs[i] = fs[i]
        BY <1>1, <3>2
      <4>1. g[i] = g[i - 1] \o EventsOf(gs[i]) /\ gs[i] = fs[i]
        BY <2>a, <4>a
      <4>2. h[i] = g[i] /\ h[i - 1] = g[i - 1] /\ i # 0
        BY <1>1, <3>2
      <4> QED BY <4>1, <4>2
    <3> QED BY <1>1, <3>1, <3>2
  <2>3. DOMAIN h = 0 .. n /\ h = [i \in 0 .. n |-> h[i]]
    OBVIOUS
  <2>4. g[n + 1] = g[n] \o EventsOf(t) /\ h[n] = g[n]
    <3>1. n + 1 \in 0 .. n + 1 /\ n + 1 # 0 /\ n + 1 - 1 = n /\ n \in 0 .. n
      BY <1>1
    <3>2. g[n + 1] = step(n + 1)
      BY <2>a, <3>1
    <3> QED BY <1>1, <3>1, <3>2
  <2> HIDE DEF h
  <2>5. h = [i \in 0 .. n |-> IF i = 0 THEN <<>> ELSE h[i - 1] \o EventsOf(fs[i])]
    BY <2>2, <2>3
  <2> QED BY <1>1, <2>4, <2>5 DEF Collects, n
<1> QED BY <1>2, <1>3 DEF gs, n

\* Nothing is added to a sequence of events, or one event is.
LEMMA EventsFacts ==
  /\ \A s : IsSeq(s) => s \o <<>> = s
  /\ \A s, r, e : IsSeq(s) /\ IsSeq(r) => s \o Append(r, e) = Append(s \o r, e)
<1>1. ASSUME NEW s, IsSeq(s) PROVE s \o <<>> = s
  BY <1>1, EmptySeq, ConcatProperties, LenProperties DEF IsSeq
<1>2. ASSUME NEW s, NEW r, NEW e, IsSeq(s), IsSeq(r) PROVE s \o Append(r, e) = Append(s \o r, e)
  <2> DEFINE a == s \o Append(r, e)
             c == Append(s \o r, e)
  <2>1. /\ IsSeq(s \o r) /\ Len(s \o r) = Len(s) + Len(r) /\ Len(s) \in Nat /\ Len(r) \in Nat
        /\ \A i \in 1 .. Len(s) : (s \o r)[i] = s[i]
        /\ \A i \in 1 .. Len(r) : (s \o r)[Len(s) + i] = r[i]
    BY <1>2, Joined, SeqFacts
  <2>2. /\ IsSeq(Append(r, e)) /\ Len(Append(r, e)) = Len(r) + 1
        /\ \A i \in 1 .. Len(r) : Append(r, e)[i] = r[i]
        /\ Append(r, e)[Len(r) + 1] = e
    BY <1>2, Appended
  <2>3. /\ IsSeq(a) /\ Len(a) = Len(s) + (Len(r) + 1)
        /\ \A i \in 1 .. Len(s) : a[i] = s[i]
        /\ \A i \in 1 .. Len(r) + 1 : a[Len(s) + i] = Append(r, e)[i]
    BY <1>2, <2>2, Joined
  <2>4. /\ IsSeq(c) /\ Len(c) = Len(s) + Len(r) + 1
        /\ \A i \in 1 .. Len(s) + Len(r) : c[i] = (s \o r)[i]
        /\ c[Len(s) + Len(r) + 1] = e
    BY <2>1, Appended
  <2> HIDE DEF a, c
  <2>5. ASSUME NEW i \in 1 .. Len(s) + Len(r) + 1 PROVE a[i] = c[i]
    <3>1. CASE i \in 1 .. Len(s)
      BY <2>1, <2>3, <2>4, <3>1
    <3>2. CASE i - Len(s) \in 1 .. Len(r)
      <4> DEFINE k == i - Len(s)
      <4>1. k \in 1 .. Len(r) /\ k \in 1 .. Len(r) + 1 /\ i = Len(s) + k /\ i \in 1 .. Len(s) + Len(r)
        BY <2>1, <3>2
      <4> HIDE DEF k
      <4>2. a[i] = r[k]
        BY <2>2, <2>3, <4>1
      <4>3. c[i] = r[k]
        BY <2>1, <2>4, <4>1
      <4> QED BY <4>2, <4>3
    <3>3. CASE i = Len(s) + Len(r) + 1
      <4>1. Len(r) + 1 \in 1 .. Len(r) + 1 /\ i = Len(s) + (Len(r) + 1)
        BY <2>1, <3>3
      <4>2. a[i] = e
        BY <2>2, <2>3, <4>1
      <4> QED BY <2>4, <3>3, <4>2
    <3> QED BY <2>1, <3>1, <3>2, <3>3
  <2>6. a = [i \in 1 .. Len(s) + Len(r) + 1 |-> a[i]] /\ c = [i \in 1 .. Len(s) + Len(r) + 1 |-> c[i]]
    <3>1. Len(a) = Len(s) + Len(r) + 1
      BY <2>1, <2>3
    <3> QED BY <2>3, <2>4, <3>1, SeqFacts
  <2>7. a = c
    BY <2>5, <2>6
  <2> QED BY <2>7 DEF a, c
<1> QED BY <1>1, <1>2

LEMMA EventsAreSeq ==
  ASSUME NEW t, IsSeq(t.index)
  PROVE  IsSeq(EventsOf(t)) /\ Len(EventsOf(t)) = Len(t.index)
<1> DEFINE s == EventsOf(t)
           n == Len(t.index)
<1>1. n \in Nat /\ DOMAIN t.index = 1 .. n
  BY SeqFacts
<1>2. s = [i \in 1 .. n |-> s[i]]
  BY <1>1 DEF EventsOf
<1> HIDE DEF s, n
<1>3. IsSeq(s) /\ Len(s) = n
  BY <1>1, <1>2, SeqOfLength
<1> QED BY <1>3 DEF s, n

LEMMA OneEventMore ==
  ASSUME NEW t, NEW w, NEW e, IsSeq(t.index), w.index = Append(t.index, e)
  PROVE  EventsOf(w) = Append(EventsOf(t), e.key)
<1> DEFINE n == Len(t.index)
           a == EventsOf(w)
           b == EventsOf(t)
           c == Append(b, e.key)
<1>1. n \in Nat /\ DOMAIN t.index = 1 .. n
  BY SeqFacts
<1>2. /\ DOMAIN w.index = 1 .. n + 1 /\ w.index[n + 1] = e
      /\ \A i \in 1 .. n : w.index[i] = t.index[i]
  BY Appended
<1>3. a = [i \in 1 .. n + 1 |-> w.index[i].key] /\ b = [i \in 1 .. n |-> t.index[i].key]
  BY <1>1, <1>2 DEF EventsOf
<1>4. IsSeq(b) /\ Len(b) = n
  BY EventsAreSeq
<1> HIDE DEF a, b, n
<1>5. /\ IsSeq(c) /\ Len(c) = n + 1 /\ c[n + 1] = e.key
      /\ \A i \in 1 .. n : c[i] = b[i]
  BY <1>4, Appended
<1> HIDE DEF c
<1>6. c = [i \in 1 .. n + 1 |-> c[i]]
  BY <1>5, SeqFacts
<1>7. ASSUME NEW i \in 1 .. n + 1 PROVE a[i] = c[i]
  <2>1. CASE i \in 1 .. n
    BY <1>2, <1>3, <1>5, <2>1
  <2>2. CASE i = n + 1
    BY <1>2, <1>3, <1>5, <2>2
  <2> QED BY <1>1, <2>1, <2>2
<1>8. a = c
  BY <1>3, <1>6, <1>7
<1> QED BY <1>8 DEF a, b, c

\* The events in the file that is open.
OpenNow == IF IsOpen(out) THEN EventsOf(out) ELSE <<>>

LEMMA OpenNowIs ==
  /\ OpenEvents(Module) = OpenNow
  /\ \A m : Becomes(m) => files' = m.files /\ OpenNow' = OpenEvents(m)
  /\ RowsInv => IsSeq(OpenNow)
<1>1. OpenEvents(Module) = OpenNow
  BY ModuleIs DEF OpenEvents, OpenNow
<1>2. ASSUME NEW m, Becomes(m) PROVE files' = m.files /\ OpenNow' = OpenEvents(m)
  BY <1>2 DEF Becomes, OpenNow, OpenEvents, IsOpen
<1>3. ASSUME RowsInv PROVE IsSeq(OpenNow)
  <2>1. CASE IsOpen(out)
    <3>1. IsSeq(out.index)
      BY <1>3, <2>1 DEF RowsInv, OutFits, TreeFits, IndexFits
    <3> QED BY <2>1, <3>1, EventsAreSeq DEF OpenNow
  <2>2. CASE ~IsOpen(out)
    BY <2>2, NoElements DEF OpenNow
  <2> QED BY <2>1, <2>2
<1> QED BY <1>1, <1>2, <1>3

\* The three ways in which a step treats the events: it leaves them, it moves
\* those of the open file to the closed ones, it adds one.
LEMMA EventsStay ==
  ASSUME EventsInOrder, files' = files, OpenNow' = OpenNow, wanted' = wanted
  PROVE  EventsInOrder'
<1>1. /\ \E g : Collects(g, files)
      /\ \A g : Collects(g, files) => IsSeq(g[Len(files)]) /\ g[Len(files)] \o OpenNow = wanted
  BY DEF EventsInOrder, OpenNow
<1>2. /\ \E g : Collects(g, files')
      /\ \A g : Collects(g, files') => IsSeq(g[Len(files')]) /\ g[Len(files')] \o OpenNow' = wanted'
  BY <1>1
<1> QED BY <1>2 DEF EventsInOrder, OpenNow

LEMMA EventsMove ==
  ASSUME EventsInOrder, NEW t, IsSeq(files), files' = Append(files, t), EventsOf(t) = OpenNow,
         IsSeq(OpenNow), OpenNow' = <<>>, wanted' = wanted
  PROVE  EventsInOrder'
<1>1. /\ \E g : Collects(g, files)
      /\ \A g : Collects(g, files) => IsSeq(g[Len(files)]) /\ g[Len(files)] \o OpenNow = wanted
  BY DEF EventsInOrder, OpenNow
<1> DEFINE fs == Append(files, t)
<1>2. /\ \E g : Collects(g, fs)
      /\ \A g : Collects(g, fs) => \E h : Collects(h, files) /\ g[Len(fs)] = h[Len(files)] \o EventsOf(t)
  BY <1>1, CollectsMore
<1> HIDE DEF fs
<1>3. ASSUME NEW g, Collects(g, fs) PROVE IsSeq(g[Len(fs)]) /\ g[Len(fs)] \o <<>> = wanted
  <2>1. PICK h : Collects(h, files) /\ g[Len(fs)] = h[Len(files)] \o EventsOf(t)
    BY <1>2, <1>3
  <2>2. IsSeq(h[Len(files)]) /\ g[Len(fs)] = wanted /\ g[Len(fs)] = h[Len(files)] \o OpenNow
    BY <1>1, <2>1
  <2> DEFINE a == h[Len(files)]
  <2>3. IsSeq(a \o OpenNow)
    BY <2>2, Joined
  <2>4. IsSeq(g[Len(fs)])
    BY <2>2, <2>3
  <2> QED BY <2>2, <2>4, EventsFacts
<1>4. files' = fs
  BY DEF fs
<1>5. /\ \E g : Collects(g, files')
      /\ \A g : Collects(g, files') => IsSeq(g[Len(files')]) /\ g[Len(files')] \o OpenNow' = wanted'
  BY <1>2, <1>3, <1>4
<1> QED BY <1>5 DEF EventsInOrder, OpenNow

LEMMA EventIsAdded ==
  ASSUME EventsInOrder, NEW e, files' = files, IsSeq(OpenNow),
         OpenNow' = Append(OpenNow, e), wanted' = Append(wanted, e)
  PROVE  EventsInOrder'
<1>1. /\ \E g : Collects(g, files)
      /\ \A g : Collects(g, files) => IsSeq(g[Len(files)]) /\ g[Len(files)] \o OpenNow = wanted
  BY DEF EventsInOrder, OpenNow
<1>2. ASSUME NEW g, Collects(g, files)
      PROVE  IsSeq(g[Len(files)]) /\ g[Len(files)] \o Append(OpenNow, e) = Append(wanted, e)
  <2> DEFINE a == g[Len(files)]
  <2>1. IsSeq(a) /\ a \o OpenNow = wanted
    BY <1>1, <1>2
  <2> HIDE DEF a
  <2> DEFINE b == OpenNow
  <2>b. IsSeq(b)
    OBVIOUS
  <2>a. IsSeq(a)
    BY <2>1
  <2> HIDE DEF b
  <2>2. a \o Append(b, e) = Append(a \o b, e)
    BY <2>a, <2>b, EventsFacts
  <2>3. IsSeq(a) /\ a \o Append(OpenNow, e) = Append(wanted, e)
    BY <2>1, <2>2 DEF b
  <2> QED BY <2>3 DEF a
<1>3. /\ \E g : Collects(g, files')
      /\ \A g : Collects(g, files') => IsSeq(g[Len(files')]) /\ g[Len(files')] \o OpenNow' = wanted'
  BY <1>1, <1>2
<1> QED BY <1>3 DEF EventsInOrder, OpenNow

LEMMA EventsStart == Init => EventsInOrder
<1> SUFFICES ASSUME Init PROVE EventsInOrder
  OBVIOUS
<1>1. files = <<>> /\ ~IsOpen(out) /\ wanted = <<>> /\ Len(files) = 0
  BY DEF Init, IsOpen
<1> DEFINE h == [n \in 0 .. 0 |-> <<>>]
<1>2. \A g : Collects(g, files) <=> g = h
  <2>1. 0 .. Len(files) = {0}
    BY <1>1
  <2>2. \A g : h = [n \in 0 .. Len(files) |-> IF n = 0 THEN <<>> ELSE g[n - 1] \o EventsOf(files[n])]
    BY <2>1
  <2> HIDE DEF h
  <2> QED BY <2>2 DEF Collects
<1>3. h[0] = <<>> /\ IsSeq(<<>>) /\ <<>> \o <<>> = <<>>
  BY NoElements, EventsFacts
<1> HIDE DEF h
<1> QED BY <1>1, <1>2, <1>3 DEF EventsInOrder

LEMMA EventsAtOpen == Plain /\ RowsInv /\ EventsInOrder /\ OpenFiles => EventsInOrder'
<1> SUFFICES ASSUME Plain, RowsInv, EventsInOrder, OpenFiles PROVE EventsInOrder'
  OBVIOUS
<1> DEFINE i == OpenInput(Module, 1)
           m == OpenOutput(i, 1)
<1>1. JobFits /\ out = Closed /\ Produced \subseteq kept /\ Len(job) \in Nat \ {0}
  BY JobFacts DEF RowsInv, OpenFiles, JobFits, KeptFits
<1>2. Known(kept, 0)
  BY <1>1 DEF Known
<1>3. Paused(Module, 0) /\ Module.out = Closed
  BY <1>1, <1>2, ModuleIs DEF Paused
<1>4. Reading(i, 1) /\ i.files = files /\ OpenEvents(i) = OpenNow
  <2>1. LET o == OpenInput(Module, 0 + 1)
        IN Reading(o, 0 + 1) /\ o.failed = "no" /\ o.files = Module.files /\ OpenEvents(o) = OpenEvents(Module)
    BY <1>1, <1>3, OpenInputKeeps
  <2> QED BY <2>1, ModuleIs, OpenNowIs
<1> HIDE DEF i
<1>5. m.files = files /\ OpenEvents(m) = OpenNow
  <2>1. LET o == OpenOutput(i, 0 + 1)
        IN Reading(o, 0 + 1) /\ o.files = i.files /\ OpenEvents(o) = OpenEvents(i)
    BY <1>1, <1>4, OpenOutputKeeps
  <2> QED BY <1>4, <2>1
<1>6. Becomes(m) /\ wanted' = wanted
  BY DEF OpenFiles, i
<1> HIDE DEF m
<1> QED BY <1>5, <1>6, OpenNowIs, EventsStay

LEMMA EventsAtNextInput == Plain /\ RowsInv /\ EventsInOrder /\ NextInput => EventsInOrder'
<1> SUFFICES ASSUME Plain, RowsInv, EventsInOrder, NextInput PROVE EventsInOrder'
  OBVIOUS
<1>1. JobFits /\ number \in Nat /\ number >= 1 /\ number < Len(job) /\ number + 1 \in Nat
  <2>1. JobFits /\ at = "events" /\ number < Len(job)
    BY DEF RowsInv, NextInput
  <2>2. Len(job) \in Nat \ {0} /\ number \in Nat
    BY <2>1, JobFacts
  <2>3. number >= 1
    BY <2>1 DEF JobFits
  <2> QED BY <2>1, <2>2, <2>3
<1>2. at = "events" /\ left = <<>> /\ ~stopped /\ wanted' = wanted
  BY DEF NextInput
<1>3. CASE ~IsOpen(out)
  <2>1. files' = files /\ out' = out
    BY <1>3 DEF NextInput
  <2>2. OpenNow' = OpenNow
    BY <2>1 DEF OpenNow
  <2> QED BY <1>2, <2>1, <2>2, EventsStay
<1>4. CASE IsOpen(out)
  <2> DEFINE c == CloseInput(Module)
             d == CloseInput(CloseOutput(Module))
             n == number + 1
             k == OpenInput(c, n)
             m == OpenOutput(OpenInput(d, n), n)
  <2>1. /\ Paused(c, number) /\ c.files = files /\ OpenEvents(c) = OpenNow /\ (~enabled => ~c.out.cloning)
        /\ Paused(d, number)
        /\ IF enabled
           THEN /\ d.files = Append(files, SetEntries(out)) /\ d.out = Closed
                /\ EventsOf(SetEntries(out)) = EventsOf(out)
           ELSE d = c
    BY <1>2, <1>4, PausedAtEnd, OpenNowIs
  <2>2. \/ Becomes(m)
        \/ Becomes(k)
    BY <1>4 DEF NextInput
  <2> HIDE DEF c, d
  <2>3. k.files = files /\ OpenEvents(k) = OpenNow
    BY <1>1, <2>1, OpenInputKeeps
  <2>4. Reading(OpenInput(d, n), n) /\ OpenInput(d, n).files = d.files /\ OpenEvents(OpenInput(d, n)) = OpenEvents(d)
    BY <1>1, <2>1, OpenInputKeeps
  <2>5. m.files = d.files /\ OpenEvents(m) = OpenEvents(d)
    BY <1>1, <2>4, OpenOutputKeeps
  <2> HIDE DEF k, m
  <2>6. CASE Becomes(k)
    BY <1>2, <2>3, <2>6, OpenNowIs, EventsStay
  <2>7. CASE Becomes(m) /\ ~enabled
    BY <1>2, <2>1, <2>5, <2>7, OpenNowIs, EventsStay
  <2>8. CASE Becomes(m) /\ enabled
    <3>1. files' = Append(files, SetEntries(out)) /\ EventsOf(SetEntries(out)) = OpenNow
      BY <1>4, <2>1, <2>5, <2>8, OpenNowIs DEF OpenNow
    <3>2. OpenNow' = <<>>
      BY <2>1, <2>5, <2>8, OpenNowIs DEF OpenEvents, IsOpen
    <3>3. IsSeq(files) /\ IsSeq(OpenNow)
      BY OpenNowIs DEF RowsInv, FilesFit
    <3> QED BY <1>2, <3>1, <3>2, <3>3, EventsMove
  <2> QED BY <2>2, <2>6, <2>7, <2>8
<1> QED BY <1>3, <1>4

LEMMA EventsAtWrite == Plain /\ RowsInv /\ EventsInOrder /\ WriteEvent => EventsInOrder'
<1> SUFFICES ASSUME Plain, RowsInv, EventsInOrder, WriteEvent PROVE EventsInOrder'
  OBVIOUS
<1>1. at = "events" /\ left # <<>> /\ files' = files
  BY DEF WriteEvent
<1>2. CASE ~(enabled /\ IsOpen(out))
  <2>1. out' = out /\ wanted' = wanted
    BY <1>2 DEF WriteEvent
  <2>2. OpenNow' = OpenNow
    BY <2>1 DEF OpenNow
  <2> QED BY <1>1, <2>1, <2>2, EventsStay
<1>3. CASE enabled /\ IsOpen(out)
  <2> DEFINE key == NextKey(number, left)
             w == Written(out, number, job[number], left)
             e == [key |-> key, row |-> out.filled + 1]
  <2>1. out' = w /\ wanted' = Append(wanted, key)
    BY <1>3 DEF WriteEvent, Written, NextKey
  <2>2. TreeFits(out) /\ Ahead(out, number, job[number], left) /\ (out.cloning => left # <<>>)
    BY <1>1, <1>3 DEF RowsInv, OutFits
  <2>3. OneMore(out, number, job[number], left)
    BY <2>2, FillKeeps
  <2>4. TreeFits(w) /\ w.index = Append(out.index, e)
    BY <2>3 DEF OneMore
  <2>5. IsSeq(out.index)
    BY <2>2 DEF TreeFits, IndexFits
  <2>6. e.key = key
    OBVIOUS
  <2> HIDE DEF w, e, key
  <2>7. EventsOf(w) = Append(EventsOf(out), key)
    BY <2>4, <2>5, <2>6, OneEventMore
  <2>8. IsOpen(w)
    BY <2>4 DEF TreeFits, TreeFields, IsOpen, Closed
  <2>9. OpenNow' = Append(OpenNow, key)
    BY <1>3, <2>1, <2>7, <2>8 DEF OpenNow
  <2> QED BY <1>1, <2>1, <2>9, OpenNowIs, EventIsAdded
<1> QED BY <1>2, <1>3

LEMMA EventsAtClose == Plain /\ RowsInv /\ EventsInOrder /\ CloseFiles => EventsInOrder'
<1> SUFFICES ASSUME Plain, RowsInv, EventsInOrder, CloseFiles PROVE EventsInOrder'
  OBVIOUS
<1> DEFINE c == CloseOutputFile(Module)
           m == CloseInput(CloseOutput(Module))
<1>1. at = "events" /\ (stopped \/ left = <<>>) /\ Becomes(m) /\ wanted' = wanted
  BY DEF CloseFiles
<1>2. CASE enabled /\ IsOpen(out)
  <2>1. ~stopped => Level(out)
    BY <1>1, <1>2, ReadToEnd DEF RowsInv, OutFits
  <2>2. /\ DOMAIN c = ModuleFields /\ c.out = Closed /\ c.failed = "no" /\ c.files = Append(files, SetEntries(out))
        /\ EventsOf(SetEntries(out)) = EventsOf(out)
    BY <1>2, <2>1, ClosedFits
  <2>3. CloseOutput(Module) = c
    BY <1>2 DEF CloseOutput, IfEnabled
  <2> HIDE DEF c
  <2>4. m = [c EXCEPT !.out = Closed]
    BY <1>2, <2>2, <2>3 DEF CloseInput, IfEnabled, RespondToCloseInputFile, IsOpen
  <2> HIDE DEF m
  <2>5. m.out = Closed /\ m.files = c.files
    BY <2>2, <2>4 DEF ModuleFields
  <2>6. files' = Append(files, SetEntries(out)) /\ EventsOf(SetEntries(out)) = OpenNow
    BY <1>1, <1>2, <2>2, <2>5, OpenNowIs DEF OpenNow
  <2>7. OpenNow' = <<>>
    BY <1>1, <2>5, OpenNowIs DEF OpenEvents, IsOpen
  <2>8. IsSeq(files) /\ IsSeq(OpenNow)
    BY OpenNowIs DEF RowsInv, FilesFit
  <2> QED BY <1>1, <2>6, <2>7, <2>8, EventsMove
<1>3. CASE ~(enabled /\ IsOpen(out))
  <2>1. m.out = out /\ m.files = files
    <3>1. CASE ~enabled
      BY <3>1, ModuleIs DEF CloseInput, CloseOutput, IfEnabled
    <3>2. CASE enabled /\ ~IsOpen(out) /\ files = <<>>
      <4> DEFINE f == [Module EXCEPT !.failed = "exception"]
      <4>1. f.failed = "exception" /\ f.out = out /\ f.files = files
        BY ModuleIs DEF ModuleFields
      <4>2. CloseOutput(Module) = f
        BY <3>2, ModuleIs DEF CloseOutput, IfEnabled, CloseOutputFile
      <4> HIDE DEF f
      <4>3. m = f
        BY <4>1, <4>2 DEF CloseInput
      <4> QED BY <4>1, <4>3
    <3>3. CASE enabled /\ ~IsOpen(out) /\ files # <<>>
      <4>1. CloseOutput(Module) = Module
        BY <3>3, ModuleIs DEF CloseOutput, IfEnabled, CloseOutputFile
      <4>2. m = [Module EXCEPT !.out = out]
        BY <3>3, <4>1, ModuleIs DEF CloseInput, IfEnabled, RespondToCloseInputFile
      <4> QED BY <4>2, ModuleIs DEF ModuleFields
    <3> QED BY <1>3, <3>1, <3>2, <3>3
  <2> HIDE DEF m
  <2>2. files' = files /\ out' = out
    BY <1>1, <2>1 DEF Becomes
  <2>3. OpenNow' = OpenNow
    BY <2>2 DEF OpenNow
  <2> QED BY <1>1, <2>2, <2>3, EventsStay
<1> QED BY <1>2, <1>3

LEMMA EventsSteps == Plain /\ RowsInv /\ EventsInOrder /\ [Next]_vars => EventsInOrder'
<1> SUFFICES ASSUME Plain, RowsInv, EventsInOrder, [Next]_vars PROVE EventsInOrder'
  OBVIOUS
<1>1. CASE WriteFailed \/ Shutdown \/ SetEnabled \/ UNCHANGED vars
  <2>1. files' = files /\ out' = out /\ wanted' = wanted
    BY <1>1 DEF WriteFailed, Shutdown, SetEnabled, vars
  <2>2. OpenNow' = OpenNow
    BY <2>1 DEF OpenNow
  <2> QED BY <2>1, <2>2, EventsStay
<1> QED BY <1>1, EventsAtOpen, EventsAtNextInput, EventsAtWrite, EventsAtClose DEF Next

LEMMA OnceWritten == EventsInOrder => WrittenOnce
<1> SUFFICES ASSUME EventsInOrder PROVE WrittenOnce
  OBVIOUS
<1>1. indexed = CHOOSE g : Collects(g, files)
  BY DEF indexed, Collects
<1>2. Collects(indexed, files)
  BY <1>1 DEF EventsInOrder
<1> QED BY <1>2 DEF EventsInOrder, WrittenOnce

\* Each event that was to be written is in the index of one file, once, in the
\* order of writing, whatever files were switched and whichever branches were
\* copied (RootOutputFile::writeOne, RootOutput::closeFile).
THEOREM EventsWrittenOnce ==
  ASSUME RootOutputAssumption, NothingLeftOut, NothingMissed
  PROVE  Spec => []WrittenOnce
<1>1. EventsInOrder => WrittenOnce
  BY OnceWritten
<1>2. Plain /\ Init => EventsInOrder
  BY EventsStart
<1> QED BY <1>1, <1>2, EventsSteps, RowsHold, PTL DEF Plain, Spec
===============================================================================
