---------------------------- MODULE RootInputSeek ----------------------------
(***************************************************************************)
(* Random access to art files: a user of RootInput asks for an event       *)
(* (seekToEvent), and the source then has the event processor read the     *)
(* file, run, sub-run and event that lead to it, in this order and as far  *)
(* as they differ from those of the last event.  After that it goes on in  *)
(* sequence.  The index of every file opened is kept (fileIndexes_).       *)
(***************************************************************************)
EXTENDS RootInput

CONSTANTS Sought,      \* the events that are asked for
          FilesAhead   \* whether they may be in a file not yet opened, or in the last one

VARIABLES access,      \* AccessState::state_
          wanted,      \* the event of the last seek
          sameFile,    \* whether the open file is that of the last event read
          known,       \* the files whose index is kept
          since        \* the events got since the last seek that found its event
seekVars == <<vars, access, wanted, sameFile, known, since>>

-----------------------------------------------------------------------------
\* Searching the files.  pos(k) is the position of what is sought in file k.

Found(k, i) == i # End(src.indexes[k])

EventPosition(k, id, exact) == FindEventPosition(src.indexes[k], id, exact)
SubRunPosition(k, sr) == FindSubRunPosition(src.indexes[k], src.sort, sr, TRUE)
RunPosition(k, r) == FindRunPosition(src.indexes[k], src.sort, r, TRUE)

Reopen(s, k, i) == [InitFile([s EXCEPT !.cat = k], FALSE) EXCEPT !.it = i]

\* readIt: the open file, the files known, the files ahead until it is found.
ReadIt(s, pos(_)) ==
  LET kept == {k \in known : Found(k, pos(k))}
      ahead == {k \in s.cat + 1 .. Len(s.files) : Found(k, pos(k))}
  IN IF s.open = NoFile THEN Failed(s, "null")
     ELSE IF Found(s.open, pos(s.open)) THEN [s EXCEPT !.it = pos(s.open)]
     ELSE IF kept # {} THEN Reopen(s, Min(kept), pos(Min(kept)))
     ELSE IF ahead # {} THEN Reopen(s, Min(ahead), pos(Min(ahead))) ELSE Failed(s, "null")

InOpenFile(s, id) == Found(s.open, EventPosition(s.open, id, TRUE))

\* seekToEvent: of the files ahead all are opened, and the last one counts.
SeekToEvent(s, id, exact) ==
  LET last == Len(s.files)
      kept == {k \in known : Found(k, EventPosition(k, id, exact))}
  IN IF InOpenFile(s, id) THEN [s EXCEPT !.it = EventPosition(s.open, id, TRUE)]
     ELSE IF kept # {} THEN Reopen(s, Min(kept), EventPosition(Min(kept), id, exact))
     ELSE IF s.cat < last THEN Reopen(s, last, EventPosition(last, id, exact))
     ELSE [s EXCEPT !.it = End(Index(s))]

LastRead == IF got.events = <<>> THEN NoEvent ELSE got.events[Len(got.events)]

\* RootInput::seekToEvent: what is to be read on the way to the event found.
AccessFor(stays, id) ==
  IF ~stays THEN "SEEKING_FILE"
  ELSE IF id.run # LastRead.run THEN "SEEKING_RUN"
  ELSE IF SubRunOf(id) # SubRunOf(LastRead) THEN "SEEKING_SUBRUN" ELSE "SEEKING_EVENT"

-----------------------------------------------------------------------------
SeekInit ==
  /\ Init
  /\ access = "SEQUENTIAL" /\ wanted = NoEvent /\ sameFile = FALSE
  /\ known = {src.cat} \ {0} /\ since = <<>>

Track == known' = IF src'.open = NoFile THEN known ELSE known \union src.cat + 1 .. src'.cat \union {src'.open}

\* An event the user knows of, in a file the source can go to.
MayAskFor(id) ==
  \E k \in DOMAIN src.files :
    /\ Found(k, EventPosition(k, id, TRUE))
    /\ FilesAhead \/ k = src.open \/ (k \in known /\ k # Len(src.files))

Seek(id, exact) ==
  /\ at = "user" /\ choices < MaxChoices /\ MayAskFor(id)
  /\ choices' = choices + 1
  /\ src' = SeekToEvent(src, id, exact)
  /\ sameFile' = (sameFile /\ InOpenFile(src, id))
  /\ at' = IF AtEnd(src') THEN "notFound" ELSE "ask"
  /\ IF AtEnd(src') THEN UNCHANGED <<access, wanted, since>>
     ELSE wanted' = Here(src') /\ access' = AccessFor(sameFile', Here(src')) /\ since' = <<>>
  /\ Track
  /\ UNCHANGED <<fileOpen, run, subRun, got>>

\* A step of the source in sequence.
InSequence ==
  /\ access = "SEQUENTIAL"
  /\ \/ NextItem /\ UNCHANGED <<sameFile, since>>
     \/ ReadFile /\ sameFile' = FALSE /\ UNCHANGED since
     \/ (ReadRun \/ ReadSubRun) /\ UNCHANGED <<sameFile, since>>
     \/ ReadEvent /\ sameFile' = TRUE
                  /\ since' = IF wanted = NoEvent THEN since ELSE Append(since, got'.events[Len(got'.events)])
     \/ Finish /\ sameFile' = FALSE /\ UNCHANGED since
  /\ Track
  /\ UNCHANGED <<access, wanted>>

Proceed ==
  /\ at \in {"user", "notFound"} /\ at' = "ask"
  /\ UNCHANGED <<src, fileOpen, run, subRun, got, choices, access, wanted, sameFile, known, since>>

\* The items on the way to the event wanted.
SeekFile ==
  /\ at = "ask" /\ access = "SEEKING_FILE" /\ src.failed = "no"
  /\ src' = SequenceReadFile(CloseFile(src))
  /\ access' = "SEEKING_RUN" /\ sameFile' = FALSE
  /\ Track
  /\ UNCHANGED <<at, fileOpen, run, subRun, got, choices, wanted, since>>

SeekRun ==
  /\ at = "ask" /\ access = "SEEKING_RUN" /\ src.failed = "no"
  /\ LET read == SequenceReadRun(ReadIt(src, LAMBDA k : RunPosition(k, wanted.run)))
     IN src' = [read.s EXCEPT !.run = read.run] /\ run' = read.run
  /\ access' = "SEEKING_SUBRUN"
  /\ Track
  /\ UNCHANGED <<at, fileOpen, subRun, got, choices, wanted, sameFile, since>>

SeekSubRun ==
  /\ at = "ask" /\ access = "SEEKING_SUBRUN" /\ src.failed = "no"
  /\ LET read == SequenceReadSubRun(ReadIt(src, LAMBDA k : SubRunPosition(k, SubRunOf(wanted))))
     IN src' = [read.s EXCEPT !.subRun = read.subRun] /\ subRun' = read.subRun
  /\ access' = "SEEKING_EVENT"
  /\ Track
  /\ UNCHANGED <<at, fileOpen, run, got, choices, wanted, sameFile, since>>

SeekEvent ==
  /\ at = "ask" /\ access = "SEEKING_EVENT" /\ src.failed = "no" /\ at' = "user"
  /\ LET read == SequenceReadEvent(ReadIt(src, LAMBDA k : EventPosition(k, wanted, TRUE)))
     IN /\ src' = read.s
        /\ got' = [got EXCEPT !.events = Append(@, read.id)]
        /\ since' = Append(since, read.id)
  /\ access' = "SEQUENTIAL" /\ sameFile' = TRUE
  /\ Track
  /\ UNCHANGED <<fileOpen, run, subRun, choices, wanted>>

SeekNext ==
  \/ InSequence \/ Proceed \/ SeekFile \/ SeekRun \/ SeekSubRun \/ SeekEvent
  \/ \E id \in Sought, exact \in BOOLEAN : Seek(id, exact)

SeekSpec == SeekInit /\ [][SeekNext]_seekVars

-----------------------------------------------------------------------------
\* The events after a seek are the one asked for and those that follow it in
\* the order of the files.
ContinuesFromThere ==
  since # <<>> =>
    \E i \in DOMAIN ExpectedEvents :
      ExpectedEvents[i] = wanted /\ IsPrefix(since, SubSeq(ExpectedEvents, i, Len(ExpectedEvents)))

\* And each is read into its own run and sub-run.
ReadInContext ==
  /\ src.failed = "no"
  /\ at = "user" => SubRunOf(LastRead) = subRun /\ subRun.run = run

-----------------------------------------------------------------------------
\* "Find the requested event and set the system up to read run and subRun records
\* where appropriate": an event of some file can be asked for, and is then read.
SeekSetsUp == src.failed = "no"

\* An event that is in one of the files is found ("Look for event in files not yet
\* opened").
SeekFinds == at # "notFound"
=============================================================================
