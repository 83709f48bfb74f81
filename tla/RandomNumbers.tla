--------------------------- MODULE RandomNumbers ---------------------------
(***************************************************************************)
(* The random-number service (RandomNumberGenerator): its engines, the     *)
(* snapshot it takes of them before each event, and their states as saved  *)
(* to a file and restored from a file or from an event.                    *)
(*                                                                         *)
(* The service is a record.  A state of an engine is a number; drawing a   *)
(* number from it leads to the next one of a cycle.  A list of states, in  *)
(* a file or in an event, is a sequence of records [label, state].  A      *)
(* restoration that throws sets "failed" and keeps what it did before.     *)
(***************************************************************************)
EXTENDS Integers, Sequences, SequencesExt, FiniteSetsExt

CONSTANTS Cycle,         \* the states of an engine are 0 .. Cycle - 1
          RestoreState   \* restoreStateLabel is configured

CycleAssumption == Cycle \in Nat \ {0}

States == 0 .. Cycle - 1

NewService == [creationOkay |-> TRUE, failed |-> FALSE, dict |-> <<>>, tracker |-> <<>>, snapshot |-> <<>>]

Established(rng) == DOMAIN rng.dict

Extended(f, x, v) == [y \in DOMAIN f \union {x} |-> IF y = x THEN v ELSE f[y]]

\* The seed determines the state; the service creates no engine twice, and none after beginJob.
CreateEngine(rng, label, seed) ==
  {r \in {[rng EXCEPT !.dict = Extended(@, label, seed), !.tracker = Extended(@, label, "seed")]} :
     rng.creationOkay /\ label \notin Established(rng)}

\* One number is drawn from an engine.
Draw(rng, label) == [rng EXCEPT !.dict[label] = (@ + 1) % Cycle]

\* The engines in the order of their labels.
Listed(states) ==
  LET labels == SetToSeq(DOMAIN states) IN
  [i \in DOMAIN labels |-> [label |-> labels[i], state |-> states[labels[i]]]]

TakeSnapshot(rng) == [rng EXCEPT !.snapshot = Listed(rng.dict)]

\* The entries of a list are restored one by one, until one that is refused throws.
Restored(rng, list, refused, how) ==
  LET done == {i \in DOMAIN list : list[i].label \in Established(rng) /\ \A j \in refused : i < j}
      ofLabel(l) == {i \in done : list[i].label = l}
  IN [rng EXCEPT
        !.failed = refused # {},
        !.dict = [l \in Established(rng) |-> IF ofLabel(l) = {} THEN @[l] ELSE list[Max(ofLabel(l))].state],
        !.tracker = [l \in Established(rng) |-> IF ofLabel(l) = {} THEN @[l] ELSE how]]

\* Faulty: an engine read from a file is restored as any other.
RefusedByNone(rng, saved) == FALSE

\* An engine that is not established is passed over; one read from a file must not be restored.
RefusedFromEvent(rng, saved) == saved.label \in Established(rng) /\ rng.tracker[saved.label] = "file"

\* The event holds its list of states, or none, which cannot be used.
RestoreSnapshot(rng, lists) ==
  IF ~RestoreState THEN rng
  ELSE IF lists = {} THEN [rng EXCEPT !.failed = TRUE]
  ELSE LET list == CHOOSE list \in lists : TRUE IN
       Restored(rng, list, {i \in DOMAIN list : RefusedFromEvent(rng, list[i])}, "product")

\* An engine of the file that is not established or that was restored already ends the job.
RefusedFromFile(rng, file, i) ==
  \/ file[i].label \notin Established(rng) \/ rng.tracker[file[i].label] # "seed"
  \/ \E j \in 1 .. i - 1 : file[j].label = file[i].label

RestoreFromFile(rng, file) ==
  Restored(rng, file, {i \in DOMAIN file : RefusedFromFile(rng, file, i)}, "file")

\* The states of the engines as they are now.
SaveToFile(rng) == Listed(rng.dict)

PostBeginJob(rng, file) ==
  LET restored == RestoreFromFile(rng, file) IN
  IF restored.failed THEN restored ELSE [restored EXCEPT !.creationOkay = FALSE]

\* Faulty: the snapshot is taken before the first event only.
PreProcessEventOnce(rng, lists) ==
  RestoreSnapshot(IF rng.snapshot = <<>> THEN TakeSnapshot(rng) ELSE rng, lists)

PreProcessEvent(rng, lists) == RestoreSnapshot(TakeSnapshot(rng), lists)

PostEndJob(rng) == TakeSnapshot(rng)

=============================================================================
