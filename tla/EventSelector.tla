---------------------------- MODULE EventSelector ----------------------------
(***************************************************************************)
(* Selecting events by the results of trigger paths (EventSelector).       *)
(*                                                                         *)
(* A path specification is a record: neg says that it starts with "!", exc *)
(* that "exception@" comes next, noex how it ends ("full" for              *)
(* "&noexception", "short" for another text that starts with "&noex",      *)
(* "no"), and name what is left: the name of a path or a pattern.  Glob    *)
(* gives the names each pattern matches.  Lists of bits are sets here:     *)
(* their order is never looked at.                                         *)
(***************************************************************************)
EXTENDS Integers, Sequences, FiniteSets, SequencesExt

CONSTANT Glob   \* [pattern with * or ? -> the names it matches]

\* HLTState.
Ready == 0
Pass == 1
Fail == 2
Exception == 3

IsGlob(name) == name \in DOMAIN Glob

RegexMatch(names, name) ==
  {i \in DOMAIN names : IF IsGlob(name) THEN names[i] \in Glob[name] ELSE names[i] = name}

Star == [neg |-> FALSE, exc |-> FALSE, noex |-> "no", name |-> "*"]
Stars == {Star, [Star EXCEPT !.neg = TRUE], [Star EXCEPT !.exc = TRUE]}

NewSelector ==
  [accept_all |-> FALSE, absolute |-> {}, conditional |-> {}, exception |-> {},
   all_must_fail |-> {}, all_must_fail_noex |-> {}, nTriggerNames |-> 0, failed |-> FALSE]

\* What throws while a specification is parsed.  The text before "&noex" is
\* looked for at the place of "&noexception": without it all of the text stays.
Refused(spec, names) ==
  \/ spec.noex = "short"
  \/ spec.exc /\ (spec.neg \/ spec.noex # "no")
  \/ RegexMatch(names, spec.name) = {} /\ (~IsGlob(spec.name) \/ spec.neg)

\* One turn of the loop over the specifications; nothing follows one that throws.
AddSpec(sel, spec, names) ==
  LET hits == RegexMatch(names, spec.name)
      bits == {[pos |-> i, accept |-> ~spec.neg] : i \in hits}
      all == spec.neg /\ Cardinality(hits) > 1
  IN IF sel.failed THEN sel
     ELSE IF Refused(spec, names) THEN [sel EXCEPT !.failed = TRUE]
     ELSE IF spec.exc THEN [sel EXCEPT !.exception = @ \union bits]
     ELSE IF spec.noex = "no"
       THEN IF all THEN [sel EXCEPT !.all_must_fail = @ \union {hits}]
            ELSE [sel EXCEPT !.absolute = @ \union bits]
     ELSE IF all THEN [sel EXCEPT !.all_must_fail_noex = @ \union {hits}]
     ELSE [sel EXCEPT !.conditional = @ \union bits]

\* init: what it leaves when it throws is the part that was read.
InitSelector(paths, names) ==
  LET new == [NewSelector EXCEPT !.nTriggerNames = Len(names)]
      read == FoldLeft(LAMBDA sel, spec : AddSpec(sel, spec, names), new, paths)
  IN IF paths = <<>> THEN [new EXCEPT !.accept_all = TRUE]
     ELSE IF ~read.failed /\ \A s \in Stars : \E i \in DOMAIN paths : paths[i] = s
       THEN [read EXCEPT !.accept_all = TRUE]
     ELSE read

-----------------------------------------------------------------------------
\* The decision.

State(accept) == IF accept THEN Pass ELSE Fail

AcceptOneBit(bits, tr) == \E b \in bits : tr[b.pos] = State(b.accept)
AcceptExceptionBit(bits, tr) == \E b \in bits : tr[b.pos] = Exception
AcceptAllBits(hits, tr) == \A i \in hits : tr[i] = Fail
ContainsExceptions(tr) == \E i \in DOMAIN tr : tr[i] = Exception

\* Faulty: an exception elsewhere is only looked for with a single path.
SelectionDecisionFailNoex(sel, tr) ==
  \/ sel.accept_all
  \/ AcceptOneBit(sel.absolute, tr)
  \/ AcceptOneBit(sel.conditional, tr) /\ ~ContainsExceptions(tr)
  \/ AcceptExceptionBit(sel.exception, tr)
  \/ \E hits \in sel.all_must_fail \union sel.all_must_fail_noex : AcceptAllBits(hits, tr)

SelectionDecision(sel, tr) ==
  \/ sel.accept_all
  \/ AcceptOneBit(sel.absolute, tr)
  \/ AcceptOneBit(sel.conditional, tr) /\ ~ContainsExceptions(tr)
  \/ AcceptExceptionBit(sel.exception, tr)
  \/ \E hits \in sel.all_must_fail : AcceptAllBits(hits, tr)
  \/ \E hits \in sel.all_must_fail_noex : AcceptAllBits(hits, tr) /\ ~ContainsExceptions(tr)

\* The positions named by the specifications whose paths may be outside the
\* results (at() throws there).
Positions(sel) ==
  {b.pos : b \in sel.absolute \union sel.conditional \union sel.exception}
    \union UNION (sel.all_must_fail \union sel.all_must_fail_noex)

\* The states in an array of bytes, four to a byte, the first in the lowest bits.
Unpack(bytes, n) == [i \in 1 .. n |-> (bytes[(i - 1) \div 4 + 1] \div 4 ^ ((i - 1) % 4)) % 4]

AcceptBitArray(sel, bytes, n) == SelectionDecision(sel, Unpack(bytes, n))

-----------------------------------------------------------------------------
\* The mask.

ExpandDecisionList(bits, accept) == {b.pos : b \in {c \in bits : c.accept = accept}}

MaskTriggerResults(sel, tr) ==
  LET bits == sel.absolute \union sel.conditional
      failed == UNION {hits \in sel.all_must_fail \union sel.all_must_fail_noex : AcceptAllBits(hits, tr)}
      kept(i) == \/ tr[i] = Pass /\ i \in ExpandDecisionList(bits, TRUE)
                 \/ tr[i] = Fail /\ i \in ExpandDecisionList(bits, FALSE) \union failed
                 \/ tr[i] = Exception /\ i \in ExpandDecisionList(sel.exception, TRUE)
  IN [i \in DOMAIN tr |-> IF kept(i) THEN tr[i] ELSE Ready]
=============================================================================
