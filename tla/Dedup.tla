---------------------------------- MODULE Dedup ----------------------------------
(***************************************************************************)
(* De-duplication of overlapping slices of one log (loglines/dedup.go).    *)
(*                                                                         *)
(* A line is a natural number: its text, by which the code compares lines, *)
(* and its timestamp at once, so the log itself is the numbers in order.   *)
(* Indices are those of the code: they start at 0, and -1 is "not found".  *)
(* A Go slice expression or index out of range panics: pairs of slices     *)
(* carry ok = FALSE from there on.                                         *)
(***************************************************************************)
EXTENDS Integers, Sequences, SequencesExt, FiniteSetsExt, Ordering

Lines == Seq(Nat)

\* The log from one line to another.
Log(first, last) == [i \in 1 .. last - first + 1 |-> first + i - 1]

\* x[:k], x[k:] and the first index that satisfies a condition, or -1.
Upto(x, k) == SubSeq(x, 1, k)
From(x, k) == SubSeq(x, k + 1, Len(x))
FirstOrNone(S) == IF S = {} THEN -1 ELSE Min(S)

Pairs == [ok : BOOLEAN, a : Lines, b : Lines]
Pair(a, b) == [ok |-> TRUE, a |-> a, b |-> b]
Panic      == [ok |-> FALSE, a |-> <<>>, b |-> <<>>]

findLineIndex(needle, list) ==
  FirstOrNone({i \in 0 .. Len(list) - 1 : list[i + 1] = needle})

\* The first index where two slices, both that long, hold different lines.
findFirstIssueIndex(x, y) ==
  FirstOrNone({i \in 0 .. Len(x) - 1 : i < Len(y) /\ x[i + 1] # y[i + 1]})

\* The first line of a, from a[0] on, that is in b: its offset and its index in b.
findNextMatching(a, b) ==
  LET offset == FirstOrNone({i \in 0 .. Len(a) - 1 : findLineIndex(a[i + 1], b) # -1})
  IN  IF offset = -1 THEN [offset |-> Len(a), index |-> -1]
                     ELSE [offset |-> offset, index |-> findLineIndex(a[offset + 1], b)]

\* Mutant of splicedAt: the line where the two meet again is skipped.
splicedAtOffByOne(x, y, i, m) ==
  [ok |-> i + m.index >= 0,
   lines |-> Upto(x, i) \o SubSeq(y, i + 1, i + m.offset)
               \o IF i + m.index < 0 THEN <<>> ELSE From(x, i + m.index + 1)]

\* Mutant of splicedAt: what x holds before the two meet again is kept.
splicedAtKeepingAll(x, y, i, m) ==
  [ok |-> TRUE, lines |-> Upto(x, i) \o SubSeq(y, i + 1, i + m.offset) \o From(x, i)]

\* The lines of y missing in x at position i are put in their place; m is where
\* the two meet again, as findNextMatching(y[i:], x[i:]) gives it.
splicedAt(x, y, i, m) ==
  [ok |-> i + m.index >= 0,
   lines |-> Upto(x, i) \o SubSeq(y, i + 1, i + m.offset)
               \o IF i + m.index < 0 THEN <<>> ELSE From(x, i + m.index)]

spliced(x, y, i) == splicedAt(x, y, i, findNextMatching(From(y, i), From(x, i)))

withA(s, y) == IF s.ok THEN Pair(s.lines, y) ELSE Panic
withB(x, s) == IF s.ok THEN Pair(x, s.lines) ELSE Panic

\* Nothing changes when each of the two lines is further on in the other slice.
fixLines(x, y, i) ==
  IF findLineIndex(y[i + 1], From(x, i)) = -1 THEN withA(spliced(x, y, i), y)
  ELSE IF findLineIndex(x[i + 1], From(y, i)) = -1 THEN withB(x, spliced(y, x, i))
  ELSE Pair(x, y)

\* The loop of processOverlap: fix the first issue of a pair until none is left or one
\* cannot be fixed.
resolved[p \in Pairs] ==
  LET i == findFirstIssueIndex(p.a, p.b)
  IN  IF ~p.ok \/ i = -1 THEN p
      ELSE Once(fixLines(p.a, p.b, i), LAMBDA r : IF r = p THEN p ELSE resolved[r])

\* Mutant of noOverlap: a is expected to end inside b.
noOverlapAtStart(a, b) == findLineIndex(b[1], a) # -1 /\ findLineIndex(Last(a), b) = -1

\* The first line of b is not in a, nor the last line of a in b.
noOverlap(a, b) == findLineIndex(b[1], a) = -1 /\ findLineIndex(Last(a), b) = -1

\* From the first line of b on, a and b agree as far as both go.
sameToEnd(a, b) ==
  LET first == findLineIndex(b[1], a)
  IN  first # -1 /\ findFirstIssueIndex(From(a, first), b) = -1

\* DedupAB, with what handleIncompleteOverlap makes of a pair as a function: what is
\* left of a once the lines b repeats are dropped from its end, and b.
DedupABWith(handled, a, b) ==
  IF a = <<>> \/ b = <<>> THEN Panic
  ELSE IF noOverlap(a, b) THEN Pair(a, b)
  ELSE IF sameToEnd(a, b) THEN Pair(Upto(a, findLineIndex(b[1], a)), b)
  ELSE handled[Pair(a, b)]

\* What processOverlap has resolved, again; what it could not resolve is split at the issue.
again(r) ==
  LET i == findFirstIssueIndex(r.a, r.b)
  IN  IF i = -1 THEN r ELSE Pair(Upto(r.a, i), From(r.b, i))

\* handleIncompleteOverlap, with processOverlap: the lines each of the two lacks are
\* filled in.
handleIncompleteOverlap[p \in Pairs] ==
  Once(resolved[p], LAMBDA r : IF ~r.ok THEN Panic
                               ELSE Once(again(r), LAMBDA d :
                                      DedupABWith(handleIncompleteOverlap, d.a, d.b)))

DedupAB(a, b) == DedupABWith(handleIncompleteOverlap, a, b)

\* A LineSlice: its lines and generation; start and end are its outer lines.
LineSlice == [lines : Lines, generation : Nat]
Slice(lines, generation) == [lines |-> lines, generation |-> generation]
startOf(s) == IF s.lines = <<>> THEN 0 ELSE Head(s.lines)
endOf(s)   == IF s.lines = <<>> THEN 0 ELSE Last(s.lines)

\* Mutant of sortedSlices: as they came.
sortedSlicesNot(slices) == slices

\* By start, and the earliest end first.
sortedSlices(slices) ==
  LET before(s, t) == \/ startOf(s) < startOf(t)
                      \/ startOf(s) = startOf(t) /\ endOf(s) < endOf(t)
  IN  Sorted(slices, {p \in (1 .. Len(slices)) \X (1 .. Len(slices)) :
                        before(slices[p[1]], slices[p[2]])})

\* One more slice, against all that follow it: the lines kept so far, and the
\* reference the slices before it are compared with.
dedupAgainst(x, later) ==
  Once(DedupAB(x, later.reference),
       LAMBDA d : [ok |-> later.ok /\ d.ok, kept |-> d.a \o later.kept,
                   reference |-> d.a \o d.b])

\* The last two slices, as they were de-duplicated, and k of those before them.
keptAfter(s, last) ==
  LET after[k \in 0 .. Len(s) - 2] ==
        IF k = 0 THEN [ok |-> last.ok, kept |-> last.a, reference |-> last.a \o last.b]
        ELSE Once(after[k - 1], LAMBDA later : dedupAgainst(s[Len(s) - 1 - k].lines, later))
  IN  after

\* What is left of all but the last slice, and the last.
dedupSorted(s, last) ==
  LET n == Len(s)
  IN  Once(keptAfter(s, last)[n - 2],
           LAMBDA all : [ok |-> all.ok, result |-> Slice(all.kept, s[n - 1].generation),
                         last |-> Slice(last.b, s[n].generation)])

dedupLastTwo(s) ==
  Once(DedupAB(s[Len(s) - 1].lines, s[Len(s)].lines), LAMBDA last : dedupSorted(s, last))

DedupLineSlices(slices) ==
  IF Len(slices) = 0
  THEN [ok |-> FALSE, result |-> Slice(<<>>, 0), last |-> Slice(<<>>, 0)]
  ELSE IF Len(slices) = 1
  THEN [ok |-> TRUE, result |-> Slice(<<>>, 0), last |-> slices[1]]
  ELSE Once(sortedSlices(slices), dedupLastTwo)

\* All slices of one generation made one.
dedupGeneration(slices) ==
  Once(DedupLineSlices(slices),
       LAMBDA d : [ok |-> d.ok,
                   slice |-> Slice(d.result.lines \o d.last.lines, d.last.generation)])
=============================================================================
