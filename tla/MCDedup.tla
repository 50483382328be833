---------------------------------- MODULE MCDedup ----------------------------------
(***************************************************************************)
(* Dedup on every small input: windows of a log, added one at a time in    *)
(* any order, as the slices of a generation are.                           *)
(***************************************************************************)
EXTENDS Dedup

CONSTANTS MaxLine,     \* bound: the lines of the log
          MaxWindows   \* bound: how many windows overlap

ASSUME WindowsAssumption == MaxLine \in Nat /\ MaxWindows \in Nat

VARIABLE windows

Init == windows = <<>>

AddWindow(S) ==
  /\ Len(windows) < MaxWindows
  /\ windows' = Append(windows, Ascending(S))

Next == \E S \in (SUBSET (1 .. MaxLine)) \ {{}} : AddWindow(S)

Spec == Init /\ [][Next]_windows
-----------------------------------------------------------------------------
Windows   == ToSet(windows)
Collected == UNION {ToSet(w) : w \in Windows}
Result    == DedupLineSlices([i \in DOMAIN windows |-> Slice(windows[i], i)])
Output    == Result.result.lines \o Result.last.lines

IsAscending(s) == \A i \in 1 .. Len(s) - 1 : s[i] < s[i + 1]

\* v was opened before w: it starts first, or starts with w and ends first.
Before(v, w) == Head(v) < Head(w) \/ (Head(v) = Head(w) /\ Last(v) < Last(w))

\* No line is missing between the ends of a window.
Complete(w) == ToSet(w) = Head(w) .. Last(w)

\* A poll that was opened later has also been read further.
EndsInOrder == \A v, w \in Windows : Before(v, w) => Last(v) <= Last(w)

\* Of windows that miss no line, and end in the order they start in, the
\* de-duplicated slices hold every line, once and in order, however many overlap
\* and in whatever order they arrive (DedupLineSlices, dedup.go:187-230).
WindowsMergeExactly ==
  windows # <<>> /\ EndsInOrder /\ (\A w \in Windows : Complete(w))
    => Result.ok /\ IsAscending(Output) /\ ToSet(Output) = Collected

\* No index runs out of range, whichever lines up to three windows miss: fixLines uses
\* the index of findNextMatching, which is -1 if there is none, without looking at it,
\* and what could not be fixed is split and tried again.  Of more windows it may: of
\* <<5>>, <<2,4,5,6,7,9,10>>, <<1,7,8,9>>, <<1,6,12>>, <<4,6,7,8,9>> and <<3,6,11>> the
\* reference no longer is in order and the split leaves DedupAB an empty slice.
IndexInRange == Len(windows) \in 1 .. 3 => Result.ok

\* The window that starts last keeps all its lines: stitching lines into it never
\* costs it one, and flushes build on it (lines.go:233-234).
LatestWindowKept ==
  \A w \in Windows : (\A v \in Windows : v = w \/ Before(v, w))
                       => ToSet(w) \subseteq ToSet(Result.last.lines)

\* Two windows of which one ends or starts in the other are merged in order and
\* without a repeated line, even where lines are missing in one or in both.
OverlapInOrder ==
  Len(windows) = 2 /\ EndsInOrder =>
    \A v, w \in Windows : Before(v, w) /\ (Head(w) \in ToSet(v) \/ Last(v) \in ToSet(w))
                            => IsAscending(Output)

\* fixLines "will insert sequental lines missing in either x or y when stich them
\* into the other" (dedup.go:71): no line either window holds is lost.
MissingLinesStitchedIn ==
  Len(windows) = 2 /\ EndsInOrder => Collected \subseteq ToSet(Output)
=============================================================================
