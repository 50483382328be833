--------------------------------- MODULE MCDedupProofs ---------------------------------
(***************************************************************************)
(* What the de-duplication promises of windows that miss no line, for any  *)
(* log and any number of windows, and what is left of that promise when    *)
(* they miss some: the windows then go through the loop of processOverlap  *)
(* and the retry of handleIncompleteOverlap.                               *)
(***************************************************************************)
EXTENDS MCDedup, DedupProofs

\* Windows are lines of the log in its order.
WindowsInv ==
  /\ windows \in Seq(Lines)
  /\ \A i \in 1 .. Len(windows) : windows[i] # <<>> /\ Increasing(windows[i])

LEMMA WindowIs ==
  ASSUME NEW S \in (SUBSET (1 .. MaxLine)) \ {{}}
  PROVE  Ascending(S) \in Lines /\ Ascending(S) # <<>> /\ Increasing(Ascending(S))
  <1>1. MaxLine \in Nat
    BY WindowsAssumption
  <1>2. S \in SUBSET Nat /\ IsFiniteSet(S)
    <2>1. IsFiniteSet(1 .. MaxLine)
      BY <1>1, FS_Interval
    <2>2. S \in SUBSET (1 .. MaxLine) /\ 1 .. MaxLine \subseteq Nat
      BY <1>1
    <2> QED
      BY <2>1, <2>2, FS_Subset
  <1> DEFINE w == Ascending(S)
  <1>3. /\ w \in Seq(S)
        /\ \A j, k \in 1 .. Len(w) : j < k => w[j] < w[k]
        /\ \A x \in S : \E k \in 1 .. Len(w) : w[k] = x
    BY <1>2, AscendingIs
  <1> HIDE DEF w
  <1>4. w \in Seq(Nat)
    <2>1. Len(w) \in Nat /\ w \in [1 .. Len(w) -> S]
      BY <1>3, LenProperties
    <2>2. w \in [1 .. Len(w) -> Nat]
      BY <1>2, <2>1
    <2> QED
      BY <2>1, <2>2, IsASeq
  <1>5. w # <<>>
    <2>1. PICK x \in S : TRUE
      OBVIOUS
    <2>2. PICK k \in 1 .. Len(w) : w[k] = x
      BY <1>3
    <2>3. Len(w) # 0
      BY <2>2
    <2> QED
      BY <2>3
  <1> QED
    BY <1>3, <1>4, <1>5 DEF Increasing, Lines, w

LEMMA WindowsAreInOrder == Spec => []WindowsInv
  <1>1. Init => WindowsInv
    BY DEF Init, WindowsInv
  <1>2. ASSUME WindowsInv, [Next]_windows PROVE WindowsInv'
    <2>1. CASE UNCHANGED windows
      BY <1>2, <2>1 DEF WindowsInv
    <2>2. ASSUME NEW S \in (SUBSET (1 .. MaxLine)) \ {{}}, AddWindow(S) PROVE WindowsInv'
      <3> DEFINE w == Ascending(S)
                 n == Len(windows)
      <3>1. w \in Lines /\ w # <<>> /\ Increasing(w)
        BY WindowIs
      <3>2. windows' = Append(windows, w) /\ windows \in Seq(Lines)
        BY <1>2, <2>2 DEF AddWindow, WindowsInv
      <3> HIDE DEF w
      <3>3. /\ windows' \in Seq(Lines) /\ Len(windows') = n + 1
            /\ \A i \in 1 .. n : windows'[i] = windows[i]
            /\ windows'[n + 1] = w
        BY <3>1, <3>2, AppendProperties
      <3>4. n \in Nat
        BY <3>2, LenProperties
      <3>5. \A i \in 1 .. n + 1 : i \in 1 .. n \/ i = n + 1
        BY <3>4
      <3> QED
        BY <1>2, <3>1, <3>3, <3>5 DEF WindowsInv
    <2> QED
      BY <1>2, <2>1, <2>2 DEF Next
  <1> QED
    BY <1>1, <1>2, PTL DEF Spec

\* Windows that miss no line are slices that do not.
LEMMA SlicesUnbroken ==
  ASSUME WindowsInv, \A w \in Windows : Complete(w),
         NEW i \in 1 .. Len(windows), NEW g \in Nat
  PROVE  LET x == Slice(windows[i], g)
         IN  /\ x \in LineSlice /\ Unbroken(x) /\ windows[i] \in Windows
             /\ startOf(x) = Head(windows[i]) /\ endOf(x) = Last(windows[i])
             /\ ToSet(windows[i]) = startOf(x) .. endOf(x)
  <1> DEFINE w == windows[i]
             p == Head(w)
             q == Last(w)
  <1>1. w \in Lines /\ w # <<>> /\ Increasing(w) /\ w \in Windows
    BY ElementOfSeq, LenProperties DEF WindowsInv, Windows, ToSet
  <1>2. ToSet(w) = p .. q
    BY <1>1 DEF Complete
  <1> HIDE DEF w
  <1>3. Head(w) \in Nat /\ Last(w) \in Nat /\ Head(w) <= Last(w)
    <2>1. /\ Len(w) \in Nat \ {0} /\ Head(w) = w[1] /\ Head(w) \in Nat
          /\ \A x \in ToSet(w) : x \in Nat /\ Head(w) <= x
      BY <1>1, IncreasingFrom
    <2>2. Last(w) = w[Len(w)] /\ Len(w) \in 1 .. Len(w)
      BY <2>1 DEF Last
    <2>3. w[Len(w)] \in ToSet(w)
      BY <1>1, <2>2, LenProperties DEF ToSet, Lines
    <2> QED
      BY <2>1, <2>2, <2>3
  <1>4. w = Log(p, q)
    <2>1. p \in Nat /\ q \in Int /\ p <= q + 1
      BY <1>3
    <2> HIDE DEF p, q
    <2> QED
      BY <1>1, <1>2, <2>1, IncreasingIsLog
  <1> DEFINE x == Slice(w, g)
  <1>5. x.lines = w /\ x \in LineSlice
    BY <1>1 DEF Slice, LineSlice
  <1>6. startOf(x) = p /\ endOf(x) = q
    BY <1>1, <1>5 DEF startOf, endOf
  <1> HIDE DEF x, p, q
  <1>7. p \in Nat /\ q \in Nat /\ p <= q
    BY <1>3 DEF p, q
  <1> QED
    BY <1>1, <1>2, <1>4, <1>5, <1>6, <1>7 DEF Unbroken, w, x, p, q

\* However many windows there are and however they overlap, as long as they miss no line
\* and end in the order they start in, every line collected comes out once and in order
\* (DedupLineSlices, dedup.go:187-230).
THEOREM MergesExactly == Spec => []WindowsMergeExactly
  <1>1. ASSUME WindowsInv, windows # <<>>, EndsInOrder, \A w \in Windows : Complete(w)
        PROVE  Result.ok /\ IsAscending(Output) /\ ToSet(Output) = Collected
    <2> DEFINE n == Len(windows)
               slices == [i \in DOMAIN windows |-> Slice(windows[i], i)]
               d == DedupLineSlices(slices)
    <2>1. n \in Nat /\ DOMAIN windows = 1 .. n
      BY <1>1, LenProperties DEF WindowsInv
    <2>2. \A i \in 1 .. n :
            /\ slices[i] \in LineSlice /\ Unbroken(slices[i]) /\ windows[i] \in Windows
            /\ startOf(slices[i]) = Head(windows[i]) /\ endOf(slices[i]) = Last(windows[i])
            /\ ToSet(windows[i]) = startOf(slices[i]) .. endOf(slices[i])
      <3> TAKE i \in 1 .. n
      <3>1. i \in Nat /\ slices[i] = Slice(windows[i], i)
        BY <2>1
      <3> QED
        BY <1>1, <3>1, SlicesUnbroken
    <2>3. slices \in [1 .. n -> LineSlice]
      BY <2>1, <2>2
    <2> HIDE DEF slices
    <2>4. slices \in Seq(LineSlice) /\ Len(slices) = n
      BY <2>1, <2>3, EvaluatedFunction
    <2>5. slices # <<>>
      <3>1. n # 0
        BY <1>1, EmptySeq DEF WindowsInv
      <3> QED
        BY <2>4, <3>1
    <2>6. ReadInTurn(slices)
      BY <1>1, <2>2, <2>4 DEF ReadInTurn, EndsInOrder, Before
    <2>7. Merged(d, slices)
      BY <2>2, <2>4, <2>5, <2>6, SlicesMerge
    <2> HIDE DEF d
    <2>8. Result = d
      BY DEF Result, d, slices
    <2>9. d.ok /\ Increasing(Output) /\ ToSet(Output) = Held(slices, 1)
      BY <2>7, <2>8 DEF Merged, Output
    <2>10. Output \in Seq(Nat)
      BY <2>7, <2>8, ConcatProperties DEF Merged, Output, Lines
    <2>11. IsAscending(Output)
      <3>1. Len(Output) \in Nat
        BY <2>10, LenProperties
      <3>2. \A i \in 1 .. Len(Output) - 1 :
              i \in 1 .. Len(Output) /\ i + 1 \in 1 .. Len(Output) /\ i < i + 1
        BY <3>1
      <3> QED
        BY <2>9, <3>2 DEF IsAscending, Increasing
    <2>12. Held(slices, 1) = Collected
      <3>1. Held(slices, 1) = UNION {ToSet(windows[i]) : i \in 1 .. n}
        BY <2>2, <2>4 DEF Held
      <3>2. Windows = {windows[i] : i \in 1 .. n}
        BY <2>1 DEF Windows, ToSet
      <3> QED
        BY <3>1, <3>2 DEF Collected
    <2> QED
      BY <2>8, <2>9, <2>11, <2>12
  <1>2. WindowsInv => WindowsMergeExactly
    BY <1>1 DEF WindowsMergeExactly
  <1> QED
    BY <1>2, WindowsAreInOrder, PTL
-----------------------------------------------------------------------------
(***************************************************************************)
(* Windows that miss lines: what the functions of Dedup return             *)
(***************************************************************************)
LEMMA FirstIs ==
  ASSUME NEW S \in SUBSET Nat
  PROVE  /\ S = {} => FirstOrNone(S) = -1
         /\ S # {} => FirstOrNone(S) \in S /\ \A y \in S : FirstOrNone(S) <= y
  <1>1. CASE S = {}
    BY <1>1 DEF FirstOrNone
  <1>2. CASE S # {}
    <2>1. PICK x \in S : \A y \in S : x <= y
      BY <1>2, SmallestOf
    <2>2. Min(S) \in S /\ \A y \in S : Min(S) <= y
      BY <2>1 DEF Min
    <2> QED
      BY <1>2, <2>2 DEF FirstOrNone
  <1> QED
    BY <1>1, <1>2

\* Where a line is found: at its first place.
LEMMA IndexIs ==
  ASSUME NEW list \in Lines, NEW needle
  PROVE  LET k == findLineIndex(needle, list)
         IN  \/ k = -1 /\ \A j \in 1 .. Len(list) : list[j] # needle
             \/ /\ k \in 0 .. Len(list) - 1 /\ list[k + 1] = needle
                /\ \A j \in 1 .. k : list[j] # needle
  <1> DEFINE S == {i \in 0 .. Len(list) - 1 : list[i + 1] = needle}
             k == findLineIndex(needle, list)
  <1>1. k = FirstOrNone(S)
    BY DEF findLineIndex
  <1>2. Len(list) \in Nat
    BY LenProperties DEF Lines
  <1>3. S \in SUBSET Nat
    BY <1>2
  <1>4. \A j \in 1 .. Len(list) : list[j] = needle => j - 1 \in S
    <2> TAKE j \in 1 .. Len(list)
    <2>1. j - 1 \in 0 .. Len(list) - 1 /\ (j - 1) + 1 = j
      BY <1>2
    <2> QED
      BY <2>1
  <1>5. CASE S = {}
    <2>1. \A j \in 1 .. Len(list) : list[j] # needle
      BY <1>4, <1>5
    <2> HIDE DEF S
    <2>2. k = -1
      BY <1>1, <1>3, <1>5, FirstIs
    <2> QED
      BY <2>1, <2>2
  <1>6. CASE S # {}
    <2>1. k \in S /\ \A y \in S : k <= y
      <3> HIDE DEF S, k
      <3> QED
        BY <1>1, <1>3, <1>6, FirstIs
    <2>2. k \in 0 .. Len(list) - 1 /\ list[k + 1] = needle
      BY <2>1
    <2> HIDE DEF k
    <2>3. \A j \in 1 .. k : j \in 1 .. Len(list) /\ j - 1 < k
      BY <1>2, <2>2
    <2>4. ASSUME NEW j \in 1 .. k, list[j] = needle PROVE FALSE
      <3>1. j - 1 \in S
        BY <1>4, <2>3, <2>4
      <3>2. k <= j - 1
        BY <2>1, <3>1
      <3> HIDE DEF S
      <3> QED
        BY <2>2, <2>3, <3>2
    <2> QED
      BY <2>2, <2>4 DEF k
  <1> QED
    BY <1>5, <1>6

\* Two slices agree on their first i lines, and do not on the next.
Agree(x, y, i) == i <= Len(x) /\ i <= Len(y) /\ \A j \in 1 .. i : x[j] = y[j]
IssueAt(x, y, i) == Agree(x, y, i) /\ i < Len(x) /\ i < Len(y) /\ x[i + 1] # y[i + 1]
NoIssue(x, y) == \A j \in 1 .. Len(x) : j <= Len(y) => x[j] = y[j]

LEMMA IssueOrNone ==
  ASSUME NEW x \in Lines, NEW y \in Lines, NEW i \in Nat, IssueAt(x, y, i)
  PROVE  ~NoIssue(x, y)
  <1>1. Len(x) \in Nat /\ Len(y) \in Nat /\ i < Len(x) /\ i < Len(y) /\ x[i + 1] # y[i + 1]
    BY LenProperties DEF IssueAt, Lines
  <1>2. i + 1 \in 1 .. Len(x) /\ i + 1 <= Len(y)
    BY <1>1
  <1> QED
    BY <1>1, <1>2 DEF NoIssue

LEMMA IssueIs ==
  ASSUME NEW x \in Lines, NEW y \in Lines
  PROVE  LET i == findFirstIssueIndex(x, y)
         IN  (i = -1 /\ NoIssue(x, y)) \/ (i \in Nat /\ IssueAt(x, y, i))
  <1> DEFINE S == {i \in 0 .. Len(x) - 1 : i < Len(y) /\ x[i + 1] # y[i + 1]}
             k == findFirstIssueIndex(x, y)
  <1>1. k = FirstOrNone(S)
    BY DEF findFirstIssueIndex
  <1>2. Len(x) \in Nat /\ Len(y) \in Nat
    BY LenProperties DEF Lines
  <1>3. S \in SUBSET Nat
    BY <1>2
  <1>4. \A j \in 1 .. Len(x) : j <= Len(y) /\ x[j] # y[j] => j - 1 \in S
    <2> TAKE j \in 1 .. Len(x)
    <2>1. j - 1 \in 0 .. Len(x) - 1 /\ (j - 1) + 1 = j /\ (j <= Len(y) => j - 1 < Len(y))
      BY <1>2
    <2> QED
      BY <2>1
  <1>5. CASE S = {}
    <2>1. NoIssue(x, y)
      BY <1>4, <1>5 DEF NoIssue
    <2> HIDE DEF S
    <2>2. k = -1
      BY <1>1, <1>3, <1>5, FirstIs
    <2> QED
      BY <2>1, <2>2
  <1>6. CASE S # {}
    <2>1. k \in S /\ \A j \in S : k <= j
      <3> HIDE DEF S, k
      <3> QED
        BY <1>1, <1>3, <1>6, FirstIs
    <2>2. k \in 0 .. Len(x) - 1 /\ k < Len(y) /\ x[k + 1] # y[k + 1]
      BY <2>1
    <2> HIDE DEF k
    <2>3. \A j \in 1 .. k : j \in 1 .. Len(x) /\ j <= Len(y) /\ j - 1 < k
      BY <1>2, <2>2
    <2>4. ASSUME NEW j \in 1 .. k, x[j] # y[j] PROVE FALSE
      <3>1. j - 1 \in S
        BY <1>4, <2>3, <2>4
      <3>2. k <= j - 1
        BY <2>1, <3>1
      <3> HIDE DEF S
      <3> QED
        BY <2>2, <2>3, <3>2
    <2>5. Agree(x, y, k) /\ k \in Nat /\ k < Len(x)
      BY <1>2, <2>2, <2>4 DEF Agree
    <2> QED
      BY <2>2, <2>5 DEF k, IssueAt
  <1> QED
    BY <1>5, <1>6

\* There is one first issue, and none where there is none.
LEMMA IssueUnique ==
  ASSUME NEW x \in Lines, NEW y \in Lines
  PROVE  /\ NoIssue(x, y) => findFirstIssueIndex(x, y) = -1
         /\ \A i \in Nat : IssueAt(x, y, i) => findFirstIssueIndex(x, y) = i
  <1> DEFINE k == findFirstIssueIndex(x, y)
  <1>1. (k = -1 /\ NoIssue(x, y)) \/ (k \in Nat /\ IssueAt(x, y, k))
    BY IssueIs
  <1> HIDE DEF k
  <1>2. Len(x) \in Nat /\ Len(y) \in Nat
    BY LenProperties DEF Lines
  <1>3. \A i \in Nat : IssueAt(x, y, i) => ~NoIssue(x, y)
    <2> SUFFICES ASSUME NEW i \in Nat, IssueAt(x, y, i), NoIssue(x, y) PROVE FALSE
      OBVIOUS
    <2>1. i + 1 \in 1 .. Len(x) /\ i + 1 <= Len(y) /\ x[i + 1] # y[i + 1]
      BY <1>2 DEF IssueAt
    <2> QED
      BY <2>1 DEF NoIssue
  <1>4. \A i, j \in Nat : IssueAt(x, y, i) /\ IssueAt(x, y, j) => ~(i < j)
    <2> SUFFICES ASSUME NEW i \in Nat, NEW j \in Nat, IssueAt(x, y, i), IssueAt(x, y, j), i < j
                 PROVE  FALSE
      OBVIOUS
    <2>1. i + 1 \in 1 .. j
      OBVIOUS
    <2> QED
      BY <2>1 DEF IssueAt, Agree
  <1>5. \A i, j \in Nat : IssueAt(x, y, i) /\ IssueAt(x, y, j) => i = j
    <2> TAKE i, j \in Nat
    <2>1. i < j \/ j < i \/ i = j
      OBVIOUS
    <2> QED
      BY <1>4, <2>1
  <1> QED
    BY <1>1, <1>3, <1>5 DEF k

\* The first line of a that is in b, and its first place there.
LEMMA MatchIs ==
  ASSUME NEW a \in Lines, NEW b \in Lines
  PROVE  LET m == findNextMatching(a, b)
         IN  \/ /\ m.offset = Len(a) /\ m.index = -1
                /\ \A j \in 1 .. Len(a), k \in 1 .. Len(b) : a[j] # b[k]
             \/ /\ m.offset \in 0 .. Len(a) - 1 /\ m.index \in 0 .. Len(b) - 1
                /\ a[m.offset + 1] = b[m.index + 1]
                /\ \A j \in 1 .. m.offset, k \in 1 .. Len(b) : a[j] # b[k]
                /\ \A k \in 1 .. m.index : b[k] # a[m.offset + 1]
  <1> DEFINE S == {i \in 0 .. Len(a) - 1 : findLineIndex(a[i + 1], b) # -1}
             o == FirstOrNone(S)
             m == findNextMatching(a, b)
             at(e) == findLineIndex(e, b)
  <1>1. m = IF o = -1 THEN [offset |-> Len(a), index |-> -1]
                      ELSE [offset |-> o, index |-> at(a[o + 1])]
    BY DEF findNextMatching
  <1>2. Len(a) \in Nat /\ Len(b) \in Nat
    BY LenProperties DEF Lines
  <1>3. S \in SUBSET Nat
    BY <1>2
  <1>4. \A e : \/ at(e) = -1 /\ \A k \in 1 .. Len(b) : b[k] # e
               \/ /\ at(e) \in 0 .. Len(b) - 1 /\ at(e) # -1 /\ b[at(e) + 1] = e
                  /\ \A k \in 1 .. at(e) : b[k] # e
    <2> TAKE e
    <2>1. \/ at(e) = -1 /\ \A k \in 1 .. Len(b) : b[k] # e
          \/ /\ at(e) \in 0 .. Len(b) - 1 /\ b[at(e) + 1] = e
             /\ \A k \in 1 .. at(e) : b[k] # e
      BY IndexIs
    <2> HIDE DEF at
    <2> QED
      BY <1>2, <2>1
  <1>5. \A j \in 1 .. Len(a) : at(a[j]) # -1 => j - 1 \in S
    <2> TAKE j \in 1 .. Len(a)
    <2>1. j - 1 \in 0 .. Len(a) - 1 /\ (j - 1) + 1 = j
      BY <1>2
    <2> QED
      BY <2>1
  <1>6. \A i \in S : i \in 0 .. Len(a) - 1 /\ at(a[i + 1]) # -1
    OBVIOUS
  <1> HIDE DEF S, at
  <1>7. CASE S = {}
    <2>1. o = -1
      BY <1>3, <1>7, FirstIs
    <2>2. \A j \in 1 .. Len(a), k \in 1 .. Len(b) : a[j] # b[k]
      BY <1>4, <1>5, <1>7
    <2> HIDE DEF o, m
    <2>3. m.offset = Len(a) /\ m.index = -1
      BY <1>1, <2>1
    <2> QED
      BY <2>2, <2>3 DEF m
  <1>8. CASE S # {}
    <2>1. o \in S /\ \A j \in S : o <= j
      BY <1>3, <1>8, FirstIs
    <2>2. o \in 0 .. Len(a) - 1 /\ at(a[o + 1]) # -1
      BY <1>6, <2>1
    <2> HIDE DEF o, m
    <2>3. o # -1
      BY <2>2
    <2>4. m.offset = o /\ m.index = at(a[o + 1])
      BY <1>1, <2>3
    <2>5. \A j \in 1 .. o : at(a[j]) = -1
      <3> SUFFICES ASSUME NEW j \in 1 .. o, at(a[j]) # -1 PROVE FALSE
        OBVIOUS
      <3>1. j \in 1 .. Len(a) /\ j - 1 < o
        BY <1>2, <2>2
      <3>2. j - 1 \in S
        BY <1>5, <3>1
      <3>3. o <= j - 1
        BY <2>1, <3>2
      <3> QED
        BY <2>2, <3>1, <3>3
    <2>6. \A j \in 1 .. o, k \in 1 .. Len(b) : a[j] # b[k]
      BY <1>4, <2>5
    <2>7. m.index \in 0 .. Len(b) - 1 /\ a[o + 1] = b[m.index + 1]
          /\ \A k \in 1 .. m.index : b[k] # a[o + 1]
      BY <1>4, <2>2, <2>4
    <2> QED
      BY <2>2, <2>4, <2>6, <2>7 DEF m
  <1> QED
    BY <1>7, <1>8

\* From i on, the two have no line in common.
Disjoint(x, y, i) == \A j \in i + 1 .. Len(y), k \in i + 1 .. Len(x) : y[j] # x[k]

\* w is x with the o lines of y from i on that are missing in x, up to the first that is
\* not: x has it k lines further on, and loses what it holds before.
Meet(x, y, i, o, k, w) ==
  /\ o \in 0 .. Len(y) - i - 1 /\ k \in 0 .. Len(x) - i - 1
  /\ y[i + o + 1] = x[i + k + 1]
  /\ \A j \in i + 1 .. i + o, l \in i + 1 .. Len(x) : y[j] # x[l]
  /\ \A l \in i + 1 .. i + k : x[l] # y[i + o + 1]
  /\ w \in Lines /\ Len(w) = Len(x) + o - k
  /\ \A j \in 1 .. i + o : w[j] = y[j]
  /\ \A j \in i + o + 1 .. Len(w) : w[j] = x[j - o + k]

LEMMA SplicedIs ==
  ASSUME NEW x \in Lines, NEW y \in Lines, NEW i \in Nat, i < Len(x), i < Len(y), Agree(x, y, i)
  PROVE  LET r == spliced(x, y, i)
         IN  \/ Disjoint(x, y, i) /\ i = 0 /\ r.ok = FALSE
             \/ /\ Disjoint(x, y, i) /\ i > 0 /\ r.ok = TRUE /\ r.lines \in Lines
                /\ Agree(r.lines, y, Len(y))
             \/ r.ok = TRUE /\ \E o \in Nat, k \in Nat : Meet(x, y, i, o, k, r.lines)
  <1> DEFINE a == From(y, i)
             b == From(x, i)
             m == findNextMatching(a, b)
             r == spliced(x, y, i)
             u == Upto(x, i)
  <1>1. /\ Len(x) \in Nat /\ Len(y) \in Nat /\ x \in Seq(Nat) /\ y \in Seq(Nat)
        /\ \A j \in 1 .. Len(y) : y[j] \in Nat
    BY LenProperties, ElementOfSeq DEF Lines
  <1>2. /\ a \in Lines /\ Len(a) = Len(y) - i /\ \A j \in 1 .. Len(y) - i : a[j] = y[i + j]
        /\ b \in Lines /\ Len(b) = Len(x) - i /\ \A j \in 1 .. Len(x) - i : b[j] = x[i + j]
    <2>1. i \in 0 .. Len(x) /\ i \in 0 .. Len(y)
      BY <1>1
    <2> QED
      BY <1>1, <2>1, FromIs DEF Lines
  <1>3. /\ r.ok = (i + m.index >= 0)
        /\ r.lines = (u \o SubSeq(y, i + 1, i + m.offset))
                       \o IF i + m.index < 0 THEN <<>> ELSE From(x, i + m.index)
    BY DEF spliced, splicedAt
  <1>10. u \in Seq(Nat) /\ Len(u) = i /\ \A j \in 1 .. i : u[j] = y[j]
    <2>1. i \in 0 .. Len(x)
      BY <1>1
    <2>2. u \in Seq(Nat) /\ Len(u) = i /\ \A j \in 1 .. i : u[j] = x[j]
      BY <1>1, <2>1, UptoIs
    <2> HIDE DEF u
    <2> QED
      BY <2>2 DEF Agree
  <1> HIDE DEF r, a, b, u
  <1>4. \/ /\ m.offset = Len(a) /\ m.index = -1
           /\ \A j \in 1 .. Len(a), k \in 1 .. Len(b) : a[j] # b[k]
        \/ /\ m.offset \in 0 .. Len(a) - 1 /\ m.index \in 0 .. Len(b) - 1
           /\ a[m.offset + 1] = b[m.index + 1]
           /\ \A j \in 1 .. m.offset, k \in 1 .. Len(b) : a[j] # b[k]
           /\ \A k \in 1 .. m.index : b[k] # a[m.offset + 1]
    BY <1>2, MatchIs
  <1> HIDE DEF m
  <1>5. PICK o \in Nat, k \in Int :
          /\ o = m.offset /\ k = m.index /\ i + o <= Len(y) /\ k >= -1 /\ i + k <= Len(x)
          /\ \/ /\ o = Len(a) /\ k = -1
                /\ \A j \in 1 .. Len(a), l \in 1 .. Len(b) : a[j] # b[l]
             \/ /\ o \in 0 .. Len(a) - 1 /\ k \in 0 .. Len(b) - 1 /\ a[o + 1] = b[k + 1]
                /\ \A j \in 1 .. o, l \in 1 .. Len(b) : a[j] # b[l]
                /\ \A l \in 1 .. k : b[l] # a[o + 1]
    <2>1. m.offset \in Nat /\ m.index \in Int /\ i + m.offset <= Len(y)
          /\ m.index >= -1 /\ i + m.index <= Len(x)
      <3>1. CASE m.offset = Len(a) /\ m.index = -1
        BY <1>1, <1>2, <3>1
      <3>2. CASE m.offset \in 0 .. Len(a) - 1 /\ m.index \in 0 .. Len(b) - 1
        <4>1. PICK n \in 0 .. Len(y) - i - 1, l \in 0 .. Len(x) - i - 1 : m.offset = n /\ m.index = l
          BY <1>2, <3>2
        <4>2. n \in Nat /\ l \in Int /\ i + n <= Len(y) /\ l >= -1 /\ i + l <= Len(x)
          BY <1>1
        <4> QED
          BY <4>1, <4>2
      <3> QED
        BY <1>4, <3>1, <3>2
    <2> QED
      BY <1>4, <2>1
  <1> DEFINE mid == SubSeq(y, i + 1, i + o)
             front == u \o mid
  <1>6. front \in Seq(Nat) /\ Len(front) = i + o /\ \A j \in 1 .. i + o : front[j] = y[j]
    <2>1. mid \in Seq(Nat) /\ Len(mid) = o /\ \A j \in 1 .. o : mid[j] = y[i + j]
      <3>1. i + 1 \in Int /\ i + o \in Int /\ \A j \in i + 1 .. i + o : y[j] \in Nat
        <4>1. i + o <= Len(y)
          BY <1>5
        <4>2. \A j \in i + 1 .. i + o : j \in 1 .. Len(y)
          BY <1>1, <4>1
        <4> HIDE DEF mid, front
        <4> QED
          BY <1>1, <4>2
      <3>2. /\ mid \in Seq(Nat) /\ Len(mid) = IF i + 1 <= i + o THEN (i + o) - (i + 1) + 1 ELSE 0
            /\ \A j \in 1 .. (i + o) - (i + 1) + 1 : mid[j] = y[(i + 1) + j - 1]
        BY <3>1, SubSeqProperties
      <3>3. (i + o) - (i + 1) + 1 = o /\ \A j \in 1 .. o : (i + 1) + j - 1 = i + j
        OBVIOUS
      <3> HIDE DEF mid
      <3>4. Len(mid) = o
        BY <3>2
      <3> QED
        BY <3>2, <3>3, <3>4
    <2> HIDE DEF mid
    <2>3. /\ front \in Seq(Nat) /\ Len(front) = Len(u) + Len(mid)
          /\ \A j \in 1 .. Len(u) + Len(mid) :
               front[j] = IF j <= Len(u) THEN u[j] ELSE mid[j - Len(u)]
      BY <1>10, <2>1, ConcatProperties
    <2> HIDE DEF front
    <2>4. ASSUME NEW j \in 1 .. i + o PROVE front[j] = y[j]
      <3>0. front[j] = IF j <= i THEN u[j] ELSE mid[j - i]
        BY <1>10, <2>1, <2>3
      <3>1. CASE j <= i
        <4>1. j \in 1 .. i
          BY <3>1
        <4> QED
          BY <1>10, <3>0, <3>1, <4>1
      <3>2. CASE ~(j <= i)
        <4>1. j - i \in 1 .. o /\ i + (j - i) = j
          BY <3>2
        <4> QED
          BY <2>1, <3>0, <3>2, <4>1
      <3> QED
        BY <3>1, <3>2
    <2> QED
      BY <1>10, <2>1, <2>3, <2>4
  <1>11. /\ r.ok = (i + k >= 0)
        /\ r.lines = front \o IF i + k < 0 THEN <<>> ELSE From(x, i + k)
    BY <1>3, <1>5
  <1> HIDE DEF front, mid
  <1>7. ASSUME i + k >= 0
        PROVE  /\ r.ok = TRUE /\ r.lines \in Lines /\ Len(r.lines) = (i + o) + (Len(x) - (i + k))
               /\ \A j \in 1 .. i + o : r.lines[j] = y[j]
               /\ \A j \in i + o + 1 .. Len(r.lines) : r.lines[j] = x[j - o + k]
    <2>1. PICK n \in 0 .. Len(x) : n = i + k
      BY <1>1, <1>5, <1>7, SMTT(20)
    <2> DEFINE t == From(x, n)
    <2>2. t \in Seq(Nat) /\ Len(t) = Len(x) - n /\ \A j \in 1 .. Len(x) - n : t[j] = x[n + j]
      BY <1>1, FromIs
    <2>3. r.ok = TRUE /\ r.lines = front \o t
      <3>1. ~(i + k < 0)
        BY <1>7
      <3> QED
        BY <1>11, <1>7, <2>1, <3>1
    <2> HIDE DEF t
    <2>4. /\ r.lines \in Seq(Nat) /\ Len(r.lines) = Len(front) + Len(t)
          /\ \A j \in 1 .. Len(front) + Len(t) :
               r.lines[j] = IF j <= Len(front) THEN front[j] ELSE t[j - Len(front)]
      BY <1>6, <2>2, <2>3, ConcatProperties, SMTT(20)
    <2>5. /\ Len(r.lines) = (i + o) + (Len(x) - n)
          /\ \A j \in 1 .. (i + o) + (Len(x) - n) :
               r.lines[j] = IF j <= i + o THEN front[j] ELSE t[j - (i + o)]
      BY <1>6, <2>2, <2>4
    <2>6. ASSUME NEW j \in 1 .. i + o PROVE r.lines[j] = y[j]
      <3>1. j \in 1 .. (i + o) + (Len(x) - n) /\ j <= i + o
        BY <1>1
      <3> QED
        BY <1>6, <2>5, <3>1
    <2>7. ASSUME NEW j \in i + o + 1 .. Len(r.lines) PROVE r.lines[j] = x[j - o + k]
      <3>1. /\ j \in 1 .. (i + o) + (Len(x) - n) /\ ~(j <= i + o)
            /\ j - (i + o) \in 1 .. Len(x) - n
        BY <1>1, <2>5
      <3>2. r.lines[j] = x[n + (j - (i + o))]
        BY <2>2, <2>5, <3>1
      <3>3. n + (j - (i + o)) = j - o + k
        BY <2>1
      <3> QED
        BY <3>2, <3>3
    <2> QED
      BY <2>1, <2>3, <2>4, <2>5, <2>6, <2>7 DEF Lines
  <1>8. CASE k = -1
    <2>1. o = Len(a) /\ \A j \in 1 .. Len(a), l \in 1 .. Len(b) : a[j] # b[l]
      BY <1>1, <1>2, <1>5, <1>8
    <2>2. Disjoint(x, y, i)
      <3> SUFFICES ASSUME NEW j \in i + 1 .. Len(y), NEW l \in i + 1 .. Len(x) PROVE y[j] # x[l]
        BY DEF Disjoint
      <3>1. /\ j - i \in 1 .. Len(y) - i /\ l - i \in 1 .. Len(x) - i
            /\ i + (j - i) = j /\ i + (l - i) = l
        BY <1>1
      <3>2. a[j - i] = y[j] /\ b[l - i] = x[l]
        BY <1>2, <3>1
      <3>3. j - i \in 1 .. Len(a) /\ l - i \in 1 .. Len(b)
        BY <1>2, <3>1
      <3> QED
        BY <2>1, <3>2, <3>3
    <2>3. CASE i = 0
      <3>1. (i + k >= 0) = FALSE
        BY <1>8, <2>3
      <3>2. r.ok = FALSE
        BY <1>11, <3>1
      <3> QED
        BY <2>2, <2>3, <3>2 DEF r
    <2>4. CASE i > 0
      <3>1. i + k >= 0 /\ i + o = Len(y)
        BY <1>1, <1>2, <1>8, <2>1, <2>4
      <3>2. /\ r.ok = TRUE /\ r.lines \in Lines
            /\ Len(r.lines) = (i + o) + (Len(x) - (i + k))
            /\ \A j \in 1 .. i + o : r.lines[j] = y[j]
        BY <1>7, <3>1
      <3>3. Len(r.lines) >= Len(y)
        BY <1>1, <1>8, <3>1, <3>2
      <3>4. Agree(r.lines, y, Len(y))
        BY <1>1, <3>1, <3>2, <3>3 DEF Agree
      <3> QED
        BY <2>2, <2>4, <3>2, <3>4 DEF r
    <2>5. i = 0 \/ i > 0
      OBVIOUS
    <2> QED
      BY <2>3, <2>4, <2>5, Zenon
  <1>9. CASE k # -1
    <2>1. /\ o \in 0 .. Len(a) - 1 /\ k \in 0 .. Len(b) - 1 /\ a[o + 1] = b[k + 1]
          /\ \A j \in 1 .. o, l \in 1 .. Len(b) : a[j] # b[l]
          /\ \A l \in 1 .. k : b[l] # a[o + 1]
      BY <1>5, <1>9
    <2>2. /\ o \in 0 .. Len(y) - i - 1 /\ k \in 0 .. Len(x) - i - 1 /\ k \in Nat
          /\ o + 1 \in 1 .. Len(y) - i /\ k + 1 \in 1 .. Len(x) - i
          /\ i + (o + 1) = i + o + 1 /\ i + (k + 1) = i + k + 1
      BY <1>1, <1>2, <2>1
    <2>3. i + k >= 0
      BY <2>2
    <2>4. /\ r.ok = TRUE /\ r.lines \in Lines
          /\ Len(r.lines) = (i + o) + (Len(x) - (i + k))
          /\ \A j \in 1 .. i + o : r.lines[j] = y[j]
          /\ \A j \in i + o + 1 .. Len(r.lines) : r.lines[j] = x[j - o + k]
      BY <1>7, <2>3
    <2>5. a[o + 1] = y[i + o + 1] /\ b[k + 1] = x[i + k + 1]
      BY <1>2, <2>2
    <2>6. ASSUME NEW j \in i + 1 .. i + o, NEW l \in i + 1 .. Len(x) PROVE y[j] # x[l]
      <3>1. /\ j - i \in 1 .. o /\ l - i \in 1 .. Len(x) - i /\ j - i \in 1 .. Len(y) - i
            /\ i + (j - i) = j /\ i + (l - i) = l
        BY <1>1, <2>2
      <3>2. a[j - i] = y[j] /\ b[l - i] = x[l] /\ l - i \in 1 .. Len(b)
        BY <1>2, <3>1
      <3> QED
        BY <2>1, <3>1, <3>2
    <2>7. ASSUME NEW l \in i + 1 .. i + k PROVE x[l] # y[i + o + 1]
      <3>1. l - i \in 1 .. k /\ l - i \in 1 .. Len(x) - i /\ i + (l - i) = l
        BY <1>1, <2>2
      <3>2. b[l - i] = x[l]
        BY <1>2, <3>1
      <3> QED
        BY <2>1, <2>5, <3>1, <3>2
    <2>8. Len(r.lines) = Len(x) + o - k
      BY <1>1, <2>2, <2>4
    <2>9. Meet(x, y, i, o, k, r.lines)
      BY <2>1, <2>2, <2>4, <2>5, <2>6, <2>7, <2>8 DEF Meet
    <2> QED
      BY <2>2, <2>4, <2>9 DEF r
  <1> QED
    BY <1>8, <1>9

\* A line that a slice holds from i on.
Ahead(line, x, i) == \E j \in i + 1 .. Len(x) : x[j] = line

LEMMA AheadIs ==
  ASSUME NEW x \in Lines, NEW i \in Nat, i < Len(x), NEW line
  PROVE  (findLineIndex(line, From(x, i)) = -1) <=> ~Ahead(line, x, i)
  <1> DEFINE t == From(x, i)
             k == findLineIndex(line, t)
  <1>1. /\ Len(x) \in Nat /\ t \in Lines /\ Len(t) = Len(x) - i
        /\ \A j \in 1 .. Len(x) - i : t[j] = x[i + j]
    <2>1. Len(x) \in Nat /\ x \in Seq(Nat)
      BY LenProperties DEF Lines
    <2>2. i \in 0 .. Len(x)
      BY <2>1
    <2> QED
      BY <2>1, <2>2, FromIs DEF Lines
  <1> HIDE DEF t
  <1>2. \/ k = -1 /\ \A j \in 1 .. Len(t) : t[j] # line
        \/ /\ k \in 0 .. Len(t) - 1 /\ t[k + 1] = line
           /\ \A j \in 1 .. k : t[j] # line
    BY <1>1, IndexIs
  <1> HIDE DEF k
  <1>3. ASSUME k = -1, NEW j \in i + 1 .. Len(x), x[j] = line PROVE FALSE
    <2>1. j - i \in 1 .. Len(x) - i /\ i + (j - i) = j
      BY <1>1
    <2>2. j - i \in 1 .. Len(t) /\ t[j - i] = line
      BY <1>1, <1>3, <2>1
    <2> QED
      BY <1>1, <1>2, <1>3, <2>2
  <1>4. ASSUME k # -1 PROVE Ahead(line, x, i)
    <2>1. PICK j \in 0 .. Len(x) - i - 1 : t[j + 1] = line
      BY <1>1, <1>2, <1>4
    <2>2. j + 1 \in 1 .. Len(x) - i /\ i + (j + 1) \in i + 1 .. Len(x)
      BY <1>1
    <2> QED
      BY <1>1, <2>1, <2>2 DEF Ahead
  <1> QED
    BY <1>3, <1>4 DEF Ahead, k, t

\* What becomes of a pair at its first issue.  Nothing can be fixed when each of the two
\* lines is further on in the other slice.
LEMMA FixedIs ==
  ASSUME NEW x \in Lines, NEW y \in Lines, NEW i \in Nat, IssueAt(x, y, i)
  PROVE  LET r == fixLines(x, y, i)
         IN  \/ /\ ~Ahead(y[i + 1], x, i)
                /\ \/ Disjoint(x, y, i) /\ i = 0 /\ r = Panic
                   \/ /\ Disjoint(x, y, i) /\ i > 0
                      /\ \E w \in Lines : r = Pair(w, y) /\ Agree(w, y, Len(y))
                   \/ \E o \in Nat, k \in Nat, w \in Lines :
                        o > 0 /\ Meet(x, y, i, o, k, w) /\ r = Pair(w, y)
             \/ /\ Ahead(y[i + 1], x, i) /\ ~Ahead(x[i + 1], y, i)
                /\ \E o \in Nat, k \in Nat, w \in Lines :
                     o > 0 /\ Meet(y, x, i, o, k, w) /\ r = Pair(x, w)
             \/ Ahead(y[i + 1], x, i) /\ Ahead(x[i + 1], y, i) /\ r = Pair(x, y)
  <1> DEFINE r == fixLines(x, y, i)
             s == spliced(x, y, i)
             t == spliced(y, x, i)
  <1>1. Len(x) \in Nat /\ Len(y) \in Nat /\ i < Len(x) /\ i < Len(y) /\ x[i + 1] # y[i + 1]
    BY LenProperties DEF Lines, IssueAt
  <1>2. Agree(x, y, i) /\ Agree(y, x, i)
    BY DEF IssueAt, Agree
  <1>3. /\ (findLineIndex(y[i + 1], From(x, i)) = -1) <=> ~Ahead(y[i + 1], x, i)
        /\ (findLineIndex(x[i + 1], From(y, i)) = -1) <=> ~Ahead(x[i + 1], y, i)
    BY <1>1, AheadIs
  <1>4. r = IF ~Ahead(y[i + 1], x, i) THEN withA(s, y)
            ELSE IF ~Ahead(x[i + 1], y, i) THEN withB(x, t)
            ELSE Pair(x, y)
    BY <1>3 DEF fixLines
  <1>5. \/ Disjoint(x, y, i) /\ i = 0 /\ s.ok = FALSE
        \/ /\ Disjoint(x, y, i) /\ i > 0 /\ s.ok = TRUE /\ s.lines \in Lines
           /\ Agree(s.lines, y, Len(y))
        \/ s.ok = TRUE /\ \E o \in Nat, k \in Nat : Meet(x, y, i, o, k, s.lines)
    BY <1>1, <1>2, SplicedIs
  <1>6. \/ Disjoint(y, x, i) /\ i = 0 /\ t.ok = FALSE
        \/ /\ Disjoint(y, x, i) /\ i > 0 /\ t.ok = TRUE /\ t.lines \in Lines
           /\ Agree(t.lines, x, Len(x))
        \/ t.ok = TRUE /\ \E o \in Nat, k \in Nat : Meet(y, x, i, o, k, t.lines)
    BY <1>1, <1>2, SplicedIs
  <1> HIDE DEF r, s, t
  <1>7. CASE ~Ahead(y[i + 1], x, i)
    <2>1. r = withA(s, y)
      BY <1>4, <1>7
    <2>2. \A o, k \in Nat : \A w : Meet(x, y, i, o, k, w) => o > 0 /\ w \in Lines
      <3> SUFFICES ASSUME NEW o \in Nat, NEW k \in Nat, NEW w, Meet(x, y, i, o, k, w)
                   PROVE  o # 0 /\ w \in Lines
        OBVIOUS
      <3> SUFFICES ASSUME o = 0 PROVE FALSE
        BY DEF Meet
      <3>1. i + k + 1 \in i + 1 .. Len(x) /\ x[i + k + 1] = y[i + 1]
        BY <1>1 DEF Meet
      <3> QED
        BY <1>7, <3>1 DEF Ahead
    <2>3. CASE Disjoint(x, y, i) /\ i = 0 /\ s.ok = FALSE
      BY <1>7, <2>1, <2>3 DEF withA, r
    <2>4. CASE /\ Disjoint(x, y, i) /\ i > 0 /\ s.ok = TRUE /\ s.lines \in Lines
               /\ Agree(s.lines, y, Len(y))
      BY <1>7, <2>1, <2>4 DEF withA, r
    <2>5. CASE s.ok = TRUE /\ \E o \in Nat, k \in Nat : Meet(x, y, i, o, k, s.lines)
      BY <1>7, <2>1, <2>2, <2>5 DEF withA, r
    <2> QED
      BY <1>5, <2>3, <2>4, <2>5
  <1>8. CASE Ahead(y[i + 1], x, i) /\ ~Ahead(x[i + 1], y, i)
    <2>1. r = withB(x, t)
      BY <1>4, <1>8
    <2>2. \A o, k \in Nat : \A w : Meet(y, x, i, o, k, w) => o > 0 /\ w \in Lines
      <3> SUFFICES ASSUME NEW o \in Nat, NEW k \in Nat, NEW w, Meet(y, x, i, o, k, w)
                   PROVE  o # 0 /\ w \in Lines
        OBVIOUS
      <3> SUFFICES ASSUME o = 0 PROVE FALSE
        BY DEF Meet
      <3>1. i + k + 1 \in i + 1 .. Len(y) /\ y[i + k + 1] = x[i + 1]
        BY <1>1 DEF Meet
      <3> QED
        BY <1>8, <3>1 DEF Ahead
    <2>3. ~Disjoint(y, x, i)
      <3>1. i + 1 \in i + 1 .. Len(y)
        BY <1>1
      <3> QED
        BY <1>8, <3>1 DEF Disjoint, Ahead
    <2>4. t.ok = TRUE /\ \E o \in Nat, k \in Nat : Meet(y, x, i, o, k, t.lines)
      BY <1>6, <2>3
    <2> QED
      BY <1>8, <2>1, <2>2, <2>4 DEF withB, r
  <1>9. CASE Ahead(y[i + 1], x, i) /\ Ahead(x[i + 1], y, i)
    BY <1>4, <1>9 DEF r
  <1> QED
    BY <1>7, <1>8, <1>9

LEMMA PairIs ==
  /\ Panic \in Pairs /\ Panic.ok = FALSE
  /\ \A x, y : /\ Pair(x, y).ok = TRUE /\ Pair(x, y).a = x /\ Pair(x, y).b = y
               /\ x \in Lines /\ y \in Lines => Pair(x, y) \in Pairs
  /\ \A p \in Pairs : /\ p.ok \in BOOLEAN /\ p.a \in Lines /\ p.b \in Lines
                      /\ p.ok => p = Pair(p.a, p.b)
  <1>1. <<>> \in Lines
    BY EmptySeq DEF Lines
  <1> QED
    BY <1>1 DEF Panic, Pair, Pairs

\* What becomes of a pair at its first issue is a pair.
LEMMA FixedInPairs ==
  ASSUME NEW p \in Pairs, NEW i \in Nat, IssueAt(p.a, p.b, i)
  PROVE  fixLines(p.a, p.b, i) \in Pairs
  <1> DEFINE x == p.a
             y == p.b
             r == fixLines(x, y, i)
  <1>1. x \in Lines /\ y \in Lines /\ IssueAt(x, y, i)
    BY PairIs
  <1> HIDE DEF x, y
  <1>2. \/ r = Panic \/ (\E w \in Lines : r = Pair(w, y)) \/ (\E w \in Lines : r = Pair(x, w))
        \/ r = Pair(x, y)
    BY <1>1, FixedIs
  <1> HIDE DEF r
  <1>3. r \in Pairs
    BY <1>1, <1>2, PairIs
  <1> QED
    BY <1>3 DEF r, x, y

\* The loop of processOverlap, one issue at a time.
LEMMA ResolvedStep ==
  /\ \A p \in Pairs : ~p.ok \/ NoIssue(p.a, p.b) => resolved[p] = p
  /\ \A p \in Pairs, i \in Nat :
       p.ok /\ IssueAt(p.a, p.b, i) =>
         resolved[p] = IF fixLines(p.a, p.b, i) = p THEN p ELSE resolved[fixLines(p.a, p.b, i)]
  <1> DEFINE issue(p) == findFirstIssueIndex(p.a, p.b)
             fixed(p) == fixLines(p.a, p.b, issue(p))
             stop == {p \in Pairs : ~p.ok \/ issue(p) = -1 \/ fixed(p) = p}
             val == [p \in Pairs |-> p]
             next == [p \in Pairs |-> IF p \in stop THEN p ELSE fixed(p)]
             body(g, p) == IF ~p.ok \/ issue(p) = -1 THEN p
                           ELSE Once(fixed(p), LAMBDA r : IF r = p THEN p ELSE g[r])
             Is(f) == f = [p \in Pairs |-> body(f, p)]
  <1>1. \A p \in Pairs : \/ issue(p) = -1 /\ NoIssue(p.a, p.b)
                         \/ issue(p) \in Nat /\ IssueAt(p.a, p.b, issue(p))
    BY IssueIs, PairIs
  <1>2. \A p \in Pairs, i \in Nat : IssueAt(p.a, p.b, i) => issue(p) = i
    BY IssueUnique, PairIs
  <1>3. \A p \in Pairs : NoIssue(p.a, p.b) => issue(p) = -1
    BY IssueUnique, PairIs
  <1>4. \A p \in Pairs : issue(p) # -1 => fixed(p) \in Pairs
    BY <1>1, FixedInPairs
  <1>5. \A p \in Pairs, i \in Nat : IssueAt(p.a, p.b, i) => fixed(p) = fixLines(p.a, p.b, i)
    BY <1>2
  <1>6. resolved = CHOOSE g : Is(g)
    BY DEF resolved
  <1> HIDE DEF issue, fixed
  <1>7. ASSUME NEW g, NEW p
        PROVE  body(g, p) = IF ~p.ok \/ issue(p) = -1 THEN p
                            ELSE IF fixed(p) = p THEN p ELSE g[fixed(p)]
    <2>1. Once(fixed(p), LAMBDA r : IF r = p THEN p ELSE g[r])
            = IF fixed(p) = p THEN p ELSE g[fixed(p)]
      BY DEF Once
    <2> QED
      BY <2>1
  <1> HIDE DEF body
  <1>8. stop \in SUBSET Pairs /\ val \in [Pairs -> Pairs] /\ next \in [Pairs -> Pairs] /\ Panic \in Pairs
    BY <1>4, PairIs
  <1>9. \A p \in Pairs : /\ val[p] = p
                         /\ p \notin stop => next[p] = fixed(p) /\ fixed(p) # p /\ p.ok
                                             /\ issue(p) # -1
                         /\ p \in stop => ~p.ok \/ issue(p) = -1 \/ fixed(p) = p
    OBVIOUS
  <1> HIDE DEF stop, val, next, Is
  <1>10. PICK f \in TailRecursion(Pairs, Pairs, stop, val, next) : TRUE
    BY <1>8, TailRecursionDefines
  <1>11. Is(f)
    <2>1. ASSUME NEW p \in Pairs PROVE f[p] = body(f, p)
      <3>1. f[p] = IF ~p.ok \/ issue(p) = -1 THEN p
                   ELSE IF fixed(p) = p THEN p ELSE f[fixed(p)]
        BY <1>9, <1>10 DEF TailRecursion
      <3> QED
        BY <1>7, <3>1
    <2> QED
      BY <1>10, <2>1 DEF Is, TailRecursion
  <1>12. Is(resolved)
    BY <1>6, <1>11
  <1>13. ASSUME NEW p \in Pairs
         PROVE  resolved[p] = IF ~p.ok \/ issue(p) = -1 THEN p
                              ELSE IF fixed(p) = p THEN p ELSE resolved[fixed(p)]
    <2>1. resolved[p] = body(resolved, p)
      BY <1>12 DEF Is
    <2> QED
      BY <1>7, <2>1
  <1>14. ASSUME NEW p \in Pairs, ~p.ok \/ NoIssue(p.a, p.b) PROVE resolved[p] = p
    BY <1>3, <1>13, <1>14
  <1>15. ASSUME NEW p \in Pairs, NEW i \in Nat, p.ok, IssueAt(p.a, p.b, i)
         PROVE  resolved[p] = IF fixLines(p.a, p.b, i) = p THEN p
                              ELSE resolved[fixLines(p.a, p.b, i)]
    <2>1. issue(p) = i /\ issue(p) # -1 /\ fixed(p) = fixLines(p.a, p.b, i)
      BY <1>2, <1>5, <1>15
    <2> QED
      BY <1>13, <1>15, <2>1
  <1> QED
    BY <1>14, <1>15

\* Where two slices agree, their first issue comes later.
LEMMA IssueAfter ==
  ASSUME NEW x \in Lines, NEW y \in Lines, NEW m \in Nat, Agree(x, y, m)
  PROVE  NoIssue(x, y) \/ \E i \in Nat : m <= i /\ IssueAt(x, y, i)
  <1>1. NoIssue(x, y) \/ \E i \in Nat : IssueAt(x, y, i)
    BY IssueIs
  <1>2. ASSUME NEW i \in Nat, IssueAt(x, y, i) PROVE m <= i
    <2> SUFFICES ASSUME i < m PROVE FALSE
      OBVIOUS
    <2>1. i + 1 \in 1 .. m
      OBVIOUS
    <2> QED
      BY <1>2, <2>1 DEF IssueAt, Agree
  <1> QED
    BY <1>1, <1>2

LEMMA MeetAgrees ==
  ASSUME NEW x \in Lines, NEW y \in Lines, NEW i \in Nat, NEW o \in Nat, NEW k \in Nat, NEW w,
         Meet(x, y, i, o, k, w)
  PROVE  /\ w \in Lines /\ Agree(w, y, i + o + 1) /\ Agree(y, w, i + o + 1)
         /\ i + o + 1 <= Len(y) /\ i + k + 1 <= Len(x) /\ Len(w) = Len(x) + o - k
  <1>1. Len(x) \in Nat /\ Len(y) \in Nat
    BY LenProperties DEF Lines
  <1>2. /\ i + o + 1 <= Len(y) /\ i + k + 1 <= Len(x) /\ Len(w) = Len(x) + o - k /\ w \in Lines
        /\ y[i + o + 1] = x[i + k + 1]
        /\ \A j \in 1 .. i + o : w[j] = y[j]
        /\ \A j \in i + o + 1 .. Len(w) : w[j] = x[j - o + k]
    BY <1>1 DEF Meet
  <1>3. i + o + 1 \in i + o + 1 .. Len(w) /\ (i + o + 1) - o + k = i + k + 1
    BY <1>1, <1>2
  <1>4. w[i + o + 1] = y[i + o + 1]
    BY <1>2, <1>3
  <1>5. \A j \in 1 .. i + o + 1 : j \in 1 .. i + o \/ j = i + o + 1
    OBVIOUS
  <1>6. \A j \in 1 .. i + o + 1 : w[j] = y[j]
    BY <1>2, <1>4, <1>5
  <1>7. i + o + 1 <= Len(w)
    BY <1>3
  <1> QED
    BY <1>2, <1>6, <1>7 DEF Agree

\* Each turn of the loop leaves less of b after the first issue.
LEMMA FixedCloser ==
  ASSUME NEW x \in Lines, NEW y \in Lines, NEW i \in Nat, IssueAt(x, y, i)
  PROVE  LET r == fixLines(x, y, i)
         IN  \/ r = Pair(x, y) \/ r.ok = FALSE \/ NoIssue(r.a, r.b)
             \/ \E j \in Nat : IssueAt(r.a, r.b, j) /\ Len(r.b) - j < Len(y) - i
  <1> DEFINE r == fixLines(x, y, i)
  <1>1. Len(x) \in Nat /\ Len(y) \in Nat
    BY LenProperties DEF Lines
  <1>2. \/ r = Panic
        \/ \E w \in Lines : r = Pair(w, y) /\ Agree(w, y, Len(y))
        \/ \E o \in Nat, k \in Nat, w \in Lines : Meet(x, y, i, o, k, w) /\ r = Pair(w, y)
        \/ \E o \in Nat, k \in Nat, w \in Lines : Meet(y, x, i, o, k, w) /\ r = Pair(x, w)
        \/ r = Pair(x, y)
    BY FixedIs
  <1> HIDE DEF r
  <1>3. CASE r = Panic
    BY <1>3, PairIs DEF r
  <1>4. ASSUME NEW w \in Lines, r = Pair(w, y), Agree(w, y, Len(y)) PROVE NoIssue(r.a, r.b)
    <2>1. NoIssue(w, y)
      BY <1>1, <1>4 DEF Agree, NoIssue
    <2> QED
      BY <1>4, <2>1, PairIs
  <1>5. ASSUME NEW o \in Nat, NEW k \in Nat, NEW w \in Lines, Meet(x, y, i, o, k, w),
               r = Pair(w, y)
        PROVE  NoIssue(r.a, r.b) \/ \E j \in Nat : IssueAt(r.a, r.b, j) /\ Len(r.b) - j < Len(y) - i
    <2>1. Agree(w, y, i + o + 1) /\ i + o + 1 \in Nat
      BY <1>5, MeetAgrees
    <2>2. NoIssue(w, y) \/ \E j \in Nat : i + o + 1 <= j /\ IssueAt(w, y, j)
      BY <2>1, IssueAfter
    <2>3. \A j \in Nat : i + o + 1 <= j => Len(y) - j < Len(y) - i
      BY <1>1
    <2> QED
      BY <1>5, <2>2, <2>3, PairIs
  <1>6. ASSUME NEW o \in Nat, NEW k \in Nat, NEW w \in Lines, Meet(y, x, i, o, k, w),
               r = Pair(x, w)
        PROVE  NoIssue(r.a, r.b) \/ \E j \in Nat : IssueAt(r.a, r.b, j) /\ Len(r.b) - j < Len(y) - i
    <2>1. Agree(x, w, i + o + 1) /\ i + o + 1 \in Nat /\ Len(w) = Len(y) + o - k
      BY <1>6, MeetAgrees
    <2>2. NoIssue(x, w) \/ \E j \in Nat : i + o + 1 <= j /\ IssueAt(x, w, j)
      BY <2>1, IssueAfter
    <2>3. \A j \in Nat : i + o + 1 <= j => Len(w) - j < Len(y) - i
      BY <1>1, <2>1
    <2> QED
      BY <1>6, <2>2, <2>3, PairIs
  <1> QED
    BY <1>2, <1>3, <1>4, <1>5, <1>6 DEF r

\* The loop of processOverlap ends: there is no issue left, or it cannot be fixed.
Ended(p) == \/ ~p.ok \/ NoIssue(p.a, p.b)
            \/ \E i \in Nat : IssueAt(p.a, p.b, i) /\ fixLines(p.a, p.b, i) = p

\* What each turn of the loop keeps, the loop keeps.
LEMMA LoopKeeps ==
  ASSUME NEW I \in SUBSET Pairs,
         \A p \in I, i \in Nat : p.ok /\ IssueAt(p.a, p.b, i) => fixLines(p.a, p.b, i) \in I
  PROVE  \A p \in I : resolved[p] \in I /\ Ended(resolved[p])
  <1> DEFINE done(p) == resolved[p] \in I /\ Ended(resolved[p])
             S == {n \in Nat : \A p \in I, i \in Nat :
                     p.ok /\ IssueAt(p.a, p.b, i) /\ Len(p.b) - i <= n => done(p)}
  <1>1. \A p \in I : /\ p \in Pairs /\ p.a \in Lines /\ p.b \in Lines
                     /\ Len(p.a) \in Nat /\ Len(p.b) \in Nat
                     /\ p.ok \in BOOLEAN /\ p.ok => p = Pair(p.a, p.b)
    BY PairIs, LenProperties DEF Lines
  <1>2. ASSUME NEW p \in I, ~p.ok \/ NoIssue(p.a, p.b) PROVE done(p)
    BY <1>1, <1>2, ResolvedStep DEF Ended
  <1>3. 0 \in S
    <2>1. \A p \in I, i \in Nat : ~(IssueAt(p.a, p.b, i) /\ Len(p.b) - i <= 0)
      BY <1>1 DEF IssueAt
    <2> HIDE DEF done
    <2> QED
      BY <2>1
  <1>4. ASSUME NEW n \in Nat, n \in S PROVE n + 1 \in S
    <2>1. ASSUME NEW p \in I, NEW i \in Nat, p.ok, IssueAt(p.a, p.b, i), Len(p.b) - i <= n + 1
          PROVE  done(p)
      <3> DEFINE r == fixLines(p.a, p.b, i)
      <3>1. r \in I /\ p = Pair(p.a, p.b)
        BY <1>1, <2>1
      <3>2. resolved[p] = IF r = p THEN p ELSE resolved[r]
        BY <1>1, <2>1, ResolvedStep
      <3>3. \/ r = Pair(p.a, p.b) \/ r.ok = FALSE \/ NoIssue(r.a, r.b)
            \/ \E j \in Nat : IssueAt(r.a, r.b, j) /\ Len(r.b) - j < Len(p.b) - i
        BY <1>1, <2>1, FixedCloser
      <3>4. CASE r = p
        BY <2>1, <3>2, <3>4 DEF Ended
      <3> HIDE DEF r, done
      <3>5. CASE r # p
        <4>1. done(r)
          <5>1. CASE r.ok = FALSE \/ NoIssue(r.a, r.b)
            BY <1>2, <3>1, <5>1
          <5>2. ASSUME r.ok, NEW j \in Nat, IssueAt(r.a, r.b, j), Len(r.b) - j < Len(p.b) - i
                PROVE  done(r)
            <6>1. Len(r.b) - j <= n
              BY <1>1, <2>1, <3>1, <5>2
            <6> QED
              BY <1>4, <3>1, <5>2, <6>1
          <5>3. r.ok \/ r.ok = FALSE
            BY <1>1, <3>1
          <5>4. r # Pair(p.a, p.b)
            BY <3>1, <3>5
          <5> QED
            BY <3>3, <5>1, <5>2, <5>3, <5>4
        <4> QED
          BY <3>2, <3>5, <4>1 DEF done
      <3> QED
        BY <3>4, <3>5
    <2> HIDE DEF done
    <2> QED
      BY <2>1
  <1> HIDE DEF S, done
  <1>5. Nat \subseteq S
    BY <1>3, <1>4, NatInductionSet
  <1>6. ASSUME NEW p \in I PROVE done(p)
    <2>1. NoIssue(p.a, p.b) \/ \E i \in Nat : IssueAt(p.a, p.b, i)
      BY <1>1, IssueIs
    <2>2. ASSUME p.ok, NEW i \in Nat, IssueAt(p.a, p.b, i) PROVE done(p)
      <3>1. Len(p.b) \in S /\ Len(p.b) - i <= Len(p.b)
        BY <1>1, <1>5
      <3> QED
        BY <2>2, <3>1 DEF S
    <2> QED
      BY <1>2, <2>1, <2>2
  <1> QED
    BY <1>6 DEF done

LEMMA ResolvedIs == \A p \in Pairs : resolved[p] \in Pairs /\ Ended(resolved[p])
  <1>1. \A p \in Pairs, i \in Nat :
          p.ok /\ IssueAt(p.a, p.b, i) => fixLines(p.a, p.b, i) \in Pairs
    BY FixedInPairs
  <1> QED
    BY <1>1, LoopKeeps

\* Where DedupAB answers at once, and what it asks handleIncompleteOverlap otherwise.
Settled(a, b) == a = <<>> \/ b = <<>> \/ noOverlap(a, b) \/ sameToEnd(a, b)

LEMMA SettledIs ==
  ASSUME NEW a \in Lines, NEW b \in Lines
  PROVE  /\ Settled(a, b) => /\ DedupAB(a, b) \in Pairs
                             /\ \A g : DedupABWith(g, a, b) = DedupAB(a, b)
         /\ ~Settled(a, b) => \A g : DedupABWith(g, a, b) = g[Pair(a, b)]
  <1> DEFINE f == findLineIndex(b[1], a)
  <1>1. ASSUME sameToEnd(a, b) PROVE Upto(a, f) \in Lines
    <2>1. f # -1
      BY <1>1 DEF sameToEnd
    <2>2. f = -1 \/ f \in 0 .. Len(a) - 1
      BY IndexIs
    <2> HIDE DEF f
    <2>3. f \in 0 .. Len(a) /\ a \in Seq(Nat)
      BY <2>1, <2>2, LenProperties DEF Lines
    <2> QED
      BY <2>3, UptoIs DEF Lines
  <1>2. CASE a = <<>> \/ b = <<>>
    BY <1>2, PairIs DEF Settled, DedupAB, DedupABWith
  <1>3. CASE a # <<>> /\ b # <<>> /\ noOverlap(a, b)
    BY <1>3, PairIs DEF Settled, DedupAB, DedupABWith
  <1>4. CASE a # <<>> /\ b # <<>> /\ ~noOverlap(a, b) /\ sameToEnd(a, b)
    <2>1. \A g : DedupABWith(g, a, b) = Pair(Upto(a, f), b)
      BY <1>4 DEF DedupABWith
    <2>2. Pair(Upto(a, f), b) \in Pairs
      BY <1>1, <1>4, PairIs
    <2> QED
      BY <1>4, <2>1, <2>2 DEF Settled, DedupAB
  <1>5. CASE a # <<>> /\ b # <<>> /\ ~noOverlap(a, b) /\ ~sameToEnd(a, b)
    BY <1>5 DEF Settled, DedupABWith
  <1> QED
    BY <1>2, <1>3, <1>4, <1>5

LEMMA AgainIs ==
  ASSUME NEW r \in Pairs, r.ok
  PROVE  /\ again(r) \in Pairs /\ again(r) = Pair(again(r).a, again(r).b)
         /\ NoIssue(r.a, r.b) => again(r) = r
         /\ \A i \in Nat : IssueAt(r.a, r.b, i) => again(r) = Pair(Upto(r.a, i), From(r.b, i))
  <1>1. r.a \in Lines /\ r.b \in Lines /\ r.a \in Seq(Nat) /\ r.b \in Seq(Nat)
    BY PairIs DEF Lines
  <1>2. ASSUME NoIssue(r.a, r.b) PROVE again(r) = r
    BY <1>1, <1>2, IssueUnique DEF again
  <1>3. ASSUME NEW i \in Nat, IssueAt(r.a, r.b, i)
        PROVE  /\ again(r) = Pair(Upto(r.a, i), From(r.b, i)) /\ again(r) \in Pairs
    <2>1. findFirstIssueIndex(r.a, r.b) = i /\ i # -1
      BY <1>1, <1>3, IssueUnique
    <2>2. again(r) = Pair(Upto(r.a, i), From(r.b, i))
      BY <2>1 DEF again
    <2>3. i \in 0 .. Len(r.a) /\ i \in 0 .. Len(r.b)
      BY <1>1, <1>3, LenProperties DEF IssueAt
    <2>4. Upto(r.a, i) \in Lines /\ From(r.b, i) \in Lines
      BY <1>1, <2>3, UptoIs, FromIs DEF Lines
    <2> QED
      BY <2>2, <2>4, PairIs
  <1>4. NoIssue(r.a, r.b) \/ \E i \in Nat : IssueAt(r.a, r.b, i)
    BY <1>1, IssueIs
  <1>5. again(r) \in Pairs /\ again(r).ok
    BY <1>2, <1>3, <1>4, PairIs
  <1> QED
    BY <1>2, <1>3, <1>5, PairIs

\* handleIncompleteOverlap de-duplicates what processOverlap makes of a pair again.
LEMMA HandleIs ==
  \A p \in Pairs :
    handleIncompleteOverlap[p] = IF ~resolved[p].ok THEN Panic
                                 ELSE DedupAB(again(resolved[p]).a, again(resolved[p]).b)
  <1> DEFINE split(p) == again(resolved[p])
             simple(g, p) == IF ~resolved[p].ok THEN Panic
                             ELSE DedupABWith(g, split(p).a, split(p).b)
             stop == {p \in Pairs : ~resolved[p].ok \/ Settled(split(p).a, split(p).b)}
             val == [p \in Pairs |-> IF p \in stop THEN simple(resolved, p) ELSE Panic]
             next == [p \in Pairs |-> IF p \in stop THEN p ELSE split(p)]
             body(g, p) == Once(resolved[p], LAMBDA r : IF ~r.ok THEN Panic
                                ELSE Once(again(r), LAMBDA d : DedupABWith(g, d.a, d.b)))
             Is(f) == f = [p \in Pairs |-> body(f, p)]
  <1>1. \A p \in Pairs : resolved[p].ok =>
          /\ split(p) \in Pairs /\ split(p) = Pair(split(p).a, split(p).b)
          /\ split(p).a \in Lines /\ split(p).b \in Lines
    <2>1. \A p \in Pairs : resolved[p] \in Pairs
      BY ResolvedIs
    <2>2. \A p \in Pairs : resolved[p].ok =>
            split(p) \in Pairs /\ split(p) = Pair(split(p).a, split(p).b)
      BY <2>1, AgainIs
    <2> HIDE DEF split
    <2> QED
      BY <2>2, PairIs
  <1>2. handleIncompleteOverlap = CHOOSE g : Is(g)
    BY DEF handleIncompleteOverlap
  <1>3. ASSUME NEW g, NEW p PROVE body(g, p) = simple(g, p)
    BY DEF Once
  <1> HIDE DEF body, split
  <1>4. \A p \in Pairs : p \in stop => /\ simple(resolved, p) \in Pairs
                                       /\ \A g : simple(g, p) = simple(resolved, p)
    <2>1. ASSUME NEW p \in Pairs, p \in stop
          PROVE  simple(resolved, p) \in Pairs /\ \A g : simple(g, p) = simple(resolved, p)
      <3>1. CASE ~resolved[p].ok
        BY <3>1, PairIs
      <3>2. CASE resolved[p].ok
        <4>1. split(p).a \in Lines /\ split(p).b \in Lines /\ Settled(split(p).a, split(p).b)
          BY <1>1, <2>1, <3>2
        <4>2. /\ DedupAB(split(p).a, split(p).b) \in Pairs
              /\ \A g : DedupABWith(g, split(p).a, split(p).b) = DedupAB(split(p).a, split(p).b)
          BY <4>1, SettledIs
        <4> QED
          BY <3>2, <4>2
      <3> QED
        BY <3>1, <3>2
    <2> HIDE DEF simple, stop
    <2> QED
      BY <2>1
  <1>5. \A p \in Pairs : p \notin stop => split(p) \in Pairs /\ \A g : simple(g, p) = g[split(p)]
    <2>1. ASSUME NEW p \in Pairs, p \notin stop
          PROVE  split(p) \in Pairs /\ \A g : simple(g, p) = g[split(p)]
      <3>1. /\ resolved[p].ok /\ split(p).a \in Lines /\ split(p).b \in Lines
            /\ ~Settled(split(p).a, split(p).b)
            /\ split(p) = Pair(split(p).a, split(p).b) /\ split(p) \in Pairs
        BY <1>1, <2>1
      <3>2. \A g : DedupABWith(g, split(p).a, split(p).b) = g[split(p)]
        BY <3>1, SettledIs
      <3> QED
        BY <3>1, <3>2
    <2> HIDE DEF simple, stop
    <2> QED
      BY <2>1
  <1> HIDE DEF simple
  <1>6. stop \in SUBSET Pairs /\ val \in [Pairs -> Pairs] /\ next \in [Pairs -> Pairs]
        /\ Panic \in Pairs
    BY <1>4, <1>5, PairIs
  <1>7. \A p \in Pairs : /\ p \in stop => val[p] = simple(resolved, p)
                         /\ p \notin stop => next[p] = split(p)
    OBVIOUS
  <1> HIDE DEF stop, val, next, Is
  <1>8. PICK f \in TailRecursion(Pairs, Pairs, stop, val, next) : TRUE
    BY <1>6, TailRecursionDefines
  <1>9. Is(f)
    <2>1. ASSUME NEW p \in Pairs PROVE f[p] = body(f, p)
      <3>1. f[p] = simple(f, p)
        BY <1>4, <1>5, <1>7, <1>8 DEF TailRecursion
      <3> QED
        BY <1>3, <3>1
    <2> QED
      BY <1>8, <2>1 DEF Is, TailRecursion
  <1>10. Is(handleIncompleteOverlap)
    BY <1>2, <1>9
  <1>11. ASSUME NEW p \in Pairs
         PROVE  handleIncompleteOverlap[p] = simple(handleIncompleteOverlap, p)
    <2>1. handleIncompleteOverlap[p] = body(handleIncompleteOverlap, p)
      BY <1>10 DEF Is
    <2> QED
      BY <1>3, <2>1
  <1> QED
    BY <1>11 DEF simple, split, DedupAB
-----------------------------------------------------------------------------
(***************************************************************************)
(* Two windows, whatever they miss                                         *)
(***************************************************************************)
\* A slice is in order from k on, or up to h.
RisesIn(x, k, h) == \A i, j \in k + 1 .. h : i < j => x[i] < x[j]
Rises(x, k) == \A i, j \in k + 1 .. Len(x) : i < j => x[i] < x[j]

\* Lines put into a slice that is in order, up to one both have, leave it in order.
LEMMA MeetRisesIn ==
  ASSUME NEW x \in Lines, NEW y \in Lines, NEW i \in Nat,
         NEW o \in Nat, NEW m \in Nat, NEW w, Meet(x, y, i, o, m, w),
         NEW j \in Nat, NEW n \in Nat, j <= i + m, i + m + 1 <= n, n <= Len(x), RisesIn(x, j, n),
         NEW k \in Nat, k <= i + o, RisesIn(y, k, i + o + 1)
  PROVE  RisesIn(w, k, n + o - m)
  <1>1. /\ Len(x) \in Nat /\ Len(y) \in Nat
        /\ \A l \in 1 .. Len(x) : x[l] \in Nat
        /\ \A l \in 1 .. Len(y) : y[l] \in Nat
    BY LenProperties, ElementOfSeq DEF Lines
  <1>2. /\ i + o + 1 <= Len(y) /\ i + m + 1 <= Len(x) /\ Len(w) = Len(x) + o - m
        /\ y[i + o + 1] = x[i + m + 1]
        /\ \A l \in 1 .. i + o : w[l] = y[l]
        /\ \A l \in i + o + 1 .. Len(w) : w[l] = x[l - o + m]
    BY <1>1 DEF Meet
  <1>3. ASSUME NEW p \in k + 1 .. n + o - m, NEW q \in k + 1 .. n + o - m, p < q
        PROVE  w[p] < w[q]
    <2>1. CASE q <= i + o
      <3>1. /\ p \in 1 .. i + o /\ q \in 1 .. i + o
            /\ p \in k + 1 .. i + o + 1 /\ q \in k + 1 .. i + o + 1
        BY <1>1, <1>2, <1>3, <2>1
      <3>2. w[p] = y[p] /\ w[q] = y[q]
        BY <1>2, <3>1
      <3> QED
        BY <1>3, <3>1, <3>2 DEF RisesIn
    <2>2. CASE p <= i + o /\ q > i + o
      <3>1. /\ p \in 1 .. i + o /\ p \in k + 1 .. i + o + 1 /\ i + o + 1 \in k + 1 .. i + o + 1
            /\ p < i + o + 1
            /\ q \in i + o + 1 .. Len(w)
            /\ i + m + 1 \in j + 1 .. n /\ q - o + m \in j + 1 .. n
            /\ i + m + 1 <= q - o + m
            /\ i + m + 1 \in 1 .. Len(x) /\ q - o + m \in 1 .. Len(x) /\ p \in 1 .. Len(y)
        BY <1>1, <1>2, <2>2, SMTT(20)
      <3>2. w[p] = y[p] /\ w[q] = x[q - o + m] /\ y[p] < x[i + m + 1]
        BY <1>2, <3>1 DEF RisesIn
      <3>3. x[i + m + 1] = x[q - o + m] \/ x[i + m + 1] < x[q - o + m]
        <4>1. i + m + 1 = q - o + m \/ i + m + 1 < q - o + m
          BY <3>1
        <4> QED
          BY <3>1, <4>1 DEF RisesIn
      <3>4. x[i + m + 1] \in Nat /\ x[q - o + m] \in Nat /\ y[p] \in Nat
        BY <1>1, <3>1
      <3>5. y[p] < x[q - o + m]
        <4>1. \A b, c, d \in Nat : d < b /\ (b = c \/ b < c) => d < c
          OBVIOUS
        <4> QED
          BY <3>2, <3>3, <3>4, <4>1
      <3> QED
        BY <3>2, <3>5
    <2>3. CASE p > i + o
      <3>1. /\ p \in i + o + 1 .. Len(w) /\ q \in i + o + 1 .. Len(w)
            /\ p - o + m \in j + 1 .. n /\ q - o + m \in j + 1 .. n
            /\ p - o + m < q - o + m
        BY <1>1, <1>2, <1>3, <2>3, SMTT(20)
      <3>2. w[p] = x[p - o + m] /\ w[q] = x[q - o + m]
        BY <1>2, <3>1
      <3> QED
        BY <3>1, <3>2 DEF RisesIn
    <2>4. q <= i + o \/ (p <= i + o /\ q > i + o) \/ p > i + o
      BY <1>3
    <2> QED
      BY <2>1, <2>2, <2>3, <2>4
  <1> QED
    BY <1>3 DEF RisesIn

LEMMA MeetRises ==
  ASSUME NEW x \in Lines, NEW y \in Lines, NEW i \in Nat,
         NEW o \in Nat, NEW m \in Nat, NEW w, Meet(x, y, i, o, m, w),
         NEW j \in Nat, j <= i + m, Rises(x, j), NEW k \in Nat, k <= i + o, RisesIn(y, k, i + o + 1)
  PROVE  Rises(w, k)
  <1> DEFINE n == Len(x)
  <1>1. n \in Nat /\ i + m + 1 <= n /\ n <= n /\ RisesIn(x, j, n) /\ Len(w) = n + o - m
    BY MeetAgrees, LenProperties DEF Lines, Rises, RisesIn
  <1>2. RisesIn(w, k, n + o - m)
    BY <1>1, MeetRisesIn
  <1> QED
    BY <1>1, <1>2 DEF Rises, RisesIn

LEMMA RisesLess ==
  ASSUME NEW x \in Lines, NEW k \in Nat, Rises(x, k), NEW h \in Nat, h <= Len(x)
  PROVE  RisesIn(x, k, h)
  BY LenProperties DEF Lines, Rises, RisesIn

\* Where the first line that differs is further on in the other slice, nothing is lost.
LEMMA MeetKeeps ==
  ASSUME NEW x \in Lines, NEW y \in Lines, NEW k \in Nat, NEW i \in Nat, k <= i,
         Agree(x, y, i), i < Len(x),
         NEW o \in Nat, NEW m \in Nat, NEW w, Meet(x, y, i, o, m, w), Rises(x, k), Rises(y, k),
         Ahead(x[i + 1], y, i)
  PROVE  ToSet(x) \subseteq ToSet(w)
  <1>1. /\ Len(x) \in Nat /\ Len(y) \in Nat
        /\ \A j \in 1 .. Len(x) : x[j] \in Nat
        /\ \A j \in 1 .. Len(y) : y[j] \in Nat
    BY LenProperties, ElementOfSeq DEF Lines
  <1>2. /\ i + o + 1 <= Len(y) /\ i + m + 1 <= Len(x) /\ Len(w) = Len(x) + o - m
        /\ y[i + o + 1] = x[i + m + 1]
        /\ \A j \in i + 1 .. i + o, l \in i + 1 .. Len(x) : y[j] # x[l]
        /\ \A j \in 1 .. i + o : w[j] = y[j]
        /\ \A j \in i + o + 1 .. Len(w) : w[j] = x[j - o + m]
        /\ w \in Lines
    BY <1>1 DEF Meet
  <1>3. m = 0
    <2> SUFFICES ASSUME m > 0 PROVE FALSE
      OBVIOUS
    <2>1. PICK j \in i + 1 .. Len(y) : y[j] = x[i + 1]
      BY DEF Ahead
    <2>2. ~(j \in i + 1 .. i + o)
      <3>1. i + 1 \in i + 1 .. Len(x)
        BY <1>1
      <3> QED
        BY <1>2, <2>1, <3>1
    <2>3. /\ i + 1 \in k + 1 .. Len(x) /\ i + m + 1 \in k + 1 .. Len(x) /\ i + 1 < i + m + 1
          /\ j \in k + 1 .. Len(y) /\ i + o + 1 \in k + 1 .. Len(y) /\ i + o + 1 <= j
          /\ i + 1 \in 1 .. Len(x) /\ i + o + 1 \in 1 .. Len(y) /\ j \in 1 .. Len(y)
      BY <1>1, <1>2, <2>1, <2>2, SMTT(20)
    <2>4. x[i + 1] < y[i + o + 1]
      BY <1>2, <2>3 DEF Rises
    <2>5. i + o + 1 = j \/ y[i + o + 1] < y[j]
      BY <2>3 DEF Rises
    <2>6. x[i + 1] \in Nat /\ y[i + o + 1] \in Nat /\ y[j] \in Nat
      BY <1>1, <2>3
    <2> QED
      BY <2>1, <2>4, <2>5, <2>6
  <1>4. ASSUME NEW l \in 1 .. Len(x) PROVE x[l] \in ToSet(w)
    <2>1. \A j \in 1 .. Len(w) : w[j] \in ToSet(w)
      BY <1>2, LenProperties DEF Lines, ToSet
    <2>2. CASE l <= i
      <3>1. l \in 1 .. i /\ l \in 1 .. i + o /\ l \in 1 .. Len(w)
        BY <1>1, <1>2, <1>3, <2>2
      <3>2. w[l] = x[l]
        BY <1>2, <3>1 DEF Agree
      <3> QED
        BY <2>1, <3>1, <3>2
    <2>3. CASE l > i
      <3>1. l + o \in i + o + 1 .. Len(w) /\ l + o \in 1 .. Len(w) /\ (l + o) - o + m = l
        BY <1>1, <1>2, <1>3, <2>3
      <3>2. w[l + o] = x[l]
        BY <1>2, <3>1
      <3> QED
        BY <2>1, <3>1, <3>2
    <2> QED
      BY <2>2, <2>3
  <1> QED
    BY <1>4, LenProperties DEF ToSet, Lines

\* Two slices that have a line in common.
Joint(x, y) == \E i \in 1 .. Len(x), j \in 1 .. Len(y) : x[i] = y[j]

\* Two slices that DedupAB has to merge have a line in common.
LEMMA Overlapping ==
  ASSUME NEW a \in Lines, NEW b \in Lines, ~Settled(a, b)
  PROVE  Joint(a, b)
  <1> DEFINE f == findLineIndex(b[1], a)
             l == findLineIndex(Last(a), b)
  <1>1. Len(a) \in Nat \ {0} /\ Len(b) \in Nat \ {0}
    BY LenProperties, EmptySeq DEF Lines, Settled
  <1>2. /\ f = -1 \/ (f \in 0 .. Len(a) - 1 /\ a[f + 1] = b[1])
        /\ l = -1 \/ (l \in 0 .. Len(b) - 1 /\ b[l + 1] = Last(a))
    BY IndexIs
  <1>3. f # -1 \/ l # -1
    BY DEF Settled, noOverlap
  <1> HIDE DEF f, l
  <1>4. ASSUME f # -1 PROVE Joint(a, b)
    <2>1. PICK k \in 0 .. Len(a) - 1 : a[k + 1] = b[1]
      BY <1>2, <1>4
    <2>2. k + 1 \in 1 .. Len(a) /\ 1 \in 1 .. Len(b)
      BY <1>1
    <2> QED
      BY <2>1, <2>2 DEF Joint
  <1>5. ASSUME l # -1 PROVE Joint(a, b)
    <2>1. PICK k \in 0 .. Len(b) - 1 : b[k + 1] = a[Len(a)]
      BY <1>2, <1>5 DEF Last
    <2>2. k + 1 \in 1 .. Len(b) /\ Len(a) \in 1 .. Len(a)
      BY <1>1
    <2> QED
      BY <2>1, <2>2 DEF Joint
  <1> QED
    BY <1>3, <1>4, <1>5

\* What the loop makes of two such slices that agree up to k and are in order from there.
InOrderFrom(v, z, k) ==
  Joint(v, z) /\ Rises(z, k) /\ (NoIssue(v, z) \/ (Agree(v, z, k) /\ Rises(v, k)))

LEMMA AgreeLess ==
  ASSUME NEW x \in Lines, NEW y \in Lines, NEW m \in Nat, Agree(x, y, m),
         NEW k \in Nat, k <= m
  PROVE  Agree(x, y, k) /\ Agree(y, x, m) /\ (m > 0 => Joint(x, y))
  <1>1. /\ m <= Len(x) /\ m <= Len(y) /\ \A j \in 1 .. m : x[j] = y[j]
        /\ Len(x) \in Nat /\ Len(y) \in Nat
    BY LenProperties DEF Agree, Lines
  <1>2. \A j \in 1 .. k : j \in 1 .. m
    OBVIOUS
  <1>3. ASSUME m > 0 PROVE Joint(x, y)
    <2>1. 1 \in 1 .. Len(x) /\ 1 \in 1 .. Len(y) /\ 1 \in 1 .. m
      BY <1>1, <1>3
    <2> QED
      BY <1>1, <2>1 DEF Joint
  <1> QED
    BY <1>1, <1>2, <1>3 DEF Agree

LEMMA InOrderFixed ==
  ASSUME NEW x \in Lines, NEW y \in Lines, NEW k \in Nat, NEW i \in Nat, IssueAt(x, y, i),
         Agree(x, y, k), Rises(x, k), Rises(y, k), Joint(x, y)
  PROVE  \E v \in Lines, z \in Lines :
           /\ fixLines(x, y, i) = Pair(v, z) /\ (v # x \/ z # y)
           /\ InOrderFrom(v, z, k) /\ ToSet(y) \subseteq ToSet(z)
  <1> DEFINE r == fixLines(x, y, i)
             Good(v, z) == /\ v # x \/ z # y
                           /\ InOrderFrom(v, z, k) /\ ToSet(y) \subseteq ToSet(z)
  <1>1. /\ Len(x) \in Nat /\ Len(y) \in Nat /\ i < Len(x) /\ i < Len(y)
        /\ x[i + 1] # y[i + 1] /\ Agree(x, y, i) /\ Agree(y, x, i)
        /\ i + 1 \in 1 .. Len(x) /\ i + 1 \in 1 .. Len(y)
        /\ \A j \in 1 .. Len(x) : x[j] \in Nat
        /\ \A j \in 1 .. Len(y) : y[j] \in Nat
    <2>1. Len(x) \in Nat /\ Len(y) \in Nat
      BY LenProperties DEF Lines
    <2>2. /\ i < Len(x) /\ i < Len(y) /\ x[i + 1] # y[i + 1] /\ Agree(x, y, i)
      BY DEF IssueAt
    <2>3. Agree(y, x, i)
      BY <2>2 DEF Agree
    <2>4. i + 1 \in 1 .. Len(x) /\ i + 1 \in 1 .. Len(y)
      BY <2>1, <2>2
    <2>5. /\ \A j \in 1 .. Len(x) : x[j] \in Nat
          /\ \A j \in 1 .. Len(y) : y[j] \in Nat
      BY ElementOfSeq DEF Lines
    <2> QED
      BY <2>1, <2>2, <2>3, <2>4, <2>5
  <1>2. k <= i
    <2> SUFFICES ASSUME i < k PROVE FALSE
      OBVIOUS
    <2>1. i + 1 \in 1 .. k
      OBVIOUS
    <2> QED
      BY <1>1, <2>1 DEF Agree
  <1>3. /\ k + 1 <= i + 1 /\ \A o \in Nat : k <= i + o + 1 /\ i + 1 \in 1 .. i + o + 1 /\ i + o + 1 > 0
    BY <1>2
  <1>4. ~(Disjoint(x, y, i) /\ i = 0)
    <2> SUFFICES ASSUME Disjoint(x, y, i), i = 0 PROVE FALSE
      OBVIOUS
    <2>1. PICK j \in 1 .. Len(x), l \in 1 .. Len(y) : x[j] = y[l]
      BY DEF Joint
    <2>2. j \in i + 1 .. Len(x) /\ l \in i + 1 .. Len(y)
      OBVIOUS
    <2> QED
      BY <2>1, <2>2 DEF Disjoint
  <1>5. ASSUME NEW w \in Lines, Agree(w, y, Len(y)) PROVE Good(w, y)
    <2>1. w # x
      BY <1>1, <1>5 DEF Agree
    <2>2. NoIssue(w, y)
      BY <1>1, <1>5 DEF Agree, NoIssue
    <2>3. Joint(w, y)
      BY <1>1, <1>5, AgreeLess
    <2> QED
      BY <2>1, <2>2, <2>3 DEF InOrderFrom
  <1>6. ASSUME NEW o \in Nat, NEW m \in Nat, NEW w \in Lines, Meet(x, y, i, o, m, w)
        PROVE  Good(w, y)
    <2>1. Agree(w, y, i + o + 1) /\ Rises(w, k) /\ i + o + 1 \in Nat
      <3>1. Agree(w, y, i + o + 1) /\ i + o + 1 <= Len(y) /\ i + o + 1 \in Nat
        BY <1>6, MeetAgrees
      <3>2. RisesIn(y, k, i + o + 1) /\ k <= i + m /\ k <= i + o
        BY <1>2, <3>1, RisesLess
      <3> QED
        BY <1>6, <3>1, <3>2, MeetRises
    <2>2. Joint(w, y) /\ Agree(w, y, k)
      BY <1>3, <2>1, AgreeLess
    <2>3. w # x
      BY <1>1, <1>3, <2>1 DEF Agree
    <2> QED
      BY <2>1, <2>2, <2>3 DEF InOrderFrom
  <1>7. ASSUME NEW o \in Nat, NEW m \in Nat, NEW w \in Lines, Meet(y, x, i, o, m, w),
               Ahead(y[i + 1], x, i)
        PROVE  Good(x, w)
    <2>1. Agree(x, w, i + o + 1) /\ Rises(w, k) /\ i + o + 1 \in Nat
      <3>1. Agree(x, w, i + o + 1) /\ i + o + 1 <= Len(x) /\ i + o + 1 \in Nat
        BY <1>7, MeetAgrees
      <3>2. RisesIn(x, k, i + o + 1) /\ k <= i + m /\ k <= i + o
        BY <1>2, <3>1, RisesLess
      <3> QED
        BY <1>7, <3>1, <3>2, MeetRises
    <2>2. Joint(x, w) /\ Agree(x, w, k)
      BY <1>3, <2>1, AgreeLess
    <2>3. w # y
      BY <1>1, <1>3, <2>1 DEF Agree
    <2>4. ToSet(y) \subseteq ToSet(w)
      BY <1>1, <1>2, <1>7, MeetKeeps
    <2> QED
      BY <2>1, <2>2, <2>3, <2>4 DEF InOrderFrom
  <1>8. ~(Ahead(y[i + 1], x, i) /\ Ahead(x[i + 1], y, i))
    <2> SUFFICES ASSUME Ahead(y[i + 1], x, i), Ahead(x[i + 1], y, i) PROVE FALSE
      OBVIOUS
    <2>1. PICK j \in i + 1 .. Len(x) : x[j] = y[i + 1]
      BY DEF Ahead
    <2>2. PICK l \in i + 1 .. Len(y) : y[l] = x[i + 1]
      BY DEF Ahead
    <2>3. j # i + 1 /\ l # i + 1
      BY <1>1, <2>1, <2>2
    <2>4. /\ j \in k + 1 .. Len(x) /\ i + 1 \in k + 1 .. Len(x) /\ i + 1 < j
          /\ l \in k + 1 .. Len(y) /\ i + 1 \in k + 1 .. Len(y) /\ i + 1 < l
      BY <1>1, <1>2, <2>1, <2>2, <2>3
    <2>5. x[i + 1] < y[i + 1] /\ y[i + 1] < x[i + 1]
      BY <2>1, <2>2, <2>4 DEF Rises
    <2> QED
      BY <1>1, <2>5
  <1> HIDE DEF Good
  <1>9. \E v \in Lines, z \in Lines : r = Pair(v, z) /\ Good(v, z)
    <2>1. \/ /\ ~Ahead(y[i + 1], x, i)
             /\ \/ Disjoint(x, y, i) /\ i = 0 /\ r = Panic
                \/ /\ Disjoint(x, y, i) /\ i > 0
                   /\ \E w \in Lines : r = Pair(w, y) /\ Agree(w, y, Len(y))
                \/ \E o \in Nat, m \in Nat, w \in Lines :
                     o > 0 /\ Meet(x, y, i, o, m, w) /\ r = Pair(w, y)
          \/ /\ Ahead(y[i + 1], x, i) /\ ~Ahead(x[i + 1], y, i)
             /\ \E o \in Nat, m \in Nat, w \in Lines :
                  o > 0 /\ Meet(y, x, i, o, m, w) /\ r = Pair(x, w)
          \/ Ahead(y[i + 1], x, i) /\ Ahead(x[i + 1], y, i) /\ r = Pair(x, y)
      BY FixedIs
    <2> HIDE DEF r
    <2>2. \/ \E w \in Lines : r = Pair(w, y) /\ Agree(w, y, Len(y))
          \/ \E o \in Nat, m \in Nat, w \in Lines : Meet(x, y, i, o, m, w) /\ r = Pair(w, y)
          \/ \E o \in Nat, m \in Nat, w \in Lines :
               Ahead(y[i + 1], x, i) /\ Meet(y, x, i, o, m, w) /\ r = Pair(x, w)
      BY <1>4, <1>8, <2>1
    <2> QED
      BY <1>5, <1>6, <1>7, <2>2
  <1> QED
    BY <1>9 DEF Good

\* The loop resolves two such slices, and b loses no line.
LEMMA InOrderResolved ==
  ASSUME NEW x \in Lines, NEW y \in Lines, NEW k \in Nat,
         Agree(x, y, k), Rises(x, k), Rises(y, k), Joint(x, y)
  PROVE  \E v \in Lines, z \in Lines :
           /\ resolved[Pair(x, y)] = Pair(v, z) /\ NoIssue(v, z) /\ Joint(v, z)
           /\ Rises(z, k) /\ ToSet(y) \subseteq ToSet(z)
  <1> DEFINE I == {p \in Pairs : p.ok /\ InOrderFrom(p.a, p.b, k) /\ ToSet(y) \subseteq ToSet(p.b)}
             q == resolved[Pair(x, y)]
  <1>1. ASSUME NEW p \in I, NEW i \in Nat, IssueAt(p.a, p.b, i)
        PROVE  fixLines(p.a, p.b, i) \in I /\ fixLines(p.a, p.b, i) # p
    <2>1. /\ p \in Pairs /\ p = Pair(p.a, p.b) /\ p.a \in Lines /\ p.b \in Lines
          /\ InOrderFrom(p.a, p.b, k) /\ ToSet(y) \subseteq ToSet(p.b)
      BY PairIs
    <2>2. ~NoIssue(p.a, p.b)
      BY <1>1, <2>1, IssueOrNone
    <2>3. Agree(p.a, p.b, k) /\ Rises(p.a, k) /\ Rises(p.b, k) /\ Joint(p.a, p.b)
      BY <2>1, <2>2 DEF InOrderFrom
    <2>4. PICK v \in Lines, z \in Lines :
            /\ fixLines(p.a, p.b, i) = Pair(v, z) /\ (v # p.a \/ z # p.b)
            /\ InOrderFrom(v, z, k) /\ ToSet(p.b) \subseteq ToSet(z)
      BY <1>1, <2>1, <2>3, InOrderFixed
    <2>5. Pair(v, z) \in I
      BY <2>1, <2>4, PairIs
    <2>6. Pair(v, z) # p
      BY <2>4, PairIs
    <2> HIDE DEF I
    <2> QED
      BY <2>4, <2>5, <2>6
  <1>2. Pair(x, y) \in I
    BY PairIs DEF InOrderFrom
  <1>3. \A p \in I : p \in Pairs /\ p.ok /\ InOrderFrom(p.a, p.b, k) /\ ToSet(y) \subseteq ToSet(p.b)
    OBVIOUS
  <1>4. I \in SUBSET Pairs
    OBVIOUS
  <1> HIDE DEF I
  <1>5. q \in I /\ Ended(q)
    BY <1>1, <1>2, <1>4, LoopKeeps
  <1> HIDE DEF q
  <1>6. q = Pair(q.a, q.b) /\ q.a \in Lines /\ q.b \in Lines /\ q.ok
    BY <1>3, <1>5, PairIs
  <1>7. NoIssue(q.a, q.b)
    BY <1>1, <1>5, <1>6 DEF Ended
  <1> QED
    BY <1>3, <1>5, <1>6, <1>7 DEF InOrderFrom, q

\* Two slices without an issue start with the same line, and b goes on where a does.
LEMMA SameStart ==
  ASSUME NEW v \in Lines, NEW z \in Lines, NoIssue(v, z), Joint(v, z)
  PROVE  DedupAB(v, z) = Pair(<<>>, z) /\ z # <<>>
  <1> DEFINE f == findLineIndex(z[1], v)
             t == From(v, 0)
             u == Upto(v, 0)
  <1>1. /\ Len(v) \in Nat /\ Len(z) \in Nat /\ 1 \in 1 .. Len(v) /\ 1 \in 1 .. Len(z)
        /\ v \in Seq(Nat) /\ z \in Seq(Nat)
    BY LenProperties DEF Joint, Lines
  <1>2. v # <<>> /\ z # <<>>
    BY <1>1
  <1>3. v[1] = z[1]
    BY <1>1 DEF NoIssue
  <1>4. f = 0
    <2>1. \/ f = -1 /\ \A j \in 1 .. Len(v) : v[j] # z[1]
          \/ /\ f \in 0 .. Len(v) - 1 /\ v[f + 1] = z[1]
             /\ \A j \in 1 .. f : v[j] # z[1]
      BY IndexIs
    <2> HIDE DEF f
    <2>2. ~(f \in 1 .. Len(v) - 1)
      <3> SUFFICES ASSUME f \in 1 .. Len(v) - 1 PROVE FALSE
        OBVIOUS
      <3>1. 1 \in 1 .. f
        BY <1>1
      <3> QED
        BY <1>3, <2>1, <3>1
    <2> QED
      BY <1>1, <1>3, <2>1, <2>2
  <1> HIDE DEF f
  <1>5. /\ t \in Lines /\ Len(t) = Len(v) /\ \A i \in 1 .. Len(v) : t[i] = v[i]
        /\ u \in Lines /\ Len(u) = 0
    <2>1. 0 \in 0 .. Len(v) /\ Len(v) - 0 = Len(v) /\ \A i \in 1 .. Len(v) : 0 + i = i
      BY <1>1
    <2>2. /\ t \in Seq(Nat) /\ Len(t) = Len(v) - 0 /\ \A i \in 1 .. Len(v) - 0 : t[i] = v[0 + i]
      BY <1>1, <2>1, FromIs
    <2>3. u \in Seq(Nat) /\ Len(u) = 0
      BY <1>1, <2>1, UptoIs
    <2> HIDE DEF t, u
    <2> QED
      BY <2>1, <2>2, <2>3 DEF Lines
  <1>6. u = <<>>
    <2> HIDE DEF u
    <2> QED
      BY <1>5, EmptySeq DEF Lines
  <1>7. NoIssue(t, z)
    <2> HIDE DEF t
    <2> QED
      BY <1>5 DEF NoIssue
  <1>8. findFirstIssueIndex(t, z) = -1
    BY <1>5, <1>7, IssueUnique
  <1> HIDE DEF t, u
  <1>9. ~noOverlap(v, z) /\ sameToEnd(v, z)
    BY <1>4, <1>8 DEF noOverlap, sameToEnd, f, t
  <1>10. DedupAB(v, z) = Pair(Upto(v, findLineIndex(z[1], v)), z)
    BY <1>2, <1>9 DEF DedupAB, DedupABWith
  <1> QED
    BY <1>2, <1>4, <1>6, <1>10 DEF f, u

LEMMA InOrderHandled ==
  ASSUME NEW x \in Lines, NEW y \in Lines, NEW k \in Nat,
         Agree(x, y, k), Rises(x, k), Rises(y, k), Joint(x, y)
  PROVE  \E z \in Lines :
           /\ handleIncompleteOverlap[Pair(x, y)] = Pair(<<>>, z)
           /\ z # <<>> /\ Rises(z, k) /\ ToSet(y) \subseteq ToSet(z)
  <1> DEFINE p == Pair(x, y)
             q == resolved[p]
  <1>1. PICK v \in Lines, z \in Lines :
          /\ q = Pair(v, z) /\ NoIssue(v, z) /\ Joint(v, z)
          /\ Rises(z, k) /\ ToSet(y) \subseteq ToSet(z)
    BY InOrderResolved
  <1>2. p \in Pairs /\ q \in Pairs
    BY PairIs, ResolvedIs
  <1> HIDE DEF p, q
  <1>3. q.ok /\ q.a = v /\ q.b = z
    BY <1>1, PairIs
  <1>4. again(q) = q
    BY <1>1, <1>2, <1>3, AgainIs
  <1>5. handleIncompleteOverlap[p] = DedupAB(v, z)
    BY <1>2, <1>3, <1>4, HandleIs DEF q
  <1> QED
    BY <1>1, <1>5, SameStart DEF p

\* What DedupAB makes of two windows: a is kept whole, as it does not overlap b; or up to
\* the first line of b; or all of it is merged into b.
Unjoined(a, b) == b[1] \notin ToSet(a) /\ Last(a) \notin ToSet(b)

LeftOf(a, b, u, z) ==
  \/ u = a /\ z = b /\ Unjoined(a, b)
  \/ \E k \in 0 .. Len(a) - 1 : u = Upto(a, k) /\ z = b /\ a[k + 1] = b[1]
  \/ u = <<>>

LEMMA TwoWindows ==
  ASSUME NEW a \in Lines, NEW b \in Lines, a # <<>>, b # <<>>, Increasing(a), Increasing(b)
  PROVE  \E u \in Lines, z \in Lines :
           /\ DedupAB(a, b) = Pair(u, z)
           /\ z # <<>> /\ Increasing(z) /\ ToSet(b) \subseteq ToSet(z)
           /\ LeftOf(a, b, u, z)
  <1> DEFINE f == findLineIndex(b[1], a)
             l == findLineIndex(Last(a), b)
  <1>1. /\ Len(a) \in Nat \ {0} /\ Len(b) \in Nat \ {0} /\ a \in Seq(Nat) /\ b \in Seq(Nat)
        /\ ToSet(a) = {a[i] : i \in 1 .. Len(a)} /\ ToSet(b) = {b[i] : i \in 1 .. Len(b)}
    BY LenProperties, EmptySeq DEF Lines, ToSet
  <1>2. /\ \/ f = -1 /\ \A j \in 1 .. Len(a) : a[j] # b[1]
           \/ f \in 0 .. Len(a) - 1 /\ a[f + 1] = b[1]
        /\ \/ l = -1 /\ \A j \in 1 .. Len(b) : b[j] # Last(a)
           \/ l \in 0 .. Len(b) - 1 /\ b[l + 1] = Last(a)
    BY IndexIs
  <1> HIDE DEF f, l
  <1>3. CASE noOverlap(a, b)
    <2>1. f = -1 /\ l = -1
      BY <1>3 DEF noOverlap, f, l
    <2>2. Unjoined(a, b)
      BY <1>1, <1>2, <2>1 DEF Unjoined
    <2>3. DedupAB(a, b) = Pair(a, b)
      BY <1>3 DEF DedupAB, DedupABWith
    <2> QED
      BY <2>2, <2>3 DEF LeftOf
  <1>4. CASE ~noOverlap(a, b) /\ sameToEnd(a, b)
    <2>1. f # -1
      BY <1>4 DEF sameToEnd, f
    <2>2. PICK k \in 0 .. Len(a) - 1 : k = f /\ a[k + 1] = b[1]
      BY <1>2, <2>1
    <2>3. DedupAB(a, b) = Pair(Upto(a, k), b)
      BY <1>4, <2>2 DEF DedupAB, DedupABWith, f
    <2>4. k \in 0 .. Len(a)
      BY <1>1
    <2>5. Upto(a, k) \in Lines
      BY <1>1, <2>4, UptoIs DEF Lines
    <2> QED
      BY <2>2, <2>3, <2>5 DEF LeftOf
  <1>5. CASE ~noOverlap(a, b) /\ ~sameToEnd(a, b)
    <2>1. DedupAB(a, b) = handleIncompleteOverlap[Pair(a, b)]
      BY <1>5 DEF DedupAB, DedupABWith
    <2>2. Joint(a, b)
      BY <1>5, Overlapping DEF Settled
    <2>3. \A x \in Lines : Increasing(x) <=> Rises(x, 0)
      <3>1. 0 + 1 = 1
        OBVIOUS
      <3> QED
        BY <3>1 DEF Increasing, Rises
    <2>4. Agree(a, b, 0)
      BY <1>1 DEF Agree
    <2>5. PICK z \in Lines :
            /\ handleIncompleteOverlap[Pair(a, b)] = Pair(<<>>, z)
            /\ z # <<>> /\ Rises(z, 0) /\ ToSet(b) \subseteq ToSet(z)
      BY <2>2, <2>3, <2>4, InOrderHandled
    <2>6. <<>> \in Lines
      BY EmptySeq DEF Lines
    <2> QED
      BY <2>1, <2>3, <2>5, <2>6 DEF LeftOf
  <1> QED
    BY <1>3, <1>4, <1>5
-----------------------------------------------------------------------------
(***************************************************************************)
(* Windows in any order                                                    *)
(***************************************************************************)
Slices == [i \in DOMAIN windows |-> Slice(windows[i], i)]

LEMMA WindowsSorted ==
  ASSUME WindowsInv
  PROVE  LET n == Len(windows)
             s == sortedSlices(Slices)
         IN  /\ n \in Nat /\ Len(Slices) = n /\ Len(s) = n
             /\ \E place \in [1 .. n -> 1 .. n] :
                  /\ \A k \in 1 .. n : s[k].lines = windows[place[k]]
                  /\ \A k \in 1 .. n : \E j \in 1 .. n : place[j] = k
                  /\ \A j, k \in 1 .. n :
                       j < k => /\ place[j] # place[k]
                                /\ ~Before(windows[place[k]], windows[place[j]])
  <1> DEFINE n == Len(windows)
             P == 1 .. n
             from(i) == startOf(Slices[i])
             to(i) == endOf(Slices[i])
             before(i, j) == from(i) < from(j) \/ (from(i) = from(j) /\ to(i) < to(j))
             less == {p \in P \X P : before(p[1], p[2])}
             s == Sorted(Slices, less)
  <1>1. n \in Nat /\ DOMAIN windows = P
    BY LenProperties DEF WindowsInv
  <1>2. \A i \in P : windows[i] \in Lines /\ windows[i] # <<>> /\ Increasing(windows[i])
    BY ElementOfSeq DEF WindowsInv
  <1>3. \A i \in P : Slices[i] \in LineSlice /\ Slices[i].lines = windows[i]
    <2> TAKE i \in P
    <2>1. Slices[i] = [lines |-> windows[i], generation |-> i] /\ i \in Nat
      BY <1>1 DEF Slices, Slice
    <2>2. windows[i] \in Lines
      BY <1>2
    <2> QED
      BY <2>1, <2>2 DEF LineSlice
  <1>4. Slices \in Seq(LineSlice) /\ Len(Slices) = n
    <2>1. Slices \in [P -> LineSlice]
      <3>1. \A i \in P : [j \in P |-> Slice(windows[j], j)][i] = Slices[i]
        BY <1>1 DEF Slices
      <3> QED
        BY <1>1, <1>3 DEF Slices
    <2> QED
      BY <1>1, <2>1, EvaluatedFunction
  <1>5. \A i \in P : /\ from(i) = Head(windows[i]) /\ to(i) = Last(windows[i])
                     /\ from(i) \in Nat /\ to(i) \in Nat
    <2> TAKE i \in P
    <2> DEFINE w == windows[i]
    <2>1. w \in Lines /\ w # <<>> /\ Slices[i].lines = w
      BY <1>2, <1>3
    <2> HIDE DEF w
    <2>2. from(i) = Head(w) /\ to(i) = Last(w)
      BY <2>1 DEF startOf, endOf
    <2>3. Len(w) \in 1 .. Len(w) /\ 1 \in 1 .. Len(w) /\ w \in Seq(Nat)
      BY <2>1, LenProperties, EmptySeq DEF Lines
    <2>4. Head(w) \in Nat /\ w[Len(w)] \in Nat
      BY <2>1, <2>3, ElementOfSeq, HeadTailProperties
    <2> QED
      BY <2>2, <2>4 DEF Last, w
  <1> HIDE DEF P, from, to
  <1>6. \A i, j \in P : <<i, j>> \in less <=> before(i, j)
    OBVIOUS
  <1>7. IsLess(n, less)
    <2>1. \A i, j \in P : before(i, j) => ~before(j, i)
      BY <1>5
    <2>2. \A i, j, k \in P : before(i, k) => before(i, j) \/ before(j, k)
      BY <1>5
    <2> HIDE DEF less, before
    <2> QED
      BY <1>6, <2>1, <2>2 DEF IsLess, P
  <1>8. sortedSlices(Slices) = s
    BY <1>4 DEF sortedSlices, from, to, P
  <1> HIDE DEF less
  <1>9. PICK place \in [P -> P] :
          /\ Len(s) = n
          /\ \A k \in P : s[k] = Slices[place[k]]
          /\ \A k \in P : \E j \in P : place[j] = k
          /\ \A j, k \in P : j < k => place[j] # place[k] /\ <<place[k], place[j]>> \notin less
    <2>1. Slices \in Seq(LineSlice) /\ P = 1 .. Len(Slices) /\ IsLess(Len(Slices), less)
      BY <1>4, <1>7 DEF P
    <2> HIDE DEF n, P
    <2>2. /\ Len(s) = Len(Slices)
          /\ \E place \in [1 .. Len(Slices) -> 1 .. Len(Slices)] :
               /\ \A k \in 1 .. Len(Slices) : s[k] = Slices[place[k]]
               /\ \A k \in 1 .. Len(Slices) : \E j \in 1 .. Len(Slices) : place[j] = k
               /\ \A j, k \in 1 .. Len(Slices) :
                    j < k => place[j] # place[k] /\ <<place[k], place[j]>> \notin less
      BY <2>1, SortedIs
    <2> HIDE DEF s
    <2> QED
      BY <1>4, <2>1, <2>2
  <1> HIDE DEF s, n
  <1>10. \A j, k \in P : j < k => ~Before(windows[place[k]], windows[place[j]])
    <2>1. \A i, j \in P : before(i, j) <=> Before(windows[i], windows[j])
      BY <1>5 DEF Before
    <2> HIDE DEF before
    <2> QED
      BY <1>6, <1>9, <2>1
  <1>11. \A k \in P : s[k].lines = windows[place[k]]
    BY <1>3, <1>9
  <1>12. \E pl \in [P -> P] :
           /\ \A k \in P : s[k].lines = windows[pl[k]]
           /\ \A k \in P : \E j \in P : pl[j] = k
           /\ \A j, k \in P : j < k => pl[j] # pl[k] /\ ~Before(windows[pl[k]], windows[pl[j]])
    <2>1. \A j, k \in P :
            j < k => place[j] # place[k] /\ ~Before(windows[place[k]], windows[place[j]])
      BY <1>9, <1>10
    <2>2. \A k \in P : \E j \in P : place[j] = k
      BY <1>9
    <2> QED
      BY <1>11, <2>1, <2>2, Zenon
  <1> QED
    BY <1>1, <1>4, <1>8, <1>9, <1>12 DEF P, n

\* Of two or three slices, what the recursion over those before the last two is.
LEMMA KeptAfterFew ==
  ASSUME NEW s, Len(s) \in 2 .. 3, NEW last
  PROVE  LET base == [ok |-> last.ok, kept |-> last.a, reference |-> last.a \o last.b]
         IN  /\ keptAfter(s, last)[0] = base
             /\ Len(s) = 3 => keptAfter(s, last)[1] = dedupAgainst(s[1].lines, base)
  <1> DEFINE base == [ok |-> last.ok, kept |-> last.a, reference |-> last.a \o last.b]
             m == Len(s) - 2
             body(f, k) == IF k = 0 THEN base
                           ELSE Once(f[k - 1], LAMBDA later :
                                       dedupAgainst(s[Len(s) - 1 - k].lines, later))
             Is(f) == f = [k \in 0 .. m |-> body(f, k)]
             first == dedupAgainst(s[1].lines, base)
             g == [k \in 0 .. m |-> IF k = 0 THEN base ELSE first]
             after == keptAfter(s, last)
  <1>1. after = CHOOSE f : Is(f)
    BY DEF keptAfter
  <1>2. m \in 0 .. 1 /\ 0 \in 0 .. m /\ (Len(s) = 3 => 1 \in 0 .. m /\ Len(s) - 1 - 1 = 1)
        /\ \A k \in 0 .. m : k = 0 \/ (k = 1 /\ Len(s) = 3)
    <2>1. PICK n \in 2 .. 3 : Len(s) = n
      OBVIOUS
    <2>2. m = n - 2
      BY <2>1
    <2> HIDE DEF m
    <2>3. CASE n = 2
      BY <2>1, <2>2, <2>3
    <2>4. CASE n = 3
      BY <2>1, <2>2, <2>4
    <2> QED
      BY <2>3, <2>4
  <1>3. ASSUME NEW f, Len(s) = 3, f[0] = base PROVE body(f, 1) = first
    <2>1. 1 - 1 = 0 /\ Len(s) - 1 - 1 = 1
      BY <1>3
    <2>2. body(f, 1) = Once(f[1 - 1], LAMBDA later : dedupAgainst(s[Len(s) - 1 - 1].lines, later))
      OBVIOUS
    <2>3. body(f, 1) = dedupAgainst(s[Len(s) - 1 - 1].lines, f[1 - 1])
      <3> HIDE DEF body, base, first
      <3> QED
        BY <2>2 DEF Once
    <2> HIDE DEF body, base
    <2> QED
      BY <1>3, <2>1, <2>3
  <1>4. \A f : body(f, 0) = base
    OBVIOUS
  <1> HIDE DEF body, base, first, m, after
  <1>5. Is(g)
    <2>1. g[0] = base /\ (Len(s) = 3 => g[1] = first)
      BY <1>2
    <2>2. \A k \in 0 .. m : g[k] = body(g, k)
      BY <1>2, <1>3, <1>4, <2>1
    <2> QED
      BY <2>2
  <1> HIDE DEF Is, g
  <1>6. Is(after)
    BY <1>1, <1>5
  <1>7. \A k \in 0 .. m : after[k] = body(after, k)
    BY <1>6 DEF Is
  <1>8. after[0] = base
    BY <1>2, <1>4, <1>7
  <1>9. Len(s) = 3 => after[1] = first
    BY <1>2, <1>3, <1>7, <1>8
  <1> QED
    BY <1>8, <1>9 DEF base, first, after

\* The result of two or more slices, by the last two of them and by all.
LEMMA ResultIs ==
  ASSUME WindowsInv, Len(windows) >= 2
  PROVE  LET s == sortedSlices(Slices)
             n == Len(windows)
             last == DedupAB(s[n - 1].lines, s[n].lines)
             all == keptAfter(s, last)[n - 2]
         IN  /\ Result.ok = all.ok /\ Result.result.lines = all.kept
             /\ Result.last.lines = last.b
  <1> DEFINE s == sortedSlices(Slices)
             n == Len(windows)
             last == DedupAB(s[n - 1].lines, s[n].lines)
             all == keptAfter(s, last)[n - 2]
  <1>1. n \in Nat /\ Len(Slices) = n /\ Len(s) = n
    BY WindowsSorted
  <1>2. Result = dedupLastTwo(s)
    <2>1. Result = Once(s, dedupLastTwo)
      BY <1>1 DEF Result, DedupLineSlices, Slices
    <2> HIDE DEF s
    <2> QED
      BY <2>1 DEF Once
  <1> HIDE DEF s
  <1>3. dedupLastTwo(s) = dedupSorted(s, last)
    BY <1>1 DEF dedupLastTwo, Once
  <1> HIDE DEF last
  <1>4. dedupSorted(s, last) = [ok |-> all.ok, result |-> Slice(all.kept, s[n - 1].generation),
                                last |-> Slice(last.b, s[n].generation)]
    BY <1>1 DEF dedupSorted, Once
  <1>5. /\ Result.ok = all.ok /\ Result.result.lines = all.kept /\ Result.last.lines = last.b
    BY <1>2, <1>3, <1>4 DEF Slice
  <1> QED
    BY <1>5 DEF s, last

\* The window that starts last keeps all its lines, whatever the windows miss: those the
\* one before it has and it has not are put in, and none is taken out (DedupAB,
\* dedup.go:152-176, and fixLines, dedup.go:77-107).
THEOREM LatestKept == Spec => []LatestWindowKept
  <1>1. ASSUME WindowsInv, NEW w \in Windows, \A v \in Windows : v = w \/ Before(v, w)
        PROVE  ToSet(w) \subseteq ToSet(Result.last.lines)
    <2> DEFINE n == Len(windows)
               s == sortedSlices(Slices)
    <2>1. PICK place \in [1 .. n -> 1 .. n] :
            /\ n \in Nat /\ Len(Slices) = n /\ Len(s) = n
            /\ \A k \in 1 .. n : s[k].lines = windows[place[k]]
            /\ \A k \in 1 .. n : \E j \in 1 .. n : place[j] = k
            /\ \A j, k \in 1 .. n :
                 j < k => place[j] # place[k] /\ ~Before(windows[place[k]], windows[place[j]])
      BY <1>1, WindowsSorted
    <2>2. /\ Windows = {windows[i] : i \in 1 .. n}
          /\ \A i \in 1 .. n : /\ windows[i] \in Windows /\ windows[i] \in Lines
                               /\ windows[i] # <<>> /\ Increasing(windows[i])
      BY <1>1, LenProperties, ElementOfSeq DEF Windows, ToSet, WindowsInv
    <2> HIDE DEF s
    <2>3. PICK i \in 1 .. n : w = windows[i]
      BY <2>2
    <2>4. n \in 1 .. n /\ \A j \in 1 .. n : j = n \/ j < n
      BY <2>1
    <2>5. s[n].lines = w
      <3>1. PICK j \in 1 .. n : place[j] = i
        BY <2>1
      <3>2. CASE j = n
        BY <2>1, <2>3, <3>1, <3>2
      <3>3. CASE j < n
        <4>1. ~Before(windows[place[n]], w) /\ windows[place[n]] \in Windows
          BY <2>1, <2>2, <2>3, <2>4, <3>1, <3>3
        <4> QED
          BY <1>1, <2>1, <2>4, <4>1
      <3> QED
        BY <2>4, <3>2, <3>3
    <2>6. CASE n = 1
      <3>1. Result = [ok |-> TRUE, result |-> Slice(<<>>, 0), last |-> Slices[1]]
        BY <2>1, <2>6 DEF Result, DedupLineSlices, Slices
      <3>2. Slices[1].lines = windows[1]
        <4>1. 1 \in DOMAIN windows
          BY <1>1, <2>6, LenProperties DEF WindowsInv
        <4> QED
          BY <4>1 DEF Slices, Slice
      <3>3. i = 1
        BY <2>6
      <3> QED
        BY <2>3, <3>1, <3>2, <3>3
    <2>7. CASE n >= 2
      <3> DEFINE v == s[n - 1].lines
                 last == DedupAB(v, s[n].lines)
      <3>1. Result.last.lines = last.b
        BY <1>1, <2>7, ResultIs, SMTT(30) DEF s
      <3>2. n - 1 \in 1 .. n
        BY <2>7
      <3>3. v \in Lines /\ v # <<>> /\ Increasing(v) /\ w \in Lines /\ w # <<>> /\ Increasing(w)
        <4>1. v = windows[place[n - 1]] /\ place[n - 1] \in 1 .. n
          BY <2>1, <3>2
        <4> HIDE DEF v, last, n
        <4> QED
          BY <2>2, <2>3, <4>1
      <3> HIDE DEF v
      <3>4. PICK u \in Lines, z \in Lines : last = Pair(u, z) /\ ToSet(w) \subseteq ToSet(z)
        BY <2>5, <3>3, TwoWindows
      <3> QED
        BY <3>1, <3>4, PairIs
    <2>8. n = 1 \/ n >= 2
      <3>1. n \in Nat /\ n # 0
        BY <2>1, <2>4
      <3> HIDE DEF n
      <3> QED
        BY <3>1
    <2> QED
      BY <2>6, <2>7, <2>8, Zenon
  <1>2. WindowsInv => LatestWindowKept
    BY <1>1 DEF LatestWindowKept
  <1> QED
    BY <1>2, WindowsAreInOrder, PTL

\* Two windows, one of which holds an end of the other, are merged in order.
LEMMA MergedInOrder ==
  ASSUME NEW v \in Lines, NEW w \in Lines, v # <<>>, w # <<>>, Increasing(v), Increasing(w),
         ~Unjoined(v, w)
  PROVE  \E u \in Lines, z \in Lines :
           /\ DedupAB(v, w) = Pair(u, z)
           /\ z # <<>> /\ Increasing(z) /\ Increasing(u \o z) /\ ToSet(w) \subseteq ToSet(z)
  <1>1. PICK u \in Lines, z \in Lines :
          /\ DedupAB(v, w) = Pair(u, z)
          /\ z # <<>> /\ Increasing(z) /\ ToSet(w) \subseteq ToSet(z)
          /\ LeftOf(v, w, u, z)
    BY TwoWindows
  <1>2. ASSUME u = <<>> PROVE Increasing(u \o z)
    <2>1. u \o z = z
      BY <1>2, ConcatEmptySeq DEF Lines
    <2> QED
      BY <1>1, <2>1
  <1>3. ASSUME NEW k \in 0 .. Len(v) - 1, u = Upto(v, k), z = w, v[k + 1] = w[1]
        PROVE  Increasing(u \o z)
    <2>1. /\ Len(v) \in Nat /\ k \in Nat /\ k \in 0 .. Len(v) /\ k + 1 \in 1 .. Len(v)
          /\ \A i \in 1 .. k : i \in 1 .. Len(v) /\ i < k + 1
          /\ v \in Seq(Nat)
      BY LenProperties DEF Lines
    <2>2. /\ Len(u) = k /\ \A i \in 1 .. k : u[i] = v[i]
          /\ ToSet(u) = {u[i] : i \in 1 .. k}
      <3>1. Len(u) = k /\ \A i \in 1 .. k : u[i] = v[i]
        BY <1>3, <2>1, UptoIs
      <3>2. DOMAIN u = 1 .. Len(u)
        BY LenProperties DEF Lines
      <3> QED
        BY <3>1, <3>2 DEF ToSet
    <2>3. Increasing(u)
      BY <2>1, <2>2 DEF Increasing
    <2>4. \A i \in 1 .. k : u[i] < w[1] /\ u[i] \in Nat
      BY <1>3, <2>1, <2>2, ElementOfSeq DEF Increasing
    <2>5. \A y \in ToSet(w) : y \in Nat /\ w[1] <= y /\ w[1] \in Nat
      BY IncreasingFrom
    <2>6. \A x \in ToSet(u), y \in ToSet(w) : x < y
      BY <2>2, <2>4, <2>5
    <2> QED
      BY <1>3, <2>3, <2>6, ConcatIncreasing
  <1>4. Increasing(u \o z)
    BY <1>1, <1>2, <1>3 DEF LeftOf
  <1> QED
    BY <1>1, <1>4

\* Two windows, one of which holds an end of the other, come out in order and without a
\* line repeated, whatever they miss (handleIncompleteOverlap, dedup.go:138-149).
THEOREM OverlapsInOrder == Spec => []OverlapInOrder
  <1>1. ASSUME WindowsInv, Len(windows) = 2, NEW v \in Windows, NEW w \in Windows, Before(v, w),
               Head(w) \in ToSet(v) \/ Last(v) \in ToSet(w)
        PROVE  IsAscending(Output)
    <2> DEFINE s == sortedSlices(Slices)
               last == DedupAB(v, w)
    <2>1. PICK place \in [1 .. 2 -> 1 .. 2] :
            /\ Len(s) = 2
            /\ \A k \in 1 .. 2 : s[k].lines = windows[place[k]]
            /\ \A k \in 1 .. 2 : \E j \in 1 .. 2 : place[j] = k
            /\ \A j, k \in 1 .. 2 :
                 j < k => place[j] # place[k] /\ ~Before(windows[place[k]], windows[place[j]])
      BY <1>1, WindowsSorted
    <2>2. /\ Windows = {windows[i] : i \in 1 .. 2}
          /\ \A i \in 1 .. 2 : /\ windows[i] \in Lines
                               /\ windows[i] # <<>> /\ Increasing(windows[i])
      BY <1>1, LenProperties, ElementOfSeq DEF Windows, ToSet, WindowsInv
    <2> HIDE DEF s
    <2>3. PICK i \in 1 .. 2, j \in 1 .. 2 : v = windows[place[i]] /\ w = windows[place[j]]
      BY <2>1, <2>2
    <2>4. v \in Lines /\ v # <<>> /\ Increasing(v) /\ w \in Lines /\ w # <<>> /\ Increasing(w)
      BY <2>2
    <2>5. v # w
      <3>1. /\ Head(v) \in Nat /\ Last(v) \in Nat
        <4>1. Len(v) \in 1 .. Len(v) /\ v \in Seq(Nat)
          BY <2>4, LenProperties, EmptySeq DEF Lines
        <4> QED
          BY <2>4, <4>1, ElementOfSeq, HeadTailProperties DEF Last
      <3> QED
        BY <1>1, <3>1 DEF Before
    <2>6. i < j
      <3>1. i # j
        BY <2>3, <2>5
      <3>2. ~(j < i)
        BY <1>1, <2>1, <2>3
      <3> QED
        BY <3>1, <3>2
    <2>7. s[1].lines = v /\ s[2].lines = w
      <3>1. i = 1 /\ j = 2
        BY <2>6
      <3> QED
        BY <2>1, <2>3, <3>1
    <2>8. /\ Result.result.lines = keptAfter(s, last)[0].kept /\ Result.last.lines = last.b
      <3>1. 2 - 2 = 0 /\ 2 - 1 = 1 /\ Len(windows) >= 2
        BY <1>1
      <3> QED
        BY <1>1, <2>7, <3>1, ResultIs DEF s
    <2>9. keptAfter(s, last)[0] = [ok |-> last.ok, kept |-> last.a, reference |-> last.a \o last.b]
      <3>1. Len(s) \in 2 .. 3
        BY <2>1
      <3> HIDE DEF last
      <3> QED
        BY <3>1, KeptAfterFew
    <2>10. ~Unjoined(v, w)
      <3>1. Head(w) = w[1]
        BY <2>4, IncreasingFrom
      <3> QED
        BY <1>1, <3>1 DEF Unjoined
    <2>11. PICK u \in Lines, z \in Lines : last = Pair(u, z) /\ Increasing(u \o z)
      BY <2>4, <2>10, MergedInOrder
    <2> HIDE DEF last
    <2>12. Output = u \o z
      <3>1. keptAfter(s, last)[0].kept = last.a
        BY <2>9
      <3>2. last.a = u /\ last.b = z
        BY <2>11, PairIs
      <3> QED
        BY <2>8, <3>1, <3>2 DEF Output
    <2>13. u \o z \in Seq(Nat)
      BY ConcatProperties DEF Lines
    <2> DEFINE r == u \o z
    <2>14. Len(r) \in Nat
      BY <2>13, LenProperties
    <2> HIDE DEF r
    <2>15. \A k \in 1 .. Len(r) - 1 : k \in 1 .. Len(r) /\ k + 1 \in 1 .. Len(r) /\ k < k + 1
      BY <2>14
    <2> QED
      BY <2>11, <2>12, <2>15 DEF IsAscending, Increasing, r
  <1>2. WindowsInv => OverlapInOrder
    BY <1>1 DEF OverlapInOrder
  <1> QED
    BY <1>2, WindowsAreInOrder, PTL
-----------------------------------------------------------------------------
(***************************************************************************)
(* Three windows: no index runs out of range                               *)
(***************************************************************************)
\* Both are in order from where they no longer need to agree.
Sorts(x, y, k) == Agree(x, y, k) /\ Rises(x, k) /\ Rises(y, k) /\ Joint(x, y)

\* b is two slices in order, one after the other, and does not start with a line a has
\* further on.
Halves(x, y, h) ==
  /\ h <= Len(y) /\ Rises(x, 0) /\ RisesIn(y, 0, h) /\ Rises(y, h) /\ Joint(x, y)
  /\ x[1] = y[1] \/ x[1] \notin ToSet(y)

\* What the loop keeps of a slice against one of the two kinds.
Mergeable(x, y) ==
  /\ Joint(x, y)
  /\ NoIssue(x, y) \/ \E k \in Nat : Sorts(x, y, k) \/ Halves(x, y, k)

\* A line of the first half is further on in a: either the second half goes on before it, or
\* a has lines that are put before it.
LEMMA MeetHalves ==
  ASSUME NEW x \in Lines, NEW y \in Lines, NEW h \in Nat, Halves(x, y, h),
         NEW i \in Nat, i < h, i < Len(x), Agree(x, y, i), Ahead(y[i + 1], x, i),
         NEW o \in Nat, NEW m \in Nat, NEW w, Meet(y, x, i, o, m, w)
  PROVE  Rises(w, 0) \/ (h + o <= Len(w) /\ RisesIn(w, 0, h + o) /\ Rises(w, h + o))
  <1>1. /\ Len(x) \in Nat /\ Len(y) \in Nat /\ h <= Len(y)
        /\ \A l \in 1 .. Len(x) : x[l] \in Nat
        /\ \A l \in 1 .. Len(y) : y[l] \in Nat
        /\ Rises(x, 0) /\ RisesIn(y, 0, h) /\ Rises(y, h)
    BY LenProperties, ElementOfSeq DEF Lines, Halves
  <1>2. /\ i + o + 1 <= Len(x) /\ i + m + 1 <= Len(y) /\ Len(w) = Len(y) + o - m
        /\ x[i + o + 1] = y[i + m + 1]
        /\ \A l \in i + 1 .. i + o, j \in i + 1 .. Len(y) : x[l] # y[j]
        /\ \A l \in i + 1 .. i + m : y[l] # x[i + o + 1]
        /\ w \in Lines
        /\ \A l \in i + o + 1 .. Len(w) : w[l] = y[l - o + m]
    BY <1>1, SMTT(20) DEF Meet
  <1>3. PICK j \in i + 1 .. Len(x) : x[j] = y[i + 1]
    BY DEF Ahead
  <1>4. j >= i + o + 1
    <2> SUFFICES ASSUME j \in i + 1 .. i + o PROVE FALSE
      BY <1>1
    <2>1. i + 1 \in i + 1 .. Len(y)
      BY <1>1
    <2> QED
      BY <1>2, <1>3, <2>1
  <1>5. RisesIn(x, 0, i + o + 1)
    BY <1>1, <1>2, RisesLess
  <1>6. CASE i + m >= h
    <2>1. Rises(w, 0)
      BY <1>1, <1>5, <1>6, MeetRises
    <2> QED
      BY <2>1
  <1>7. CASE i + m < h
    <2>1. m = 0
      <3> SUFFICES ASSUME m > 0 PROVE FALSE
        OBVIOUS
      <3>1. /\ i + 1 \in 0 + 1 .. h /\ i + m + 1 \in 0 + 1 .. h /\ i + 1 < i + m + 1
            /\ j \in 0 + 1 .. Len(x) /\ i + o + 1 \in 0 + 1 .. Len(x)
            /\ j \in 1 .. Len(x) /\ i + o + 1 \in 1 .. Len(x) /\ i + 1 \in 1 .. Len(y)
        BY <1>1, <1>2, <1>4, <1>7
      <3>2. y[i + 1] < x[i + o + 1]
        BY <1>1, <1>2, <3>1 DEF RisesIn
      <3>3. x[i + o + 1] = x[j] \/ x[i + o + 1] < x[j]
        <4>1. i + o + 1 = j \/ i + o + 1 < j
          BY <1>4
        <4> QED
          BY <1>1, <3>1, <4>1 DEF Rises
      <3>4. x[j] \in Nat /\ x[i + o + 1] \in Nat /\ y[i + 1] \in Nat
        BY <1>1, <3>1
      <3>5. \A b, c, d \in Nat : ~(d < b /\ (b = c \/ b < c) /\ c = d)
        OBVIOUS
      <3> QED
        BY <1>3, <3>2, <3>3, <3>4, <3>5
    <2>2. RisesIn(w, 0, h + o - m)
      <3>1. i + m + 1 <= h /\ 0 <= i + m /\ 0 <= i + o
        BY <1>7
      <3> QED
        BY <1>1, <1>5, <3>1, MeetRisesIn
    <2>3. h + o - m = h + o /\ h + o <= Len(w)
      BY <1>1, <1>2, <2>1
    <2>4. ASSUME NEW p \in h + o + 1 .. Len(w), NEW q \in h + o + 1 .. Len(w), p < q
          PROVE  w[p] < w[q]
      <3>1. /\ p \in i + o + 1 .. Len(w) /\ q \in i + o + 1 .. Len(w)
            /\ p - o + m \in h + 1 .. Len(y) /\ q - o + m \in h + 1 .. Len(y)
            /\ p - o + m < q - o + m
        BY <1>1, <1>2, <2>1, <2>4
      <3>2. w[p] = y[p - o + m] /\ w[q] = y[q - o + m]
        BY <1>2, <3>1
      <3> QED
        BY <1>1, <3>1, <3>2 DEF Rises
    <2> QED
      BY <2>2, <2>3, <2>4 DEF Rises
  <1> QED
    BY <1>6, <1>7

\* What the loop makes of a slice against two halves, up to an issue in the first half that
\* it cannot fix: then the two agree on some lines before it.
LEMMA HalvesFixed ==
  ASSUME NEW x \in Lines, NEW y \in Lines, NEW h \in Nat, Halves(x, y, h),
         NEW i \in Nat, IssueAt(x, y, i), i < h
  PROVE  /\ \E v \in Lines, z \in Lines : fixLines(x, y, i) = Pair(v, z) /\ Mergeable(v, z)
         /\ fixLines(x, y, i) = Pair(x, y) => i > 0
  <1> DEFINE r == fixLines(x, y, i)
             Good(v, z) == Mergeable(v, z) /\ (v = x /\ z = y => i > 0)
  <1>1. /\ Len(x) \in Nat /\ Len(y) \in Nat /\ i < Len(x) /\ i < Len(y)
        /\ x[i + 1] # y[i + 1] /\ Agree(x, y, i) /\ Agree(y, x, i)
        /\ i + 1 \in 1 .. Len(x) /\ i + 1 \in 1 .. Len(y)
    BY LenProperties DEF Lines, IssueAt, Agree
  <1>2. /\ h <= Len(y) /\ Rises(x, 0) /\ RisesIn(y, 0, h) /\ Rises(y, h) /\ Joint(x, y)
        /\ x[1] = y[1] \/ x[1] \notin ToSet(y)
    BY DEF Halves
  <1>3. \A o \in Nat : i + o + 1 \in Nat /\ i + o + 1 > 0 /\ 1 \in 1 .. i + o + 1
                       /\ i + 1 \in 1 .. i + o + 1
    OBVIOUS
  <1>4. ~(Disjoint(x, y, i) /\ i = 0)
    <2> SUFFICES ASSUME Disjoint(x, y, i), i = 0 PROVE FALSE
      OBVIOUS
    <2>1. PICK j \in 1 .. Len(x), l \in 1 .. Len(y) : x[j] = y[l]
      BY <1>2 DEF Joint
    <2>2. j \in i + 1 .. Len(x) /\ l \in i + 1 .. Len(y)
      OBVIOUS
    <2> QED
      BY <2>1, <2>2 DEF Disjoint
  <1>5. ASSUME NEW w \in Lines, Agree(w, y, Len(y)) PROVE Good(w, y)
    <2>1. w # x
      BY <1>1, <1>5 DEF Agree
    <2>2. NoIssue(w, y)
      BY <1>1, <1>5 DEF Agree, NoIssue
    <2>3. Joint(w, y)
      BY <1>1, <1>5, AgreeLess
    <2> QED
      BY <2>1, <2>2, <2>3 DEF Mergeable
  <1>6. ASSUME NEW o \in Nat, NEW m \in Nat, NEW w \in Lines, Meet(x, y, i, o, m, w)
        PROVE  Good(w, y)
    <2>1. Agree(w, y, i + o + 1) /\ i + o + 1 <= Len(y) /\ 0 <= i + m /\ 0 <= i + o
      BY <1>6, MeetAgrees
    <2>2. Joint(w, y) /\ w[1] = y[1] /\ w # x
      <3>1. Joint(w, y)
        BY <1>3, <2>1, AgreeLess
      <3>2. \A j \in 1 .. i + o + 1 : w[j] = y[j]
        BY <2>1 DEF Agree
      <3> QED
        BY <1>1, <1>3, <3>1, <3>2
    <2>3. CASE i + o + 1 <= h
      <3>1. RisesIn(y, 0, i + o + 1)
        BY <1>2, <2>3 DEF RisesIn
      <3>2. Rises(w, 0)
        BY <1>2, <1>6, <2>1, <3>1, MeetRises
      <3>3. Halves(w, y, h)
        BY <1>2, <2>2, <3>2 DEF Halves
      <3> QED
        BY <2>2, <3>3 DEF Mergeable
    <2>4. CASE ~(i + o + 1 <= h)
      <3>1. h <= i + o /\ h <= i + o + 1
        BY <2>4
      <3>2. RisesIn(y, h, i + o + 1)
        BY <1>2, <1>3, <2>1, RisesLess
      <3>3. Rises(w, h)
        BY <1>2, <1>6, <2>1, <3>1, <3>2, MeetRises
      <3>4. Agree(w, y, h)
        BY <1>3, <2>1, <3>1, AgreeLess
      <3>5. Sorts(w, y, h)
        BY <1>2, <2>2, <3>3, <3>4 DEF Sorts
      <3> QED
        BY <2>2, <3>5 DEF Mergeable
    <2> QED
      BY <2>3, <2>4
  <1>7. ASSUME NEW o \in Nat, NEW m \in Nat, NEW w \in Lines, Meet(y, x, i, o, m, w),
               Ahead(y[i + 1], x, i)
        PROVE  Good(x, w)
    <2>1. Agree(x, w, i + o + 1)
      BY <1>7, MeetAgrees
    <2>2. Joint(x, w) /\ x[1] = w[1] /\ w # y /\ Agree(x, w, 0)
      BY <1>1, <1>3, <2>1, AgreeLess DEF Agree
    <2>3. Rises(w, 0) \/ (h + o <= Len(w) /\ RisesIn(w, 0, h + o) /\ Rises(w, h + o))
      BY <1>1, <1>7, MeetHalves
    <2>4. h + o \in Nat
      OBVIOUS
    <2>5. Sorts(x, w, 0) \/ Halves(x, w, h + o)
      BY <1>2, <2>2, <2>3 DEF Sorts, Halves
    <2> QED
      BY <2>2, <2>4, <2>5 DEF Mergeable
  <1>8. ASSUME Ahead(x[i + 1], y, i) PROVE Good(x, y)
    <2>1. i > 0
      <3> SUFFICES ASSUME i = 0 PROVE FALSE
        OBVIOUS
      <3>1. PICK j \in 1 .. Len(y) : y[j] = x[1]
        BY <1>8 DEF Ahead
      <3>2. DOMAIN y = 1 .. Len(y)
        BY LenProperties DEF Lines
      <3>3. x[1] \in ToSet(y)
        BY <3>1, <3>2 DEF ToSet
      <3> QED
        BY <1>1, <1>2, <3>3
    <2> QED
      BY <1>2, <2>1 DEF Mergeable
  <1> HIDE DEF Good
  <1>9. \E v \in Lines, z \in Lines : r = Pair(v, z) /\ Good(v, z)
    <2>1. \/ /\ ~Ahead(y[i + 1], x, i)
             /\ \/ Disjoint(x, y, i) /\ i = 0 /\ r = Panic
                \/ /\ Disjoint(x, y, i) /\ i > 0
                   /\ \E w \in Lines : r = Pair(w, y) /\ Agree(w, y, Len(y))
                \/ \E o \in Nat, m \in Nat, w \in Lines :
                     o > 0 /\ Meet(x, y, i, o, m, w) /\ r = Pair(w, y)
          \/ /\ Ahead(y[i + 1], x, i) /\ ~Ahead(x[i + 1], y, i)
             /\ \E o \in Nat, m \in Nat, w \in Lines :
                  o > 0 /\ Meet(y, x, i, o, m, w) /\ r = Pair(x, w)
          \/ Ahead(y[i + 1], x, i) /\ Ahead(x[i + 1], y, i) /\ r = Pair(x, y)
      BY FixedIs
    <2> HIDE DEF r
    <2>2. \/ \E w \in Lines : r = Pair(w, y) /\ Agree(w, y, Len(y))
          \/ \E o \in Nat, m \in Nat, w \in Lines : Meet(x, y, i, o, m, w) /\ r = Pair(w, y)
          \/ \E o \in Nat, m \in Nat, w \in Lines :
               Ahead(y[i + 1], x, i) /\ Meet(y, x, i, o, m, w) /\ r = Pair(x, w)
          \/ Ahead(x[i + 1], y, i) /\ r = Pair(x, y)
      BY <1>4, <2>1
    <2> QED
      BY <1>5, <1>6, <1>7, <1>8, <2>2
  <1> QED
    <2>1. PICK v \in Lines, z \in Lines : r = Pair(v, z) /\ Good(v, z)
      BY <1>9
    <2>2. ASSUME r = Pair(x, y) PROVE v = x /\ z = y
      <3>1. Pair(v, z) = Pair(x, y)
        BY <2>1, <2>2
      <3>2. Pair(v, z).a = v /\ Pair(v, z).b = z /\ Pair(x, y).a = x /\ Pair(x, y).b = y
        BY PairIs
      <3> QED
        BY <3>1, <3>2
    <2> QED
      BY <2>1, <2>2 DEF Good

\* The loop ends without an issue, or at one in the first half.
LEMMA MergeableResolved ==
  ASSUME NEW x \in Lines, NEW y \in Lines, Mergeable(x, y)
  PROVE  \E v \in Lines, z \in Lines :
           /\ resolved[Pair(x, y)] = Pair(v, z)
           /\ \/ NoIssue(v, z) /\ Joint(v, z)
              \/ \E h \in Nat, i \in Nat : Halves(v, z, h) /\ IssueAt(v, z, i) /\ 0 < i /\ i < h
  <1> DEFINE I == {p \in Pairs : p.ok /\ Mergeable(p.a, p.b)}
             q == resolved[Pair(x, y)]
             Stuck(p, h, i) == Halves(p.a, p.b, h) /\ IssueAt(p.a, p.b, i) /\ i < h
  <1>1. \A p \in I : /\ p \in Pairs /\ p = Pair(p.a, p.b) /\ p.a \in Lines /\ p.b \in Lines
                     /\ p.ok /\ Mergeable(p.a, p.b)
    BY PairIs
  <1>2. ASSUME NEW v \in Lines, NEW z \in Lines, Mergeable(v, z) PROVE Pair(v, z) \in I
    BY <1>2, PairIs
  <1>3. Pair(x, y) \in I /\ I \in SUBSET Pairs
    BY <1>2
  <1> HIDE DEF I
  <1>4. ASSUME NEW p \in I, NEW i \in Nat, IssueAt(p.a, p.b, i)
        PROVE  \/ fixLines(p.a, p.b, i) \in I /\ fixLines(p.a, p.b, i) # p
               \/ \E h \in Nat : Stuck(p, h, i)
    <2>1. ~NoIssue(p.a, p.b)
      BY <1>1, <1>4, IssueOrNone
    <2>2. Agree(p.a, p.b, i)
      BY <1>4 DEF IssueAt
    <2>3. ASSUME NEW k \in Nat, Sorts(p.a, p.b, k)
          PROVE  fixLines(p.a, p.b, i) \in I /\ fixLines(p.a, p.b, i) # p
      <3>1. PICK v \in Lines, z \in Lines :
              /\ fixLines(p.a, p.b, i) = Pair(v, z) /\ (v # p.a \/ z # p.b)
              /\ InOrderFrom(v, z, k)
        BY <1>1, <1>4, <2>3, InOrderFixed DEF Sorts
      <3>2. Mergeable(v, z)
        BY <3>1 DEF InOrderFrom, Mergeable, Sorts
      <3>3. Pair(v, z) # p
        BY <3>1, PairIs
      <3> QED
        BY <1>2, <3>1, <3>2, <3>3
    <2>4. ASSUME NEW h \in Nat, Halves(p.a, p.b, h), h <= i PROVE Sorts(p.a, p.b, h)
      <3>1. Agree(p.a, p.b, h)
        BY <1>1, <2>2, <2>4, AgreeLess
      <3>2. Rises(p.a, h)
        BY <1>1, <2>4, LenProperties DEF Halves, Rises, Lines
      <3> QED
        BY <2>4, <3>1, <3>2 DEF Sorts, Halves
    <2>5. \E k \in Nat : Sorts(p.a, p.b, k) \/ (Halves(p.a, p.b, k) /\ (k <= i \/ i < k))
      BY <1>1, <2>1 DEF Mergeable
    <2> QED
      BY <1>4, <2>3, <2>4, <2>5
  <1>5. ASSUME NEW p \in I, NEW i \in Nat, NEW h \in Nat, Stuck(p, h, i)
        PROVE  fixLines(p.a, p.b, i) \in I /\ (fixLines(p.a, p.b, i) = p => i > 0)
    <2>1. /\ \E v \in Lines, z \in Lines : fixLines(p.a, p.b, i) = Pair(v, z) /\ Mergeable(v, z)
          /\ fixLines(p.a, p.b, i) = Pair(p.a, p.b) => i > 0
      BY <1>1, <1>5, HalvesFixed
    <2> QED
      BY <1>1, <1>2, <2>1
  <1>6. \A p \in I, i \in Nat : p.ok /\ IssueAt(p.a, p.b, i) => fixLines(p.a, p.b, i) \in I
    BY <1>4, <1>5
  <1>7. q \in I /\ Ended(q)
    BY <1>3, <1>6, LoopKeeps
  <1> HIDE DEF q
  <1>8. q = Pair(q.a, q.b) /\ q.a \in Lines /\ q.b \in Lines /\ q.ok /\ Joint(q.a, q.b)
    BY <1>1, <1>7 DEF Mergeable
  <1>9. NoIssue(q.a, q.b) \/ \E h \in Nat, i \in Nat : Stuck(q, h, i) /\ 0 < i
    <2>1. ASSUME NEW i \in Nat, IssueAt(q.a, q.b, i), fixLines(q.a, q.b, i) = q
          PROVE  \E h \in Nat : Stuck(q, h, i) /\ 0 < i
      <3>1. PICK h \in Nat : Stuck(q, h, i)
        BY <1>4, <1>7, <2>1
      <3> QED
        BY <1>5, <1>7, <2>1, <3>1
    <2> QED
      BY <1>7, <1>8, <2>1 DEF Ended
  <1> QED
    BY <1>8, <1>9 DEF q

\* What could not be fixed is split there: the lines before the issue against the rest, which
\* starts after them.
LEMMA SplitHandled ==
  ASSUME NEW x \in Lines, NEW y \in Lines, NEW h \in Nat, Halves(x, y, h),
         NEW i \in Nat, IssueAt(x, y, i), 0 < i, i < h
  PROVE  DedupAB(Upto(x, i), From(y, i)).ok
  <1>1. /\ Len(x) \in Nat /\ Len(y) \in Nat /\ x \in Seq(Nat) /\ y \in Seq(Nat)
        /\ i \in 0 .. Len(x) /\ i \in 0 .. Len(y) /\ h <= Len(y)
        /\ \A j \in 1 .. i : x[j] = y[j]
    BY LenProperties DEF Lines, IssueAt, Agree, Halves
  <1>2. Upto(x, i) \in Lines /\ From(y, i) \in Lines /\ h - i \in Nat
    BY <1>1, UptoIs, FromIs DEF Lines
  <1>3. PICK a \in Lines, b \in Lines, g \in Nat : a = Upto(x, i) /\ b = From(y, i) /\ g = h - i
    BY <1>2
  <1>4. /\ a = Upto(x, i) /\ b = From(y, i) /\ g = h - i /\ g > 0 /\ g <= Len(b)
        /\ Len(a) = i /\ Len(b) = Len(y) - i
        /\ \A j \in 1 .. i : a[j] = x[j] /\ a[j] = y[j]
        /\ \A j \in 1 .. Len(y) - i : b[j] = y[i + j]
    <2>1. Len(a) = i /\ \A j \in 1 .. i : a[j] = x[j]
      BY <1>1, <1>3, UptoIs
    <2>2. Len(b) = Len(y) - i /\ \A j \in 1 .. Len(y) - i : b[j] = y[i + j]
      BY <1>1, <1>3, FromIs
    <2>3. g > 0 /\ g <= Len(b)
      BY <1>1, <1>3, <2>2
    <2> QED
      BY <1>1, <1>3, <2>1, <2>2, <2>3
  <1>5. /\ Len(x) \in Nat /\ Len(y) \in Nat /\ h <= Len(y) /\ i < Len(x) /\ i < Len(y)
        /\ Rises(x, 0) /\ RisesIn(y, 0, h) /\ Rises(y, h)
        /\ \A j \in 1 .. Len(y) : y[j] \in Nat
    BY LenProperties, ElementOfSeq DEF Lines, IssueAt, Halves
  <1>6. Rises(a, 0)
    <2>1. \A j \in 0 + 1 .. i : j \in 0 + 1 .. Len(x) /\ a[j] = x[j]
      BY <1>4, <1>5
    <2> QED
      BY <1>4, <1>5, <2>1, SMTT(20) DEF Rises
  <1>7. Rises(b, g)
    <2>1. \A j \in g + 1 .. Len(b) : j \in 1 .. Len(y) - i /\ i + j \in h + 1 .. Len(y)
      BY <1>4, <1>5
    <2>2. \A j, l \in g + 1 .. Len(b) : j < l => i + j < i + l
      BY <1>4, <1>5
    <2>3. \A j \in g + 1 .. Len(b) : b[j] = y[i + j]
      BY <1>4, <2>1
    <2>4. ASSUME NEW j \in g + 1 .. Len(b), NEW l \in g + 1 .. Len(b), j < l PROVE b[j] < b[l]
      <3>1. y[i + j] < y[i + l]
        BY <1>5, <2>1, <2>2, <2>4 DEF Rises
      <3> QED
        BY <2>3, <3>1
    <2> QED
      BY <2>4 DEF Rises
  <1>8. \A j \in 1 .. i, l \in 1 .. g : a[j] < b[l] /\ a[j] # b[l]
    <2>1. ASSUME NEW j \in 1 .. i, NEW l \in 1 .. g PROVE a[j] < b[l] /\ a[j] # b[l]
      <3>1. /\ j \in 0 + 1 .. h /\ i + l \in 0 + 1 .. h /\ j < i + l /\ l \in 1 .. Len(y) - i
            /\ j \in 1 .. Len(y) /\ i + l \in 1 .. Len(y)
        BY <1>4, <1>5
      <3>2. y[j] < y[i + l] /\ y[j] \in Nat /\ y[i + l] \in Nat
        BY <1>5, <3>1 DEF RisesIn
      <3>3. a[j] = y[j] /\ b[l] = y[i + l]
        BY <1>4, <3>1
      <3> QED
        BY <3>2, <3>3
    <2> QED
      BY <2>1
  <1>9. CASE Settled(a, b)
    <2>1. Len(a) # 0 /\ Len(b) # 0
      BY <1>4, <1>5
    <2>2. a # <<>> /\ b # <<>>
      BY <2>1, EmptySeq
    <2>3. ASSUME noOverlap(a, b) PROVE DedupAB(a, b) = Pair(a, b)
      BY <2>2, <2>3 DEF DedupAB, DedupABWith
    <2>4. ASSUME ~noOverlap(a, b), sameToEnd(a, b)
          PROVE  DedupAB(a, b) = Pair(Upto(a, findLineIndex(b[1], a)), b)
      BY <2>2, <2>4 DEF DedupAB, DedupABWith
    <2>5. DedupAB(a, b).ok
      BY <1>9, <2>2, <2>3, <2>4, PairIs DEF Settled
    <2> QED
      BY <1>4, <2>5
  <1>10. CASE ~Settled(a, b)
    <2> DEFINE p == Pair(a, b)
    <2>1. DedupAB(a, b) = handleIncompleteOverlap[p]
      BY <1>10, SettledIs DEF DedupAB
    <2>2. Joint(a, b)
      BY <1>10, Overlapping
    <2>3. IssueAt(a, b, 0)
      <3>1. 1 \in 1 .. i /\ 1 \in 1 .. g /\ 0 < Len(a) /\ 0 < Len(b) /\ 0 + 1 = 1
        BY <1>4
      <3> QED
        BY <1>8, <3>1 DEF IssueAt, Agree
    <2>4. ~Ahead(b[0 + 1], a, 0)
      <3>1. 1 \in 1 .. g /\ \A j \in 0 + 1 .. Len(a) : j \in 1 .. i
        BY <1>4
      <3> QED
        BY <1>8, <3>1 DEF Ahead
    <2>5. ~Disjoint(a, b, 0)
      BY <2>2 DEF Disjoint, Joint
    <2>6. PICK o \in Nat, m \in Nat, w \in Lines :
            o > 0 /\ Meet(a, b, 0, o, m, w) /\ fixLines(a, b, 0) = Pair(w, b)
      BY <2>3, <2>4, <2>5, FixedIs
    <2>7. /\ Agree(w, b, o + 1) /\ o + 1 <= Len(b) /\ m + 1 <= Len(a) /\ a[m + 1] = b[o + 1]
          /\ w # a
      <3>1. 0 + o + 1 = o + 1 /\ 0 + m + 1 = m + 1 /\ 1 \in 1 .. o + 1
        OBVIOUS
      <3>2. Agree(w, b, o + 1) /\ o + 1 <= Len(b) /\ m + 1 <= Len(a)
        BY <2>6, <3>1, MeetAgrees
      <3>3. a[m + 1] = b[o + 1]
        BY <2>6, <3>1 DEF Meet
      <3>4. w[1] = b[1] /\ a[1] # b[1]
        BY <2>3, <3>1, <3>2 DEF Agree, IssueAt
      <3> QED
        BY <3>2, <3>3, <3>4
    <2>8. g <= o
      <3> SUFFICES ASSUME o < g PROVE FALSE
        OBVIOUS
      <3>1. m + 1 \in 1 .. i /\ o + 1 \in 1 .. g
        BY <1>4, <2>7
      <3> QED
        BY <1>8, <2>7, <3>1
    <2>9. Agree(w, b, g) /\ Joint(w, b)
      <3>1. o + 1 \in Nat /\ g <= o + 1 /\ o + 1 > 0
        BY <2>8
      <3> QED
        BY <2>7, <3>1, AgreeLess
    <2>10. Rises(w, g)
      <3>1. 0 + o + 1 = o + 1 /\ 0 + o = o /\ 0 <= 0 + m
        OBVIOUS
      <3>2. RisesIn(b, g, o + 1)
        BY <1>7, <2>7, RisesLess
      <3> QED
        BY <1>6, <2>6, <2>8, <3>1, <3>2, MeetRises
    <2>11. handleIncompleteOverlap[Pair(w, b)].ok
      BY <1>7, <2>9, <2>10, InOrderHandled, PairIs
    <2>12. resolved[p] = resolved[Pair(w, b)]
      <3>1. p \in Pairs /\ p.ok /\ p.a = a /\ p.b = b /\ Pair(w, b) # p
        BY <2>7, PairIs
      <3> HIDE DEF p
      <3>2. resolved[p] = IF fixLines(p.a, p.b, 0) = p THEN p ELSE resolved[fixLines(p.a, p.b, 0)]
        BY <2>3, <3>1, ResolvedStep
      <3> QED
        BY <2>6, <3>1, <3>2
    <2>13. p \in Pairs /\ Pair(w, b) \in Pairs
      BY PairIs
    <2> HIDE DEF p
    <2>14. handleIncompleteOverlap[p] = handleIncompleteOverlap[Pair(w, b)]
      BY <2>12, <2>13, HandleIs
    <2> QED
      BY <1>4, <2>1, <2>11, <2>14
  <1> QED
    BY <1>9, <1>10

\* No index runs out of range on such slices.
LEMMA MergeableHandled ==
  ASSUME NEW x \in Lines, NEW y \in Lines, x # <<>>, y # <<>>,
         Joint(x, y) => Mergeable(x, y)
  PROVE  DedupAB(x, y).ok
  <1>1. CASE Settled(x, y)
    <2>1. ASSUME noOverlap(x, y) PROVE DedupAB(x, y) = Pair(x, y)
      BY <2>1 DEF DedupAB, DedupABWith
    <2>2. ASSUME ~noOverlap(x, y), sameToEnd(x, y)
          PROVE  DedupAB(x, y) = Pair(Upto(x, findLineIndex(y[1], x)), y)
      BY <2>2 DEF DedupAB, DedupABWith
    <2> QED
      BY <1>1, <2>1, <2>2, PairIs DEF Settled
  <1>2. CASE ~Settled(x, y)
    <2> DEFINE q == resolved[Pair(x, y)]
    <2>1. Mergeable(x, y)
      BY <1>2, Overlapping
    <2>2. PICK v \in Lines, z \in Lines :
            /\ q = Pair(v, z)
            /\ \/ NoIssue(v, z) /\ Joint(v, z)
               \/ \E h \in Nat, i \in Nat : Halves(v, z, h) /\ IssueAt(v, z, i) /\ 0 < i /\ i < h
      BY <2>1, MergeableResolved
    <2>3. Pair(x, y) \in Pairs /\ q \in Pairs
      BY PairIs, ResolvedIs
    <2> HIDE DEF q
    <2>4. q.ok /\ q.a = v /\ q.b = z
      BY <2>2, PairIs
    <2>5. DedupAB(x, y) = DedupAB(again(q).a, again(q).b)
      <3>1. DedupAB(x, y) = handleIncompleteOverlap[Pair(x, y)]
        BY <1>2, SettledIs DEF DedupAB
      <3> QED
        BY <2>3, <2>4, <3>1, HandleIs DEF q
    <2>6. CASE NoIssue(v, z) /\ Joint(v, z)
      <3>1. again(q) = q
        BY <2>3, <2>4, <2>6, AgainIs
      <3>2. DedupAB(v, z).ok
        BY <2>6, SameStart, PairIs
      <3> QED
        BY <2>4, <2>5, <3>1, <3>2
    <2>7. ASSUME NEW h \in Nat, NEW i \in Nat, Halves(v, z, h), IssueAt(v, z, i), 0 < i, i < h
          PROVE  DedupAB(x, y).ok
      <3>1. again(q) = Pair(Upto(v, i), From(z, i))
        BY <2>3, <2>4, <2>7, AgainIs
      <3>2. DedupAB(Upto(v, i), From(z, i)).ok
        BY <2>7, SplitHandled
      <3> QED
        BY <2>5, <3>1, <3>2, PairIs
    <2> QED
      BY <2>2, <2>6, <2>7
  <1> QED
    BY <1>1, <1>2

LEMMA TwoWindowsOk ==
  ASSUME NEW a \in Lines, NEW b \in Lines, a # <<>>, b # <<>>, Increasing(a), Increasing(b)
  PROVE  DedupAB(a, b).ok
  <1>1. PICK u \in Lines, z \in Lines :
          /\ DedupAB(a, b) = Pair(u, z)
          /\ z # <<>> /\ Increasing(z) /\ ToSet(b) \subseteq ToSet(z)
          /\ LeftOf(a, b, u, z)
    BY TwoWindows
  <1> QED
    BY <1>1, PairIs

\* Three windows in the order of their starts: the last two, and the first against what they
\* became.  That is in order, or the two have no line in common at their ends and it is one
\* after the other.
LEMMA ThreeWindows ==
  ASSUME NEW c \in Lines, NEW a \in Lines, NEW b \in Lines, c # <<>>, a # <<>>, b # <<>>,
         Increasing(c), Increasing(a), Increasing(b), c[1] <= a[1], a[1] <= b[1]
  PROVE  LET d == DedupAB(a, b)
         IN  d.ok /\ DedupAB(c, d.a \o d.b).ok
  <1>1. PICK u \in Lines, z \in Lines :
          /\ DedupAB(a, b) = Pair(u, z)
          /\ z # <<>> /\ Increasing(z) /\ LeftOf(a, b, u, z)
          /\ Unjoined(a, b) \/ Increasing(u \o z)
    <2>1. CASE Unjoined(a, b)
      BY <2>1, TwoWindows
    <2>2. CASE ~Unjoined(a, b)
      <3>1. PICK u \in Lines, z \in Lines :
              DedupAB(a, b) = Pair(u, z) /\ z # <<>> /\ Increasing(z) /\ LeftOf(a, b, u, z)
        BY TwoWindows
      <3>2. PICK v \in Lines, w \in Lines : DedupAB(a, b) = Pair(v, w) /\ Increasing(v \o w)
        BY <2>2, MergedInOrder
      <3>3. Pair(u, z) = Pair(v, w)
        BY <3>1, <3>2
      <3>4. /\ Pair(u, z).a = u /\ Pair(u, z).b = z
            /\ Pair(v, w).a = v /\ Pair(v, w).b = w
        BY PairIs
      <3> QED
        BY <3>1, <3>2, <3>3, <3>4
    <2> QED
      BY <2>1, <2>2
  <1>2. PICK r \in Lines : r = u \o z /\ r # <<>>
    <2>1. /\ u \in Seq(Nat) /\ z \in Seq(Nat) /\ Len(u) \in Nat /\ Len(z) \in Nat \ {0}
      BY <1>1, LenProperties, EmptySeq DEF Lines
    <2>2. u \o z \in Seq(Nat) /\ Len(u \o z) = Len(u) + Len(z)
      BY <2>1, ConcatProperties
    <2>3. u \o z # <<>>
      BY <2>1, <2>2, EmptySeq
    <2> QED
      BY <2>2, <2>3 DEF Lines
  <1>3. ASSUME Increasing(r) PROVE DedupAB(c, r).ok
    BY <1>2, <1>3, TwoWindowsOk
  <1>4. ASSUME Unjoined(a, b), u = a, z = b PROVE DedupAB(c, r).ok
    <2> DEFINE h == Len(a)
    <2>1. /\ Len(a) \in Nat \ {0} /\ Len(b) \in Nat \ {0} /\ a \in Seq(Nat) /\ b \in Seq(Nat)
          /\ Len(c) \in Nat \ {0} /\ h \in Nat
      BY LenProperties, EmptySeq DEF Lines
    <2>2. /\ Len(r) = Len(a) + Len(b)
          /\ \A i \in 1 .. Len(r) : r[i] = IF i <= Len(a) THEN a[i] ELSE b[i - Len(a)]
          /\ DOMAIN r = 1 .. Len(r)
      BY <1>2, <1>4, <2>1, ConcatProperties, LenProperties DEF Lines
    <2>3. /\ \A x \in ToSet(a) : x \in Nat /\ a[1] <= x
          /\ \A x \in ToSet(b) : x \in Nat /\ b[1] <= x
          /\ a[1] \in ToSet(a) /\ a[1] \in Nat /\ b[1] \in Nat /\ c[1] \in Nat
          /\ ToSet(a) = {a[i] : i \in 1 .. Len(a)} /\ ToSet(b) = {b[i] : i \in 1 .. Len(b)}
      <3>1. DOMAIN a = 1 .. Len(a) /\ DOMAIN b = 1 .. Len(b)
        BY LenProperties DEF Lines
      <3> QED
        BY <3>1, IncreasingFrom DEF ToSet
    <2>4. a[1] < b[1]
      BY <1>4, <2>3 DEF Unjoined
    <2>5. ASSUME NEW i \in 1 .. Len(r), r[i] = c[1] PROVE c[1] = r[1]
      <3>1. r[1] = a[1]
        BY <2>1, <2>2
      <3>2. CASE i <= Len(a)
        <4>1. r[i] = a[i] /\ i \in 1 .. Len(a)
          BY <2>1, <2>2, <3>2
        <4> QED
          BY <2>3, <2>5, <3>1, <4>1
      <3>3. CASE ~(i <= Len(a))
        <4>1. r[i] = b[i - Len(a)] /\ i - Len(a) \in 1 .. Len(b)
          BY <2>1, <2>2, <3>3
        <4>2. b[i - Len(a)] \in Nat /\ b[1] <= b[i - Len(a)]
          BY <2>3, <4>1
        <4> QED
          BY <2>3, <2>4, <2>5, <4>1, <4>2
      <3> QED
        BY <3>2, <3>3
    <2>6. c[1] = r[1] \/ c[1] \notin ToSet(r)
      BY <2>2, <2>5 DEF ToSet
    <2>7. RisesIn(r, 0, h) /\ h <= Len(r)
      <3>1. \A i \in 0 + 1 .. h : i \in 1 .. Len(a) /\ r[i] = a[i]
        BY <2>1, <2>2
      <3> QED
        BY <2>1, <2>2, <3>1 DEF RisesIn, Increasing
    <2>8. Rises(r, h)
      <3>1. ASSUME NEW i \in h + 1 .. Len(r), NEW j \in h + 1 .. Len(r), i < j PROVE r[i] < r[j]
        <4>1. /\ i - Len(a) \in 1 .. Len(b) /\ j - Len(a) \in 1 .. Len(b)
              /\ i - Len(a) < j - Len(a)
              /\ r[i] = b[i - Len(a)] /\ r[j] = b[j - Len(a)]
          BY <2>1, <2>2, <3>1, SMTT(20)
        <4> QED
          BY <4>1 DEF Increasing
      <3> QED
        BY <3>1 DEF Rises
    <2>9. Rises(c, 0)
      <3>1. \A i \in 0 + 1 .. Len(c) : i \in 1 .. Len(c)
        BY <2>1
      <3> QED
        BY <3>1 DEF Rises, Increasing
    <2>10. Joint(c, r) => Mergeable(c, r)
      <3> HIDE DEF h
      <3> QED
        BY <2>1, <2>6, <2>7, <2>8, <2>9 DEF Halves, Mergeable
    <2> QED
      BY <1>2, <2>10, MergeableHandled
  <1>5. ASSUME u = <<>> PROVE Increasing(r)
    <2>1. u \o z = z
      BY <1>5, ConcatEmptySeq DEF Lines
    <2> QED
      BY <1>1, <1>2, <2>1
  <1>6. ASSUME NEW k \in 0 .. Len(a) - 1, a[k + 1] = b[1] PROVE ~Unjoined(a, b)
    <2>1. Len(a) \in Nat /\ DOMAIN a = 1 .. Len(a)
      BY LenProperties DEF Lines
    <2>2. k + 1 \in 1 .. Len(a)
      BY <2>1
    <2> QED
      BY <1>6, <2>1, <2>2 DEF Unjoined, ToSet
  <1>7. DedupAB(c, r).ok
    BY <1>1, <1>2, <1>3, <1>4, <1>5, <1>6 DEF LeftOf
  <1> QED
    BY <1>1, <1>2, <1>7, PairIs

\* Of up to three windows, whichever lines they miss, no index runs out of range: not where
\* fixLines goes on without a matching line (dedup.go:87-101), nor where the split of an
\* overlap is de-duplicated again (dedup.go:138-155).
THEOREM NoIndexOutOfRange == Spec => []IndexInRange
  <1>1. ASSUME WindowsInv, Len(windows) \in 1 .. 3 PROVE Result.ok
    <2> DEFINE s == sortedSlices(Slices)
    <2>1. PICK n \in 1 .. 3 : n = Len(windows)
      BY <1>1
    <2>2. PICK place \in [1 .. n -> 1 .. n] :
            /\ Len(Slices) = n /\ Len(s) = n
            /\ \A k \in 1 .. n : s[k].lines = windows[place[k]]
            /\ \A j, k \in 1 .. n :
                 j < k => ~Before(windows[place[k]], windows[place[j]])
      BY <1>1, <2>1, WindowsSorted
    <2>3. \A i \in 1 .. n : windows[i] \in Lines /\ windows[i] # <<>> /\ Increasing(windows[i])
      BY <1>1, <2>1, ElementOfSeq DEF WindowsInv
    <2> HIDE DEF s
    <2>4. \A k \in 1 .. n : /\ s[k].lines \in Lines /\ s[k].lines # <<>>
                            /\ Increasing(s[k].lines) /\ s[k].lines[1] \in Nat
                            /\ s[k].lines[1] = Head(windows[place[k]])
      BY <2>2, <2>3, IncreasingFrom
    <2>5. ASSUME NEW j \in 1 .. n, NEW k \in 1 .. n, j < k
          PROVE  s[j].lines[1] <= s[k].lines[1]
      <3>1. ~(Head(windows[place[k]]) < Head(windows[place[j]]))
        <4>1. ~Before(windows[place[k]], windows[place[j]])
          BY <2>2, <2>5
        <4> QED
          BY <4>1 DEF Before
      <3>2. /\ s[j].lines[1] = Head(windows[place[j]]) /\ s[j].lines[1] \in Nat
            /\ s[k].lines[1] = Head(windows[place[k]]) /\ s[k].lines[1] \in Nat
        BY <2>4
      <3>3. \A b, c \in Nat : ~(c < b) => b <= c
        OBVIOUS
      <3>4. ~(s[k].lines[1] < s[j].lines[1])
        BY <3>1, <3>2, Zenon
      <3> QED
        BY <3>2, <3>3, <3>4, Zenon
    <2>6. CASE n = 1
      BY <2>1, <2>2, <2>6 DEF Result, DedupLineSlices, Slices
    <2>7. CASE n = 2
      <3> DEFINE last == DedupAB(s[1].lines, s[2].lines)
      <3>1. Result.ok = keptAfter(s, last)[0].ok
        <4>1. 2 - 2 = 0 /\ 2 - 1 = 1 /\ Len(windows) >= 2
          BY <2>1, <2>7
        <4> QED
          BY <1>1, <2>1, <2>7, <4>1, ResultIs DEF s
      <3>2. keptAfter(s, last)[0].ok = last.ok
        <4>1. Len(s) \in 2 .. 3
          BY <2>2, <2>7
        <4> DEFINE base == [ok |-> last.ok, kept |-> last.a, reference |-> last.a \o last.b]
        <4> HIDE DEF last
        <4>2. keptAfter(s, last)[0] = base
          BY <4>1, KeptAfterFew
        <4> QED
          BY <4>2
      <3>3. last.ok
        BY <2>4, <2>7, TwoWindowsOk
      <3> QED
        BY <3>1, <3>2, <3>3
    <2>8. CASE n = 3
      <3> DEFINE last == DedupAB(s[2].lines, s[3].lines)
                 base == [ok |-> last.ok, kept |-> last.a, reference |-> last.a \o last.b]
      <3>1. Result.ok = keptAfter(s, last)[1].ok
        <4>1. 3 - 2 = 1 /\ 3 - 1 = 2 /\ Len(windows) >= 2
          BY <2>1, <2>8
        <4> QED
          BY <1>1, <2>1, <2>8, <4>1, ResultIs DEF s
      <3>2. keptAfter(s, last)[1] = dedupAgainst(s[1].lines, base)
        <4>1. Len(s) \in 2 .. 3 /\ Len(s) = 3
          BY <2>2, <2>8
        <4> HIDE DEF last
        <4> QED
          BY <4>1, KeptAfterFew
      <3>3. base.ok = last.ok /\ base.reference = last.a \o last.b
        OBVIOUS
      <3>4. last.ok /\ DedupAB(s[1].lines, last.a \o last.b).ok
        BY <2>4, <2>5, <2>8, ThreeWindows
      <3> DEFINE d == DedupAB(s[1].lines, base.reference)
      <3> HIDE DEF base, last
      <3>5. dedupAgainst(s[1].lines, base)
              = [ok |-> base.ok /\ d.ok, kept |-> d.a \o base.kept, reference |-> d.a \o d.b]
        BY DEF dedupAgainst, Once
      <3>6. base.ok /\ d.ok
        BY <3>3, <3>4
      <3> HIDE DEF d
      <3>7. dedupAgainst(s[1].lines, base).ok = (base.ok /\ d.ok)
        BY <3>5
      <3> QED
        BY <3>1, <3>2, <3>6, <3>7
    <2> QED
      BY <2>6, <2>7, <2>8
  <1>2. WindowsInv => IndexInRange
    BY <1>1 DEF IndexInRange
  <1> QED
    BY <1>2, WindowsAreInOrder, PTL
========================================================================================
