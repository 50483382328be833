----------------------------------- MODULE Ordering -----------------------------------
(***************************************************************************)
(* Go's sort.Slice: sequences and sets put in an order, by functions that  *)
(* proofs can expand, which those of the community modules are not.        *)
(* Elements of which neither is less keep their order, as they do in Go    *)
(* for as few elements as there are here.                                  *)
(***************************************************************************)
EXTENDS Naturals, Sequences, FiniteSets

\* F of a value, and a sequence as it is: TLC evaluates the value, and the elements of
\* the sequence, once instead of at each use.
Once(value, F(_)) == CHOOSE result \in {F(v) : v \in {value}} : TRUE
Evaluated(s) == SubSeq(s, 1, Len(s))

\* How many elements of S come before one, by a total order that is a set of pairs, and
\* the element that comes k-th.
Rank(S, order, x) == Cardinality({y \in S : <<y, x>> \in order})
At(S, order, k)   == CHOOSE x \in S : Rank(S, order, x) = k - 1

\* The elements of a set of numbers, in ascending order.
Ascending(S) ==
  Once({p \in S \X S : p[1] < p[2]},
       LAMBDA order : Evaluated([k \in 1 .. Cardinality(S) |-> At(S, order, k)]))

\* The pairs of positions that come in this order, if less holds the pairs of which
\* the first is less than the second.
InOrder(n, less) ==
  {p \in (1 .. n) \X (1 .. n) : p \in less \/ (<<p[2], p[1]>> \notin less /\ p[1] < p[2])}

SortedBy(s, order) == Evaluated([k \in 1 .. Len(s) |-> s[At(1 .. Len(s), order, k)]])

\* A sequence, sorted.
Sorted(s, less) == Once(less, LAMBDA l : Once(InOrder(Len(s), l), LAMBDA o : SortedBy(s, o)))
=======================================================================================
