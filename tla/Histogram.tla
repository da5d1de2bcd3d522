------------------------------- MODULE Histogram -------------------------------
(***************************************************************************)
(* Summaries of a list of numbers: Stats (pt-fuser/src/analysis/mod.rs)    *)
(* and the bins of a histogram (analysis/histogram.rs).                    *)
(*                                                                         *)
(* A number is a count of Unit-th parts (a latency is shown in             *)
(* microseconds and known in nanoseconds).  Quartiles are doubled, so that *)
(* the mean of two numbers is a whole one; mean and standard deviation are *)
(* left out.                                                               *)
(***************************************************************************)
EXTENDS Integers, SequencesExt

CONSTANTS Unit,           \* 1000
          MinDatapoints   \* MIN_DATAPOINTS_FOR_STATS

ASSUME UnitAssumption == Unit \in Nat \ {0} /\ MinDatapoints \in Nat \ {0, 1}

Even(n) == n % 2 = 0

\* the mean of the two in the middle, or the one in the middle, doubled
Middle(s, even) == IF even THEN s[Len(s) \div 2] + s[Len(s) \div 2 + 1]
                   ELSE 2 * s[Len(s) \div 2 + 1]

FirstHalf(s) == SubSeq(s, 1, Len(s) \div 2)

\* mutated form: the number in the middle counts as one of the second half
SecondHalfWithMiddle(s) == SubSeq(s, Len(s) \div 2 + 1, Len(s))

\* of an odd number, the one in the middle is in neither half
SecondHalf(s) == SubSeq(s, (Len(s) + 1) \div 2 + 1, Len(s))

Ascending(data) == SortSeq(data, LAMBDA a, b : a < b)

\* Stats::from_data; the empty set if there are too few numbers
Stats(data) ==
  IF Len(data) < MinDatapoints THEN {}
  ELSE LET sorted == Ascending(data)
           even   == Even(Len(FirstHalf(sorted)))
       IN  {[min    |-> 2 * sorted[1],
             q1     |-> Middle(FirstHalf(sorted), even),
             median |-> Middle(sorted, Even(Len(sorted))),
             q3     |-> Middle(SecondHalf(sorted), even),
             max    |-> 2 * sorted[Len(sorted)]]}

-----------------------------------------------------------------------------
\* mutated form: as if the last bin began where the largest number is
BinCountShort(start, step, largest) == (largest \div Unit - start + step - 1) \div step

BinCount(start, step, largest) == (largest \div Unit - start) \div step + 1

\* Bins::add_datapoint: the bin of a number, counted from 0
BinOf(v, start, step) == (v - start * Unit) \div (step * Unit)

\* Bins::from_data, for any whole number that Rice's rule may give as the step
Bins(data, step) ==
  IF data = <<>> THEN [start |-> 0, step |-> 0, counts |-> <<>>]
  ELSE LET start == Min(ToSet(data)) \div Unit
           n     == BinCount(start, step, Max(ToSet(data)))
           In(i) == {k \in DOMAIN data : /\ data[k] >= start * Unit
                                         /\ BinOf(data[k], start, step) = i - 1}
       IN  [start |-> start, step |-> step, counts |-> [i \in 1 .. n |-> Cardinality(In(i))]]

\* HistogramASCII::show divides by the largest count.
ShowPanics(bins) == bins.counts # <<>> /\ \A i \in DOMAIN bins.counts : bins.counts[i] = 0
=============================================================================
