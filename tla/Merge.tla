--------------------------------- MODULE Merge ---------------------------------
(***************************************************************************)
(* merge_children (pt-fuser/src/merge/mod.rs): merges the chunks of the    *)
(* same frame in several traces into those of one new frame.               *)
(*                                                                         *)
(* Chunks that all traces have in the same order (a longest common         *)
(* subsequence) cut each trace's chunks into sections.  Within a section   *)
(* the most frequent chunk is kept if it is frequent enough and cuts the   *)
(* section in two, recursively.  The recursion and the loop around it are  *)
(* a stack of `work': sections to search and groups of chunks to add.  A   *)
(* section has a sequence of chunks, and a group one chunk, of each of     *)
(* some traces: the code's lists keep the order of the traces and so are   *)
(* functions of the traces here.                                           *)
(*                                                                         *)
(* Only one level is modelled: a child frame added here is itself merged   *)
(* by another run of the same code, on the children of its originals.  The *)
(* frames to merge may be such originals or the roots of whole traces;     *)
(* module MergeEvents says what merge_traces does next with the latter.    *)
(***************************************************************************)
EXTENDS Frames

CONSTANTS
  Inputs,                   \* the frames to merge, with the new frame's range
  Pause,                    \* what stands for the symbol of a pause
  ThreshNum, ThreshDen      \* frequent_thresh

ASSUME ThreshAssumption ==
  ThreshNum \in Nat /\ ThreshDen \in Nat \ {0} /\ ThreshNum <= ThreshDen

\* a frame of a trace: its chunks are ranges inside it, one after the other
IsOriginal(p) ==
  /\ p.start \in Point /\ p.end \in Point
  /\ Len(p.chunks) \in Nat /\ DOMAIN p.chunks = 1 .. Len(p.chunks)
  /\ \A i \in DOMAIN p.chunks : p.chunks[i].start \in Point /\ p.chunks[i].end \in Point
  /\ WellFormed(p)

ASSUME InputsAssumption ==
  \A input \in Inputs :
    /\ input.start \in Point /\ input.end \in Point /\ Leq(input.start, input.end)
    /\ Len(input.parents) \in Nat \ {0} /\ DOMAIN input.parents = 1 .. Len(input.parents)
    /\ \A t \in DOMAIN input.parents : IsOriginal(input.parents[t])

VARIABLES
  parents,      \* the frames being merged, one of each trace
  newParent,
  sequences,    \* what is left of each trace's chunks
  lcs,
  nextCommon,   \* the next element of lcs to be looked for
  work,
  minMetrics,
  lost,         \* lost_frame_occurrences, of this level
  phase,
  called        \* history: the groups of chunks, and whether they were added

mergeVars == <<parents, newParent, sequences, lcs, nextCommon, work, minMetrics, lost,
               phase, called>>

Traces == 1 .. Len(parents)

-----------------------------------------------------------------------------
(***************************************************************************)
(* index_children: chunks of different traces are the same if they are the *)
(* n-th ones with their symbol, and equal chunks have equal ids.           *)
(***************************************************************************)
Key(parent, i) ==
  <<parent.chunks[i].symbol,
    Cardinality({j \in 1 .. i - 1 : parent.chunks[j].symbol = parent.chunks[i].symbol})>>

\* where chunks are, in the order in which ids are given to them
Places(ps) == UNION {{t} \X DOMAIN ps[t].chunks : t \in DOMAIN ps}

NotAfter(p, q) == p[1] < q[1] \/ (p[1] = q[1] /\ p[2] <= q[2])

KeyAt(ps, p) == Key(ps[p[1]], p[2])

\* a key gets the next id where it is seen first
FirstPlace(ps, key) ==
  CHOOSE p \in Places(ps) :
    /\ KeyAt(ps, p) = key
    /\ \A q \in Places(ps) : KeyAt(ps, q) = key => NotAfter(p, q)

IdOf(ps, key) ==
  Cardinality({KeyAt(ps, q) : q \in {p \in Places(ps) : NotAfter(p, FirstPlace(ps, key))}})

\* IDedFrame and IDedPause; the original is a chunk of the parent
IdedChild(ps, t, i) ==
  LET chunk == ps[t].chunks[i]
  IN [id |-> IdOf(ps, Key(ps[t], i)), original |-> i, symbol |-> chunk.symbol,
      offset |-> Elapsed(ps[t].start, chunk.start),
      latency |-> Elapsed(chunk.start, chunk.end)]

IndexChildren(ps) ==
  [t \in DOMAIN ps |-> [i \in DOMAIN ps[t].chunks |-> IdedChild(ps, t, i)]]

Ids(seq) == {seq[i].id : i \in DOMAIN seq}
IndexOf(seq, id) == CHOOSE i \in DOMAIN seq : seq[i].id = id

-----------------------------------------------------------------------------
(***************************************************************************)
(* find_lcs                                                                *)
(***************************************************************************)
InAll(seqs, id) == \A k \in DOMAIN seqs : id \in Ids(seqs[k])

\* mutated form: compares with the second trace only
PrecedesInSecond(seqs, a, b) ==
  Len(seqs) > 1 => IndexOf(seqs[2], a) < IndexOf(seqs[2], b)

Precedes(seqs, a, b) == \A k \in DOMAIN seqs : IndexOf(seqs[k], a) < IndexOf(seqs[k], b)

Longest(candidates, n) == {j \in candidates : n[j] = Max({n[k] : k \in candidates})}

\* subproblems: the longest common subsequence that ends with each chunk of the
\* first trace, empty if another trace lacks the chunk; of several predecessors
\* that are equally good the last one is taken
EndingAt(seqs) ==
  LET first == seqs[1]
      sub[k \in DOMAIN first] ==
        LET id == first[k].id
            earlier == {j \in 1 .. k - 1 : sub[j] # <<>> /\ Precedes(seqs, first[j].id, id)}
            lens == [j \in earlier |-> Len(sub[j])]
        IN IF ~InAll(seqs, id) THEN <<>>
           ELSE IF earlier = {} THEN <<id>>
           ELSE Append(sub[Max(Longest(earlier, lens))], id)
  IN sub

\* the longest of them, ending with the smallest id
FindLcs(seqs) ==
  LET sub == EndingAt(seqs)
      ends == Longest(DOMAIN sub, [k \in DOMAIN sub |-> Len(sub[k])])
      smallest == CHOOSE k \in ends : \A j \in ends : seqs[1][k].id <= seqs[1][j].id
  IN IF DOMAIN sub = {} THEN <<>> ELSE sub[smallest]

-----------------------------------------------------------------------------
(***************************************************************************)
(* find_frequent_children                                                  *)
(***************************************************************************)
Having(seqs, id) == {k \in DOMAIN seqs : id \in Ids(seqs[k])}

Count(seqs, id) == Cardinality(Having(seqs, id))

AllIds(seqs) == UNION {Ids(seqs[k]) : k \in DOMAIN seqs}

\* max_by_key takes the last of several maxima
MostFrequent(seqs) ==
  Max({id \in AllIds(seqs) : \A other \in AllIds(seqs) : Count(seqs, other) <= Count(seqs, id)})

IsFrequent(seqs) ==
  /\ AllIds(seqs) # {}
  /\ Count(seqs, MostFrequent(seqs)) * ThreshDen >= ThreshNum * Cardinality(DOMAIN seqs)

\* index_avg: where the chunk is on average, as a fraction of the section
PlusFraction(x, y) == <<x[1] * y[2] + y[1] * x[2], x[2] * y[2]>>

IndexAvg(seqs, id) ==
  LET sum == FoldFunction(PlusFraction, <<0, 1>>,
               [k \in Having(seqs, id) |-> <<IndexOf(seqs[k], id) - 1, Len(seqs[k])>>])
  IN <<sum[1], sum[2] * Count(seqs, id)>>

\* break_point: rounded, and to either side of a tie, where the floating-point
\* sum may be inexact
BreakPoints(avg, len) ==
  {b \in 0 .. len : /\ 2 * avg[2] * b <= 2 * avg[1] * len + avg[2]
                    /\ 2 * avg[1] * len <= 2 * avg[2] * b + avg[2]}

\* what comes before and after the chunk, or the break point, in each sequence
Cuts(seqs, id) ==
  {cut \in [DOMAIN seqs -> 0 .. Max({Len(seqs[k]) : k \in DOMAIN seqs})] :
     \A k \in DOMAIN seqs :
       IF id \in Ids(seqs[k]) THEN cut[k] = IndexOf(seqs[k], id) - 1
       ELSE cut[k] \in BreakPoints(IndexAvg(seqs, id), Len(seqs[k]))}

Before(seqs, cut) == [k \in DOMAIN seqs |-> SubSeq(seqs[k], 1, cut[k])]

After(seqs, cut, id) ==
  [k \in DOMAIN seqs |->
     SubSeq(seqs[k], cut[k] + (IF id \in Ids(seqs[k]) THEN 2 ELSE 1), Len(seqs[k]))]

\* the chunks with an id
Matching(seqs, id) == [k \in Having(seqs, id) |-> seqs[k][IndexOf(seqs[k], id)]]

-----------------------------------------------------------------------------
(***************************************************************************)
(* add_averaged_child                                                      *)
(***************************************************************************)
Divided(p, n) == [ts |-> p.ts \div n, cycles |-> p.cycles \div n, insn_count |-> p.insn_count \div n]

Average(points) == Divided(FoldFunction(Plus, Constant(0), points), Cardinality(DOMAIN points))

AveragedStart(group) ==
  Plus(newParent.start, Average([k \in DOMAIN group |-> group[k].offset]))

AveragedEnd(group) ==
  Plus(AveragedStart(group), Average([k \in DOMAIN group |-> group[k].latency]))

Larger(a, b)  == IF a < b THEN b ELSE a
Smaller(a, b) == IF a < b THEN a ELSE b

\* mutated form: may overlap what has been added before
ConstrainToParent(start, end) ==
  MetricsRange(start, [ts         |-> Smaller(end.ts, newParent.end.ts),
                       cycles     |-> Smaller(end.cycles, newParent.end.cycles),
                       insn_count |-> Smaller(end.insn_count, newParent.end.insn_count)])

\* constrain_metrics; what it returns is None if it is no range
Constrain(start, end) ==
  MetricsRange([ts         |-> Larger(start.ts, minMetrics.ts),
                cycles     |-> Larger(start.cycles, minMetrics.cycles),
                insn_count |-> Larger(start.insn_count, minMetrics.insn_count)],
               [ts         |-> Smaller(end.ts, newParent.end.ts),
                cycles     |-> Smaller(end.cycles, newParent.end.cycles),
                insn_count |-> Smaller(end.insn_count, newParent.end.insn_count)])

FirstOf(group) == group[Min(DOMAIN group)]

MergedChunk(group, range) ==
  IF FirstOf(group).symbol = Pause THEN PauseChunk(range.start, range.end)
  ELSE FrameChunk(FirstOf(group).id, range.start, range.end)

-----------------------------------------------------------------------------
(***************************************************************************)
(* merge_children                                                          *)
(***************************************************************************)
Find(seqs)     == [kind |-> "find", seqs |-> seqs]
Process(group) == [kind |-> "process", group |-> group]

MergeInit ==
  /\ \E input \in Inputs :
       /\ parents = input.parents
       /\ newParent = [start |-> input.start, end |-> input.end, chunks |-> <<>>]
  /\ sequences = <<>>
  /\ lcs = <<>>
  /\ nextCommon = 1
  /\ work = <<>>
  /\ minMetrics = newParent.start
  /\ lost = <<>>
  /\ phase = "index"
  /\ called = <<>>

Index ==
  /\ phase = "index"
  /\ phase' = "common"
  /\ sequences' = IndexChildren(parents)
  /\ lcs' = FindLcs(sequences')
  /\ UNCHANGED <<parents, newParent, nextCommon, work, minMetrics, lost, called>>

\* one iteration of the loop over the common chunks: every sequence that has the
\* next one is cut there
NextCommon ==
  /\ phase = "common"
  /\ work = <<>>
  /\ nextCommon <= Len(lcs)
  /\ LET id == lcs[nextCommon]
         having == Having(sequences, id)
         Found(t) == IndexOf(sequences[t], id)
     IN /\ work' = << Find([t \in having |-> SubSeq(sequences[t], 1, Found(t) - 1)]),
                      Process(Matching(sequences, id)) >>
        /\ sequences' = [t \in Traces |-> IF t \in having
                           THEN SubSeq(sequences[t], Found(t) + 1, Len(sequences[t]))
                           ELSE sequences[t]]
  /\ nextCommon' = nextCommon + 1
  /\ UNCHANGED <<parents, newParent, lcs, minMetrics, lost, phase, called>>

\* the section after the last common chunk
LastSection ==
  /\ phase = "common"
  /\ work = <<>>
  /\ nextCommon > Len(lcs)
  /\ work' = << Find(sequences) >>
  /\ phase' = "last"
  /\ UNCHANGED <<parents, newParent, sequences, lcs, nextCommon, minMetrics, lost, called>>

NextWork(kind) == phase \in {"common", "last"} /\ work # <<>> /\ Head(work).kind = kind

\* find_frequent_children finds nothing
EndSection ==
  /\ NextWork("find")
  /\ ~IsFrequent(Head(work).seqs)
  /\ work' = Tail(work)
  /\ UNCHANGED <<parents, newParent, sequences, lcs, nextCommon, minMetrics, lost,
                 phase, called>>

\* mutated form: the chunk is added before those that precede it
SplitSectionLate ==
  /\ NextWork("find")
  /\ IsFrequent(Head(work).seqs)
  /\ LET seqs == Head(work).seqs
         id == MostFrequent(seqs)
     IN \E cut \in Cuts(seqs, id) :
          work' = << Process(Matching(seqs, id)), Find(Before(seqs, cut)),
                     Find(After(seqs, cut, id)) >> \o Tail(work)
  /\ UNCHANGED <<parents, newParent, sequences, lcs, nextCommon, minMetrics, lost,
                 phase, called>>

\* find_frequent_children finds a chunk and recurses before and after it
SplitSection ==
  /\ NextWork("find")
  /\ IsFrequent(Head(work).seqs)
  /\ LET seqs == Head(work).seqs
         id == MostFrequent(seqs)
     IN \E cut \in Cuts(seqs, id) :
          work' = << Find(Before(seqs, cut)), Process(Matching(seqs, id)),
                     Find(After(seqs, cut, id)) >> \o Tail(work)
  /\ UNCHANGED <<parents, newParent, sequences, lcs, nextCommon, minMetrics, lost,
                 phase, called>>

\* add_averaged_child; "Merged child frame should be valid" is the panic
AddAveragedChild ==
  /\ NextWork("process")
  /\ LET group == Head(work).group
         start == AveragedStart(group)
         range == Constrain(start, AveragedEnd(group))
         chunk == MergedChunk(group, range)
     IN \/ /\ IsRange(range)
           /\ minMetrics' = range.end
           /\ newParent' = IF Accepts(newParent, chunk) THEN InsertChunk(newParent, chunk)
                           ELSE newParent
           /\ phase' = IF Accepts(newParent, chunk) THEN phase ELSE "panicked"
           /\ called' = Append(called, [group |-> group, added |-> TRUE])
           /\ UNCHANGED lost
        \/ /\ ~IsRange(range)
           /\ lost' = Append(lost, start)
           /\ called' = Append(called, [group |-> group, added |-> FALSE])
           /\ UNCHANGED <<newParent, minMetrics, phase>>
  /\ work' = Tail(work)
  /\ UNCHANGED <<parents, sequences, lcs, nextCommon>>

\* root frames bring the events of their traces
AreRoots == \A t \in Traces : "events" \in DOMAIN parents[t]

\* to merge_traces, or to the call of merge_children for the parents' parents
Return ==
  /\ phase = "last"
  /\ work = <<>>
  /\ phase' = IF AreRoots THEN "events" ELSE "done"
  /\ UNCHANGED <<parents, newParent, sequences, lcs, nextCommon, work, minMetrics, lost, called>>

MergeNext == \/ Index \/ NextCommon \/ LastSection
             \/ EndSection \/ SplitSection \/ AddAveragedChild
             \/ Return

-----------------------------------------------------------------------------
(***************************************************************************)
(* Properties.                                                             *)
(***************************************************************************)

\* all traces have these chunks of the first one, in the same order
IsCommon(chosen) ==
  \A t \in Traces : \E f \in [chosen -> DOMAIN parents[t].chunks] :
    /\ \A i \in chosen : Key(parents[t], f[i]) = Key(parents[1], i)
    /\ \A i, j \in chosen : i < j => f[i] < f[j]

\* "process_child() is guaranteed to be called in original order": no chunk of a
\* trace is handled after one that follows it in its trace, whatever the
\* recursion makes of traces that lack the chunk a section was cut at, and none
\* is handled twice.
CalledInOriginalOrder ==
  \A i, j \in DOMAIN called : i < j =>
    \A t \in DOMAIN called[i].group \cap DOMAIN called[j].group :
      called[i].group[t].original < called[j].group[t].original

\* the chunks of the first trace that were merged with one of every other trace
MergedFromAll ==
  {called[i].group[1].original : i \in {j \in DOMAIN called : DOMAIN called[j].group = Traces}}

\* "we find the longest common subsequence" and "INVARIANT: subsequences.len()
\* == sequences.len()": in the end the chunks that were merged from all traces
\* are common to them in this order, and no selection of the first trace's
\* chunks that is common to all is larger.
LongestCommonMerged ==
  phase \in {"events", "done"} =>
    /\ IsCommon(MergedFromAll)
    /\ \A chosen \in SUBSET (DOMAIN parents[1].chunks) :
         IsCommon(chosen) => Cardinality(chosen) <= Cardinality(MergedFromAll)

\* the first n groups, without those that were lost
Added(n) == {i \in 1 .. n : called[i].added}

\* The new frame is well-formed and holds what was not lost in the order in
\* which it was handled, though averaged ranges may overlap and are cut to fit.
MergedInCallOrder ==
  /\ WellFormed(newParent)
  /\ Len(newParent.chunks) = Cardinality(Added(Len(called)))
  /\ Len(lost) = Len(called) - Cardinality(Added(Len(called)))
  /\ \A i \in Added(Len(called)) :
       newParent.chunks[Cardinality(Added(i))].id =
         IF FirstOf(called[i].group).symbol = Pause THEN 0 ELSE FirstOf(called[i].group).id
=============================================================================
