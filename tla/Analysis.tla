------------------------------- MODULE Analysis -------------------------------
(***************************************************************************)
(* The tools that read traces back (pt-fuser/src/bin/histogram.rs,         *)
(* bin/merge.rs) with the frame finder and the filters they share          *)
(* (analysis/mod.rs, analysis/filter.rs).                                  *)
(*                                                                         *)
(* A trace has frames, numbered in the order of the calls, each with its   *)
(* name, start, end and chunks (the numbers of the children, 0 for a       *)
(* pause), and for two kinds of events the times they occurred at.  The    *)
(* frame finder's nested iterators are a stack, the innermost one first;   *)
(* it runs one round of its loop at a time, and what it finds is used at   *)
(* once.                                                                   *)
(***************************************************************************)
EXTENDS Histogram

CONSTANTS File,       \* input files, as named on the command line
          Contents,   \* [File -> trace]
          Filters,    \* --filter options
          Targets,    \* name patterns: sets of names
          MaxFiles, MaxFilters, MaxStep,
          RootOnly    \* no pattern given

Root == 1
EventKind == {"errors", "interrupts"}

VARIABLES tool,      \* what to do with the traces left: [action, target]
          input, filters,
          phase,     \* "filter", "collect", "merge", "merged", "shown" or "panicked"
          traces, names,
          filter, pos,  \* the filter and the trace that the loops have come to
          bitmap,
          finder, running,
          tally,     \* [EventKind -> count and index of the next occurrence]
          data, bins,
          stats      \* of merged frames: latencies by name, and noise

jobVars    == <<tool, input, filters>>
traceVars  == <<traces, names, filter>>
resultVars == <<data, bins, stats>>
vars == <<jobVars, phase, traceVars, pos, bitmap, finder, running, tally, resultVars>>

NoTally == [e \in EventKind |-> [count |-> 0, index |-> 1]]

Init ==
  /\ tool \in [action : {"merge", "latency", "errors", "interrupts"}, target : Targets \cup {RootOnly}]
  /\ tool.action = "merge" => tool.target = RootOnly
  /\ input \in UNION {[1 .. n -> File] : n \in 0 .. MaxFiles}
  /\ filters \in UNION {[1 .. n -> Filters] : n \in 0 .. MaxFilters}
  /\ tool.action = "merge" => Len(input) >= 2
  /\ phase = "filter"
  /\ traces = [i \in DOMAIN input |-> Contents[input[i]]] /\ names = input
  /\ filter = 1 /\ pos = 1 /\ bitmap = <<>>
  /\ finder = <<>> /\ running = FALSE
  /\ tally = NoTally /\ data = <<>> /\ bins = Bins(<<>>, 1)
  /\ stats = {}

Current == traces[pos]
Target  == IF phase = "filter" THEN filters[filter].target ELSE tool.target

Matches(frame, target) == target # RootOnly => frame.name \in target

Latency(frame) == frame.end - frame.start   \* metrics.total_time()

-----------------------------------------------------------------------------
(* FrameFinder *)

NewFinder(i) == [frame |-> i, produced |-> FALSE,
                 remaining_chunks |-> IF Target = RootOnly THEN <<>> ELSE Current.frames[i].chunks]

\* the loops of the tools and of the filters come to the next trace
NextTrace ==
  /\ ~running
  /\ phase \in {"filter", "collect"}
  /\ phase = "filter" => filter <= Len(filters)
  /\ pos <= Len(traces)
  /\ finder' = <<NewFinder(Root)>> /\ running' = TRUE
  /\ tally' = NoTally
  /\ UNCHANGED <<jobVars, phase, traceVars, pos, bitmap, resultVars>>

Innermost == Head(finder)
Found     == Current.frames[Innermost.frame]

Finding  == running /\ finder # <<>>
Produced == [finder EXCEPT ![1].produced = TRUE]

Rest == [finder EXCEPT ![1].remaining_chunks = Tail(@)]

\* mutated form: a frame that matches is not searched for others
DescendUnlessFound(chunk) ==
  IF chunk = 0 \/ Matches(Found, Target) THEN Rest ELSE <<NewFinder(chunk)>> \o Rest

\* a child gets a finder of its own, a pause does not
Descend(chunk) == IF chunk = 0 THEN Rest ELSE <<NewFinder(chunk)>> \o Rest

SkipSelf == /\ Finding /\ ~Innermost.produced
            /\ ~Matches(Found, Target)
            /\ finder' = Produced
            /\ UNCHANGED <<jobVars, phase, traceVars, pos, bitmap, running, tally, resultVars>>

SearchChunk == /\ Finding /\ Innermost.produced
               /\ Innermost.remaining_chunks # <<>>
               /\ finder' = Descend(Head(Innermost.remaining_chunks))
               /\ UNCHANGED <<jobVars, phase, traceVars, pos, bitmap, running, tally, resultVars>>

LeaveFinder == /\ Finding /\ Innermost.produced
               /\ Innermost.remaining_chunks = <<>>
               /\ finder' = Tail(finder)
               /\ UNCHANGED <<jobVars, phase, traceVars, pos, bitmap, running, tally, resultVars>>

-----------------------------------------------------------------------------
(* run_filter, filter_bitmap and filter_traces *)

Within(n, b) == b.min <= n /\ n <= b.max

\* scan_event goes through the occurrences before the end of the frame that
\* no earlier frame went through, and counts those within the frame.
Passed(occurences, from, frame) ==
  {i \in DOMAIN occurences : i >= from /\ \A j \in from .. i : occurences[j] < frame.end}

\* mutated form: starts over for every frame
ScanEventAgain(t, occurences, frame) ==
  [t EXCEPT !.count = @ + Cardinality({i \in Passed(occurences, 1, frame) : occurences[i] >= frame.start})]

ScanEvent(t, occurences, frame) ==
  LET passed == Passed(occurences, t.index, frame)
  IN  [count |-> t.count + Cardinality({i \in passed : occurences[i] >= frame.start}),
       index |-> t.index + Cardinality(passed)]

Scanned == [e \in EventKind |-> ScanEvent(tally[e], Current[e], Found)]

Judge(verdict) == /\ bitmap' = Append(bitmap, verdict)
                  /\ pos' = pos + 1
                  /\ finder' = <<>> /\ running' = FALSE

\* a frame to filter by: its latency decides at once, its events add up
FilterFrame ==
  /\ Finding /\ ~Innermost.produced /\ phase = "filter"
  /\ Matches(Found, Target)
  /\ IF Within(Latency(Found), filters[filter].latency)
     THEN /\ tally' = Scanned
          /\ finder' = Produced
          /\ UNCHANGED <<bitmap, pos, running, stats>>
     ELSE Judge(FALSE) /\ UNCHANGED tally
  /\ UNCHANGED <<jobVars, phase, traceVars, resultVars>>

EndTrace ==
  /\ running /\ finder = <<>> /\ phase = "filter"
  /\ Judge(\A e \in EventKind : Within(tally[e].count, filters[filter][e]))
  /\ UNCHANGED <<jobVars, phase, traceVars, tally, resultVars>>

\* retain: what the bitmap marks, position by position
Retain(s, bits) == LET kept == {i \in DOMAIN s : bits[i]}
                   IN  [k \in 1 .. Cardinality(kept) |->
                          s[CHOOSE i \in kept : Cardinality({j \in kept : j <= i}) = k]]

\* mutated form: forgets to filter the names
KeepNames(bits) == names

RetainNames(bits) == Retain(names, bits)

EndFilter ==
  /\ phase = "filter" /\ ~running
  /\ filter <= Len(filters) /\ pos > Len(traces)
  /\ traces' = Retain(traces, bitmap)
  /\ names' = RetainNames(bitmap)
  /\ bitmap' = <<>> /\ pos' = 1 /\ filter' = filter + 1
  /\ UNCHANGED <<jobVars, phase, finder, running, tally, resultVars>>

\* the merge of no traces panics, that of one is a copy of it
EndFilters ==
  /\ phase = "filter" /\ ~running
  /\ filter > Len(filters)
  /\ phase' = IF tool.action # "merge" THEN "collect"
              ELSE IF traces = <<>> THEN "panicked"
              ELSE IF Len(traces) = 1 THEN "merged" ELSE "merge"
  /\ UNCHANGED <<jobVars, traceVars, pos, bitmap, finder, running, tally, resultVars>>

-----------------------------------------------------------------------------
(* add_histogram_datapoint and the histogram *)

CollectFrame ==
  /\ Finding /\ ~Innermost.produced /\ phase = "collect"
  /\ Matches(Found, Target)
  /\ finder' = Produced
  /\ IF tool.action = "latency"
     THEN data' = Append(data, Latency(Found)) /\ UNCHANGED tally
     ELSE tally' = Scanned /\ UNCHANGED data
  /\ UNCHANGED <<jobVars, phase, traceVars, pos, bitmap, running, bins, stats>>

EndCollect ==
  /\ running /\ finder = <<>> /\ phase = "collect"
  /\ running' = FALSE /\ pos' = pos + 1
  /\ data' = IF tool.action = "latency" THEN data
             ELSE Append(data, tally[tool.action].count * Unit)
  /\ UNCHANGED <<jobVars, phase, traceVars, bitmap, finder, tally, bins, stats>>

Show ==
  /\ phase = "collect" /\ ~running /\ pos > Len(traces)
  /\ \E step \in 1 .. MaxStep : bins' = Bins(data, step)
  /\ phase' = IF ShowPanics(bins') THEN "panicked" ELSE "shown"
  /\ UNCHANGED <<jobVars, traceVars, pos, bitmap, finder, running, tally, data, stats>>

-----------------------------------------------------------------------------
(***************************************************************************)
(* RawLatencies and NoiseContribution (merge/stats.rs), for a frame merged *)
(* from one frame of each of some traces.  Which ones is Merge's business; *)
(* here any may be picked, of equal traces the same.                       *)
(***************************************************************************)
ChildrenTime(t, frame) ==
  FoldSeq(LAMBDA c, sum : sum + (IF c = 0 THEN 0 ELSE Latency(t.frames[c])), 0, frame.chunks)

NoiseLatency(t, frame, mode) ==
  IF mode = "inclusive" THEN Latency(frame) ELSE Latency(frame) - ChildrenTime(t, frame)

LatenciesByName(picked, indices) ==
  [n \in {names[i] : i \in indices} |->
     LET last == Max({i \in indices : names[i] = n}) IN Latency(picked[last])]

\* a frame's own latency and what is left of its trace's; nothing of too few
\* traces, or of equal ones
NoiseOf(picked, indices, mode) ==
  LET e2e == [i \in indices |-> Latency(traces[i].frames[Root])]
      own == [i \in indices |-> NoiseLatency(traces[i], picked[i], mode)]
  IN  IF Cardinality(indices) < MinDatapoints \/ \A i, j \in indices : e2e[i] = e2e[j] THEN {}
      ELSE {[own |-> own[i], rest |-> e2e[i] - own[i]] : i \in indices}

RecordStats ==
  /\ phase = "merge"
  /\ \E chosen \in (SUBSET ToSet(traces)) \ {{}}, mode \in {"inclusive", "exclusive"} :
     \E pick \in [chosen -> UNION {DOMAIN t.frames : t \in chosen}] :
       /\ \A t \in chosen : pick[t] \in DOMAIN t.frames
       /\ \A t, u \in chosen : t.frames[pick[t]].name = u.frames[pick[u]].name
       /\ LET indices == {i \in DOMAIN traces : traces[i] \in chosen}
              picked  == [i \in indices |-> traces[i].frames[pick[traces[i]]]]
          IN  stats' = {[raw  |-> LatenciesByName(picked, indices),
                         noise |-> NoiseOf(picked, indices, mode)]}
  /\ phase' = "merged"
  /\ UNCHANGED <<jobVars, traceVars, pos, bitmap, finder, running, tally, data, bins>>

Next == \/ NextTrace \/ SkipSelf \/ SearchChunk \/ LeaveFinder
        \/ FilterFrame \/ EndTrace \/ EndFilter \/ EndFilters
        \/ CollectFrame \/ EndCollect \/ Show \/ RecordStats

Spec == Init /\ [][Next]_vars

-----------------------------------------------------------------------------
(* What the filters and the data mean, without a search or a running index. *)

Hits(t, target) == IF target = RootOnly THEN {Root}
                   ELSE {i \in DOMAIN t.frames : t.frames[i].name \in target}

\* occurrences while any of the frames was running, each counted once
During(t, e, target) ==
  Cardinality({k \in DOMAIN t[e] : \E i \in Hits(t, target) :
                 t.frames[i].start <= t[e][k] /\ t[e][k] < t.frames[i].end})

Passes(t, f) == /\ \A i \in Hits(t, f.target) : Within(Latency(t.frames[i]), f.latency)
                /\ \A e \in EventKind : Within(During(t, e, f.target), f[e])

Datapoints(t) ==
  IF tool.action = "latency"
  THEN LET hits == SetToSortSeq(Hits(t, tool.target), LAMBDA i, j : i < j)
       IN  [k \in DOMAIN hits |-> Latency(t.frames[hits[k]])]
  ELSE <<During(t, tool.action, tool.target) * Unit>>

\* After the filters exactly those files are left, in their order, in which
\* every frame that matches has a latency within the range, and the events
\* during any of these frames, taken together, are as many as allowed: an
\* event counts once even if the frames are nested or share an instant.
\* (This is run_filter's notion of a trace that passes.  The documentation
\* speaks of the events of each function; the README's section on where code
\* and comments disagree shows a file that the two judge differently.)
FiltersExact ==
  phase # "filter" =>
    names = SelectSeq(input, LAMBDA n : \A i \in DOMAIN filters : Passes(Contents[n], filters[i]))

\* Statistics are recorded by position, under the name at that position and
\* against the latency of the trace there: every latency is that of a frame of
\* the file it is recorded for, also after filters, and neither difference,
\* that of a frame and its children or that of a trace and a frame, is
\* negative (they are unsigned).
StatsOfOwnFiles ==
  \A s \in stats :
    /\ \A n \in DOMAIN s.raw : \E i \in DOMAIN Contents[n].frames :
         s.raw[n] = Latency(Contents[n].frames[i])
    /\ \A n \in s.noise : n.own >= 0 /\ n.rest >= 0

\* The histogram is of the latency of every frame that matches, nested ones
\* too, in the order of their calls, or of one count for every trace.
DatapointsExact ==
  phase = "shown" =>
    data = FlattenSeq([i \in DOMAIN names |-> Datapoints(Contents[names[i]])])

\* Every datapoint is in a bin, also the largest, whatever the width of the
\* bins; with that, show never divides by zero.
EveryDatapointInABin ==
  phase \in {"shown", "panicked"} /\ tool.action # "merge" =>
    /\ phase = "shown"
    /\ FoldSeq(LAMBDA n, sum : n + sum, 0, bins.counts) = Len(data)

\* Quartiles are in order, and at least half of the data lies between the
\* first and the third, for an odd or even number of datapoints and halves.
QuartilesHoldHalf ==
  phase = "shown" =>
    \A s \in Stats(data) :
      /\ s.min <= s.q1 /\ s.q1 <= s.median /\ s.median <= s.q3 /\ s.q3 <= s.max
      /\ 2 * Cardinality({k \in DOMAIN data : s.q1 <= 2 * data[k] /\ 2 * data[k] <= s.q3}) >= Len(data)
=============================================================================
