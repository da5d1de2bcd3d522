-------------------------------- MODULE MCMerge --------------------------------
(***************************************************************************)
(* A small instance of MergeEvents: four traces of two lengths, of seven   *)
(* shapes, with the threshold of the code.                                 *)
(***************************************************************************)
EXTENDS MergeEvents

\* Instructions do not pass in proportion to time.
At(t, n) == [ts |-> t, cycles |-> 2 * t, insn_count |-> n]

Os(ts) == [i \in DOMAIN ts |-> At(ts[i], ts[i] \div 2)]

\* a root frame with its i-th chunk at the given times
Original(start, end, symbols, times, events) ==
  [start |-> At(start, 0), end |-> At(end, 6),
   chunks |-> [i \in DOMAIN symbols |->
                [symbol |-> symbols[i], start |-> At(times[i][1], i), end |-> At(times[i][2], i + 1)]],
   events |-> events]

Shapes == {
  Original(0, 8, <<"f", "g", "h">>, <<<<0, 1>>, <<1, 2>>, <<2, 3>>>>, << Event(1, Os(<<1, 6>>)) >>),
  Original(0, 8, <<"g", "f", "h">>, <<<<0, 5>>, <<5, 6>>, <<7, 8>>>>,
           << Event(2, Os(<<0>>)), Event(1, Os(<<2, 2>>)) >>),
  Original(2, 6, <<"h", "f", "g">>, <<<<2, 5>>, <<5, 6>>, <<6, 6>>>>, << Event(1, Os(<<3>>)), Event(2, Os(<<3, 6>>)) >>),
  Original(0, 8, <<"f", "f">>, <<<<6, 7>>, <<7, 8>>>>, <<>>),
  Original(0, 8, <<Pause, "f", Pause>>, <<<<0, 2>>, <<2, 3>>, <<4, 4>>>>, << Event(2, Os(<<8>>)) >>),
  Original(0, 8, <<"g", Pause>>, <<<<7, 7>>, <<7, 8>>>>, << Event(1, Os(<<5>>)) >>),
  Original(2, 6, <<>>, <<>>, << Event(1, Os(<<2, 5>>)) >>) }

Latencies(ps) == [t \in DOMAIN ps |-> Elapsed(ps[t].start, ps[t].end)]

WithoutEvents(p) == [start |-> p.start, end |-> p.end, chunks |-> p.chunks]

\* Whole traces, and frames inside them whose merged frame has been cut short.
FourTraces ==
  {[parents |-> ps, start |-> At(0, 0), end |-> Average(Latencies(ps))] : ps \in [1 .. 4 -> Shapes]}
  \cup
  {[parents |-> [t \in 1 .. 4 |-> WithoutEvents(ps[t])], start |-> At(1, 2), end |-> At(6, 5)] :
     ps \in [1 .. 4 -> Shapes]}
=============================================================================
