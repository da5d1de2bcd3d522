------------------------------- MODULE MCPerfetto -------------------------------
(***************************************************************************)
(* Small traces: a root with up to two chunks, each a pause or a child     *)
(* that may contain a pause, and up to two kinds of events.                *)
(***************************************************************************)
EXTENDS Perfetto

PauseAt(s, e) == [kind |-> "Pause", id |-> 0, start |-> s, end |-> e]
ChildAt(id, s, e) == [kind |-> "Frame", id |-> id, start |-> s, end |-> e]

Plain(name, s, e, chunks) ==
  [name |-> name, keys |-> <<>>, values |-> <<>>, start |-> s, end |-> e, chunks |-> chunks,
   start_rate |-> {}, end_rate |-> {7}]

\* a frame annotated with a map, in which "k" is used twice, and a rate
Annotated(name, s, e, chunks) ==
  [Plain(name, s, e, chunks) EXCEPT !.keys = <<"k", "l", "k">>, !.values = <<"v", "w">>,
                                      !.start_rate = {5}]

Nested(s, e) == {<<>>, <<PauseAt(s, e)>>}

First  == {<<>>, <<PauseAt(1, 3)>>, <<ChildAt(2, 1, 3)>>}
Second == {<<>>, <<PauseAt(3, 5)>>, <<ChildAt(3, 4, 6)>>}

EventChoices == {
  <<>>,
  << [id |-> 1, description |-> "overflow", occurences |-> <<0, 2>>],
     [id |-> 20, description |-> "interrupt", occurences |-> <<>>] >> }

\* root, first and second child; a child that is no chunk of the root is left out
FrameSet(one, two, n2, n3) ==
  LET present == {1} \cup (IF \E c \in ToSet(one) : c.kind = "Frame" THEN {2} ELSE {})
                     \cup (IF \E c \in ToSet(two) : c.kind = "Frame" THEN {3} ELSE {})
  IN [id \in present |-> CASE id = 1 -> Plain("main", 0, 6, one \o two)
                            [] id = 2 -> Annotated("f", 1, 3, n2)
                            [] id = 3 -> Annotated("main", 4, 6, n3)]

SmallTraces ==
  {[root |-> 1, frames |-> FrameSet(one, two, n2, n3), events |-> ev] :
     one \in First, two \in Second, n2 \in Nested(1, 2), n3 \in Nested(4, 6), ev \in EventChoices}

\* what the theorems assume of traces besides TracesAssumption
ASSUME SmallTracesAssumption == EventsApart /\ FramesReachable /\ PausesTakeTime
=============================================================================
