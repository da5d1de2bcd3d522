---------------------------- MODULE MCTraceBuilder ----------------------------
(***************************************************************************)
(* A small instance of TraceBuilder.  Time moves together with cycles; the *)
(* instruction count has a step of its own, so that a call can be behind   *)
(* in one counter only.                                                    *)
(***************************************************************************)
EXTENDS TraceBuilder

CONSTANTS
  MaxFrames,        \* bound: frames of one trace
  MaxPauses,        \* bound: pauses in one incomplete frame
  MaxOccurrences,   \* bound: occurrences of one event
  MaxTogether       \* bound: frames and occurrences of one event together

At(t, n) == [ts |-> t, cycles |-> t, insn_count |-> n]

FewPoints == {At(0, 0), At(1, 0), At(1, 1)}

Stubs == {<<"f@plt", "f">>}

\* the pauses of the k-th frame on the stack, an ongoing one included
Pauses(k) == {i \in 1 .. Len(stack[k].children) : stack[k].children[i].kind = "Pause"}
               \cup (IF mode = "paused" THEN {0} ELSE {})

WithinBounds ==
  /\ Len(done) + Len(stack) <= MaxFrames
  /\ stack # <<>> => Cardinality(Pauses(Len(stack))) <= MaxPauses
  /\ \A e \in EventId : /\ Len(events[e]) <= MaxOccurrences
                         /\ Len(done) + Len(stack) + Len(events[e]) <= MaxTogether

BoundedBuilderSpec == BuilderInit /\ [][BuilderNext /\ WithinBounds']_builderVars
=============================================================================
