----------------------------- MODULE TraceBuilder -----------------------------
(***************************************************************************)
(* TraceBuilder and PausedTraceBuilder (pt-fuser/src/trace/builder.rs):    *)
(* the call stack of a trace under construction.                           *)
(*                                                                         *)
(* The two Rust types consume themselves on every call that changes which  *)
(* of them exists; `mode' says which one the owner holds.  Completed       *)
(* frames, which Rust moves into their parents, are kept in `done' and     *)
(* named by their position there, so that a property of every frame of the *)
(* tree is a property of every element of a sequence.  complete_frame runs *)
(* in several steps, one per add_child or add_pause, because each of them  *)
(* can fail.                                                               *)
(***************************************************************************)
EXTENDS Frames

CONSTANTS
  Symbol,           \* the symbols of the traced program
  EventId,          \* the events a trace registers
  PltStubs,         \* is_plt_stub: pairs of a stub and the function it jumps to
  RemovePltStubs,   \* FrameCompletionOptions::remove_plt_stubs
  Points            \* the points callers pass

ASSUME SymbolsAssumption == Symbol # {}
ASSUME StubsAssumption == PltStubs \subseteq Symbol \X Symbol
ASSUME RemoveAssumption == RemovePltStubs \in BOOLEAN
ASSUME CallPointsAssumption == Points \subseteq Point

VARIABLES
  mode,          \* which builder the owner holds, and how a call ended
  lastMetrics,   \* TraceBuilder::last_metrics
  stack,         \* callstack and, last, current_frame: incomplete frames
  events,        \* occurrences of each event
  pauseStart,    \* PausedTraceBuilder::pause_start
  done,          \* the completed frames of the trace
  root,          \* the root frame of a completed trace, 0 before
  completing     \* complete_frame under way: the new frame, the children to add

builderVars == <<mode, lastMetrics, stack, events, pauseStart, done, root, completing>>

Mode == {"none", "in_progress", "paused", "completing", "completed", "failed", "panicked"}

IncompleteFrame(s, m) == [symbol |-> s, start |-> m, children |-> <<>>]

\* the value of `completing' outside complete_frame
NotCompleting == [frame |-> [symbol |-> CHOOSE s \in Symbol : TRUE, start |-> Constant(0),
                             end |-> Constant(0), chunks |-> <<>>],
                  rest  |-> <<>>]

BuilderInit == /\ mode = "none"
               /\ lastMetrics = Constant(0)
               /\ stack = <<>>
               /\ events = [e \in EventId |-> <<>>]
               /\ pauseStart = Constant(0)
               /\ done = <<>>
               /\ root = 0
               /\ completing = NotCompleting

-----------------------------------------------------------------------------
(***************************************************************************)
(* What the owner reads.                                                   *)
(***************************************************************************)
CallstackDepth == Len(stack)

\* get_frame_symbol: 0 is the frame on top
FrameSymbol(i) == stack[Len(stack) - i].symbol

-----------------------------------------------------------------------------
(***************************************************************************)
(* ensure_monotonic panics when a counter falls below the last call's.     *)
(***************************************************************************)
Panic == /\ mode' = "panicked"
         /\ UNCHANGED <<lastMetrics, stack, events, pauseStart, done, root, completing>>

EnsureMonotonic(m) == ~Decreases(lastMetrics, m)

\* TraceBuilder::new, and new_event for every event the owner registers at once
NewBuilder(m, s) ==
  /\ mode = "none"
  /\ mode' = "in_progress"
  /\ lastMetrics' = m
  /\ stack' = <<IncompleteFrame(s, m)>>
  /\ UNCHANGED <<events, pauseStart, done, root, completing>>

PushFrame(m, s) ==
  /\ mode = "in_progress"
  /\ IF EnsureMonotonic(m)
     THEN /\ lastMetrics' = m
          /\ stack' = Append(stack, IncompleteFrame(s, m))
          /\ UNCHANGED <<mode, events, pauseStart, done, root, completing>>
     ELSE Panic

\* mutated form: occurrences are appended
PartitionPointEnd(occurrences, m) == Len(occurrences)

\* Vec::partition_point on occurrences sorted by time: how many are not later
PartitionPoint(occurrences, m) ==
  Max({k \in 0 .. Len(occurrences) : \A i \in 1 .. k : occurrences[i].ts <= m.ts})

EventOccured(e, m) ==
  /\ mode = "in_progress"
  /\ events' = [events EXCEPT ![e] = InsertAt(@, PartitionPoint(@, m) + 1, m)]
  /\ UNCHANGED <<mode, lastMetrics, stack, pauseStart, done, root, completing>>

\* pause checks nothing and leaves last_metrics alone
Pause(m) ==
  /\ mode = "in_progress"
  /\ mode' = "paused"
  /\ pauseStart' = m
  /\ UNCHANGED <<lastMetrics, stack, events, done, root, completing>>

\* resume stores the pause in the current frame; its range is asserted to be one
Resume(m) ==
  /\ mode = "paused"
  /\ IF EnsureMonotonic(m) /\ IsRange(MetricsRange(pauseStart, m))
     THEN /\ mode' = "in_progress"
          /\ lastMetrics' = m
          /\ stack' = [stack EXCEPT ![Len(stack)].children =
                                      Append(@, PauseChunk(pauseStart, m))]
          /\ pauseStart' = Constant(0)
          /\ UNCHANGED <<events, done, root, completing>>
     ELSE Panic

-----------------------------------------------------------------------------
(***************************************************************************)
(* complete_frame.  The current frame leaves the stack and becomes a       *)
(* Frame, which goes to the frame below it or, from an empty callstack, is *)
(* the root of the completed trace.                                        *)
(***************************************************************************)

HandOver(id, p, q) ==
  LET below == IF mode = "completing" THEN stack ELSE Front(stack) IN
  IF below = <<>>
  THEN /\ mode' = "completed"
       /\ stack' = <<>>
       /\ root' = id
  ELSE /\ mode' = "in_progress"
       /\ stack' = [below EXCEPT ![Len(below)].children = Append(@, FrameChunk(id, p, q))]
       /\ UNCHANGED root

\* the frame is a PLT stub and its only child the function it stands for
StandsForChild(f) ==
  /\ RemovePltStubs
  /\ Len(f.children) = 1
  /\ f.children[1].kind = "Frame"
  /\ <<f.symbol, done[f.children[1].id].symbol>> \in PltStubs

\* mutated form: the child keeps its own start
ReplaceStubKeepsStart(f, m) ==
  LET id == f.children[1].id IN
  /\ done' = [done EXCEPT ![id].end = m]
  /\ HandOver(id, f.start, m)
  /\ UNCHANGED completing

\* The child takes the place, and the whole time, of its stub.
ReplaceStub(f, m) ==
  LET id == f.children[1].id IN
  /\ done' = [done EXCEPT ![id].start = f.start, ![id].end = m]
  /\ HandOver(id, f.start, m)
  /\ UNCHANGED completing

\* mutated form: the children of the frame are dropped
BeginFrameEmpty(f, m) ==
  /\ mode' = "completing"
  /\ stack' = Front(stack)
  /\ completing' = [frame |-> [symbol |-> f.symbol, start |-> f.start, end |-> m,
                               chunks |-> <<>>],
                    rest  |-> <<>>]
  /\ UNCHANGED <<done, root>>

BeginFrame(f, m) ==
  /\ mode' = "completing"
  /\ stack' = Front(stack)
  /\ completing' = [frame |-> [symbol |-> f.symbol, start |-> f.start, end |-> m,
                               chunks |-> <<>>],
                    rest  |-> f.children]
  /\ UNCHANGED <<done, root>>

CompleteFrame(m) ==
  /\ mode = "in_progress"
  /\ LET f == Last(stack) IN
       IF EnsureMonotonic(m) /\ IsRange(MetricsRange(f.start, m))
       THEN /\ lastMetrics' = m
            /\ IF StandsForChild(f) THEN ReplaceStub(f, m) ELSE BeginFrame(f, m)
            /\ UNCHANGED <<events, pauseStart>>
       ELSE Panic

\* One add_child or add_pause of IncompleteFrame::complete.  When the frame
\* refuses the child, complete_frame returns the error and the builder is gone.
AddNextChild ==
  /\ mode = "completing"
  /\ completing.rest # <<>>
  /\ LET c == Head(completing.rest) IN
       IF Accepts(completing.frame, c)
       THEN /\ completing' = [frame |-> InsertChunk(completing.frame, c),
                              rest  |-> Tail(completing.rest)]
            /\ UNCHANGED mode
       ELSE /\ mode' = "failed"
            /\ UNCHANGED completing
  /\ UNCHANGED <<lastMetrics, stack, events, pauseStart, done, root>>

EndFrame ==
  /\ mode = "completing"
  /\ completing.rest = <<>>
  /\ done' = Append(done, completing.frame)
  /\ HandOver(Len(done) + 1, completing.frame.start, completing.frame.end)
  /\ completing' = NotCompleting
  /\ UNCHANGED <<lastMetrics, events, pauseStart>>

-----------------------------------------------------------------------------
(***************************************************************************)
(* The owner takes a completed trace, or lets go of a builder.             *)
(***************************************************************************)
NoBuilder == /\ mode' = "none"
             /\ lastMetrics' = Constant(0)
             /\ stack' = <<>>
             /\ events' = [e \in EventId |-> <<>>]
             /\ pauseStart' = Constant(0)
             /\ done' = <<>>
             /\ root' = 0
             /\ completing' = NotCompleting

TakeTrace == mode = "completed" /\ NoBuilder

DropBuilder == mode \in {"in_progress", "paused"} /\ NoBuilder

-----------------------------------------------------------------------------
(***************************************************************************)
(* Any owner: calls in any order the types allow, with any points.         *)
(***************************************************************************)
Call(m) ==
  \/ \E s \in Symbol : NewBuilder(m, s)
  \/ \E s \in Symbol : PushFrame(m, s)
  \/ CompleteFrame(m)
  \/ Pause(m)
  \/ Resume(m)

RecordEvent == \E m \in Points, e \in EventId : EventOccured(e, m)

Proceed == AddNextChild \/ EndFrame

BuilderNext == \/ \E m \in Points : Call(m)
               \/ RecordEvent
               \/ Proceed
               \/ TakeTrace
               \/ DropBuilder

BuilderSpec == BuilderInit /\ [][BuilderNext]_builderVars

(***************************************************************************)
(* An owner whose points never fall behind those of its earlier calls,     *)
(* pauses included.  Events are recorded at any time: their time need not  *)
(* be in order.                                                            *)
(***************************************************************************)
Latest == IF mode = "paused" THEN pauseStart ELSE lastMetrics

MonotoneNext ==
  \/ \E m \in Points : (mode # "none" => Leq(Latest, m)) /\ Call(m)
  \/ RecordEvent
  \/ Proceed
  \/ TakeTrace
  \/ DropBuilder

MonotoneSpec == BuilderInit /\ [][MonotoneNext]_builderVars

-----------------------------------------------------------------------------
(***************************************************************************)
(* Properties.                                                             *)
(***************************************************************************)
Incomplete == [symbol : Symbol, start : Point, children : Seq(Chunk)]

Complete == [symbol : Symbol, start : Point, end : Point, chunks : Seq(Chunk)]

\* Every variable has its type.
BuilderTypeOK ==
  /\ mode \in Mode
  /\ lastMetrics \in Point
  /\ stack \in Seq(Incomplete)
  /\ events \in [EventId -> Seq(Point)]
  /\ pauseStart \in Point
  /\ done \in Seq(Complete)
  /\ root \in 0 .. Len(done)
  /\ completing \in [frame : Complete, rest : Seq(Chunk)]

\* The lists of chunks a builder holds: in finished frames, in unfinished ones and,
\* during complete_frame, in the new frame and among the children still to add.
Places == ({"done"} \X (1 .. Len(done))) \cup ({"stack"} \X (1 .. Len(stack)))
            \cup ({"completing"} \X {1, 2})

ChunksAt(p) ==
  CASE p[1] = "done"            -> done[p[2]].chunks
    [] p[1] = "stack"           -> stack[p[2]].children
    [] p = <<"completing", 1>>  -> completing.frame.chunks
    [] p = <<"completing", 2>>  -> completing.rest

\* the chunk stands for the completed frame id
StandsFor(c, id) == c.kind = "Frame" /\ c.id = id

\* Whatever its owner passes, also to pause, a frame the builder has completed
\* is well-formed in all three counters, and stays so when it takes over the
\* time of the PLT stub that called it.
CompletedWellFormed ==
  /\ \A i \in 1 .. Len(done) : WellFormed(done[i])
  /\ WellFormed(completing.frame)

\* A chunk that stands for a completed frame has the frame's own range: no
\* later call (the removal of a PLT stub is one that changes a frame) makes the
\* parent's view of its child stale.
ChunksMatchFrames ==
  \A p \in Places : \A i \in 1 .. Len(ChunksAt(p)) :
    LET c == ChunksAt(p)[i] IN
      c.kind = "Frame" => /\ c.id \in 1 .. Len(done)
                          /\ c.start = done[c.id].start
                          /\ c.end = done[c.id].end

\* Completed frames form a tree: each is held at exactly one position of one
\* list of chunks, apart from the root of a completed trace, which is held by
\* none.  Nothing is lost or doubled when children move from unfinished to
\* finished frames or from a PLT stub to its caller.
HeldNowhere(id) ==
  \A p \in Places : \A i \in 1 .. Len(ChunksAt(p)) : ~StandsFor(ChunksAt(p)[i], id)

HeldOnce(id) ==
  \E p \in Places : \E i \in 1 .. Len(ChunksAt(p)) :
    \A q \in Places : \A j \in 1 .. Len(ChunksAt(q)) :
      StandsFor(ChunksAt(q)[j], id) <=> (q = p /\ j = i)

EachFrameHeldOnce ==
  \A id \in 1 .. Len(done) : IF id = root THEN HeldNowhere(id) ELSE HeldOnce(id)

\* Event::occurences are sorted by time (the INVARIANT of the field), although
\* event_occured takes points in any order.
OccurrencesSorted ==
  \A e \in EventId : \A i, j \in 1 .. Len(events[e]) :
    i < j => events[e][i].ts <= events[e][j].ts

\* An owner that moves forward in time never loses its builder: no assertion
\* trips, and complete_frame, whose caller unwraps the result, never returns
\* an error.
NeverLost == mode \notin {"failed", "panicked"}

\* For such an owner the children of every unfinished frame are ranges in
\* chronological order between the frame's start and the latest call.
ChildrenChronological ==
  \A k \in 1 .. Len(stack) :
    LET children == stack[k].children IN
      /\ Leq(stack[k].start, lastMetrics)
      /\ \A i \in 1 .. Len(children) :
           /\ Leq(stack[k].start, children[i].start)
           /\ Leq(children[i].start, children[i].end)
           /\ Leq(children[i].end, lastMetrics)
      /\ \A i, j \in 1 .. Len(children) :
           i < j => Leq(children[i].end, children[j].start)

\* For such an owner the search of insert_chunk changes nothing: each child
\* ends up behind those that were added before it.
StoredInCallOrder ==
  [][AddNextChild =>
       completing'.frame.chunks = Append(completing.frame.chunks, Head(completing.rest))
    ]_builderVars
=============================================================================
