----------------------------- MODULE FrameChunks -----------------------------
(***************************************************************************)
(* One frame of the public API: chunks are added in any order, and between *)
(* additions the frame is walked by ChunkIterator on behalf of             *)
(* Frame::check_invariant (pt-fuser/src/trace/frame.rs).                   *)
(***************************************************************************)
EXTENDS Frames, Packing

CONSTANTS
  Points,     \* the points that ranges are made of
  MaxChunks   \* bound: chunks stored in the frame

ASSUME PointsAssumption == Points \subseteq Point
ASSUME MaxChunksAssumption == MaxChunks \in Nat

VARIABLES
  frame,      \* the frame: its range and its stored chunks
  walk        \* check_invariant under way: the iterator and the running totals

vars == <<frame, walk>>

Ranges == {r \in [start : Points, end : Points] : IsRange(r)}

Candidates ==
  {FrameChunk(1, r.start, r.end) : r \in Ranges}
    \cup {PauseChunk(r.start, r.end) : r \in Ranges}

WalkStatus == {"idle", "walking", "ended", "panicked"}

Idle == [status |-> "idle", curr |-> Constant(0), index |-> 0,
         total |-> Constant(0)]

Init == /\ frame \in {[start |-> r.start, end |-> r.end, chunks |-> <<>>] :
                        r \in Ranges}
        /\ walk = Idle

-----------------------------------------------------------------------------
(***************************************************************************)
(* add_child and add_pause.  A refused chunk leaves the frame as it is.    *)
(***************************************************************************)
AddChunk(c) ==
  /\ walk = Idle
  /\ Len(frame.chunks) < MaxChunks
  /\ Accepts(frame, c)
  /\ frame' = InsertChunk(frame, c)
  /\ UNCHANGED walk

RefuseChunk(c) ==
  /\ walk = Idle
  /\ ~Accepts(frame, c)
  /\ UNCHANGED vars

(***************************************************************************)
(* check_invariant: ChunkIterator::new, one ChunkIterator::next per step,  *)
(* the yielded chunk's totals added up, and the comparison at the end.     *)
(***************************************************************************)
BeginWalk ==
  /\ walk = Idle
  /\ walk' = [Idle EXCEPT !.status = "walking", !.curr = frame.start]
  /\ UNCHANGED frame

\* ChunkIterator yields the range from its position to p.  The range is built
\* by MetricsRange::new, which panics when a counter falls.
Yield(p, index) ==
  /\ walk' = IF IsRange(MetricsRange(walk.curr, p))
             THEN [walk EXCEPT !.curr  = p,
                               !.index = index,
                               !.total = Plus(@, Elapsed(walk.curr, p))]
             ELSE [walk EXCEPT !.status = "panicked"]
  /\ UNCHANGED frame

\* mutated form: >= for > when a straight line is looked for
StraightlineAheadEmpty == Leq(walk.curr, GapEnd(frame, walk.index))

\* Some counter of the next chunk's start, or of the frame's end, is ahead.
StraightlineAhead == Decreases(GapEnd(frame, walk.index), walk.curr)

YieldStraightline ==
  /\ walk.status = "walking"
  /\ StraightlineAhead
  /\ Yield(GapEnd(frame, walk.index), walk.index)

\* mutated form: the iterator stays at the start of the chunk it yields
YieldChunkStays ==
  /\ walk.status = "walking"
  /\ walk.index < Len(frame.chunks)
  /\ ~StraightlineAhead
  /\ LET c == frame.chunks[walk.index + 1] IN
       /\ walk' = [walk EXCEPT !.curr  = c.start,
                               !.index = @ + 1,
                               !.total = Plus(@, Elapsed(c.start, c.end))]
       /\ UNCHANGED frame

YieldChunk ==
  /\ walk.status = "walking"
  /\ walk.index < Len(frame.chunks)
  /\ ~StraightlineAhead
  /\ LET c == frame.chunks[walk.index + 1] IN
       /\ walk' = [walk EXCEPT !.curr  = c.end,
                               !.index = @ + 1,
                               !.total = Plus(@, Elapsed(c.start, c.end))]
       /\ UNCHANGED frame

EndWalk ==
  /\ walk.status = "walking"
  /\ walk.index = Len(frame.chunks)
  /\ ~StraightlineAhead
  /\ walk' = [walk EXCEPT !.status = "ended"]
  /\ UNCHANGED frame

ReturnResult ==
  /\ walk.status = "ended"
  /\ walk' = Idle
  /\ UNCHANGED frame

Next == \/ \E c \in Candidates : AddChunk(c) \/ RefuseChunk(c)
        \/ BeginWalk
        \/ YieldStraightline
        \/ YieldChunk
        \/ EndWalk
        \/ ReturnResult

Spec == Init /\ [][Next]_vars /\ WF_vars(YieldStraightline \/ YieldChunk \/ EndWalk)

-----------------------------------------------------------------------------
(***************************************************************************)
(* Properties.                                                             *)
(***************************************************************************)

\* Frame and iterator hold values of their types.
TypeOK ==
  /\ frame \in [start : Point, end : Point, chunks : Seq(Chunk)]
  /\ walk \in [status : WalkStatus, curr : Point, index : Nat, total : Point]
  /\ walk.index <= Len(frame.chunks)

\* Whatever is added, in whatever order, insert_chunk keeps the chunks of a
\* frame inside its range, disjoint and in chronological order, in all three
\* counters at once.
FrameWellFormed == WellFormed(frame)

\* insert_chunk gives up early when a gap ends before the chunk does.  It never
\* does so when an earlier gap would have taken the chunk: a refused chunk
\* really overlaps something or sticks out of the frame.
RefusesOnlyWithoutGap ==
  \A c \in Candidates :
    (\E i \in 0 .. Len(frame.chunks) : Includes(Gap(frame, i), c))
      => Accepts(frame, c)

\* Zero-width chunks may share an instant with others.  insert_chunk takes the
\* last gap that fits, so no chunk that ended before the new one starts is left
\* after it: chunks of one instant keep the order they were added in.
TiesKeepArrivalOrder ==
  \A c \in Candidates :
    Accepts(frame, c) =>
      \A j \in Slot(frame, c) + 1 .. Len(frame.chunks) :
        ~Leq(frame.chunks[j].end, c.start)

\* The INVARIANT of Frame::check_invariant: over the stored chunks and the
\* straight lines ChunkIterator puts between them, time, cycles and
\* instructions sum up to those of the frame.
CheckInvariantHolds ==
  walk.status = "ended" => walk.total = Elapsed(frame.start, frame.end)

\* ChunkIterator builds each straight line with MetricsRange::new, whose
\* assertions never fail: no stored chunk starts before the iterator's position
\* in one counter and after it in another.
WalkNeverPanics == walk.status # "panicked"

\* A range is packed into one word if its differences fit, and copied if not.
\* The frame's range, those of its chunks and those the iterator yields all end
\* where they were made to, also when a difference is just as large as a field.
RangesSurvive ==
  /\ Survives(frame.start, frame.end)
  /\ \A i \in DOMAIN frame.chunks : Survives(frame.chunks[i].start, frame.chunks[i].end)
  /\ walk.status = "walking" /\ StraightlineAhead => Survives(walk.curr, GapEnd(frame, walk.index))

\* A walk ends: the iterator never yields an empty straight line twice.
WalkTerminates == (walk.status = "walking") ~> (walk.status \in {"ended", "panicked"})
=============================================================================
