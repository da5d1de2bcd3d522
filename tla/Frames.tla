-------------------------------- MODULE Frames --------------------------------
(***************************************************************************)
(* Completed stack frames (pt-fuser/src/trace/frame.rs).                   *)
(*                                                                         *)
(* A frame covers a range of time and stores, in chronological order, the  *)
(* child frames and the pauses that fill part of it; what is left between  *)
(* them (a gap) is straight-line execution of the frame itself and is not  *)
(* stored.  A chunk is represented by its kind, its range and an           *)
(* identifier that tells frames apart; what a child frame contains in turn *)
(* plays no part in where it is inserted.                                  *)
(***************************************************************************)
EXTENDS Metrics, Sequences, SequencesExt

ChunkKind == {"Frame", "Pause"}

Chunk == [kind : ChunkKind, id : Nat, start : Point, end : Point]

\* StoredChunk::Frame and StoredChunk::Pause
FrameChunk(id, p, q) == [kind |-> "Frame", id |-> id, start |-> p, end |-> q]
PauseChunk(p, q)     == [kind |-> "Pause", id |-> 0, start |-> p, end |-> q]

(***************************************************************************)
(* Gap(f, i) is the stretch of f between its i-th chunk and the next one,  *)
(* with 0 and Len(f.chunks) for the stretches at both ends.                *)
(***************************************************************************)
GapStart(f, i) == IF i = 0 THEN f.start ELSE f.chunks[i].end
GapEnd(f, i)   == IF i = Len(f.chunks) THEN f.end ELSE f.chunks[i + 1].start
Gap(f, i)      == MetricsRange(GapStart(f, i), GapEnd(f, i))

(***************************************************************************)
(* Frame::insert_chunk visits the gaps from the last to the first, gives   *)
(* up as soon as one (other than the first) ends before the chunk does,    *)
(* and takes the first that includes the chunk.  So gap i is taken only    *)
(* when no gap visited up to it makes the loop give up.                    *)
(***************************************************************************)
\* mutated form: gives up on a gap that ends together with the chunk
GivesUpBug(f, c, i) == i > 0 /\ ( \/ GapEnd(f, i).ts <= c.end.ts
                                  \/ GapEnd(f, i).cycles <= c.end.cycles )

GivesUp(f, c, i) == i > 0 /\ Decreases(c.end, GapEnd(f, i))

Slots(f, c) == {i \in 0 .. Len(f.chunks) :
                  /\ Includes(Gap(f, i), c)
                  /\ \A j \in i .. Len(f.chunks) : ~GivesUp(f, c, j)}

\* insert_chunk returns Ok rather than Err(InvalidRange)
Accepts(f, c) == Slots(f, c) # {}

\* mutated form: the gaps are visited from the first to the last
SlotBug(f, c) == CHOOSE i \in Slots(f, c) : \A j \in Slots(f, c) : i <= j

Slot(f, c) == CHOOSE i \in Slots(f, c) : \A j \in Slots(f, c) : j <= i

InsertChunk(f, c) == [f EXCEPT !.chunks = InsertAt(@, Slot(f, c) + 1, c)]

(***************************************************************************)
(* What the chunks of a frame always look like: ranges inside the frame,   *)
(* each ending no later than any chunk stored after it starts.             *)
(***************************************************************************)
ChunksInside(f) ==
  \A i \in 1 .. Len(f.chunks) : /\ Leq(f.start, f.chunks[i].start)
                                /\ Leq(f.chunks[i].start, f.chunks[i].end)
                                /\ Leq(f.chunks[i].end, f.end)

ChunksChronological(f) ==
  \A i, j \in 1 .. Len(f.chunks) :
    i < j => Leq(f.chunks[i].end, f.chunks[j].start)

WellFormed(f) == /\ Leq(f.start, f.end)
                 /\ ChunksInside(f)
                 /\ ChunksChronological(f)
=============================================================================
