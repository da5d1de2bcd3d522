-------------------------- MODULE FrameChunksProofs --------------------------
(***************************************************************************)
(* Proofs about one frame and the walk of check_invariant over it, for     *)
(* every set of points and any number of chunks.                           *)
(***************************************************************************)
EXTENDS FrameChunks, FramesProofs

FrameType == [start : Point, end : Point, chunks : Seq(Chunk)]

-----------------------------------------------------------------------------
(***************************************************************************)
(* The inductive invariant.  An iterator on its way stands at the start of *)
(* the gap before its next chunk or at the end of that gap, and has added  *)
(* up exactly what lies between the start of the frame and its position.   *)
(***************************************************************************)

WalkInPlace ==
  walk.status \in {"walking", "ended"} =>
    /\ walk.total = Elapsed(frame.start, walk.curr)
    /\ Leq(frame.start, walk.curr)
    /\ Leq(GapStart(frame, walk.index), walk.curr)
    /\ Leq(walk.curr, GapEnd(frame, walk.index))
    /\ walk.status = "ended" => walk.curr = frame.end

IInv == /\ TypeOK
        /\ FrameWellFormed
        /\ WalkNeverPanics
        /\ WalkInPlace

\* Callers pass ranges: MetricsRange::new has checked them.
LEMMA CandidateType ==
  ASSUME NEW c \in Candidates
  PROVE  c \in Chunk /\ Leq(c.start, c.end)
  <1>1. PICK r \in Ranges : \/ c = FrameChunk(1, r.start, r.end)
                            \/ c = PauseChunk(r.start, r.end)
    BY DEF Candidates
  <1>2. r.start \in Point /\ r.end \in Point /\ ~Decreases(r.start, r.end)
    BY PointsAssumption DEF Ranges, IsRange
  <1>3. Leq(r.start, r.end)
    BY <1>2, PointOrder
  <1>. QED
    BY <1>1, <1>2, <1>3 DEF FrameChunk, PauseChunk, Chunk, ChunkKind

\* Between walks the iterator has its initial value.
LEMMA IdleType == Idle \in [status : WalkStatus, curr : Point, index : Nat, total : Point]
  BY DEF Idle, WalkStatus, Constant, Point

\* An empty frame satisfies the invariant.
LEMMA InitEstablishes == Init => IInv
  <1> SUFFICES ASSUME Init PROVE IInv
    OBVIOUS
  <1>1. PICK r \in Ranges : frame = [start |-> r.start, end |-> r.end, chunks |-> <<>>]
    BY DEF Init
  <1>2. r.start \in Point /\ r.end \in Point /\ ~Decreases(r.start, r.end)
    BY PointsAssumption DEF Ranges, IsRange
  <1>3. TypeOK
    <2>1. frame \in [start : Point, end : Point, chunks : Seq(Chunk)]
      BY <1>1, <1>2
    <2>2. walk.index = 0 /\ Len(frame.chunks) = 0
      BY <1>1 DEF Init, Idle
    <2>. QED
      BY <2>1, <2>2, IdleType DEF TypeOK, Init
  <1>4. FrameWellFormed
    BY <1>1, <1>2, PointOrder
       DEF FrameWellFormed, WellFormed, ChunksInside, ChunksChronological
  <1>5. WalkNeverPanics /\ WalkInPlace
    BY DEF Init, Idle, WalkNeverPanics, WalkInPlace
  <1>. QED
    BY <1>3, <1>4, <1>5 DEF IInv

\* Every addition and every step of the walk keeps it.
LEMMA NextPreserves == IInv /\ [Next]_vars => IInv'
  <1> SUFFICES ASSUME IInv, [Next]_vars
               PROVE  IInv'
    OBVIOUS
  <1> USE DEF IInv
  <1>1. /\ frame \in FrameType /\ IsFrame(frame)
        /\ walk \in [status : WalkStatus, curr : Point, index : Nat, total : Point]
        /\ walk.index \in 0 .. Len(frame.chunks)
        /\ WellFormed(frame)
        /\ walk.curr \in Point
    BY DEF TypeOK, FrameType, FrameWellFormed, IsFrame
  <1>2. ASSUME NEW c \in Candidates, AddChunk(c)
        PROVE  IInv'
    <2>1. frame' = InsertChunk(frame, c) /\ walk' = Idle /\ Accepts(frame, c)
      BY <1>2 DEF AddChunk
    <2>2. frame' \in FrameType /\ WellFormed(frame')
      <3>1. /\ frame'.start = frame.start /\ frame'.end = frame.end
            /\ frame'.chunks = InsertAt(frame.chunks, Slot(frame, c) + 1, c)
        BY <1>1, <2>1 DEF InsertChunk, FrameType
      <3>2. IsFrame(frame') /\ WellFormed(frame')
        BY <1>1, <2>1, <3>1, CandidateType, InsertKeepsWellFormed
      <3>. QED
        BY <1>1, <2>1, <3>2 DEF InsertChunk, FrameType, IsFrame
    <2>3. walk'.index <= Len(frame'.chunks)
      BY <2>1, <2>2 DEF Idle, FrameType
    <2>. QED
      BY <2>1, <2>2, <2>3, IdleType
         DEF TypeOK, FrameWellFormed, WalkNeverPanics, WalkInPlace, Idle, FrameType
  <1>3. CASE BeginWalk
    <2>1. /\ frame' = frame
          /\ walk' = [status |-> "walking", curr |-> frame.start, index |-> 0,
                      total |-> Constant(0)]
      BY <1>3 DEF BeginWalk, Idle
    <2>2. Leq(frame.start, GapEnd(frame, 0))
      BY <1>1, ChunkType DEF GapEnd, WellFormed, ChunksInside
    <2>3. Elapsed(frame.start, frame.start) = Constant(0) /\ Leq(frame.start, frame.start)
      BY <1>1, ChunkType, ElapsedAdds, PointOrder
    <2>4. WalkInPlace'
      BY <2>1, <2>2, <2>3 DEF WalkInPlace, GapStart, GapEnd
    <2>5. TypeOK'
      BY <1>1, <2>1, ChunkType, IdleType DEF TypeOK, WalkStatus, Idle, FrameType
    <2>. QED
      BY <1>1, <2>1, <2>4, <2>5 DEF FrameWellFormed, WalkNeverPanics
  <1>4. CASE YieldStraightline
    <2> DEFINE next == GapEnd(frame, walk.index)
    <2>1. /\ walk.status = "walking" /\ frame' = frame
          /\ Yield(next, walk.index)
      BY <1>4 DEF YieldStraightline, Yield
    <2>2. next \in Point /\ Leq(walk.curr, next) /\ ~Decreases(walk.curr, next)
      BY <1>1, <2>1, ChunkType, PointOrder DEF GapEnd, WalkInPlace
    <2> HIDE DEF next
    <2>3. walk' = [walk EXCEPT !.curr  = next,
                               !.index = walk.index,
                               !.total = Plus(@, Elapsed(walk.curr, next))]
      BY <2>1, <2>2 DEF Yield, IsRange, MetricsRange
    <2>4. /\ walk'.status = "walking" /\ walk'.curr = next
          /\ walk'.index = walk.index
          /\ walk'.total = Elapsed(frame.start, next)
      BY <1>1, <2>1, <2>2, <2>3, ChunkType, ElapsedAdds DEF WalkInPlace
    <2>5. Leq(frame.start, next) /\ Leq(GapStart(frame, walk.index), next)
      <3>1. GapStart(frame, walk.index) \in Point
        BY <1>1, ChunkType DEF GapStart
      <3>. QED
        BY <1>1, <2>1, <2>2, <3>1, ChunkType, PointOrder DEF WalkInPlace
    <2>6. WalkInPlace'
      BY <1>1, <2>1, <2>2, <2>4, <2>5, PointOrder DEF WalkInPlace, next, GapStart, GapEnd
    <2>7. TypeOK'
      <3>1. Elapsed(frame.start, next) \in Point
        BY <1>1, <2>2, <2>5, ChunkType, ElapsedAdds
      <3>. QED
        BY <1>1, <2>1, <2>2, <2>3, <2>4, <3>1 DEF TypeOK, FrameType
    <2>. QED
      BY <1>1, <2>1, <2>4, <2>6, <2>7 DEF FrameWellFormed, WalkNeverPanics
  <1>5. CASE YieldChunk
    <2> DEFINE c == frame.chunks[walk.index + 1]
    <2>1. /\ walk.status = "walking" /\ frame' = frame
          /\ walk.index + 1 \in 1 .. Len(frame.chunks)
          /\ ~Decreases(GapEnd(frame, walk.index), walk.curr)
          /\ walk' = [walk EXCEPT !.curr  = c.end,
                                  !.index = @ + 1,
                                  !.total = Plus(@, Elapsed(c.start, c.end))]
      BY <1>1, <1>5, ChunkType DEF StraightlineAhead, YieldChunk
    <2>2. /\ c.start \in Point /\ c.end \in Point
          /\ Leq(frame.start, c.start) /\ Leq(c.start, c.end) /\ Leq(c.end, frame.end)
      BY <1>1, <2>1, ChunkType DEF WellFormed, ChunksInside
    <2>3. GapEnd(frame, walk.index) = c.start
      BY <1>1, <2>1, ChunkType DEF GapEnd
    <2>4. walk.curr = c.start
      BY <1>1, <2>1, <2>2, <2>3, PointOrder DEF WalkInPlace
    <2>5. Leq(c.end, GapEnd(frame, walk.index + 1))
      <3>1. CASE walk.index + 1 = Len(frame.chunks)
        BY <2>2, <3>1 DEF GapEnd
      <3>2. CASE walk.index + 1 # Len(frame.chunks)
        <4>1. walk.index + 1 + 1 \in 1 .. Len(frame.chunks)
          BY <1>1, <2>1, <3>2, ChunkType
        <4>2. Leq(c.end, frame.chunks[walk.index + 1 + 1].start)
          BY <1>1, <2>1, <4>1 DEF WellFormed, ChunksChronological
        <4>. QED
          BY <3>2, <4>2 DEF GapEnd
      <3>. QED
        BY <3>1, <3>2
    <2>6. GapStart(frame, walk.index + 1) = c.end
      BY <1>1 DEF GapStart
    <2> HIDE DEF c
    <2>7. /\ walk'.status = "walking" /\ walk'.curr = c.end
          /\ walk'.index = walk.index + 1
          /\ walk'.total = Elapsed(frame.start, c.end)
      BY <1>1, <2>1, <2>2, <2>4, ChunkType, ElapsedAdds DEF WalkInPlace
    <2>8. Leq(frame.start, c.end)
      BY <1>1, <2>2, ChunkType, PointOrder
    <2>9. WalkInPlace'
      BY <2>1, <2>2, <2>5, <2>6, <2>7, <2>8, PointOrder DEF WalkInPlace, GapStart, GapEnd
    <2>10. TypeOK'
      <3>1. Elapsed(frame.start, c.end) \in Point
        BY <1>1, <2>2, <2>8, ChunkType, ElapsedAdds
      <3>2. walk'.index \in Nat /\ walk'.index <= Len(frame.chunks)
        BY <1>1, <2>1, <2>7, ChunkType
      <3>. QED
        BY <1>1, <2>1, <2>2, <2>7, <3>1, <3>2 DEF TypeOK, FrameType
    <2>. QED
      BY <1>1, <2>1, <2>7, <2>9, <2>10 DEF FrameWellFormed, WalkNeverPanics
  <1>6. CASE EndWalk
    <2>1. /\ walk.status = "walking" /\ frame' = frame
          /\ walk.index = Len(frame.chunks)
          /\ ~Decreases(GapEnd(frame, walk.index), walk.curr)
          /\ walk' = [walk EXCEPT !.status = "ended"]
      BY <1>6 DEF StraightlineAhead, EndWalk
    <2>2. walk.curr = frame.end
      BY <1>1, <2>1, ChunkType, PointOrder DEF WalkInPlace, GapEnd
    <2>. QED
      BY <1>1, <2>1, <2>2
         DEF TypeOK, FrameWellFormed, WalkNeverPanics, WalkInPlace, WalkStatus, GapStart, GapEnd
  <1>7. CASE ReturnResult
    <2>1. frame' = frame /\ walk' = Idle
      BY <1>7 DEF ReturnResult
    <2>. QED
      BY <1>1, <2>1, IdleType, ChunkType
         DEF TypeOK, FrameWellFormed, WalkNeverPanics, WalkInPlace, Idle, FrameType
  <1>8. CASE UNCHANGED vars
    BY <1>8 DEF vars, TypeOK, FrameWellFormed, WalkNeverPanics, WalkInPlace, GapStart, GapEnd
  <1>. QED
    BY <1>2, <1>3, <1>4, <1>5, <1>6, <1>7, <1>8 DEF Next, RefuseChunk

\* The inductive invariant holds in every reachable state.
LEMMA Invariance == Spec => []IInv
  BY InitEstablishes, NextPreserves, PTL DEF Spec

\* Frame and iterator always hold values of their types.
THEOREM TypeCorrect == Spec => []TypeOK
  BY Invariance, PTL DEF IInv

\* Chunks stay inside the frame, disjoint and in order, whatever is added.
THEOREM FrameAlwaysWellFormed == Spec => []FrameWellFormed
  BY Invariance, PTL DEF IInv

\* check_invariant returns true for every frame built by add_child and
\* add_pause: the pieces ChunkIterator yields sum up to the frame.
THEOREM CheckInvariantAlwaysHolds == Spec => []CheckInvariantHolds
  <1>1. IInv => CheckInvariantHolds
    BY DEF IInv, WalkInPlace, CheckInvariantHolds
  <1>. QED
    BY <1>1, Invariance, PTL

\* None of the ranges ChunkIterator builds trips MetricsRange::new's assertions.
THEOREM WalkNeverTripsAssertion == Spec => []WalkNeverPanics
  BY Invariance, PTL DEF IInv

\* insert_chunk refuses a chunk only if it fits in no gap at all.
THEOREM RefusalIsJustified == Spec => []RefusesOnlyWithoutGap
  <1>1. IInv => RefusesOnlyWithoutGap
    <2> SUFFICES ASSUME IInv, NEW c \in Candidates,
                        NEW i \in 0 .. Len(frame.chunks), Includes(Gap(frame, i), c)
                 PROVE  Accepts(frame, c)
      BY DEF RefusesOnlyWithoutGap
    <2>1. i \in Slots(frame, c)
      BY CandidateType, RoomyGapIsSlot DEF IInv, TypeOK, IsFrame, FrameWellFormed
    <2>. QED
      BY <2>1 DEF Accepts
  <1>. QED
    BY <1>1, Invariance, PTL

\* Chunks of one instant keep the order in which they were added.
THEOREM TiesAlwaysKeepArrivalOrder == Spec => []TiesKeepArrivalOrder
  <1>1. IInv => TiesKeepArrivalOrder
    BY CandidateType, SlotKeepsArrivalOrder
       DEF IInv, TypeOK, IsFrame, FrameWellFormed, TiesKeepArrivalOrder
  <1>. QED
    BY <1>1, Invariance, PTL

-----------------------------------------------------------------------------
(***************************************************************************)
(* The storage of ranges.                                                  *)
(***************************************************************************)

\* What is below a base goes into the lowest digit, and what is above it comes
\* out as it was.
LEMMA LowestDigit ==
  ASSUME NEW base \in Nat \ {0}, NEW n \in Nat, NEW r \in Nat, r < base
  PROVE  (n * base + r) \div base = n /\ (n * base + r) % base = r
  <1> DEFINE v == n * base + r
             q == v \div base
             t == v % base
  <1>1. v \in Nat /\ n * base \in Nat
    OBVIOUS
  <1>2. /\ q \in Int /\ t \in Int
        /\ v = base * q + t /\ 0 <= t /\ t < base
    BY <1>1
  <1> HIDE DEF q, t
  <1>3. base * (n - q) = t - r
    BY <1>2
  <1>4. -base < base * (n - q) /\ base * (n - q) < base
    BY <1>2, <1>3
  <1>5. n - q = 0
    <2>1. n - q \in Int
      BY <1>2
    <2>2. CASE n - q >= 1
      BY <1>4, <2>1, <2>2
    <2>3. CASE n - q <= -1
      BY <1>4, <2>1, <2>3
    <2>. QED
      BY <2>1, <2>2, <2>3
  <1>6. t = r
    BY <1>2, <1>3, <1>5
  <1>. QED
    BY <1>2, <1>5, <1>6 DEF q, t

\* Three differences that fit come out of the word as they went in.
LEMMA UnpackedIsPacked ==
  ASSUME NEW d \in Point, FieldsFit(d)
  PROVE  PackedDiff(d) \in Nat /\ Unpacked(PackedDiff(d)) = d
  <1>1. /\ FieldSize \in Nat \ {0} /\ d.ts \in Nat /\ d.cycles \in Nat /\ d.insn_count \in Nat
        /\ d.ts < FieldSize /\ d.cycles < FieldSize /\ d.insn_count < FieldSize
    BY FieldAssumption DEF Point, FieldsFit
  <1> DEFINE high == d.ts * FieldSize + d.cycles
  <1>2. high \in Nat
    BY <1>1
  <1>3. high \div FieldSize = d.ts /\ high % FieldSize = d.cycles
    BY <1>1, LowestDigit
  <1>4. d.ts % FieldSize = d.ts
    BY <1>1
  <1> HIDE DEF high
  <1> DEFINE low == d.insn_count
  <1>5. low \in Nat /\ low < FieldSize
    BY <1>1
  <1> HIDE DEF low
  <1>6. FieldSize \in Nat \ {0} /\ high * FieldSize + low \in Nat
    BY <1>1, <1>2, <1>5
  <1>7. /\ high * FieldSize + low \in Nat
        /\ (high * FieldSize + low) \div FieldSize = high
        /\ (high * FieldSize + low) % FieldSize = low
    BY <1>2, <1>5, <1>6, LowestDigit
  <1>8. PackedDiff(d) = high * FieldSize + low
    BY DEF PackedDiff, high, low
  <1>9. Unpacked(PackedDiff(d)) = [ts |-> d.ts, cycles |-> d.cycles, insn_count |-> d.insn_count]
    BY <1>3, <1>4, <1>7, <1>8 DEF Unpacked, low
  <1>. QED
    BY <1>7, <1>8, <1>9 DEF Point

\* MetricsRange::end returns what MetricsRange::new was given, for all points
\* and any size of the fields.
LEMMA RangeSurvives ==
  ASSUME NEW p \in Point, NEW q \in Point, Leq(p, q)
  PROVE  Survives(p, q)
  <1> DEFINE d == Elapsed(p, q)
  <1>1. d \in Point
    BY ElapsedAdds
  <1>2. Plus(p, d) = q
    BY DEF Point, Plus, Elapsed
  <1> HIDE DEF d
  <1>3. Totals(Store(p, q)) = d
    <2>1. CASE FieldsFit(d)
      <3>1. Store(p, q) = [start |-> p, end |-> Inline(PackedDiff(d))]
        BY <2>1 DEF Store, d
      <3>2. PackedDiff(d) \in Nat /\ Unpacked(PackedDiff(d)) = d
        BY <1>1, <2>1, UnpackedIsPacked
      <3>3. (2 * PackedDiff(d) + 1) % 2 = 1 /\ (2 * PackedDiff(d) + 1) \div 2 = PackedDiff(d)
        BY <3>2
      <3>. QED
        BY <3>1, <3>2, <3>3 DEF Totals, IsInline, Inline
    <2>2. CASE ~FieldsFit(d)
      <3>1. Store(p, q) = [start |-> p, end |-> Ptr(q)]
        BY <2>2 DEF Store, d
      <3> DEFINE word == Ptr(q)
                 held == CHOOSE e \in word.heap : TRUE
      <3>2. ~IsInline(word) /\ held = q
        BY DEF IsInline, Ptr
      <3> HIDE DEF word
      <3>3. Totals([start |-> p, end |-> word]) = Elapsed(p, held)
        BY <3>2 DEF Totals
      <3>. QED
        BY <3>1, <3>2, <3>3 DEF d, word
    <2>. QED
      BY <2>1, <2>2
  <1>. QED
    BY <1>2, <1>3 DEF Survives, StoredEnd, Store

\* No range of a frame, its chunks or its straight lines is changed by being
\* stored, however wide the fields are.
THEOREM RangesAlwaysSurvive == Spec => []RangesSurvive
  <1>1. IInv => RangesSurvive
    <2> SUFFICES ASSUME IInv PROVE RangesSurvive
      OBVIOUS
    <2>1. IsFrame(frame) /\ WellFormed(frame)
      BY DEF IInv, TypeOK, IsFrame, FrameWellFormed
    <2>2. Survives(frame.start, frame.end)
      BY <2>1, ChunkType, RangeSurvives DEF WellFormed
    <2>3. \A i \in DOMAIN frame.chunks : Survives(frame.chunks[i].start, frame.chunks[i].end)
      BY <2>1, ChunkType, RangeSurvives DEF WellFormed, ChunksInside
    <2>4. walk.status = "walking" => Survives(walk.curr, GapEnd(frame, walk.index))
      <3>1. GapEnd(frame, walk.index) \in Point /\ walk.curr \in Point
        BY <2>1, ChunkType DEF IInv, TypeOK, GapEnd
      <3>. QED
        BY <3>1, RangeSurvives DEF IInv, WalkInPlace
    <2>. QED
      BY <2>2, <2>3, <2>4 DEF RangesSurvive
  <1>. QED
    BY <1>1, Invariance, PTL
=============================================================================
