------------------------------- MODULE DataRate -------------------------------
(***************************************************************************)
(* The rate at which trace data was produced, over a sliding window        *)
(* (DataRateHistogram in process-trace/src/data_rate.rs).  "You can think  *)
(* of time as segmented into an infinite number of bin_width sized bins,   *)
(* and each bin stores the number of bytes in the trace that were produced *)
(* during that time window": the newest NumBins of them are kept, the one  *)
(* of the current time first.                                              *)
(*                                                                         *)
(* The decoder calls update before every block with how much of the trace  *)
(* is decoded and the time of the block.  An update across several bins    *)
(* walks from one boundary to the next, one step of the model each.        *)
(* points holds the updates that were accepted; only the properties refer  *)
(* to it.                                                                  *)
(***************************************************************************)
EXTENDS Integers, Sequences

CONSTANTS Window, Granularity,
          BinLimit,           \* a bin counts modulo this (2^32)
          MaxTime, MaxBytes,  \* bounds on what update is called with
          MaxUpdates,
          Nothing             \* None

NumBins == Window \div Granularity

ASSUME RateAssumption == /\ Window \in Nat /\ Granularity \in Nat \ {0}
                         /\ NumBins \in Nat \ {0}
                         /\ BinLimit \in Nat \ {0}
                         /\ MaxTime \in Nat /\ MaxBytes \in Nat /\ MaxUpdates \in Nat
                         /\ Nothing \notin Nat

VARIABLES current_time, current_bytes,  \* Nothing before the first update
          bins,
          walk,                         \* the walk of an update, if one is going on
          points

vars == <<current_time, current_bytes, bins, walk, points>>

NoWalk == [timestamp |-> 0, bytes |-> 0, cursor |-> 0, assigned |-> 0, running |-> FALSE]

Init == /\ current_time = Nothing /\ current_bytes = Nothing
        /\ bins = [i \in 1 .. NumBins |-> 0]
        /\ walk = NoWalk
        /\ points = <<>>

Idle == ~walk.running

\* DataRateHistogram::update is called
Called(bytes, timestamp) == /\ Idle
                            /\ Len(points) < MaxUpdates
                            /\ bytes \in 0 .. MaxBytes /\ timestamp \in 0 .. MaxTime

Accepted(bytes, timestamp) == points' = Append(points, [time |-> timestamp, bytes |-> bytes])

AddToHead(b, n) == [b EXCEPT ![1] = (@ + n) % BinLimit]

FirstUpdate(bytes, timestamp) ==
  /\ Called(bytes, timestamp)
  /\ current_time = Nothing
  /\ current_bytes' = bytes /\ current_time' = timestamp
  /\ Accepted(bytes, timestamp)
  /\ UNCHANGED <<bins, walk>>

Stale(bytes, timestamp) == timestamp < current_time \/ bytes < current_bytes

\* an update whose time stands still goes to the current bin
UpdateInPlace(bytes, timestamp) ==
  /\ Called(bytes, timestamp)
  /\ current_time # Nothing /\ ~Stale(bytes, timestamp)
  /\ timestamp = current_time
  /\ bins' = AddToHead(bins, bytes - current_bytes)
  /\ current_bytes' = bytes
  /\ Accepted(bytes, timestamp)
  /\ UNCHANGED <<current_time, walk>>

BeginWalk(bytes, timestamp) ==
  /\ Called(bytes, timestamp)
  /\ current_time # Nothing /\ ~Stale(bytes, timestamp)
  /\ timestamp > current_time
  /\ walk' = [timestamp |-> timestamp, bytes |-> bytes, cursor |-> current_time,
              assigned |-> 0, running |-> TRUE]
  /\ UNCHANGED <<current_time, current_bytes, bins, points>>

\* mutated form: a cursor on a boundary stays there
BoundaryAt(cursor) == ((cursor + Granularity - 1) \div Granularity) * Granularity

NextBoundary(cursor) == (cursor \div Granularity + 1) * Granularity

NextCursor == IF NextBoundary(walk.cursor) < walk.timestamp
              THEN NextBoundary(walk.cursor) ELSE walk.timestamp

ByteDelta == walk.bytes - current_bytes
TimeDelta == walk.timestamp - current_time

\* mutated form: the share of the piece, rounded on its own
ThroughPiece(cursor) == (ByteDelta * (cursor - walk.cursor)) \div TimeDelta

\* bytes_through_next_cursor: the bytes are evenly distributed over the time
Through(cursor) == (ByteDelta * (cursor - current_time)) \div TimeDelta

\* the head goes into the next bin, and the oldest one out of the buffer
PushFront(b) == <<0>> \o SubSeq(b, 1, NumBins - 1)

\* mutated form: a bin is begun only by what lies beyond the boundary
CrossesLate(cursor) == cursor > NextBoundary(walk.cursor)

Crosses(cursor) == cursor = NextBoundary(walk.cursor)

WalkStep ==
  /\ walk.running
  /\ walk.cursor < walk.timestamp
  /\ LET filled == AddToHead(bins, Through(NextCursor) - walk.assigned)
     IN  bins' = IF Crosses(NextCursor) THEN PushFront(filled) ELSE filled
  /\ walk' = [walk EXCEPT !.cursor = NextCursor, !.assigned = Through(NextCursor)]
  /\ UNCHANGED <<current_time, current_bytes, points>>

EndWalk ==
  /\ walk.running
  /\ walk.cursor >= walk.timestamp
  /\ current_bytes' = walk.bytes /\ current_time' = walk.cursor
  /\ walk' = NoWalk
  /\ Accepted(walk.bytes, walk.timestamp)
  /\ UNCHANGED bins

IgnoreUpdate(bytes, timestamp) ==
  /\ Called(bytes, timestamp)
  /\ current_time # Nothing /\ Stale(bytes, timestamp)
  /\ UNCHANGED vars

Next == \/ \E bytes \in 0 .. MaxBytes, timestamp \in 0 .. MaxTime :
             \/ FirstUpdate(bytes, timestamp) \/ UpdateInPlace(bytes, timestamp)
             \/ BeginWalk(bytes, timestamp) \/ IgnoreUpdate(bytes, timestamp)
        \/ WalkStep
        \/ EndWalk

\* update is a function: once called it runs on
Spec == Init /\ [][Next]_vars /\ WF_vars(WalkStep \/ EndWalk)

-----------------------------------------------------------------------------
(***************************************************************************)
(* The bytes produced before time x, as the accepted updates tell: between *)
(* two updates they grow evenly, rounded down.                             *)
(***************************************************************************)
ProducedBefore(x) ==
  LET last == CHOOSE k \in 0 .. Len(points) :
                \A i \in DOMAIN points : i <= k <=> points[i].time < x
      p    == points[last]
      q    == points[last + 1]
  IN  IF last = 0 THEN points[1].bytes
      ELSE IF last = Len(points) THEN p.bytes
      ELSE p.bytes + ((q.bytes - p.bytes) * (x - p.time)) \div (q.time - p.time)

Newest == current_time \div Granularity

\* Between updates every bin of the buffer holds exactly the bytes that were
\* produced in its own stretch of time: none is lost to rounding, counted
\* twice, or left in a neighbouring bin, when an update ends on a boundary,
\* spans bins, stands still or is ignored.  (Of the bins before time 0
\* nothing was produced.)
BinsHoldTheirBytes ==
  Idle /\ points # <<>> =>
    \A i \in 1 .. NumBins :
      LET k == Newest - i + 1 IN
      bins[i] = (ProducedBefore((k + 1) * Granularity) - ProducedBefore(k * Granularity)) % BinLimit

\* The walk hands out all the bytes of its update by the time it ends.
AllAssigned == walk.running /\ walk.cursor >= walk.timestamp => walk.assigned = ByteDelta

\* Every update comes to an end: the cursor moves even if it is on a boundary.
UpdateEnds == walk.running ~> Idle
=============================================================================
