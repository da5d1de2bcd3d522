--------------------------- MODULE TransformerProofs ---------------------------
(***************************************************************************)
(* Proofs about the trace builder and the driver, for every program        *)
(* (symbols, addresses, stubs, events), every clock and stacks, frames,    *)
(* traces and decoder results of any number.                               *)
(*                                                                         *)
(* Parts 1 to 3 are about TraceBuilder.  Part 1, any owner: what it        *)
(* completes is well-formed, even after a PLT stub has been removed, and   *)
(* occurrences of events are sorted.  Part 2, an owner that moves forward  *)
(* in time: completing a frame never fails and no assertion trips.         *)
(* Part 3, any owner again: completed frames form a tree.                  *)
(*                                                                         *)
(* Parts 4 and 5 are about the driver.  Part 4: whatever the decoder       *)
(* returns, in whatever order its events come and whatever the builder     *)
(* makes of the calls, the stack follows the blocks.  Part 5: with events  *)
(* in order the driver is the careful owner of Part 2, and what is proved  *)
(* of that owner is true of it.                                            *)
(***************************************************************************)
EXTENDS Transformer, FramesProofs

-----------------------------------------------------------------------------
(***************************************************************************)
(* Part 1, the inductive invariant of any owner.                           *)
(***************************************************************************)

StackInUse == /\ mode \in {"in_progress", "paused"} => stack # <<>>
              /\ mode = "none" => done = <<>>

\* frames further up the stack were called later
StackAscends ==
  /\ \A k \in 1 .. Len(stack) : Leq(stack[k].start, lastMetrics)
  /\ \A k, l \in 1 .. Len(stack) : k < l => Leq(stack[k].start, stack[l].start)

\* a child is a range and, if a frame, one that began after its parent did
ChildrenKnown ==
  \A k \in 1 .. Len(stack) : \A i \in 1 .. Len(stack[k].children) :
    /\ Leq(stack[k].children[i].start, stack[k].children[i].end)
    /\ stack[k].children[i].kind = "Frame" =>
         /\ stack[k].children[i].id \in 1 .. Len(done)
         /\ Leq(stack[k].start, done[stack[k].children[i].id].start)

DoneInThePast == \A i \in 1 .. Len(done) : Leq(done[i].end, lastMetrics)

FrameUnderWay ==
  mode = "completing" =>
    /\ Leq(completing.frame.end, lastMetrics)
    /\ \A k \in 1 .. Len(stack) : Leq(stack[k].start, completing.frame.start)
    /\ \A i \in 1 .. Len(completing.rest) :
         Leq(completing.rest[i].start, completing.rest[i].end)

IInv == /\ BuilderTypeOK
        /\ CompletedWellFormed
        /\ StackInUse
        /\ StackAscends
        /\ ChildrenKnown
        /\ DoneInThePast
        /\ FrameUnderWay

-----------------------------------------------------------------------------
(***************************************************************************)
(* Values and their types.                                                 *)
(***************************************************************************)

\* Leq is transitive.
LEMMA LeqTransitive ==
  ASSUME NEW p \in Point, NEW q \in Point, NEW r \in Point, Leq(p, q), Leq(q, r)
  PROVE  Leq(p, r)
  BY PointOrder

\* The metrics a builder starts from are a point below every other.
LEMMA ZeroIsLeast ==
  /\ Constant(0) \in Point
  /\ \A p \in Point : Leq(Constant(0), p)
  BY DEF Constant, Point, Leq

\* Outside complete_frame `completing' holds an empty frame.
LEMMA NotCompletingType ==
  /\ NotCompleting \in [frame : Complete, rest : Seq(Chunk)]
  /\ NotCompleting.rest = <<>>
  /\ WellFormed(NotCompleting.frame)
  <1>1. (CHOOSE s \in Symbol : TRUE) \in Symbol
    BY SymbolsAssumption
  <1>2. NotCompleting.frame.chunks = <<>> /\ NotCompleting.rest = <<>>
    BY DEF NotCompleting
  <1>3. NotCompleting \in [frame : Complete, rest : Seq(Chunk)]
    BY <1>1, ZeroIsLeast DEF NotCompleting, Complete
  <1>4. WellFormed(NotCompleting.frame)
    BY <1>2, ZeroIsLeast DEF NotCompleting, WellFormed, ChunksInside, ChunksChronological
  <1>. QED
    BY <1>2, <1>3, <1>4

\* Incomplete frames have a start and a list of chunks.
LEMMA IncompleteType ==
  ASSUME NEW f \in Incomplete
  PROVE  /\ f.symbol \in Symbol /\ f.start \in Point
         /\ f.children \in Seq(Chunk) /\ Len(f.children) \in Nat
         /\ \A i \in 1 .. Len(f.children) :
              /\ f.children[i] \in Chunk
              /\ f.children[i].start \in Point /\ f.children[i].end \in Point
  <1>1. f.symbol \in Symbol /\ f.start \in Point /\ f.children \in Seq(Chunk)
    BY DEF Incomplete
  <1>2. \A i \in 1 .. Len(f.children) : f.children[i] \in Chunk
    BY <1>1, ElementOfSeq
  <1>3. \A d \in Chunk : d.start \in Point /\ d.end \in Point
    BY DEF Chunk
  <1>. QED
    BY <1>1, <1>2, <1>3

\* Complete frames are frames.
LEMMA CompleteType ==
  ASSUME NEW f \in Complete
  PROVE  IsFrame(f) /\ f.symbol \in Symbol /\ f.start \in Point /\ f.end \in Point
  BY DEF Complete, IsFrame

\* What the state of a builder is made of.
LEMMA StateType ==
  ASSUME BuilderTypeOK
  PROVE  /\ Len(stack) \in Nat /\ Len(done) \in Nat
         /\ \A k \in 1 .. Len(stack) : stack[k] \in Incomplete
         /\ \A i \in 1 .. Len(done) : done[i] \in Complete
         /\ completing.frame \in Complete
         /\ completing.rest \in Seq(Chunk)
         /\ lastMetrics \in Point /\ pauseStart \in Point
  BY ElementOfSeq DEF BuilderTypeOK

\* A pause or a frame's place in its parent is a chunk.
LEMMA ChunkMade ==
  ASSUME NEW p \in Point, NEW q \in Point, NEW id \in Nat
  PROVE  /\ FrameChunk(id, p, q) \in Chunk /\ PauseChunk(p, q) \in Chunk
         /\ FrameChunk(id, p, q).kind = "Frame" /\ FrameChunk(id, p, q).id = id
         /\ FrameChunk(id, p, q).start = p /\ FrameChunk(id, p, q).end = q
         /\ PauseChunk(p, q).kind = "Pause"
         /\ PauseChunk(p, q).start = p /\ PauseChunk(p, q).end = q
  BY DEF FrameChunk, PauseChunk, Chunk, ChunkKind

-----------------------------------------------------------------------------
(***************************************************************************)
(* The stack.                                                              *)
(***************************************************************************)

\* the frames below the one that is being completed
Below == IF mode = "completing" THEN stack ELSE Front(stack)

\* Below is the lower part of the stack.
LEMMA BelowIsPrefix ==
  ASSUME BuilderTypeOK, StackInUse, mode \in {"in_progress", "completing"}
  PROVE  /\ Below \in Seq(Incomplete)
         /\ Len(Below) \in Nat /\ Len(Below) <= Len(stack)
         /\ mode = "in_progress" => Len(Below) = Len(stack) - 1
         /\ mode = "in_progress" => Last(stack) = stack[Len(stack)]
         /\ mode = "in_progress" => Len(stack) \in 1 .. Len(stack)
         /\ \A k \in 1 .. Len(Below) : Below[k] = stack[k]
  <1>1. stack \in Seq(Incomplete) /\ Len(stack) \in Nat
    BY DEF BuilderTypeOK
  <1>2. CASE mode = "completing"
    BY <1>1, <1>2 DEF Below
  <1>3. CASE mode = "in_progress"
    <2>1. stack # <<>> /\ Len(stack) >= 1
      BY <1>1, <1>3 DEF StackInUse
    <2>2. Below = SubSeq(stack, 1, Len(stack) - 1)
      BY <1>3 DEF Below, Front
    <2> DEFINE lower == SubSeq(stack, 1, Len(stack) - 1)
    <2>3. /\ lower \in Seq(Incomplete) /\ Len(lower) = Len(stack) - 1
          /\ \A k \in 1 .. Len(stack) - 1 : lower[k] = stack[k]
      <3>1. \A k \in 1 .. Len(stack) - 1 : stack[k] \in Incomplete
        BY <1>1, <2>1, StateType
      <3>2. 1 \in Int /\ Len(stack) - 1 \in Int
        BY <1>1
      <3>3. /\ lower \in Seq(Incomplete)
            /\ Len(lower) = IF 1 <= Len(stack) - 1 THEN Len(stack) - 1 - 1 + 1 ELSE 0
            /\ \A k \in 1 .. Len(stack) - 1 - 1 + 1 : lower[k] = stack[1 + k - 1]
        BY <3>1, <3>2, SubSeqProperties
      <3> HIDE DEF lower
      <3>4. Len(lower) = Len(stack) - 1
        <4>1. \A n \in Nat : n >= 1 => (IF 1 <= n - 1 THEN n - 1 - 1 + 1 ELSE 0) = n - 1
          OBVIOUS
        <4>. QED
          BY <1>1, <2>1, <3>3, <4>1
      <3>5. ASSUME NEW k \in 1 .. Len(stack) - 1
            PROVE  lower[k] = stack[k]
        <4>1. k \in 1 .. Len(stack) - 1 - 1 + 1 /\ 1 + k - 1 = k
          BY <1>1
        <4>. QED
          BY <3>3, <4>1
      <3>. QED
        BY <3>3, <3>4, <3>5
    <2>4. Last(stack) = stack[Len(stack)]
      BY DEF Last
    <2>. QED
      BY <1>1, <1>3, <2>1, <2>2, <2>3, <2>4
  <1>. QED
    BY <1>2, <1>3

\* Replacing one frame of a stack.
LEMMA ExceptFrame ==
  ASSUME NEW s \in Seq(Incomplete), NEW i \in 1 .. Len(s), NEW f \in Incomplete
  PROVE  /\ [s EXCEPT ![i] = f] \in Seq(Incomplete)
         /\ Len([s EXCEPT ![i] = f]) = Len(s)
         /\ \A k \in 1 .. Len(s) : [s EXCEPT ![i] = f][k] = IF k = i THEN f ELSE s[k]
  BY ExceptSeq

\* Giving the topmost of some frames one more child.
LEMMA AddChildToTop ==
  ASSUME NEW s \in Seq(Incomplete), s # <<>>, NEW c \in Chunk
  PROVE  LET t == [s EXCEPT ![Len(s)].children = Append(@, c)] IN
         /\ t \in Seq(Incomplete) /\ Len(t) = Len(s) /\ t # <<>>
         /\ \A k \in 1 .. Len(s) :
              /\ t[k].symbol = s[k].symbol /\ t[k].start = s[k].start
              /\ t[k].children = IF k = Len(s) THEN Append(s[k].children, c)
                                 ELSE s[k].children
  <1> DEFINE t == [s EXCEPT ![Len(s)].children = Append(@, c)]
             top == [s[Len(s)] EXCEPT !.children = Append(s[Len(s)].children, c)]
  <1>1. Len(s) \in Nat /\ Len(s) \in 1 .. Len(s)
    OBVIOUS
  <1>2. s[Len(s)] \in Incomplete /\ s[Len(s)].children \in Seq(Chunk)
    BY <1>1, ElementOfSeq, IncompleteType
  <1>3. /\ top \in Incomplete /\ top.start = s[Len(s)].start
        /\ top.symbol = s[Len(s)].symbol
        /\ top.children = Append(s[Len(s)].children, c)
    BY <1>2, AppendProperties DEF Incomplete
  <1>4. t = [s EXCEPT ![Len(s)] = top]
    OBVIOUS
  <1> HIDE DEF top
  <1>5. /\ t \in Seq(Incomplete) /\ Len(t) = Len(s)
        /\ \A k \in 1 .. Len(s) : t[k] = IF k = Len(s) THEN top ELSE s[k]
    <2> HIDE DEF t
    <2>. QED
      BY <1>1, <1>3, <1>4, ExceptFrame
  <1> HIDE DEF t
  <1>6. /\ t \in Seq(Incomplete) /\ Len(t) = Len(s) /\ t # <<>>
        /\ \A k \in 1 .. Len(s) :
              /\ t[k].symbol = s[k].symbol /\ t[k].start = s[k].start
              /\ t[k].children = IF k = Len(s) THEN Append(s[k].children, c)
                                 ELSE s[k].children
    <2>1. t # <<>>
      BY <1>1, <1>5
    <2>2. ASSUME NEW k \in 1 .. Len(s)
          PROVE  /\ t[k].symbol = s[k].symbol /\ t[k].start = s[k].start
                 /\ t[k].children = IF k = Len(s) THEN Append(s[k].children, c)
                                    ELSE s[k].children
      BY <1>3, <1>5
    <2>. QED
      BY <1>5, <2>1, <2>2
  <1>. QED
    BY <1>6 DEF t

\* Where HandOver puts a completed frame.
LEMMA HandOverPuts ==
  ASSUME BuilderTypeOK, StackInUse, mode \in {"in_progress", "completing"},
         NEW id \in Nat, NEW p \in Point, NEW q \in Point, HandOver(id, p, q)
  PROVE  /\ mode' \in {"in_progress", "completed"}
         /\ mode' = "in_progress" => stack' # <<>>
         /\ stack' \in Seq(Incomplete)
         /\ root' \in {root, id}
         /\ Len(stack') = Len(Below)
         /\ \A k \in 1 .. Len(stack') :
              /\ k \in 1 .. Len(stack)
              /\ stack'[k].symbol = stack[k].symbol /\ stack'[k].start = stack[k].start
              /\ stack'[k].children =
                   IF k = Len(Below) THEN Append(stack[k].children, FrameChunk(id, p, q))
                   ELSE stack[k].children
  <1> DEFINE c == FrameChunk(id, p, q)
  <1>1. /\ Below \in Seq(Incomplete) /\ Len(Below) \in Nat /\ Len(Below) <= Len(stack)
        /\ \A k \in 1 .. Len(Below) : Below[k] = stack[k]
        /\ Len(stack) \in Nat
    BY BelowIsPrefix, StateType
  <1>2. c \in Chunk
    BY ChunkMade
  <1>3. CASE Below = <<>>
    <2>1. mode' = "completed" /\ stack' = <<>> /\ root' = id
      BY <1>3 DEF HandOver, Below
    <2>. QED
      BY <1>3, <2>1
  <1>4. CASE Below # <<>>
    <2>1. /\ mode' = "in_progress" /\ root' = root
          /\ stack' = [Below EXCEPT ![Len(Below)].children = Append(@, c)]
      BY <1>4 DEF HandOver, Below
    <2> HIDE DEF c
    <2>2. /\ stack' \in Seq(Incomplete) /\ Len(stack') = Len(Below) /\ stack' # <<>>
          /\ \A k \in 1 .. Len(Below) :
               /\ stack'[k].symbol = Below[k].symbol /\ stack'[k].start = Below[k].start
               /\ stack'[k].children = IF k = Len(Below) THEN Append(Below[k].children, c)
                                       ELSE Below[k].children
      BY <1>1, <1>2, <1>4, <2>1, AddChildToTop
    <2>. QED
      BY <1>1, <2>1, <2>2 DEF c
  <1>. QED
    BY <1>3, <1>4

\* A frame that is given a longer time stays well-formed.
LEMMA WidenKeepsWellFormed ==
  ASSUME NEW f, IsFrame(f), WellFormed(f), NEW p \in Point, NEW q \in Point,
         Leq(p, f.start), Leq(f.end, q),
         NEW g, g.start = p, g.end = q, g.chunks = f.chunks
  PROVE  WellFormed(g)
  <1>1. /\ f.start \in Point /\ f.end \in Point /\ Len(f.chunks) \in Nat
        /\ \A i \in 1 .. Len(f.chunks) : f.chunks[i].start \in Point /\ f.chunks[i].end \in Point
    BY ChunkType
  <1>2. Leq(p, q)
    BY <1>1, LeqTransitive DEF WellFormed
  <1>3. ASSUME NEW i \in 1 .. Len(f.chunks)
        PROVE  Leq(p, f.chunks[i].start) /\ Leq(f.chunks[i].end, q)
    BY <1>1, LeqTransitive DEF WellFormed, ChunksInside
  <1>. QED
    BY <1>2, <1>3 DEF WellFormed, ChunksInside, ChunksChronological

-----------------------------------------------------------------------------
(***************************************************************************)
(* Each action keeps the invariant.                                        *)
(***************************************************************************)

\* The list of children of a frame with one more child.
LEMMA OneMoreChild ==
  ASSUME NEW list \in Seq(Chunk), NEW c \in Chunk
  PROVE  /\ Len(list) \in Nat /\ Len(Append(list, c)) = Len(list) + 1
         /\ \A i \in 1 .. Len(list) + 1 :
              Append(list, c)[i] = IF i = Len(list) + 1 THEN c ELSE list[i]
  OBVIOUS

\* Each child in it is the new one or an old one.
LEMMA NewOrOldChild ==
  ASSUME NEW list \in Seq(Chunk), NEW c \in Chunk, NEW i \in 1 .. Len(Append(list, c))
  PROVE  \/ Append(list, c)[i] = c
         \/ i \in 1 .. Len(list) /\ Append(list, c)[i] = list[i]
  BY OneMoreChild

\* Calls that change only the mode and the start of a pause.
LEMMA ModeMoves ==
  ASSUME IInv, UNCHANGED <<lastMetrics, stack, events, done, root, completing>>,
         mode' \in Mode \ {"none"}, pauseStart' \in Point,
         mode' \in {"in_progress", "paused"} => stack # <<>>,
         mode' = "completing" => mode = "completing"
  PROVE  IInv'
  BY DEF IInv, BuilderTypeOK, CompletedWellFormed, StackInUse, StackAscends, ChildrenKnown,
         DoneInThePast, FrameUnderWay

\* A panic changes nothing but the mode.
LEMMA PanicKeeps == IInv /\ Panic => IInv'
  <1> SUFFICES ASSUME IInv, Panic PROVE IInv'
    OBVIOUS
  <1>. QED
    BY ModeMoves DEF Panic, Mode, IInv, BuilderTypeOK

\* A pause only changes the mode, whatever its point.
LEMMA PauseKeeps ==
  ASSUME IInv, NEW m \in Point, Pause(m)
  PROVE  IInv'
  BY ModeMoves DEF Pause, Mode, IInv, StackInUse

\* Without a builder there is nothing to be wrong.
LEMMA NoBuilderKeeps == IInv /\ NoBuilder => IInv'
  <1> SUFFICES ASSUME IInv, NoBuilder PROVE IInv'
    OBVIOUS
  <1>1. /\ mode' = "none" /\ lastMetrics' = Constant(0) /\ stack' = <<>> /\ done' = <<>>
        /\ events' = [e \in EventId |-> <<>>] /\ pauseStart' = Constant(0) /\ root' = 0
        /\ completing' = NotCompleting
    BY DEF NoBuilder
  <1>2. BuilderTypeOK'
    BY <1>1, ZeroIsLeast, NotCompletingType DEF BuilderTypeOK, Mode
  <1>. QED
    BY <1>1, <1>2, NotCompletingType
       DEF IInv, CompletedWellFormed, StackInUse, StackAscends, ChildrenKnown, DoneInThePast,
           FrameUnderWay

\* The initial state is such a state.
LEMMA InitEstablishes == BuilderInit => IInv
  <1> SUFFICES ASSUME BuilderInit PROVE IInv
    OBVIOUS
  <1>1. /\ mode = "none" /\ lastMetrics = Constant(0) /\ stack = <<>> /\ done = <<>>
        /\ events = [e \in EventId |-> <<>>] /\ pauseStart = Constant(0) /\ root = 0
        /\ completing = NotCompleting
    BY DEF BuilderInit
  <1>2. BuilderTypeOK
    BY <1>1, ZeroIsLeast, NotCompletingType DEF BuilderTypeOK, Mode
  <1>. QED
    BY <1>1, <1>2, NotCompletingType
       DEF IInv, CompletedWellFormed, StackInUse, StackAscends, ChildrenKnown, DoneInThePast,
           FrameUnderWay

\* A new frame has no children and starts no earlier than those below it.
LEMMA NewBuilderKeeps ==
  ASSUME IInv, NEW m \in Point, NEW s \in Symbol, NewBuilder(m, s)
  PROVE  IInv'
  <1>1. /\ mode = "none" /\ mode' = "in_progress" /\ lastMetrics' = m
        /\ stack' = <<IncompleteFrame(s, m)>>
        /\ UNCHANGED <<events, pauseStart, done, root, completing>>
    BY DEF NewBuilder
  <1>2. /\ IncompleteFrame(s, m) \in Incomplete
        /\ IncompleteFrame(s, m).start = m /\ IncompleteFrame(s, m).children = <<>>
    BY DEF IncompleteFrame, Incomplete
  <1> HIDE DEF IncompleteFrame
  <1>3. /\ stack' \in Seq(Incomplete) /\ Len(stack') = 1 /\ stack' # <<>>
        /\ stack'[1].start = m /\ stack'[1].children = <<>>
    BY <1>1, <1>2
  <1>4. BuilderTypeOK'
    BY <1>1, <1>3 DEF IInv, BuilderTypeOK, Mode
  <1>5. StackAscends'
    BY <1>1, <1>3, PointOrder DEF StackAscends
  <1>6. done = <<>>
    BY <1>1 DEF IInv, StackInUse
  <1>. QED
    BY <1>1, <1>3, <1>4, <1>5, <1>6
       DEF IInv, CompletedWellFormed, StackInUse, ChildrenKnown, DoneInThePast, FrameUnderWay

\* The same, on top of a stack.
LEMMA PushFrameKeeps ==
  ASSUME IInv, NEW m \in Point, NEW s \in Symbol, PushFrame(m, s)
  PROVE  IInv'
  <1>1. CASE ~EnsureMonotonic(m)
    BY <1>1, PanicKeeps DEF PushFrame
  <1>2. CASE EnsureMonotonic(m)
    <2> DEFINE f == IncompleteFrame(s, m)
               n == Len(stack)
    <2>1. /\ mode = "in_progress" /\ mode' = "in_progress" /\ lastMetrics' = m
          /\ stack' = Append(stack, f)
          /\ UNCHANGED <<events, pauseStart, done, root, completing>>
      BY <1>2 DEF PushFrame
    <2>2. f \in Incomplete /\ f.start = m /\ f.children = <<>>
      BY DEF IncompleteFrame, Incomplete
    <2> HIDE DEF f
    <2>3. BuilderTypeOK /\ stack \in Seq(Incomplete) /\ lastMetrics \in Point
      BY DEF IInv, BuilderTypeOK
    <2>4. Leq(lastMetrics, m)
      BY <1>2, <2>3, PointOrder DEF EnsureMonotonic
    <2>5. /\ n \in Nat /\ stack' \in Seq(Incomplete) /\ Len(stack') = n + 1
          /\ \A k \in 1 .. n + 1 : stack'[k] = IF k = n + 1 THEN f ELSE stack[k]
          /\ stack' # <<>>
      BY <2>1, <2>2, <2>3
    <2>6. \A k \in 1 .. n : stack[k].start \in Point /\ Leq(stack[k].start, m)
      BY <2>3, <2>4, StateType, IncompleteType, LeqTransitive DEF IInv, StackAscends
    <2>7. BuilderTypeOK'
      BY <2>1, <2>3, <2>5 DEF BuilderTypeOK
    <2> HIDE DEF n
    <2>8. StackAscends'
      BY <2>1, <2>2, <2>5, <2>6, PointOrder DEF IInv, StackAscends, n
    <2>9. ChildrenKnown'
      BY SMTT(60), <2>1, <2>2, <2>5 DEF IInv, ChildrenKnown, n
    <2>10. DoneInThePast'
      BY <2>1, <2>3, <2>4, StateType, CompleteType, LeqTransitive DEF IInv, DoneInThePast
    <2>. QED
      BY <2>1, <2>5, <2>7, <2>8, <2>9, <2>10
         DEF IInv, CompletedWellFormed, StackInUse, FrameUnderWay
  <1>. QED
    BY <1>1, <1>2

\* partition_point on a vector of points: everything before it is not later than
\* m, and what stands there, if anything, is later.
LEMMA PartitionPointSplits ==
  ASSUME NEW s \in Seq(Point), NEW m \in Point
  PROVE  /\ PartitionPoint(s, m) \in 0 .. Len(s)
         /\ \A i \in 1 .. PartitionPoint(s, m) : s[i].ts <= m.ts
         /\ PartitionPoint(s, m) < Len(s) => ~(s[PartitionPoint(s, m) + 1].ts <= m.ts)
  <1> DEFINE n == Len(s)
             T == {k \in 0 .. n : \A i \in 1 .. k : s[i].ts <= m.ts}
             p == PartitionPoint(s, m)
  <1>1. n \in Nat /\ 0 \in T /\ T \in SUBSET (0 .. n)
    OBVIOUS
  <1>2. p = Max(T)
    BY DEF PartitionPoint
  <1>3. \E k \in T : \A j \in T : j <= k
    <2> HIDE DEF T, n
    <2>. QED
      BY <1>1, LargestExists
  <1>4. p \in T /\ \A j \in T : j <= p
    <2>1. \A j, k \in T : k >= j <=> j <= k
      BY <1>1
    <2> HIDE DEF T
    <2>2. \E k \in T : \A j \in T : k >= j
      BY <1>3, <2>1
    <2>3. Max(T) \in T /\ \A j \in T : Max(T) >= j
      BY <2>2 DEF Max
    <2>. QED
      BY <1>2, <2>1, <2>3
  <1>5. p \in 0 .. n /\ \A i \in 1 .. p : s[i].ts <= m.ts
    BY <1>4
  <1>6. ASSUME p < n, s[p + 1].ts <= m.ts
        PROVE  FALSE
    <2> HIDE DEF p
    <2>1. p + 1 \in 0 .. n /\ \A i \in 1 .. p + 1 : i \in 1 .. p \/ i = p + 1
      BY <1>1, <1>5, <1>6
    <2>2. p + 1 \in T
      BY <1>5, <1>6, <2>1
    <2>3. ~(p + 1 <= p)
      BY <1>5
    <2>. QED
      BY <1>4, <2>2, <2>3
  <1>. QED
    BY <1>5, <1>6

\* event_occured touches nothing but the occurrences of one event.
LEMMA EventOccuredKeeps ==
  ASSUME IInv, NEW e \in EventId, NEW m \in Point, EventOccured(e, m)
  PROVE  IInv'
  <1> DEFINE old == events[e]
             new == InsertAt(old, PartitionPoint(old, m) + 1, m)
  <1>1. /\ events \in [EventId -> Seq(Point)] /\ old \in Seq(Point)
        /\ events' = [events EXCEPT ![e] = new]
        /\ UNCHANGED <<mode, lastMetrics, stack, pauseStart, done, root, completing>>
    BY DEF EventOccured, IInv, BuilderTypeOK
  <1> HIDE DEF old
  <1>2. PartitionPoint(old, m) + 1 \in 1 .. Len(old) + 1
    BY <1>1, PartitionPointSplits
  <1>3. new \in Seq(Point)
    BY <1>1, <1>2, InsertAtIsSeq
  <1> HIDE DEF new
  <1>4. events' \in [EventId -> Seq(Point)]
    BY <1>1, <1>3
  <1>. QED
    BY <1>1, <1>4
       DEF IInv, BuilderTypeOK, CompletedWellFormed, StackInUse, StackAscends, ChildrenKnown,
           DoneInThePast, FrameUnderWay

\* resume adds a pause, which is a range, to the current frame.
LEMMA ResumeKeeps ==
  ASSUME IInv, NEW m \in Point, Resume(m)
  PROVE  IInv'
  <1>1. CASE ~(EnsureMonotonic(m) /\ IsRange(MetricsRange(pauseStart, m)))
    BY <1>1, PanicKeeps DEF Resume
  <1>2. CASE EnsureMonotonic(m) /\ IsRange(MetricsRange(pauseStart, m))
    <2> DEFINE c == PauseChunk(pauseStart, m)
               n == Len(stack)
    <2>1. /\ mode = "paused" /\ mode' = "in_progress" /\ lastMetrics' = m
          /\ pauseStart' = Constant(0)
          /\ stack' = [stack EXCEPT ![Len(stack)].children = Append(@, c)]
          /\ UNCHANGED <<events, done, root, completing>>
      BY <1>2 DEF Resume
    <2>2. /\ BuilderTypeOK /\ stack \in Seq(Incomplete) /\ stack # <<>>
          /\ lastMetrics \in Point /\ pauseStart \in Point
      BY <2>1 DEF IInv, BuilderTypeOK, StackInUse
    <2>3. Leq(lastMetrics, m) /\ Leq(pauseStart, m)
      BY <1>2, <2>2, PointOrder DEF EnsureMonotonic, IsRange, MetricsRange
    <2>4. c \in Chunk /\ c.kind = "Pause" /\ c.start = pauseStart /\ c.end = m
      BY <2>2, ChunkMade
    <2> HIDE DEF c
    <2>5. /\ n \in Nat /\ stack' \in Seq(Incomplete) /\ Len(stack') = n /\ stack' # <<>>
          /\ \A k \in 1 .. n :
               /\ stack'[k].start = stack[k].start
               /\ stack'[k].children = IF k = n THEN Append(stack[k].children, c)
                                       ELSE stack[k].children
      BY <2>1, <2>2, <2>4, AddChildToTop
    <2>6. BuilderTypeOK'
      BY <2>1, <2>2, <2>5, ZeroIsLeast DEF BuilderTypeOK, Mode
    <2>7. \A k \in 1 .. n : stack[k].start \in Point /\ Leq(stack[k].start, m)
      BY <2>2, <2>3, StateType, IncompleteType, LeqTransitive DEF IInv, StackAscends
    <2> HIDE DEF n
    <2>8. StackAscends'
      BY <2>1, <2>5, <2>7 DEF IInv, StackAscends, n
    <2>9. ChildrenKnown'
      <3>1. ASSUME NEW k \in 1 .. n, NEW i \in 1 .. Len(stack'[k].children)
            PROVE  LET d == stack'[k].children[i] IN
                   \/ d = c
                   \/ \E j \in 1 .. Len(stack[k].children) : d = stack[k].children[j]
        <4>1. stack[k].children \in Seq(Chunk)
          BY <2>2, StateType, IncompleteType DEF n
        <4>2. CASE k = n
          <5>1. stack'[k].children = Append(stack[k].children, c)
            BY <2>5, <4>2
          <5>. QED
            BY <2>4, <4>1, <5>1, NewOrOldChild
        <4>3. CASE k # n
          <5>1. stack'[k].children = stack[k].children
            BY <2>5, <4>3
          <5>. QED
            BY <5>1
        <4>. QED
          BY <4>2, <4>3
      <3>2. ASSUME NEW k \in 1 .. n, NEW i \in 1 .. Len(stack[k].children)
            PROVE  LET d == stack[k].children[i] IN
                   /\ Leq(d.start, d.end)
                   /\ d.kind = "Frame" => /\ d.id \in 1 .. Len(done)
                                          /\ Leq(stack[k].start, done[d.id].start)
        BY DEF IInv, ChildrenKnown, n
      <3>3. ASSUME NEW k \in 1 .. n, NEW i \in 1 .. Len(stack'[k].children)
            PROVE  /\ Leq(stack'[k].children[i].start, stack'[k].children[i].end)
                   /\ stack'[k].children[i].kind = "Frame" =>
                        /\ stack'[k].children[i].id \in 1 .. Len(done')
                        /\ Leq(stack'[k].start, done'[stack'[k].children[i].id].start)
        <4>1. PICK d : d = stack'[k].children[i]
          OBVIOUS
        <4>2. done' = done /\ stack'[k].start = stack[k].start
          BY <2>1, <2>5
        <4>3. CASE d = c
          BY <2>3, <2>4, <4>1, <4>3
        <4>4. CASE d # c
          <5>1. PICK j \in 1 .. Len(stack[k].children) : d = stack[k].children[j]
            BY <3>1, <4>1, <4>4
          <5>2. /\ Leq(d.start, d.end)
                /\ d.kind = "Frame" => /\ d.id \in 1 .. Len(done)
                                       /\ Leq(stack[k].start, done[d.id].start)
            BY <3>2, <5>1
          <5>. QED
            BY <4>1, <4>2, <5>2
        <4>. QED
          BY <4>3, <4>4
      <3>. QED
        BY <2>5, <3>3 DEF ChildrenKnown
    <2>10. DoneInThePast'
      BY <2>1, <2>2, <2>3, StateType, CompleteType, LeqTransitive DEF IInv, DoneInThePast
    <2>. QED
      BY <2>1, <2>5, <2>6, <2>8, <2>9, <2>10
         DEF IInv, CompletedWellFormed, StackInUse, FrameUnderWay
  <1>. QED
    BY <1>1, <1>2

\* Handing a completed frame over keeps what is known about the stack.
LEMMA HandOverKeeps ==
  ASSUME IInv, mode \in {"in_progress", "completing"},
         NEW id \in Nat, NEW p \in Point, NEW q \in Point, Leq(p, q), HandOver(id, p, q),
         lastMetrics' \in Point, Leq(lastMetrics, lastMetrics'),
         done' \in Seq(Complete), Len(done) <= Len(done'), id \in 1 .. Len(done'),
         done'[id].start = p,
         \A i \in 1 .. Len(done) : i # id => done'[i].start = done[i].start,
         \A k \in 1 .. Len(Below) : Leq(stack[k].start, p)
  PROVE  /\ mode' \in {"in_progress", "completed"}
         /\ stack' \in Seq(Incomplete) /\ root' \in {root, id}
         /\ StackInUse' /\ StackAscends' /\ ChildrenKnown'
  <1> DEFINE c == FrameChunk(id, p, q)
             n == Len(Below)
  <1>1. BuilderTypeOK /\ StackInUse /\ lastMetrics \in Point
    BY DEF IInv, BuilderTypeOK
  <1>2. /\ mode' \in {"in_progress", "completed"}
        /\ mode' = "in_progress" => stack' # <<>>
        /\ stack' \in Seq(Incomplete) /\ root' \in {root, id}
        /\ Len(stack') = n
        /\ \A k \in 1 .. Len(stack') :
             /\ k \in 1 .. Len(stack)
             /\ stack'[k].start = stack[k].start
             /\ stack'[k].children = IF k = n THEN Append(stack[k].children, c)
                                     ELSE stack[k].children
    <2>1. /\ mode' \in {"in_progress", "completed"}
          /\ mode' = "in_progress" => stack' # <<>>
          /\ stack' \in Seq(Incomplete) /\ root' \in {root, id}
          /\ Len(stack') = n
      BY <1>1, HandOverPuts
    <2>2. \A k \in 1 .. Len(stack') : k \in 1 .. Len(stack) /\ stack'[k].start = stack[k].start
      BY <1>1, HandOverPuts
    <2>3. \A k \in 1 .. Len(stack') :
            stack'[k].children = IF k = n THEN Append(stack[k].children, c)
                                 ELSE stack[k].children
      BY <1>1, HandOverPuts
    <2>. QED
      BY <2>1, <2>2, <2>3
  <1>3. c \in Chunk /\ c.kind = "Frame" /\ c.id = id /\ c.start = p /\ c.end = q
    BY ChunkMade
  <1> HIDE DEF c, n
  <1>4. \A k \in 1 .. Len(stack') :
          /\ stack[k].start \in Point /\ Leq(stack[k].start, lastMetrics)
          /\ stack[k].children \in Seq(Chunk)
          /\ Leq(stack[k].start, p)
    BY <1>1, <1>2, StateType, IncompleteType DEF IInv, StackAscends, n
  <1>5. StackAscends'
    <2>1. \A k \in 1 .. Len(stack') : Leq(stack'[k].start, lastMetrics')
      BY <1>1, <1>2, <1>4, LeqTransitive
    <2>2. \A k, l \in 1 .. Len(stack') : k < l => Leq(stack'[k].start, stack'[l].start)
      BY <1>2 DEF IInv, StackAscends
    <2>. QED
      BY <2>1, <2>2 DEF StackAscends
  <1>6. ASSUME NEW k \in 1 .. Len(stack'), NEW i \in 1 .. Len(stack'[k].children)
        PROVE  /\ Leq(stack'[k].children[i].start, stack'[k].children[i].end)
               /\ stack'[k].children[i].kind = "Frame" =>
                    /\ stack'[k].children[i].id \in 1 .. Len(done')
                    /\ Leq(stack'[k].start, done'[stack'[k].children[i].id].start)
    <2>1. CASE stack'[k].children[i] = c
      BY <1>2, <1>3, <1>4, <2>1
    <2>2. CASE /\ i \in 1 .. Len(stack[k].children)
               /\ stack'[k].children[i] = stack[k].children[i]
      <3> DEFINE d == stack[k].children[i]
      <3>1. /\ Leq(d.start, d.end)
            /\ d.kind = "Frame" => /\ d.id \in 1 .. Len(done)
                                   /\ Leq(stack[k].start, done[d.id].start)
        BY <1>2, <2>2 DEF IInv, ChildrenKnown
      <3>2. d.kind = "Frame" => /\ d.id \in 1 .. Len(done')
                                /\ Leq(stack[k].start, done'[d.id].start)
        <4>1. Len(done) \in Nat /\ Len(done') \in Nat
          BY <1>1, StateType
        <4> HIDE DEF d
        <4>. QED
          BY SMTT(60), <1>4, <3>1, <4>1
      <3>. QED
        BY <1>2, <2>2, <3>1, <3>2
    <2>3. CASE k = n
      <3>1. stack'[k].children = Append(stack[k].children, c)
        BY <1>2, <2>3
      <3>. QED
        BY SMTT(60), <1>3, <1>4, <2>1, <2>2, <3>1, NewOrOldChild
    <2>4. CASE k # n
      BY <1>2, <2>2, <2>4
    <2>. QED
      BY <2>3, <2>4
  <1>7. StackInUse'
    BY <1>2 DEF StackInUse
  <1>. QED
    BY <1>2, <1>5, <1>6, <1>7 DEF ChildrenKnown

\* The function a PLT stub stands for takes over the stub's time.
LEMMA ReplaceStubKeeps ==
  ASSUME IInv, NEW m \in Point, mode = "in_progress", Leq(lastMetrics, m), lastMetrics' = m,
         StandsForChild(Last(stack)), ReplaceStub(Last(stack), m), Leq(Last(stack).start, m),
         UNCHANGED <<events, pauseStart>>
  PROVE  IInv'
  <1> DEFINE f  == Last(stack)
             id == f.children[1].id
             n  == Len(stack)
  <1>1. BuilderTypeOK /\ StackInUse /\ lastMetrics \in Point
    BY DEF IInv, BuilderTypeOK
  <1>2. /\ n \in 1 .. n /\ f = stack[n] /\ f \in Incomplete /\ f.start \in Point
        /\ Len(Below) = n - 1 /\ Len(Below) \in Nat /\ n \in Nat
    BY <1>1, BelowIsPrefix, StateType, IncompleteType
  <1>3. /\ id \in 1 .. Len(done) /\ Leq(f.start, done[id].start)
    <2>1. 1 \in 1 .. Len(f.children) /\ f.children[1].kind = "Frame"
      BY DEF StandsForChild
    <2>. QED
      BY <1>2, <2>1 DEF IInv, ChildrenKnown
  <1>4. /\ done' = [done EXCEPT ![id].start = f.start, ![id].end = m]
        /\ HandOver(id, f.start, m) /\ UNCHANGED completing
    BY DEF ReplaceStub
  <1> HIDE DEF id, f, n
  <1> DEFINE wide == [done[id] EXCEPT !.start = f.start, !.end = m]
  <1>5. /\ done[id] \in Complete /\ IsFrame(done[id]) /\ done[id].end \in Point
        /\ WellFormed(done[id])
    BY <1>1, <1>3, StateType, CompleteType DEF IInv, CompletedWellFormed
  <1>6. /\ wide \in Complete /\ wide.start = f.start /\ wide.end = m
        /\ wide.chunks = done[id].chunks
    BY <1>2, <1>5 DEF Complete
  <1>7. done' = [done EXCEPT ![id] = wide]
    BY <1>1, <1>3, <1>4 DEF BuilderTypeOK
  <1> HIDE DEF wide
  <1>8. /\ done' \in Seq(Complete) /\ Len(done') = Len(done) /\ Len(done) \in Nat
        /\ \A i \in 1 .. Len(done) : done'[i] = IF i = id THEN wide ELSE done[i]
    BY <1>1, <1>3, <1>6, <1>7, StateType DEF BuilderTypeOK
  <1>9. Leq(done[id].end, m)
    BY <1>1, <1>3, <1>5, LeqTransitive DEF IInv, DoneInThePast
  <1>10. WellFormed(wide)
    BY <1>2, <1>3, <1>5, <1>6, <1>9, WidenKeepsWellFormed
  <1>11. \A k \in 1 .. Len(Below) : Leq(stack[k].start, f.start)
    BY <1>2 DEF IInv, StackAscends, n
  <1>12. /\ mode' \in {"in_progress", "completed"}
         /\ stack' \in Seq(Incomplete) /\ root' \in {root, id}
         /\ StackInUse' /\ StackAscends' /\ ChildrenKnown'
    <2>1. id \in Nat /\ id \in 1 .. Len(done') /\ Len(done) <= Len(done')
      BY <1>3, <1>8
    <2>2. Leq(f.start, m)
      BY DEF f
    <2>3. done'[id].start = f.start /\ \A i \in 1 .. Len(done) : i # id => done'[i].start = done[i].start
      BY <1>3, <1>6, <1>8
    <2>. QED
      BY <1>2, <1>4, <1>8, <1>11, <2>1, <2>2, <2>3, HandOverKeeps
  <1>13. BuilderTypeOK'
    BY <1>1, <1>3, <1>4, <1>8, <1>12 DEF BuilderTypeOK, Mode
  <1>14. CompletedWellFormed'
    BY <1>4, <1>8, <1>10 DEF IInv, CompletedWellFormed
  <1>15. DoneInThePast'
    <2>1. \A i \in 1 .. Len(done) : done[i].end \in Point /\ Leq(done[i].end, m)
      BY <1>1, StateType, CompleteType, LeqTransitive DEF IInv, DoneInThePast
    <2>. QED
      BY <1>6, <1>8, <2>1, PointOrder DEF DoneInThePast
  <1>. QED
    BY <1>12, <1>13, <1>14, <1>15 DEF IInv, FrameUnderWay

\* The current frame becomes a complete frame without chunks.
LEMMA BeginFrameKeeps ==
  ASSUME IInv, NEW m \in Point, mode = "in_progress", Leq(lastMetrics, m), lastMetrics' = m,
         BeginFrame(Last(stack), m), Leq(Last(stack).start, m),
         UNCHANGED <<events, pauseStart>>
  PROVE  IInv'
  <1> DEFINE f == Last(stack)
             n == Len(stack)
  <1>1. BuilderTypeOK /\ StackInUse /\ lastMetrics \in Point
    BY DEF IInv, BuilderTypeOK
  <1>2. /\ n \in 1 .. n /\ f = stack[n] /\ f \in Incomplete
        /\ Len(Below) = n - 1 /\ Below \in Seq(Incomplete) /\ n \in Nat
        /\ \A k \in 1 .. Len(Below) : Below[k] = stack[k]
    BY <1>1, BelowIsPrefix, StateType
  <1>3. /\ f.symbol \in Symbol /\ f.start \in Point /\ f.children \in Seq(Chunk)
    BY <1>2, IncompleteType
  <1>4. /\ mode' = "completing" /\ stack' = Below
        /\ completing' = [frame |-> [symbol |-> f.symbol, start |-> f.start, end |-> m,
                                     chunks |-> <<>>],
                          rest  |-> f.children]
        /\ UNCHANGED <<done, root>>
    BY DEF BeginFrame, Below
  <1>5. Leq(f.start, m)
    OBVIOUS
  <1> HIDE DEF f
  <1>6. /\ completing' \in [frame : Complete, rest : Seq(Chunk)]
        /\ completing'.frame.start = f.start /\ completing'.frame.end = m
        /\ completing'.frame.chunks = <<>> /\ completing'.rest = f.children
    BY <1>3, <1>4 DEF Complete
  <1>7. WellFormed(completing'.frame)
    BY <1>5, <1>6 DEF WellFormed, ChunksInside, ChunksChronological
  <1>8. BuilderTypeOK'
    BY <1>1, <1>2, <1>4, <1>6 DEF BuilderTypeOK, Mode
  <1>9. FrameUnderWay'
    <2>1. Leq(completing'.frame.end, lastMetrics')
      BY <1>6, PointOrder
    <2>2. ASSUME NEW k \in 1 .. Len(stack')
          PROVE  Leq(stack'[k].start, completing'.frame.start)
      <3>1. k \in 1 .. n /\ n \in 1 .. n /\ k < n /\ stack'[k] = stack[k]
        BY <1>2, <1>4
      <3>2. Leq(stack[k].start, stack[n].start)
        BY <3>1 DEF IInv, StackAscends
      <3>. QED
        BY <1>2, <1>6, <3>1, <3>2
    <2>3. \A i \in 1 .. Len(completing'.rest) : Leq(completing'.rest[i].start, completing'.rest[i].end)
      BY <1>2, <1>6 DEF IInv, ChildrenKnown, n
    <2>. QED
      BY <2>1, <2>2, <2>3 DEF FrameUnderWay
  <1>10. \A k \in 1 .. Len(stack') :
           /\ k \in 1 .. Len(stack) /\ stack'[k] = stack[k]
           /\ stack[k].start \in Point /\ Leq(stack[k].start, m)
    <2>1. \A k \in 1 .. Len(stack') : k \in 1 .. Len(stack) /\ stack'[k] = stack[k]
      BY <1>2, <1>4 DEF n
    <2>. QED
      BY <1>1, <2>1, StateType, IncompleteType, LeqTransitive DEF IInv, StackAscends
  <1>11. StackAscends' /\ ChildrenKnown'
    BY <1>4, <1>10 DEF IInv, StackAscends, ChildrenKnown
  <1>12. DoneInThePast'
    BY <1>1, <1>4, StateType, CompleteType, LeqTransitive DEF IInv, DoneInThePast
  <1>. QED
    BY <1>4, <1>7, <1>8, <1>9, <1>11, <1>12 DEF IInv, CompletedWellFormed, StackInUse

\* complete_frame, up to the first child.
LEMMA CompleteFrameKeeps ==
  ASSUME IInv, NEW m \in Point, CompleteFrame(m)
  PROVE  IInv'
  <1> DEFINE f == Last(stack)
             Fits == EnsureMonotonic(m) /\ IsRange(MetricsRange(f.start, m))
  <1>1. CASE ~Fits
    BY <1>1, PanicKeeps DEF CompleteFrame
  <1>2. CASE Fits
    <2>1. /\ mode = "in_progress" /\ lastMetrics' = m
          /\ IF StandsForChild(f) THEN ReplaceStub(f, m) ELSE BeginFrame(f, m)
          /\ UNCHANGED <<events, pauseStart>>
      BY <1>2 DEF CompleteFrame
    <2>2. lastMetrics \in Point /\ f.start \in Point
      BY <2>1, BelowIsPrefix, StateType, IncompleteType DEF IInv, BuilderTypeOK
    <2>3. Leq(lastMetrics, m) /\ Leq(f.start, m)
      BY <1>2, <2>2, PointOrder DEF EnsureMonotonic, IsRange, MetricsRange
    <2>. QED
      BY <2>1, <2>3, ReplaceStubKeeps, BeginFrameKeeps
  <1>. QED
    BY <1>1, <1>2

\* What is left after one child has been added.
LEMMA HeadAndTail ==
  ASSUME NEW s \in Seq(Chunk), s # <<>>
  PROVE  /\ Head(s) \in Chunk /\ Head(s) = s[1] /\ Len(s) \in Nat /\ Len(s) >= 1
         /\ 1 \in 1 .. Len(s)
         /\ Tail(s) \in Seq(Chunk) /\ Len(Tail(s)) = Len(s) - 1
         /\ \A i \in 1 .. Len(s) - 1 : Tail(s)[i] = s[i + 1] /\ i + 1 \in 1 .. Len(s)
  BY HeadTailProperties

\* One add_child or add_pause keeps the new frame well-formed.
LEMMA AddNextChildKeeps ==
  ASSUME IInv, AddNextChild
  PROVE  IInv'
  <1> DEFINE c == Head(completing.rest)
  <1>1. /\ mode = "completing" /\ completing.rest # <<>>
        /\ UNCHANGED <<lastMetrics, stack, events, pauseStart, done, root>>
    BY DEF AddNextChild
  <1>2. /\ BuilderTypeOK /\ completing.frame \in Complete /\ completing.rest \in Seq(Chunk)
        /\ IsFrame(completing.frame)
    BY StateType, CompleteType DEF IInv
  <1>3. CASE ~Accepts(completing.frame, c)
    <2>1. mode' = "failed" /\ UNCHANGED completing
      BY <1>3 DEF AddNextChild
    <2>. QED
      BY <1>1, <1>2, <2>1, ModeMoves DEF Mode, BuilderTypeOK
  <1>4. CASE Accepts(completing.frame, c)
    <2> DEFINE g == InsertChunk(completing.frame, c)
    <2>1. UNCHANGED mode /\ completing' = [frame |-> g, rest |-> Tail(completing.rest)]
      BY <1>4 DEF AddNextChild
    <2>2. c \in Chunk /\ Leq(c.start, c.end)
      BY <1>1, <1>2, HeadAndTail DEF IInv, FrameUnderWay
    <2>3. /\ g.start = completing.frame.start /\ g.end = completing.frame.end
          /\ g.symbol = completing.frame.symbol
          /\ g.chunks = InsertAt(completing.frame.chunks, Slot(completing.frame, c) + 1, c)
      BY <1>2 DEF InsertChunk, Complete
    <2> HIDE DEF c
    <2>4. IsFrame(g) /\ WellFormed(g)
      BY <1>2, <1>4, <2>2, <2>3, InsertKeepsWellFormed DEF IInv, CompletedWellFormed
    <2>5. g \in Complete
      BY <1>2, <2>4 DEF InsertChunk, Complete, IsFrame
    <2> HIDE DEF g
    <2>6. ASSUME NEW i \in 1 .. Len(completing'.rest)
          PROVE  Leq(completing'.rest[i].start, completing'.rest[i].end)
      <3>1. completing'.rest = Tail(completing.rest)
        BY <2>1
      <3>2. i + 1 \in 1 .. Len(completing.rest) /\ completing'.rest[i] = completing.rest[i + 1]
        BY <1>1, <1>2, <3>1, HeadAndTail
      <3>. QED
        BY <1>1, <3>2 DEF IInv, FrameUnderWay
    <2>7. BuilderTypeOK'
      BY <1>1, <1>2, <2>1, <2>5, HeadAndTail DEF BuilderTypeOK
    <2>8. CompletedWellFormed'
      BY <1>1, <2>1, <2>4 DEF IInv, CompletedWellFormed
    <2>9. FrameUnderWay'
      BY <1>1, <2>1, <2>3, <2>6 DEF IInv, FrameUnderWay
    <2>. QED
      BY <1>1, <2>1, <2>7, <2>8, <2>9
         DEF IInv, StackInUse, StackAscends, ChildrenKnown, DoneInThePast
  <1>. QED
    BY <1>3, <1>4

\* The finished frame is stored and handed over.
LEMMA EndFrameKeeps ==
  ASSUME IInv, EndFrame
  PROVE  IInv'
  <1> DEFINE g  == completing.frame
             id == Len(done) + 1
  <1>1. /\ mode = "completing" /\ done' = Append(done, g)
        /\ HandOver(id, g.start, g.end) /\ completing' = NotCompleting
        /\ UNCHANGED <<lastMetrics, events, pauseStart>>
    BY DEF EndFrame
  <1>2. /\ BuilderTypeOK /\ g \in Complete /\ g.start \in Point /\ g.end \in Point
        /\ lastMetrics \in Point /\ Len(done) \in Nat /\ done \in Seq(Complete)
    BY StateType, CompleteType DEF IInv, BuilderTypeOK
  <1>3. WellFormed(g) /\ Leq(g.start, g.end) /\ Leq(g.end, lastMetrics)
    BY <1>1 DEF IInv, CompletedWellFormed, WellFormed, FrameUnderWay
  <1>4. \A k \in 1 .. Len(Below) : Leq(stack[k].start, g.start)
    BY <1>1 DEF Below, IInv, FrameUnderWay
  <1> HIDE DEF g
  <1>5. /\ done' \in Seq(Complete) /\ Len(done') = Len(done) + 1
        /\ \A i \in 1 .. Len(done) + 1 : done'[i] = IF i = id THEN g ELSE done[i]
    BY <1>1, <1>2
  <1>6. /\ mode' \in {"in_progress", "completed"}
        /\ stack' \in Seq(Incomplete) /\ root' \in {root, id}
        /\ StackInUse' /\ StackAscends' /\ ChildrenKnown'
    <2>1. id \in Nat /\ id \in 1 .. Len(done') /\ Len(done) <= Len(done')
      BY <1>2, <1>5
    <2>2. done'[id].start = g.start /\ \A i \in 1 .. Len(done) : i # id => done'[i].start = done[i].start
      BY <1>2, <1>5
    <2>3. Leq(lastMetrics, lastMetrics') /\ lastMetrics' \in Point
      BY <1>1, <1>2, PointOrder
    <2> HIDE DEF id
    <2>. QED
      BY <1>1, <1>2, <1>3, <1>4, <1>5, <2>1, <2>2, <2>3, HandOverKeeps
  <1>7. BuilderTypeOK'
    BY <1>1, <1>2, <1>5, <1>6, NotCompletingType DEF BuilderTypeOK, Mode
  <1>8. CompletedWellFormed'
    BY <1>1, <1>3, <1>5, NotCompletingType DEF IInv, CompletedWellFormed
  <1>9. DoneInThePast'
    BY <1>1, <1>2, <1>3, <1>5 DEF IInv, DoneInThePast
  <1>. QED
    BY <1>6, <1>7, <1>8, <1>9 DEF IInv, FrameUnderWay

\* Whatever the owner calls.
LEMMA CallKeeps ==
  ASSUME IInv, NEW m \in Point, Call(m)
  PROVE  IInv'
  BY NewBuilderKeeps, PushFrameKeeps, CompleteFrameKeeps, PauseKeeps, ResumeKeeps DEF Call

\* complete_frame runs on, or the owner lets go.
LEMMA RestKeeps ==
  ASSUME IInv, Proceed \/ TakeTrace \/ DropBuilder
  PROVE  IInv'
  BY AddNextChildKeeps, EndFrameKeeps, NoBuilderKeeps DEF Proceed, TakeTrace, DropBuilder

\* The invariant is inductive.
LEMMA NextPreserves == IInv /\ [BuilderNext]_builderVars => IInv'
  <1> SUFFICES ASSUME IInv, [BuilderNext]_builderVars PROVE IInv'
    OBVIOUS
  <1>1. CASE \E m \in Points : Call(m)
    BY <1>1, CallKeeps, CallPointsAssumption
  <1>2. CASE Proceed \/ TakeTrace \/ DropBuilder
    BY <1>2, RestKeeps
  <1>3. CASE RecordEvent
    BY <1>3, EventOccuredKeeps, CallPointsAssumption DEF RecordEvent
  <1>4. CASE UNCHANGED builderVars
    BY <1>4 DEF builderVars, IInv, BuilderTypeOK, CompletedWellFormed, StackInUse, StackAscends,
                ChildrenKnown, DoneInThePast, FrameUnderWay
  <1>. QED
    BY <1>1, <1>2, <1>3, <1>4 DEF BuilderNext

\* It holds whatever the owner does.
LEMMA Invariance == BuilderSpec => []IInv
  BY InitEstablishes, NextPreserves, PTL DEF BuilderSpec

\* Every variable of a builder always has its type.
THEOREM TypeCorrect == BuilderSpec => []BuilderTypeOK
  BY Invariance, PTL DEF IInv

\* Whatever is called, with whatever points, also on pause: completed frames
\* are well-formed, also those that took over the time of a PLT stub.
THEOREM CompletedAlwaysWellFormed == BuilderSpec => []CompletedWellFormed
  BY Invariance, PTL DEF IInv

-----------------------------------------------------------------------------
(***************************************************************************)
(* Part 2, an owner that moves forward in time.  Its children come in      *)
(* order, so each fits behind the last one and none is ever refused.       *)
(***************************************************************************)

PauseIsLater == mode = "paused" => Leq(lastMetrics, pauseStart)

\* the children of a frame end before the frames above it start
StackNested ==
  \A k, l \in 1 .. Len(stack) :
    k < l => \A i \in 1 .. Len(stack[k].children) :
               Leq(stack[k].children[i].end, stack[l].start)

\* the children still to be added come after those that were, inside the frame
RestFits ==
  mode = "completing" =>
    /\ \A k \in 1 .. Len(stack) : \A i \in 1 .. Len(stack[k].children) :
         Leq(stack[k].children[i].end, completing.frame.start)
    /\ \A i \in 1 .. Len(completing.rest) :
         /\ Leq(completing.frame.start, completing.rest[i].start)
         /\ Leq(completing.rest[i].end, completing.frame.end)
    /\ \A i, j \in 1 .. Len(completing.rest) :
         i < j => Leq(completing.rest[i].end, completing.rest[j].start)
    /\ \A i \in 1 .. Len(completing.frame.chunks), j \in 1 .. Len(completing.rest) :
         Leq(completing.frame.chunks[i].end, completing.rest[j].start)

MInv == /\ NeverLost
        /\ ChildrenChronological
        /\ PauseIsLater
        /\ StackNested
        /\ RestFits

\* The frames of a stack, as points and lists of chunks.
LEMMA StackType ==
  ASSUME BuilderTypeOK, NEW k \in 1 .. Len(stack)
  PROVE  /\ stack[k].start \in Point /\ stack[k].children \in Seq(Chunk)
         /\ \A i \in 1 .. Len(stack[k].children) :
              stack[k].children[i].start \in Point /\ stack[k].children[i].end \in Point
  BY StateType, IncompleteType

\* A child that starts after the others of the top frame keeps the order.
LEMMA AppendKeepsOrder ==
  ASSUME BuilderTypeOK, ChildrenChronological, StackNested,
         NEW c \in Chunk, Leq(c.start, c.end), Leq(c.end, lastMetrics'),
         Leq(lastMetrics, lastMetrics'), lastMetrics' \in Point, Len(stack') \in Nat,
         \A k \in 1 .. Len(stack') :
           /\ k \in 1 .. Len(stack)
           /\ stack'[k].start = stack[k].start
           /\ stack'[k].children = IF k = Len(stack') THEN Append(stack[k].children, c)
                                   ELSE stack[k].children
           /\ Leq(stack[k].start, c.start)
           /\ \A i \in 1 .. Len(stack[k].children) : Leq(stack[k].children[i].end, c.start)
  PROVE  ChildrenChronological' /\ StackNested'
  <1>1. lastMetrics \in Point /\ c.start \in Point /\ c.end \in Point
    BY StateType DEF Chunk
  <1>2. ASSUME NEW k \in 1 .. Len(stack')
        PROVE  /\ Leq(stack'[k].start, lastMetrics')
               /\ \A i \in 1 .. Len(stack'[k].children) :
                    /\ Leq(stack'[k].start, stack'[k].children[i].start)
                    /\ Leq(stack'[k].children[i].start, stack'[k].children[i].end)
                    /\ Leq(stack'[k].children[i].end, lastMetrics')
               /\ \A i, j \in 1 .. Len(stack'[k].children) :
                    i < j => Leq(stack'[k].children[i].end, stack'[k].children[j].start)
    <2> DEFINE old == stack[k].children
               new == stack'[k].children
    <2>1. /\ k \in 1 .. Len(stack) /\ stack'[k].start = stack[k].start
          /\ stack[k].start \in Point /\ old \in Seq(Chunk)
          /\ \A i \in 1 .. Len(old) : old[i].start \in Point /\ old[i].end \in Point
      BY StackType
    <2>2. /\ Leq(stack[k].start, lastMetrics)
          /\ \A i \in 1 .. Len(old) : /\ Leq(stack[k].start, old[i].start)
                                      /\ Leq(old[i].start, old[i].end)
                                      /\ Leq(old[i].end, lastMetrics)
          /\ \A i, j \in 1 .. Len(old) : i < j => Leq(old[i].end, old[j].start)
      BY <2>1 DEF ChildrenChronological
    <2>3. /\ Leq(stack[k].start, lastMetrics')
          /\ \A i \in 1 .. Len(old) : Leq(old[i].end, lastMetrics')
      BY <1>1, <2>1, <2>2, LeqTransitive
    <2>4. CASE k # Len(stack')
      <3>1. new = old
        BY <2>4
      <3>. QED
        BY <2>1, <2>2, <2>3, <3>1
    <2>5. CASE k = Len(stack')
      <3>1. new = Append(old, c)
        BY <2>5
      <3>2. Leq(stack[k].start, c.start) /\ \A i \in 1 .. Len(old) : Leq(old[i].end, c.start)
        OBVIOUS
      <3> HIDE DEF old, new
      <3>3. /\ Len(old) \in Nat /\ Len(new) = Len(old) + 1
            /\ \A i \in 1 .. Len(old) + 1 : new[i] = IF i = Len(old) + 1 THEN c ELSE old[i]
        BY <2>1, <3>1, OneMoreChild
      <3>4. \A i \in 1 .. Len(new) : /\ Leq(stack[k].start, new[i].start)
                                     /\ Leq(new[i].start, new[i].end)
                                     /\ Leq(new[i].end, lastMetrics')
        BY <2>2, <2>3, <3>2, <3>3
      <3>5. ASSUME NEW i \in 1 .. Len(new), NEW j \in 1 .. Len(new), i < j
            PROVE  Leq(new[i].end, new[j].start)
        <4>1. i \in 1 .. Len(old) /\ new[i] = old[i]
          BY <3>3, <3>5
        <4>2. new[j] = c \/ (j \in 1 .. Len(old) /\ new[j] = old[j])
          BY <3>3
        <4>. QED
          BY <2>2, <3>2, <3>5, <4>1, <4>2
      <3>. QED
        BY <2>1, <2>3, <3>4, <3>5 DEF new
    <2>. QED
      BY <2>4, <2>5
  <1>3. StackNested'
    <2> SUFFICES ASSUME NEW k \in 1 .. Len(stack'), NEW l \in 1 .. Len(stack'), k < l,
                        NEW i \in 1 .. Len(stack'[k].children)
                 PROVE  Leq(stack'[k].children[i].end, stack'[l].start)
      BY DEF StackNested
    <2>1. stack'[k].children = stack[k].children /\ stack'[l].start = stack[l].start
      OBVIOUS
    <2>. QED
      BY <2>1 DEF StackNested
  <1>. QED
    BY <1>2, <1>3 DEF ChildrenChronological

\* The chunk a completed frame leaves in its parent comes after its siblings.
LEMMA HandOverKeepsOrder ==
  ASSUME IInv, ChildrenChronological, StackNested, mode \in {"in_progress", "completing"},
         NEW id \in Nat, NEW p \in Point, NEW q \in Point, Leq(p, q), HandOver(id, p, q),
         lastMetrics' \in Point, Leq(lastMetrics, lastMetrics'), Leq(q, lastMetrics'),
         \A k \in 1 .. Len(Below) :
           /\ Leq(stack[k].start, p)
           /\ \A i \in 1 .. Len(stack[k].children) : Leq(stack[k].children[i].end, p)
  PROVE  ChildrenChronological' /\ StackNested'
  <1> DEFINE c == FrameChunk(id, p, q)
  <1>1. BuilderTypeOK /\ StackInUse
    BY DEF IInv
  <1>2. c \in Chunk /\ c.start = p /\ c.end = q
    BY ChunkMade
  <1>3. /\ Len(stack') = Len(Below) /\ Len(Below) \in Nat
        /\ \A k \in 1 .. Len(stack') :
             /\ k \in 1 .. Len(stack)
             /\ stack'[k].start = stack[k].start
             /\ stack'[k].children = IF k = Len(Below) THEN Append(stack[k].children, c)
                                     ELSE stack[k].children
    <2>1. Len(stack') = Len(Below) /\ Len(Below) \in Nat
      BY <1>1, HandOverPuts, BelowIsPrefix
    <2>2. \A k \in 1 .. Len(stack') : k \in 1 .. Len(stack) /\ stack'[k].start = stack[k].start
      BY <1>1, HandOverPuts
    <2>3. \A k \in 1 .. Len(stack') :
            stack'[k].children = IF k = Len(Below) THEN Append(stack[k].children, c)
                                 ELSE stack[k].children
      BY <1>1, HandOverPuts
    <2>. QED
      BY <2>1, <2>2, <2>3
  <1> HIDE DEF c
  <1>. QED
    BY <1>1, <1>2, <1>3, AppendKeepsOrder

\* A frame pushed later than every child so far.
LEMMA PushKeepsOrder ==
  ASSUME IInv, MInv, NEW m \in Point, NEW s \in Symbol, Leq(Latest, m), PushFrame(m, s)
  PROVE  MInv'
  <1> DEFINE f == IncompleteFrame(s, m)
             n == Len(stack)
  <1>1. BuilderTypeOK /\ lastMetrics \in Point /\ stack \in Seq(Incomplete)
    BY DEF IInv, BuilderTypeOK
  <1>2. mode = "in_progress" /\ Leq(lastMetrics, m)
    BY DEF PushFrame, Latest
  <1>3. /\ mode' = "in_progress" /\ lastMetrics' = m /\ stack' = Append(stack, f)
    BY <1>1, <1>2, PointOrder DEF PushFrame, EnsureMonotonic
  <1>4. f \in Incomplete /\ f.start = m /\ f.children = <<>>
    BY DEF IncompleteFrame, Incomplete
  <1> HIDE DEF f
  <1>5. /\ n \in Nat /\ Len(stack') = n + 1
        /\ \A k \in 1 .. n + 1 : stack'[k] = IF k = n + 1 THEN f ELSE stack[k]
    BY <1>1, <1>3, <1>4
  <1>6. ASSUME NEW k \in 1 .. n
        PROVE  /\ Leq(stack[k].start, m)
               /\ \A i \in 1 .. Len(stack[k].children) : Leq(stack[k].children[i].end, m)
    <2>1. /\ stack[k].start \in Point /\ Leq(stack[k].start, lastMetrics)
          /\ \A i \in 1 .. Len(stack[k].children) :
               /\ stack[k].children[i].end \in Point
               /\ Leq(stack[k].children[i].end, lastMetrics)
      BY <1>1, StackType DEF MInv, ChildrenChronological
    <2>. QED
      BY <1>1, <1>2, <2>1, LeqTransitive
  <1> HIDE DEF n
  <1>7. ChildrenChronological'
    <2>1. lastMetrics' = m /\ Len(stack') = n + 1
      BY <1>3, <1>5
    <2> SUFFICES ASSUME NEW k \in 1 .. n + 1
                 PROVE  LET children == stack'[k].children IN
                        /\ Leq(stack'[k].start, lastMetrics')
                        /\ \A i \in 1 .. Len(children) :
                             /\ Leq(stack'[k].start, children[i].start)
                             /\ Leq(children[i].start, children[i].end)
                             /\ Leq(children[i].end, lastMetrics')
                        /\ \A i, j \in 1 .. Len(children) :
                             i < j => Leq(children[i].end, children[j].start)
      BY <2>1 DEF ChildrenChronological
    <2>2. CASE k = n + 1
      BY <1>4, <1>5, <2>1, <2>2, PointOrder
    <2>3. CASE k # n + 1
      <3>1. k \in 1 .. n /\ k \in 1 .. Len(stack) /\ stack'[k] = stack[k]
        BY <1>5, <2>3 DEF n
      <3>. QED
        BY <1>6, <2>1, <3>1 DEF MInv, ChildrenChronological
    <2>. QED
      BY <2>2, <2>3
  <1>8. StackNested'
    <2> SUFFICES ASSUME NEW k \in 1 .. n + 1, NEW l \in 1 .. n + 1, k < l,
                        NEW i \in 1 .. Len(stack'[k].children)
                 PROVE  Leq(stack'[k].children[i].end, stack'[l].start)
      BY <1>5 DEF StackNested
    <2>1. k \in 1 .. n /\ k \in 1 .. Len(stack) /\ stack'[k] = stack[k]
      BY <1>5 DEF n
    <2>2. CASE l = n + 1
      BY <1>4, <1>5, <1>6, <2>1, <2>2
    <2>3. CASE l # n + 1
      <3>1. l \in 1 .. Len(stack) /\ stack'[l] = stack[l]
        BY <1>5, <2>3 DEF n
      <3>. QED
        BY <2>1, <3>1 DEF MInv, StackNested
    <2>. QED
      BY <2>2, <2>3
  <1>. QED
    BY <1>3, <1>7, <1>8 DEF MInv, NeverLost, PauseIsLater, RestFits

\* A pause ends after it starts and after every child so far.
LEMMA ResumeKeepsOrder ==
  ASSUME IInv, MInv, NEW m \in Point, Leq(Latest, m), Resume(m)
  PROVE  MInv'
  <1> DEFINE c == PauseChunk(pauseStart, m)
             n == Len(stack)
  <1>1. /\ mode = "paused" /\ BuilderTypeOK /\ stack \in Seq(Incomplete) /\ stack # <<>>
        /\ lastMetrics \in Point /\ pauseStart \in Point
    BY DEF Resume, IInv, BuilderTypeOK, StackInUse
  <1>2. Leq(lastMetrics, pauseStart) /\ Leq(pauseStart, m) /\ Leq(lastMetrics, m)
    BY <1>1, LeqTransitive DEF Latest, MInv, PauseIsLater
  <1>3. /\ mode' = "in_progress" /\ lastMetrics' = m
        /\ stack' = [stack EXCEPT ![Len(stack)].children = Append(@, c)]
    BY <1>1, <1>2, PointOrder DEF Resume, EnsureMonotonic, IsRange, MetricsRange
  <1>4. c \in Chunk /\ c.start = pauseStart /\ c.end = m
    BY <1>1, ChunkMade
  <1> HIDE DEF c
  <1>5. /\ n \in Nat /\ Len(stack') = n
        /\ \A k \in 1 .. n :
             /\ stack'[k].start = stack[k].start
             /\ stack'[k].children = IF k = n THEN Append(stack[k].children, c)
                                     ELSE stack[k].children
    BY <1>1, <1>3, <1>4, AddChildToTop
  <1>6. ASSUME NEW k \in 1 .. n
        PROVE  /\ Leq(stack[k].start, pauseStart)
               /\ \A i \in 1 .. Len(stack[k].children) :
                    Leq(stack[k].children[i].end, pauseStart)
    <2>1. /\ stack[k].start \in Point /\ Leq(stack[k].start, lastMetrics)
          /\ \A i \in 1 .. Len(stack[k].children) :
               /\ stack[k].children[i].end \in Point
               /\ Leq(stack[k].children[i].end, lastMetrics)
      BY <1>1, StackType DEF MInv, ChildrenChronological
    <2>. QED
      BY <1>1, <1>2, <2>1, LeqTransitive
  <1>7. ChildrenChronological' /\ StackNested'
    <2>1. lastMetrics' \in Point /\ Leq(lastMetrics, lastMetrics') /\ Leq(c.end, lastMetrics')
      BY <1>2, <1>3, <1>4, PointOrder
    <2>. QED
      BY <1>1, <1>2, <1>4, <1>5, <1>6, <2>1, AppendKeepsOrder DEF MInv
  <1>. QED
    BY <1>3, <1>7 DEF MInv, NeverLost, PauseIsLater, RestFits

\* Completing the current frame.
LEMMA CompleteKeepsOrder ==
  ASSUME IInv, MInv, NEW m \in Point, Leq(Latest, m), CompleteFrame(m)
  PROVE  MInv'
  <1> DEFINE f == Last(stack)
             n == Len(stack)
  <1>1. /\ mode = "in_progress" /\ BuilderTypeOK /\ StackInUse /\ lastMetrics \in Point
    BY DEF CompleteFrame, IInv, BuilderTypeOK
  <1>2. /\ n \in 1 .. n /\ f = stack[n] /\ f \in Incomplete /\ f.start \in Point
        /\ n \in Nat /\ Len(Below) = n - 1 /\ Below \in Seq(Incomplete)
        /\ \A k \in 1 .. Len(Below) : Below[k] = stack[k]
    BY <1>1, BelowIsPrefix, StateType, IncompleteType
  <1>3. /\ Leq(lastMetrics, m) /\ Leq(f.start, lastMetrics)
        /\ Leq(f.start, m)
    <2>1. Leq(f.start, lastMetrics)
      BY <1>2 DEF IInv, StackAscends
    <2>. QED
      BY <1>1, <1>2, <2>1, LeqTransitive DEF Latest
  <1>4. /\ lastMetrics' = m
        /\ IF StandsForChild(f) THEN ReplaceStub(f, m) ELSE BeginFrame(f, m)
    BY <1>1, <1>2, <1>3, PointOrder DEF CompleteFrame, EnsureMonotonic, IsRange, MetricsRange
  <1>5. \A k \in 1 .. Len(Below) :
          /\ Leq(stack[k].start, f.start)
          /\ \A i \in 1 .. Len(stack[k].children) : Leq(stack[k].children[i].end, f.start)
    <2>1. \A k \in 1 .. Len(Below) : k \in 1 .. Len(stack) /\ k < n
      BY <1>2
    <2>. QED
      BY <1>2, <2>1 DEF IInv, MInv, StackAscends, StackNested
  <1>6. CASE StandsForChild(f)
    <2> DEFINE id == f.children[1].id
    <2>1. HandOver(id, f.start, m)
      BY <1>4, <1>6 DEF ReplaceStub
    <2>2. id \in 1 .. Len(done) /\ Len(done) \in Nat
      <3>1. 1 \in 1 .. Len(f.children) /\ f.children[1].kind = "Frame"
        BY <1>6 DEF StandsForChild
      <3>. QED
        BY <1>1, <1>2, <3>1, StateType DEF IInv, ChildrenKnown
    <2>3. id \in Nat
      BY <2>2
    <2> HIDE DEF id, f
    <2>4. ChildrenChronological' /\ StackNested'
      <3>1. lastMetrics' \in Point /\ Leq(lastMetrics, lastMetrics') /\ Leq(m, lastMetrics')
        BY <1>3, <1>4, PointOrder
      <3>. QED
        BY <1>1, <1>2, <1>3, <1>5, <2>1, <2>3, <3>1, HandOverKeepsOrder DEF MInv
    <2>5. mode' \in {"in_progress", "completed"}
      BY <1>1, <1>2, <2>1, <2>3, HandOverPuts
    <2>. QED
      BY <2>4, <2>5 DEF MInv, NeverLost, PauseIsLater, RestFits
  <1>7. CASE ~StandsForChild(f)
    <2>1. /\ mode' = "completing" /\ stack' = Below
          /\ completing'.frame.start = f.start /\ completing'.frame.end = m
          /\ completing'.frame.chunks = <<>> /\ completing'.rest = f.children
      BY <1>1, <1>4, <1>7 DEF BeginFrame, Below
    <2> HIDE DEF f
    <2>2. \A k \in 1 .. Len(stack') : k \in 1 .. Len(stack) /\ stack'[k] = stack[k]
      BY <1>2, <2>1
    <2>3. ASSUME NEW k \in 1 .. Len(stack)
          PROVE  /\ Leq(stack[k].start, m)
                 /\ \A i \in 1 .. Len(stack[k].children) : Leq(stack[k].children[i].end, m)
      <3>1. /\ stack[k].start \in Point /\ Leq(stack[k].start, lastMetrics)
            /\ \A i \in 1 .. Len(stack[k].children) :
                 /\ stack[k].children[i].end \in Point
                 /\ Leq(stack[k].children[i].end, lastMetrics)
        BY <1>1, StackType DEF MInv, ChildrenChronological
      <3>. QED
        BY <1>1, <1>3, <3>1, LeqTransitive
    <2>4. ChildrenChronological'
      BY <1>4, <2>2, <2>3 DEF MInv, ChildrenChronological
    <2>5. StackNested'
      BY <2>2 DEF MInv, StackNested
    <2>6. RestFits'
      <3>1. \A k \in 1 .. Len(stack') : \A i \in 1 .. Len(stack'[k].children) :
               Leq(stack'[k].children[i].end, f.start)
        BY <1>5, <2>1, <2>2
      <3>2. /\ \A i \in 1 .. Len(f.children) : /\ Leq(f.start, f.children[i].start)
                                               /\ Leq(f.children[i].end, m)
            /\ \A i, j \in 1 .. Len(f.children) :
                 i < j => Leq(f.children[i].end, f.children[j].start)
        BY <1>2, <2>3 DEF MInv, ChildrenChronological
      <3>. QED
        BY <2>1, <3>1, <3>2 DEF RestFits
    <2>. QED
      BY <2>1, <2>4, <2>5, <2>6 DEF MInv, NeverLost, PauseIsLater
  <1>. QED
    BY <1>6, <1>7

\* The next child fits into the last gap of the new frame, behind all others.
LEMMA NextChildFitsLast ==
  ASSUME IInv, MInv, mode = "completing", completing.rest # <<>>
  PROVE  LET f == completing.frame
             c == Head(completing.rest)
         IN  /\ Accepts(f, c)
             /\ InsertAt(f.chunks, Slot(f, c) + 1, c) = Append(f.chunks, c)
  <1> DEFINE f == completing.frame
             c == Head(completing.rest)
             n == Len(f.chunks)
  <1>1. /\ IsFrame(f) /\ completing.rest \in Seq(Chunk) /\ WellFormed(f)
    BY StateType, CompleteType DEF IInv, CompletedWellFormed
  <1>2. /\ c \in Chunk /\ c = completing.rest[1] /\ 1 \in 1 .. Len(completing.rest)
    BY <1>1, HeadAndTail
  <1>3. /\ Leq(f.start, c.start) /\ Leq(c.end, f.end)
        /\ \A i \in 1 .. n : Leq(f.chunks[i].end, c.start)
    BY <1>2 DEF MInv, RestFits
  <1> HIDE DEF f, c
  <1>4. n \in Nat /\ f.chunks \in Seq(Chunk)
    BY <1>1 DEF IsFrame
  <1>5. n \in 0 .. n /\ Includes(Gap(f, n), c)
    <2>1. n = 0 \/ n \in 1 .. n
      BY <1>4
    <2>. QED
      BY <1>3, <1>4, <2>1 DEF Includes, Gap, MetricsRange, GapStart, GapEnd
  <1>6. n \in Slots(f, c)
    BY <1>1, <1>2, <1>5, RoomyGapIsSlot
  <1>7. Accepts(f, c)
    BY <1>6 DEF Accepts
  <1>8. Slot(f, c) \in 0 .. n /\ n <= Slot(f, c)
    BY <1>4, <1>6, <1>7, SlotIsLast DEF Slots
  <1>9. Slot(f, c) = n
    BY <1>4, <1>8
  <1>10. InsertAt(f.chunks, n + 1, c) = Append(f.chunks, c)
    BY <1>2, <1>4, InsertAtEnd
  <1>. QED
    BY <1>7, <1>9, <1>10 DEF f, c

\* So adding it appends it.
LEMMA NextChildIsAppended ==
  ASSUME IInv, MInv, AddNextChild
  PROVE  /\ UNCHANGED <<mode, lastMetrics, stack, pauseStart>>
         /\ completing'.frame.start = completing.frame.start
         /\ completing'.frame.end = completing.frame.end
         /\ completing'.frame.chunks = Append(completing.frame.chunks, Head(completing.rest))
         /\ completing'.rest = Tail(completing.rest)
  <1> DEFINE c == Head(completing.rest)
  <1>1. /\ mode = "completing" /\ completing.rest # <<>>
        /\ UNCHANGED <<lastMetrics, stack, pauseStart>>
    BY DEF AddNextChild
  <1>2. /\ Accepts(completing.frame, c)
        /\ InsertAt(completing.frame.chunks, Slot(completing.frame, c) + 1, c)
             = Append(completing.frame.chunks, c)
    BY <1>1, NextChildFitsLast
  <1>3. completing.frame \in Complete
    BY StateType DEF IInv
  <1>4. /\ UNCHANGED mode
        /\ completing' = [frame |-> InsertChunk(completing.frame, c),
                          rest  |-> Tail(completing.rest)]
    BY <1>2 DEF AddNextChild
  <1> HIDE DEF c
  <1>5. /\ InsertChunk(completing.frame, c).start = completing.frame.start
        /\ InsertChunk(completing.frame, c).end = completing.frame.end
        /\ InsertChunk(completing.frame, c).chunks = Append(completing.frame.chunks, c)
    BY <1>2, <1>3 DEF InsertChunk, Complete
  <1>. QED
    BY <1>1, <1>4, <1>5 DEF c

\* What is left to add comes after what was added.
LEMMA AddKeepsOrder ==
  ASSUME IInv, MInv, AddNextChild
  PROVE  MInv'
  <1> DEFINE rest == completing.rest
             chunks == completing.frame.chunks
             c == Head(rest)
  <1>1. mode = "completing" /\ rest # <<>> /\ rest \in Seq(Chunk) /\ chunks \in Seq(Chunk)
    BY StateType, CompleteType DEF AddNextChild, IInv, IsFrame
  <1>2. /\ UNCHANGED <<mode, lastMetrics, stack, pauseStart>>
        /\ completing'.frame.start = completing.frame.start
        /\ completing'.frame.end = completing.frame.end
        /\ completing'.frame.chunks = Append(chunks, c)
        /\ completing'.rest = Tail(rest)
    BY NextChildIsAppended
  <1>3. /\ c \in Chunk /\ c = rest[1] /\ 1 \in 1 .. Len(rest)
        /\ Len(Tail(rest)) = Len(rest) - 1 /\ Len(rest) \in Nat
        /\ \A i \in 1 .. Len(rest) - 1 : Tail(rest)[i] = rest[i + 1] /\ i + 1 \in 1 .. Len(rest)
    BY <1>1, HeadAndTail
  <1>4. /\ \A i \in 1 .. Len(rest) :
             /\ Leq(completing.frame.start, rest[i].start)
             /\ Leq(rest[i].end, completing.frame.end)
        /\ \A i, j \in 1 .. Len(rest) : i < j => Leq(rest[i].end, rest[j].start)
        /\ \A i \in 1 .. Len(chunks), j \in 1 .. Len(rest) : Leq(chunks[i].end, rest[j].start)
        /\ \A k \in 1 .. Len(stack) : \A i \in 1 .. Len(stack[k].children) :
             Leq(stack[k].children[i].end, completing.frame.start)
    BY <1>1 DEF MInv, RestFits
  <1> HIDE DEF rest, chunks, c
  <1>5. ASSUME NEW i \in 1 .. Len(Append(chunks, c)), NEW j \in 1 .. Len(Tail(rest))
        PROVE  Leq(Append(chunks, c)[i].end, Tail(rest)[j].start)
    <2>1. Tail(rest)[j] = rest[j + 1] /\ j + 1 \in 1 .. Len(rest) /\ 1 < j + 1
      BY <1>3
    <2>2. CASE Append(chunks, c)[i] = c
      BY <1>3, <1>4, <2>1, <2>2
    <2>3. CASE i \in 1 .. Len(chunks) /\ Append(chunks, c)[i] = chunks[i]
      BY <1>4, <2>1, <2>3
    <2>. QED
      BY <1>1, <1>3, <2>2, <2>3, NewOrOldChild
  <1>6. ASSUME NEW i \in 1 .. Len(Tail(rest))
        PROVE  /\ Leq(completing.frame.start, Tail(rest)[i].start)
               /\ Leq(Tail(rest)[i].end, completing.frame.end)
    BY <1>3, <1>4
  <1>7. ASSUME NEW i \in 1 .. Len(Tail(rest)), NEW j \in 1 .. Len(Tail(rest)), i < j
        PROVE  Leq(Tail(rest)[i].end, Tail(rest)[j].start)
    <2>1. i + 1 \in 1 .. Len(rest) /\ j + 1 \in 1 .. Len(rest) /\ i + 1 < j + 1
      BY <1>3, <1>7
    <2>. QED
      BY <1>3, <1>4, <2>1
  <1>8. RestFits'
    BY <1>2, <1>4, <1>5, <1>6, <1>7 DEF RestFits
  <1>. QED
    BY <1>2, <1>8 DEF MInv, NeverLost, ChildrenChronological, PauseIsLater, StackNested

\* The finished frame comes after its siblings.
LEMMA EndKeepsOrder ==
  ASSUME IInv, MInv, EndFrame
  PROVE  MInv'
  <1> DEFINE g == completing.frame
             id == Len(done) + 1
  <1>1. /\ mode = "completing" /\ HandOver(id, g.start, g.end) /\ UNCHANGED lastMetrics
    BY DEF EndFrame
  <1>2. /\ BuilderTypeOK /\ StackInUse /\ g.start \in Point /\ g.end \in Point
        /\ lastMetrics \in Point /\ id \in Nat
    BY StateType, CompleteType DEF IInv
  <1>3. Leq(g.start, g.end) /\ Leq(g.end, lastMetrics)
    BY <1>1 DEF IInv, CompletedWellFormed, WellFormed, FrameUnderWay
  <1>4. \A k \in 1 .. Len(Below) :
          /\ Leq(stack[k].start, g.start)
          /\ \A i \in 1 .. Len(stack[k].children) : Leq(stack[k].children[i].end, g.start)
    BY <1>1 DEF Below, IInv, MInv, FrameUnderWay, RestFits
  <1> HIDE DEF g, id
  <1>5. ChildrenChronological' /\ StackNested'
    <2>1. lastMetrics' \in Point /\ Leq(lastMetrics, lastMetrics') /\ Leq(g.end, lastMetrics')
      BY <1>1, <1>2, <1>3, PointOrder
    <2>. QED
      BY <1>1, <1>2, <1>3, <1>4, <2>1, HandOverKeepsOrder DEF MInv
  <1>6. mode' \in {"in_progress", "completed"}
    BY <1>1, <1>2, HandOverPuts
  <1>. QED
    BY <1>5, <1>6 DEF MInv, NeverLost, PauseIsLater, RestFits

\* Calls that change nothing of the order.
LEMMA QuietKeepsOrder ==
  ASSUME MInv, UNCHANGED <<lastMetrics, stack, completing>>,
         mode' \notin {"failed", "panicked"},
         mode' = "completing" => mode = "completing",
         mode' = "paused" => Leq(lastMetrics, pauseStart')
  PROVE  MInv'
  BY DEF MInv, NeverLost, ChildrenChronological, PauseIsLater, StackNested, RestFits

\* A new frame on an empty stack, and no frame at all.
LEMMA FewFramesInOrder ==
  ASSUME mode' \in {"none", "in_progress"}, Len(stack') \in {0, 1},
         \A k \in 1 .. Len(stack') : /\ Leq(stack'[k].start, lastMetrics')
                                     /\ stack'[k].children = <<>>
  PROVE  MInv'
  <1>1. \A k, l \in 1 .. Len(stack') : ~(k < l)
    OBVIOUS
  <1>. QED
    BY <1>1 DEF MInv, NeverLost, ChildrenChronological, PauseIsLater, StackNested, RestFits

\* Calls that are not behind the latest one keep the order.
LEMMA CallKeepsOrder ==
  ASSUME IInv, MInv, NEW m \in Point, mode # "none" => Leq(Latest, m), Call(m)
  PROVE  MInv'
  <1>1. ASSUME NEW s \in Symbol, NewBuilder(m, s)
        PROVE  MInv'
    <2>1. /\ mode' = "in_progress" /\ Len(stack') = 1 /\ lastMetrics' = m
          /\ stack'[1].start = m /\ stack'[1].children = <<>>
      BY <1>1 DEF NewBuilder, IncompleteFrame
    <2>. QED
      BY <2>1, FewFramesInOrder, PointOrder
  <1>2. ASSUME NEW s \in Symbol, PushFrame(m, s)
        PROVE  MInv'
    BY <1>2, PushKeepsOrder DEF PushFrame
  <1>3. CASE CompleteFrame(m)
    BY <1>3, CompleteKeepsOrder DEF CompleteFrame
  <1>4. CASE Pause(m)
    BY <1>4, QuietKeepsOrder DEF Pause, Latest
  <1>5. CASE Resume(m)
    BY <1>5, ResumeKeepsOrder DEF Resume
  <1>. QED
    BY <1>1, <1>2, <1>3, <1>4, <1>5 DEF Call

\* A careful owner is an owner.
LEMMA MonotoneIsAllowed == MonotoneNext => BuilderNext
  BY DEF MonotoneNext, BuilderNext

\* Nothing is wrong before the first builder.
LEMMA MonotoneInit == BuilderInit => MInv
  BY DEF BuilderInit, MInv, NeverLost, ChildrenChronological, PauseIsLater, StackNested, RestFits

\* The order is inductive for a careful owner.
LEMMA MonotonePreserves == IInv /\ MInv /\ [MonotoneNext]_builderVars => MInv'
  <1> SUFFICES ASSUME IInv, MInv, [MonotoneNext]_builderVars PROVE MInv'
    OBVIOUS
  <1>1. ASSUME NEW m \in Points, mode # "none" => Leq(Latest, m), Call(m)
        PROVE  MInv'
    BY <1>1, CallKeepsOrder, CallPointsAssumption
  <1>2. CASE RecordEvent
    BY <1>2, QuietKeepsOrder, CallPointsAssumption DEF RecordEvent, EventOccured
  <1>3. CASE Proceed
    BY <1>3, AddKeepsOrder, EndKeepsOrder DEF Proceed
  <1>4. CASE NoBuilder
    BY <1>4, FewFramesInOrder DEF NoBuilder
  <1>5. CASE UNCHANGED builderVars
    BY <1>5, QuietKeepsOrder DEF builderVars, MInv, NeverLost, PauseIsLater
  <1>. QED
    BY <1>1, <1>2, <1>3, <1>4, <1>5 DEF MonotoneNext, TakeTrace, DropBuilder

\* Both invariants hold whatever a careful owner does.
LEMMA MonotoneInvariance == MonotoneSpec => [](IInv /\ MInv)
  <1>1. BuilderInit => IInv /\ MInv
    BY InitEstablishes, MonotoneInit
  <1>2. (IInv /\ MInv) /\ [MonotoneNext]_builderVars => (IInv /\ MInv)'
    BY NextPreserves, MonotonePreserves, MonotoneIsAllowed
  <1>. QED
    BY <1>1, <1>2, PTL DEF MonotoneSpec

\* An owner whose points never fall behind never loses its builder: ensure_monotonic
\* and MetricsRange::new never panic, and complete_frame never returns an error.
THEOREM CarefulOwnerNeverLosesBuilder == MonotoneSpec => []NeverLost
  BY MonotoneInvariance, PTL DEF MInv

\* The children of its unfinished frames are in chronological order.
THEOREM ChildrenAlwaysChronological == MonotoneSpec => []ChildrenChronological
  BY MonotoneInvariance, PTL DEF MInv

\* Its children are stored in the order of its calls.
THEOREM AlwaysStoredInCallOrder == MonotoneSpec => StoredInCallOrder
  <1>1. IInv /\ MInv => [AddNextChild =>
            completing'.frame.chunks = Append(completing.frame.chunks, Head(completing.rest))
          ]_builderVars
    BY NextChildIsAppended
  <1>. QED
    BY <1>1, MonotoneInvariance, PTL DEF StoredInCallOrder

-----------------------------------------------------------------------------
(***************************************************************************)
(* Occurrences of events, whatever the owner does.                         *)
(***************************************************************************)

\* Inserting at the partition point keeps occurrences sorted by time.
LEMMA InsertKeepsSorted ==
  ASSUME NEW s \in Seq(Point), NEW m \in Point,
         \A i, j \in 1 .. Len(s) : i < j => s[i].ts <= s[j].ts,
         NEW t, t = InsertAt(s, PartitionPoint(s, m) + 1, m)
  PROVE  \A i, j \in 1 .. Len(t) : i < j => t[i].ts <= t[j].ts
  <1> DEFINE p == PartitionPoint(s, m)
             n == Len(s)
  <1>1. /\ p \in 0 .. n /\ n \in Nat /\ m.ts \in Nat
        /\ \A i \in 1 .. n : s[i].ts \in Nat
    <2>1. \A q \in Point : q.ts \in Nat
      BY DEF Point
    <2>2. \A i \in 1 .. n : s[i] \in Point
      BY ElementOfSeq
    <2>. QED
      BY <2>1, <2>2, PartitionPointSplits
  <1>2. /\ \A i \in 1 .. p : s[i].ts <= m.ts
        /\ p < n => m.ts <= s[p + 1].ts
    BY <1>1, PartitionPointSplits
  <1> HIDE DEF p
  <1>3. /\ Len(t) = n + 1
        /\ \A j \in 1 .. n + 1 : t[j] = IF j < p + 1 THEN s[j]
                                        ELSE IF j = p + 1 THEN m ELSE s[j - 1]
    <2>1. p + 1 \in 1 .. Len(s) + 1 /\ t = InsertAt(s, p + 1, m)
      BY <1>1 DEF p
    <2>2. Inserts(t, s, p + 1, m)
      BY <2>1, InsertAtIsSeq
    <2>. QED
      BY <2>2 DEF Inserts
  <1>4. \A j \in 1 .. n : p < j => m.ts <= s[j].ts
    <2> SUFFICES ASSUME NEW j \in 1 .. n, p < j
                 PROVE  m.ts <= s[j].ts
      OBVIOUS
    <2>1. p + 1 \in 1 .. n /\ (p + 1 = j \/ p + 1 < j)
      BY <1>1
    <2>. QED
      BY <1>1, <1>2, <2>1
  <1> SUFFICES ASSUME NEW i \in 1 .. n + 1, NEW j \in 1 .. n + 1, i < j
               PROVE  t[i].ts <= t[j].ts
    BY <1>3
  <1>5. CASE i < p + 1 /\ j < p + 1
    <2>1. i \in 1 .. n /\ j \in 1 .. n /\ t[i] = s[i] /\ t[j] = s[j]
      BY <1>1, <1>3, <1>5
    <2>. QED
      BY <2>1
  <1>6. CASE i < p + 1 /\ j = p + 1
    <2>1. i \in 1 .. p /\ t[i] = s[i] /\ t[j] = m
      BY <1>1, <1>3, <1>6
    <2>. QED
      BY <1>2, <2>1
  <1>7. CASE i < p + 1 /\ j > p + 1
    <2>1. /\ i \in 1 .. n /\ j - 1 \in 1 .. n /\ i < j - 1
          /\ t[i] = s[i] /\ t[j] = s[j - 1]
      BY <1>1, <1>3, <1>7
    <2>. QED
      BY <2>1
  <1>8. CASE i = p + 1
    <2>1. /\ j - 1 \in 1 .. n /\ p < j - 1
          /\ t[i] = m /\ t[j] = s[j - 1]
      BY <1>1, <1>3, <1>8
    <2>. QED
      BY <1>4, <2>1
  <1>9. CASE i > p + 1
    <2>1. /\ i - 1 \in 1 .. n /\ j - 1 \in 1 .. n /\ i - 1 < j - 1
          /\ t[i] = s[i - 1] /\ t[j] = s[j - 1]
      BY <1>1, <1>3, <1>9
    <2>. QED
      BY <2>1
  <1>. QED
    BY <1>1, <1>5, <1>6, <1>7, <1>8, <1>9

\* A step keeps them, or records one, or ends with no trace at all.
LEMMA OccurrencesChange ==
  BuilderNext => \/ UNCHANGED events
                 \/ events' = [e \in EventId |-> <<>>]
                 \/ \E m \in Points, e \in EventId : EventOccured(e, m)
  BY DEF BuilderNext, Call, RecordEvent, Proceed, TakeTrace, DropBuilder, NoBuilder, NewBuilder, PushFrame,
         CompleteFrame, Pause, Resume, Panic, AddNextChild, EndFrame

\* Event::occurences are always sorted by time.
THEOREM OccurrencesAlwaysSorted == BuilderSpec => []OccurrencesSorted
  <1>1. BuilderInit => OccurrencesSorted
    BY DEF BuilderInit, OccurrencesSorted
  <1>2. ASSUME IInv, OccurrencesSorted, [BuilderNext]_builderVars
        PROVE  OccurrencesSorted'
    <2>1. CASE UNCHANGED events
      BY <1>2, <2>1 DEF OccurrencesSorted
    <2>2. CASE events' = [e \in EventId |-> <<>>]
      BY <2>2 DEF OccurrencesSorted
    <2>3. ASSUME NEW m \in Points, NEW d \in EventId, EventOccured(d, m)
          PROVE  OccurrencesSorted'
      <3> SUFFICES ASSUME NEW e \in EventId
                   PROVE  \A i, j \in 1 .. Len(events'[e]) :
                            i < j => events'[e][i].ts <= events'[e][j].ts
        BY DEF OccurrencesSorted
      <3>1. /\ events \in [EventId -> Seq(Point)] /\ m \in Point
            /\ events' = [events EXCEPT ![d] = InsertAt(@, PartitionPoint(@, m) + 1, m)]
        BY <1>2, <2>3, CallPointsAssumption DEF EventOccured, IInv, BuilderTypeOK
      <3>2. CASE e # d
        BY <1>2, <3>1, <3>2 DEF OccurrencesSorted
      <3>3. CASE e = d
        <4>1. events'[e] = InsertAt(events[e], PartitionPoint(events[e], m) + 1, m)
          BY <3>1, <3>3
        <4>2. events[e] \in Seq(Point)
              /\ \A i, j \in 1 .. Len(events[e]) : i < j => events[e][i].ts <= events[e][j].ts
          BY <1>2, <3>1 DEF OccurrencesSorted
        <4>. QED
          BY <3>1, <4>1, <4>2, InsertKeepsSorted
      <3>. QED
        BY <3>2, <3>3
    <2>. QED
      BY <1>2, <2>1, <2>2, <2>3, OccurrencesChange DEF builderVars
  <1>. QED
    BY <1>1, <1>2, Invariance, PTL DEF BuilderSpec

-----------------------------------------------------------------------------
(***************************************************************************)
(* Part 3: the completed frames of a trace form a tree, whatever the owner *)
(* does.  Every chunk that stands for a frame is at some position i of the *)
(* list of a frame n: of a finished one ("done"), of one on the stack, of  *)
(* the frame that is being finished ("frame") or of the children that are  *)
(* still to be added to it ("rest").  Each action moves such chunks from   *)
(* list to list; what it may add stands for a frame that no chunk stood    *)
(* for.                                                                    *)
(***************************************************************************)

Holds(k, n, i, c) ==
  /\ c.kind = "Frame"
  /\ \/ /\ k = "done"
        /\ n \in 1 .. Len(done) /\ i \in 1 .. Len(done[n].chunks) /\ c = done[n].chunks[i]
     \/ /\ k = "stack"
        /\ n \in 1 .. Len(stack) /\ i \in 1 .. Len(stack[n].children) /\ c = stack[n].children[i]
     \/ /\ k = "frame"
        /\ n = 0 /\ i \in 1 .. Len(completing.frame.chunks) /\ c = completing.frame.chunks[i]
     \/ /\ k = "rest"
        /\ n = 0 /\ i \in 1 .. Len(completing.rest) /\ c = completing.rest[i]

\* a chunk knows its frame and the frame's range, and is not the root
Known ==
  \A k, n, i, c : Holds(k, n, i, c) =>
    /\ c.id \in 1 .. Len(done) /\ c.id # root
    /\ c.start = done[c.id].start /\ c.end = done[c.id].end

\* no two chunks stand for one frame
Unshared ==
  \A k, n, i, c, l, o, j, d :
    Holds(k, n, i, c) /\ Holds(l, o, j, d) /\ c.id = d.id => k = l /\ n = o /\ i = j

\* and for each frame but the root there is one
Placed ==
  \A id \in 1 .. Len(done) : id # root => \E k, n, i, c : Holds(k, n, i, c) /\ c.id = id

\* there is no root before the trace is complete, and complete_frame leaves no
\* children behind
Settled ==
  /\ mode # "completed" => root = 0
  /\ mode \in {"none", "in_progress", "paused", "completed"} =>
       completing.frame.chunks = <<>> /\ completing.rest = <<>>

Tree == Known /\ Unshared /\ Placed /\ Settled

\* A frame that is handed over is the root exactly if no frame is below it.
LEMMA HandOverRoot ==
  ASSUME NEW id, NEW p, NEW q, HandOver(id, p, q)
  PROVE  /\ Below = <<>> => mode' = "completed" /\ root' = id
         /\ Below # <<>> => mode' = "in_progress" /\ root' = root
  BY DEF HandOver, Below

\* Calls that leave every list, and every finished frame, alone.
LEMMA ListsUnchanged ==
  ASSUME Tree, Settled', UNCHANGED <<done, root>>,
         \A k, n, i, c : Holds(k, n, i, c)' <=> Holds(k, n, i, c)
  PROVE  Tree'
  <1>1. Known'
    BY DEF Tree, Known
  <1>2. Unshared'
    BY DEF Tree, Unshared
  <1>3. Placed'
    BY DEF Tree, Placed
  <1>. QED
    BY <1>1, <1>2, <1>3 DEF Tree

\* Calls that change only the mode, the start of a pause and the last metrics.
LEMMA ModeMovesTree ==
  ASSUME Tree, UNCHANGED <<stack, done, root, completing>>,
         mode # "completed", mode' # "completed",
         mode' \in {"none", "in_progress", "paused"} => mode \in {"none", "in_progress", "paused"}
  PROVE  Tree'
  <1>1. \A k, n, i, c : Holds(k, n, i, c)' <=> Holds(k, n, i, c)
    BY DEF Holds
  <1>2. Settled'
    BY DEF Tree, Settled
  <1>. QED
    BY <1>1, <1>2, ListsUnchanged
\* Calls that change at most the stack, and no list there.
LEMMA StackListsUnchanged ==
  ASSUME Tree, Settled', UNCHANGED <<done, root, completing>>,
         \A n, i, c : Holds("stack", n, i, c)' <=> Holds("stack", n, i, c)
  PROVE  Tree'
  <1>1. ASSUME NEW k, NEW n, NEW i, NEW c
        PROVE  Holds(k, n, i, c)' <=> Holds(k, n, i, c)
    <2>1. CASE k = "stack"
      BY <2>1
    <2>2. CASE k # "stack"
      BY <2>2 DEF Holds
    <2>. QED
      BY <2>1, <2>2
  <1>. QED
    BY <1>1, ListsUnchanged

\* A frame that is pushed has no children.
LEMMA PushKeepsTree ==
  ASSUME IInv, Tree, NEW m \in Point, NEW s \in Symbol, PushFrame(m, s)
  PROVE  Tree'
  <1>1. CASE ~EnsureMonotonic(m)
    BY <1>1, ModeMovesTree DEF PushFrame, Panic
  <1>2. CASE EnsureMonotonic(m)
    <2> DEFINE f == IncompleteFrame(s, m)
    <2>1. /\ mode = "in_progress" /\ stack' = Append(stack, f)
          /\ UNCHANGED <<mode, done, root, completing>>
      BY <1>2 DEF PushFrame
    <2>2. f \in Incomplete /\ f.children = <<>>
      BY DEF IncompleteFrame, Incomplete
    <2>3. stack \in Seq(Incomplete)
      BY DEF IInv, BuilderTypeOK
    <2> HIDE DEF f
    <2>4. /\ Len(stack) \in Nat /\ Len(stack') = Len(stack) + 1
          /\ \A k \in 1 .. Len(stack) : stack'[k] = stack[k]
          /\ stack'[Len(stack) + 1] = f
      BY <2>1, <2>2, <2>3
    <2>5. \A n, i, c : Holds("stack", n, i, c)' <=> Holds("stack", n, i, c)
      BY <2>2, <2>4 DEF Holds
    <2>6. Settled'
      BY <2>1 DEF Tree, Settled
    <2>. QED
      BY <2>1, <2>5, <2>6, StackListsUnchanged
  <1>. QED
    BY <1>1, <1>2

\* resume adds a pause, which stands for no frame.
LEMMA ResumeKeepsTree ==
  ASSUME IInv, Tree, NEW m \in Point, Resume(m)
  PROVE  Tree'
  <1>1. CASE ~(EnsureMonotonic(m) /\ IsRange(MetricsRange(pauseStart, m)))
    BY <1>1, ModeMovesTree DEF Resume, Panic
  <1>2. CASE EnsureMonotonic(m) /\ IsRange(MetricsRange(pauseStart, m))
    <2> DEFINE p == PauseChunk(pauseStart, m)
    <2>1. /\ mode = "paused" /\ mode' = "in_progress"
          /\ stack' = [stack EXCEPT ![Len(stack)].children = Append(@, p)]
          /\ UNCHANGED <<done, root, completing>>
      BY <1>2 DEF Resume
    <2>2. /\ BuilderTypeOK /\ stack \in Seq(Incomplete) /\ stack # <<>>
          /\ p \in Chunk /\ p.kind = "Pause"
      BY <2>1, ChunkMade DEF IInv, BuilderTypeOK, StackInUse
    <2> HIDE DEF p
    <2>3. /\ Len(stack') = Len(stack)
          /\ \A k \in 1 .. Len(stack) :
               stack'[k].children = IF k = Len(stack) THEN Append(stack[k].children, p)
                                    ELSE stack[k].children
      BY <2>1, <2>2, AddChildToTop
    <2>4. ASSUME NEW n \in 1 .. Len(stack)
          PROVE  \A i, c : Holds("stack", n, i, c)' <=> Holds("stack", n, i, c)
      <3>1. stack[n].children \in Seq(Chunk)
        BY <2>2, StateType, IncompleteType
      <3>2. CASE n = Len(stack)
        <4>1. stack'[n].children = Append(stack[n].children, p)
          BY <2>3, <3>2
        <4>2. /\ Len(stack[n].children) \in Nat
              /\ Len(stack'[n].children) = Len(stack[n].children) + 1
              /\ \A i \in 1 .. Len(stack[n].children) + 1 :
                   stack'[n].children[i] = IF i = Len(stack[n].children) + 1 THEN p
                                           ELSE stack[n].children[i]
          BY <2>2, <3>1, <4>1, OneMoreChild
        <4>3. \A i : i \in 1 .. Len(stack[n].children) + 1
                       <=> \/ i \in 1 .. Len(stack[n].children)
                           \/ i = Len(stack[n].children) + 1
          BY <4>2
        <4>4. Len(stack[n].children) + 1 \notin 1 .. Len(stack[n].children)
          BY <4>2
        <4>. QED
          BY <2>2, <2>3, <4>2, <4>3, <4>4 DEF Holds
      <3>3. CASE n # Len(stack)
        BY <2>3, <3>3 DEF Holds
      <3>. QED
        BY <3>2, <3>3
    <2>5. \A n, i, c : Holds("stack", n, i, c)' <=> Holds("stack", n, i, c)
      BY <2>3, <2>4 DEF Holds
    <2>6. Settled'
      BY <2>1 DEF Tree, Settled
    <2>. QED
      BY <2>1, <2>5, <2>6, StackListsUnchanged
  <1>. QED
    BY <1>1, <1>2

\* The first frame of a trace: there is no completed one.
LEMMA NewBuilderKeepsTree ==
  ASSUME IInv, Tree, NEW m \in Point, NEW s \in Symbol, NewBuilder(m, s)
  PROVE  Tree'
  <1>1. /\ mode = "none" /\ mode' = "in_progress" /\ stack' = <<IncompleteFrame(s, m)>>
        /\ UNCHANGED <<done, root, completing>> /\ done = <<>>
    BY DEF NewBuilder, IInv, StackInUse
  <1>2. IncompleteFrame(s, m).children = <<>>
    BY DEF IncompleteFrame
  <1> HIDE DEF IncompleteFrame
  <1>3. Len(stack') = 1 /\ Len(stack'[1].children) = 0
    BY <1>1, <1>2
  <1>4. completing'.frame.chunks = <<>> /\ completing'.rest = <<>> /\ done' = <<>>
    BY <1>1 DEF Tree, Settled
  <1>5. \A k, n, i, c : ~Holds(k, n, i, c)'
    BY <1>3, <1>4 DEF Holds
  <1>6. Len(done') = 0 /\ Settled'
    BY <1>1, <1>4 DEF Tree, Settled
  <1>. QED
    BY <1>5, <1>6 DEF Tree, Known, Unshared, Placed

\* Without a builder there are no lists.
LEMMA NoBuilderKeepsTree == NoBuilder => Tree'
  <1> SUFFICES ASSUME NoBuilder PROVE Tree'
    OBVIOUS
  <1>1. /\ mode' = "none" /\ stack' = <<>> /\ done' = <<>> /\ root' = 0
        /\ completing'.frame.chunks = <<>> /\ completing'.rest = <<>>
    BY DEF NoBuilder, NotCompleting
  <1>2. \A k, n, i, c : ~Holds(k, n, i, c)'
    BY <1>1 DEF Holds
  <1>. QED
    BY <1>1, <1>2 DEF Tree, Known, Unshared, Placed, Settled

\* Nor are there any before the first builder.
LEMMA InitTree == BuilderInit => Tree
  <1> SUFFICES ASSUME BuilderInit PROVE Tree
    OBVIOUS
  <1>1. /\ mode = "none" /\ stack = <<>> /\ done = <<>> /\ root = 0
        /\ completing.frame.chunks = <<>> /\ completing.rest = <<>>
    BY DEF BuilderInit, NotCompleting
  <1>2. \A k, n, i, c : ~Holds(k, n, i, c)
    BY <1>1 DEF Holds
  <1>. QED
    BY <1>1, <1>2 DEF Tree, Known, Unshared, Placed, Settled
\* There are four kinds of lists, and one list each of two of them.
LEMMA ListKinds ==
  \A k, n, i, c : Holds(k, n, i, c) \/ Holds(k, n, i, c)' =>
    k \in {"done", "stack", "frame", "rest"} /\ (k \in {"frame", "rest"} => n = 0)
  BY DEF Holds

\* Positions are counted from 1.
LEMMA PositionIsPositive ==
  \A k, n, i, c : Holds(k, n, i, c) => i \in Nat \ {0}
  BY DEF Holds

\* What complete_frame takes from the stack is still to be added.
LEMMA BeginFrameKeepsTree ==
  ASSUME IInv, Tree, mode = "in_progress", NEW m \in Point, BeginFrame(Last(stack), m)
  PROVE  Tree'
  <1> DEFINE top == Len(stack)
  <1>1. /\ mode' = "completing" /\ stack' = Below
        /\ completing'.frame.chunks = <<>>
        /\ completing'.rest = Last(stack).children
        /\ UNCHANGED <<done, root>>
    BY DEF BeginFrame, Below
  <1>2. /\ Len(Below) = top - 1 /\ Last(stack) = stack[top] /\ top \in 1 .. top /\ top \in Nat
        /\ \A k \in 1 .. Len(Below) : Below[k] = stack[k]
    BY BelowIsPrefix, StateType DEF IInv
  <1>3. completing.frame.chunks = <<>> /\ completing.rest = <<>> /\ root = 0
    BY DEF Tree, Settled
  <1> HIDE DEF top
  <1>4. \A n, i, c : Holds("done", n, i, c)' <=> Holds("done", n, i, c)
    BY <1>1 DEF Holds
  <1>5. \A n, i, c : Holds("stack", n, i, c)' <=> n # top /\ Holds("stack", n, i, c)
    <2>1. /\ \A n : n \in 1 .. Len(stack') <=> (n # top /\ n \in 1 .. Len(stack))
          /\ \A n \in 1 .. Len(stack') : stack'[n] = stack[n]
      BY <1>1, <1>2 DEF top
    <2>. QED
      BY <2>1 DEF Holds
  <1>6. \A n, i, c : Holds("rest", n, i, c)' <=> n = 0 /\ Holds("stack", top, i, c)
    BY <1>1, <1>2 DEF Holds, top
  <1>7. \A n, i, c : ~Holds("frame", n, i, c)' /\ ~Holds("frame", n, i, c)
                     /\ ~Holds("rest", n, i, c)
    BY <1>1, <1>3 DEF Holds
  <1>8. Known'
    <2> SUFFICES ASSUME NEW k, NEW n, NEW i, NEW c, Holds(k, n, i, c)'
                 PROVE  /\ c.id \in 1 .. Len(done) /\ c.id # root
                        /\ c.start = done[c.id].start /\ c.end = done[c.id].end
      BY <1>1 DEF Known
    <2>1. \E l, o, j : Holds(l, o, j, c)
      BY <1>4, <1>5, <1>6, <1>7, ListKinds
    <2>. QED
      BY <2>1 DEF Tree, Known
  <1>9. Unshared'
    <2> SUFFICES ASSUME NEW k, NEW n, NEW i, NEW c, NEW l, NEW o, NEW j, NEW d,
                        Holds(k, n, i, c)', Holds(l, o, j, d)', c.id = d.id
                 PROVE  k = l /\ n = o /\ i = j
      BY DEF Unshared
    <2>. QED
      BY <1>4, <1>5, <1>6, <1>7, ListKinds DEF Tree, Unshared
  <1>10. Placed'
    <2> SUFFICES ASSUME NEW id \in 1 .. Len(done), id # root
                 PROVE  \E k, n, i, c : Holds(k, n, i, c)' /\ c.id = id
      BY <1>1 DEF Placed
    <2>1. PICK k, n, i, c : Holds(k, n, i, c) /\ c.id = id
      BY DEF Tree, Placed
    <2>2. \E l, o, j : Holds(l, o, j, c)'
      BY <1>4, <1>5, <1>6, <1>7, <2>1, ListKinds
    <2>. QED
      BY <2>1, <2>2
  <1>11. Settled'
    BY <1>1, <1>3 DEF Settled
  <1>. QED
    BY <1>8, <1>9, <1>10, <1>11 DEF Tree
\* A child that is added moves from the head of the rest to its slot, and those
\* behind the slot move up by one.
LEMMA AddMovesChild ==
  ASSUME IInv, AddNextChild, Accepts(completing.frame, Head(completing.rest))
  PROVE  LET s == Slot(completing.frame, Head(completing.rest)) + 1 IN
         /\ s \in Nat /\ s >= 1
         /\ UNCHANGED <<mode, stack, done, root>>
         /\ \A k, n, i, c : k \notin {"frame", "rest"} =>
              (Holds(k, n, i, c)' <=> Holds(k, n, i, c))
         /\ \A n, i, c : Holds("rest", n, i, c)' <=>
              n = 0 /\ i \in Nat \ {0} /\ Holds("rest", 0, i + 1, c)
         /\ \A n, i, c : Holds("frame", n, i, c)' <=>
              /\ n = 0 /\ i \in Nat \ {0}
              /\ \/ i < s /\ Holds("frame", 0, i, c)
                 \/ i = s /\ Holds("rest", 0, 1, c)
                 \/ i > s /\ Holds("frame", 0, i - 1, c)
  <1> DEFINE rest == completing.rest
             chunks == completing.frame.chunks
             h == Head(rest)
             slot == Slot(completing.frame, h) + 1
             len == Len(chunks)
  <1>1. /\ completing.rest # <<>> /\ UNCHANGED <<stack, done, root>>
        /\ UNCHANGED mode
        /\ completing' = [frame |-> InsertChunk(completing.frame, h), rest |-> Tail(rest)]
    BY DEF AddNextChild
  <1>2. /\ completing.frame \in Complete /\ IsFrame(completing.frame)
        /\ rest \in Seq(Chunk) /\ chunks \in Seq(Chunk) /\ len \in Nat
    BY StateType, CompleteType DEF IInv, IsFrame
  <1>3. /\ h \in Chunk /\ h = rest[1] /\ Len(rest) \in Nat /\ Len(rest) >= 1
        /\ Len(Tail(rest)) = Len(rest) - 1
        /\ \A i \in 1 .. Len(rest) - 1 : Tail(rest)[i] = rest[i + 1]
    BY <1>1, <1>2, HeadAndTail
  <1>4. slot \in 1 .. len + 1
    <2>1. Slot(completing.frame, h) \in 0 .. len
      BY <1>2, <1>3, SlotIsLast DEF Accepts, Slots
    <2>. QED
      BY <1>2, <2>1
  <1>5. /\ completing'.rest = Tail(rest)
        /\ completing'.frame.chunks = InsertAt(chunks, slot, h)
    BY <1>1, <1>2 DEF InsertChunk, Complete
  <1> HIDE DEF rest, chunks, h, slot, len
  <1>6. /\ Len(completing'.frame.chunks) = len + 1
        /\ \A j \in 1 .. len + 1 :
             completing'.frame.chunks[j] = IF j < slot THEN chunks[j]
                                           ELSE IF j = slot THEN h ELSE chunks[j - 1]
    <2>1. Inserts(InsertAt(chunks, slot, h), chunks, slot, h)
      BY <1>2, <1>3, <1>4, InsertAtIsSeq DEF len
    <2>. QED
      BY <1>5, <2>1 DEF Inserts, len
  <1>7. \A n, i, c : Holds("rest", n, i, c)' <=>
          n = 0 /\ i \in Nat \ {0} /\ Holds("rest", 0, i + 1, c)
    <2>1. \A i : i \in 1 .. Len(rest) - 1 <=> i \in Nat \ {0} /\ i + 1 \in 1 .. Len(rest)
      BY <1>3
    <2>2. \A n, i, c : Holds("rest", n, i, c) <=>
            c.kind = "Frame" /\ n = 0 /\ i \in 1 .. Len(rest) /\ c = rest[i]
      BY DEF Holds, rest
    <2>3. \A n, i, c : Holds("rest", n, i, c)' <=>
            c.kind = "Frame" /\ n = 0 /\ i \in 1 .. Len(rest) - 1 /\ c = Tail(rest)[i]
      BY <1>3, <1>5 DEF Holds
    <2>. QED
      BY <1>3, <2>1, <2>2, <2>3
  <1>8. \A n, i, c : Holds("frame", n, i, c)' <=>
          /\ n = 0 /\ i \in Nat \ {0}
          /\ \/ i < slot /\ Holds("frame", 0, i, c)
             \/ i = slot /\ Holds("rest", 0, 1, c)
             \/ i > slot /\ Holds("frame", 0, i - 1, c)
    <2>1. \A n, i, c : Holds("frame", n, i, c) <=>
            c.kind = "Frame" /\ n = 0 /\ i \in 1 .. len /\ c = chunks[i]
      BY DEF Holds, chunks, len
    <2>2. \A n, i, c : Holds("frame", n, i, c)' <=>
            c.kind = "Frame" /\ n = 0 /\ i \in 1 .. len + 1 /\ c = completing'.frame.chunks[i]
      BY <1>6 DEF Holds
    <2>3. \A c : Holds("rest", 0, 1, c) <=> c.kind = "Frame" /\ c = h
      BY <1>3 DEF Holds, rest
    <2>4. ASSUME NEW i \in Nat \ {0}
          PROVE  /\ i < slot => (i \in 1 .. len + 1 <=> i \in 1 .. len)
                 /\ i = slot => i \in 1 .. len + 1
                 /\ i > slot => (i \in 1 .. len + 1 <=> i - 1 \in 1 .. len)
                 /\ i < slot \/ i = slot \/ i > slot
      BY <1>2, <1>4
    <2>5. \A i : i \in 1 .. len + 1 => i \in Nat \ {0}
      BY <1>2
    <2>6. ASSUME NEW i \in Nat \ {0}, NEW c
          PROVE  Holds("frame", 0, i, c)' <=>
                   \/ i < slot /\ Holds("frame", 0, i, c)
                   \/ i = slot /\ Holds("rest", 0, 1, c)
                   \/ i > slot /\ Holds("frame", 0, i - 1, c)
      <3>1. CASE i < slot
        <4>1. i \in 1 .. len + 1 => completing'.frame.chunks[i] = chunks[i]
          BY <1>6, <3>1
        <4>2. Holds("frame", 0, i, c)' <=> Holds("frame", 0, i, c)
          BY <2>1, <2>2, <2>4, <3>1, <4>1
        <4>3. ~(i = slot) /\ ~(i > slot)
          BY <1>2, <1>4, <3>1
        <4>. QED
          BY <3>1, <4>2, <4>3
      <3>2. CASE i = slot
        BY SMTT(60), <1>2, <1>4, <1>6, <2>2, <2>3, <2>4, <3>2
      <3>3. CASE i > slot
        <4>1. i \in 1 .. len + 1 => completing'.frame.chunks[i] = chunks[i - 1]
          BY <1>2, <1>4, <1>6, <3>3
        <4>2. Holds("frame", 0, i, c)' <=> Holds("frame", 0, i - 1, c)
          BY <2>1, <2>2, <2>4, <3>3, <4>1
        <4>3. ~(i = slot) /\ ~(i < slot)
          BY <1>2, <1>4, <3>3
        <4>. QED
          BY <3>3, <4>2, <4>3
      <3>. QED
        BY <2>4, <3>1, <3>2, <3>3
    <2>. QED
      BY <2>2, <2>5, <2>6
  <1>9. \A k, n, i, c : k \notin {"frame", "rest"} =>
          (Holds(k, n, i, c)' <=> Holds(k, n, i, c))
    BY <1>1 DEF Holds
  <1>10. slot \in Nat /\ slot >= 1
    BY <1>2, <1>4
  <1>. QED
    BY <1>1, <1>7, <1>8, <1>9, <1>10 DEF slot, h, rest

\* So adding a child moves chunks, and loses or doubles none.
LEMMA AddKeepsTree ==
  ASSUME IInv, Tree, AddNextChild
  PROVE  Tree'
  <1>1. CASE ~Accepts(completing.frame, Head(completing.rest))
    BY <1>1, ModeMovesTree DEF AddNextChild
  <1>2. CASE Accepts(completing.frame, Head(completing.rest))
    <2> DEFINE s == Slot(completing.frame, Head(completing.rest)) + 1
    <2>1. /\ s \in Nat /\ s >= 1
          /\ UNCHANGED <<mode, stack, done, root>>
      BY <1>2, AddMovesChild
    <2>2. \A k, n, i, c : k \notin {"frame", "rest"} =>
            (Holds(k, n, i, c)' <=> Holds(k, n, i, c))
      BY <1>2, AddMovesChild
    <2>3. \A n, i, c : Holds("rest", n, i, c)' <=>
            n = 0 /\ i \in Nat \ {0} /\ Holds("rest", 0, i + 1, c)
      BY <1>2, AddMovesChild
    <2>4. \A n, i, c : Holds("frame", n, i, c)' <=>
            /\ n = 0 /\ i \in Nat \ {0}
            /\ \/ i < s /\ Holds("frame", 0, i, c)
               \/ i = s /\ Holds("rest", 0, 1, c)
               \/ i > s /\ Holds("frame", 0, i - 1, c)
      BY <1>2, AddMovesChild
    <2> HIDE DEF s
    <2>5. Known'
      <3> SUFFICES ASSUME NEW k, NEW n, NEW i, NEW c, Holds(k, n, i, c)'
                   PROVE  /\ c.id \in 1 .. Len(done) /\ c.id # root
                          /\ c.start = done[c.id].start /\ c.end = done[c.id].end
        BY <2>1 DEF Known
      <3>1. \E l, o, j : Holds(l, o, j, c)
        BY <2>2, <2>3, <2>4
      <3>. QED
        BY <3>1 DEF Tree, Known
    <2>6. Unshared'
      <3> SUFFICES ASSUME NEW k, NEW n, NEW i, NEW c, NEW l, NEW o, NEW j, NEW d,
                          Holds(k, n, i, c)', Holds(l, o, j, d)', c.id = d.id
                   PROVE  k = l /\ n = o /\ i = j
        BY DEF Unshared
      <3>. QED
        BY <2>1, <2>2, <2>3, <2>4, ListKinds DEF Tree, Unshared
    <2>7. Placed'
      <3> SUFFICES ASSUME NEW id \in 1 .. Len(done), id # root
                   PROVE  \E k, n, i, c : Holds(k, n, i, c)' /\ c.id = id
        BY <2>1 DEF Placed
      <3>1. PICK k, n, i, c : Holds(k, n, i, c) /\ c.id = id
        BY DEF Tree, Placed
      <3>2. i \in Nat \ {0} /\ (k \in {"frame", "rest"} => n = 0)
        BY <3>1, ListKinds, PositionIsPositive
      <3>3. CASE k = "rest" /\ i = 1
        <4>1. Holds("rest", 0, 1, c) /\ s \in Nat \ {0}
          BY <2>1, <3>1, <3>2, <3>3
        <4>2. ASSUME NEW t, t = s PROVE Holds("frame", 0, t, c)'
          BY <2>4, <4>1, <4>2
        <4>. QED
          BY <3>1, <4>2
      <3>4. CASE k = "rest" /\ i # 1
        <4>1. i - 1 \in Nat \ {0} /\ i - 1 + 1 = i
          BY <3>2, <3>4
        <4>2. Holds("rest", 0, i - 1, c)'
          BY <2>3, <3>1, <3>2, <3>4, <4>1
        <4>. QED
          BY <3>1, <4>2
      <3>5. CASE k = "frame" /\ i < s
        <4>1. Holds("frame", 0, i, c)'
          BY <2>4, <3>1, <3>2, <3>5
        <4>. QED
          BY <3>1, <4>1
      <3>6. CASE k = "frame" /\ ~(i < s)
        <4>1. i + 1 \in Nat \ {0} /\ i + 1 - 1 = i /\ i + 1 > s
          BY <2>1, <3>2, <3>6
        <4>2. Holds("frame", 0, i + 1, c)'
          BY <2>4, <3>1, <3>2, <3>6, <4>1
        <4>. QED
          BY <3>1, <4>2
      <3>7. CASE k \notin {"frame", "rest"}
        BY <2>2, <3>1, <3>7
      <3>. QED
        BY <3>3, <3>4, <3>5, <3>6, <3>7
    <2>8. Settled'
      BY <2>1 DEF Tree, Settled, AddNextChild
    <2>. QED
      BY <2>5, <2>6, <2>7, <2>8 DEF Tree
  <1>. QED
    BY <1>1, <1>2
\* What is handed over becomes the last child of the frame below.
LEMMA HandOverMoves ==
  ASSUME BuilderTypeOK, StackInUse, mode \in {"in_progress", "completing"},
         NEW id \in Nat, NEW p \in Point, NEW q \in Point, HandOver(id, p, q)
  PROVE  \A n, i, c : Holds("stack", n, i, c)' <=>
           /\ n \in 1 .. Len(Below)
           /\ \/ Holds("stack", n, i, c)
              \/ /\ n = Len(Below) /\ i = Len(stack[n].children) + 1
                 /\ c = FrameChunk(id, p, q)
  <1> DEFINE new == FrameChunk(id, p, q)
  <1>1. /\ Len(stack') = Len(Below)
        /\ \A n \in 1 .. Len(Below) :
             /\ n \in 1 .. Len(stack)
             /\ stack'[n].children = IF n = Len(Below) THEN Append(stack[n].children, new)
                                     ELSE stack[n].children
    BY HandOverPuts
  <1>2. new \in Chunk /\ new.kind = "Frame"
    BY ChunkMade
  <1> HIDE DEF new
  <1>3. ASSUME NEW n \in 1 .. Len(Below), NEW i, NEW c
        PROVE  Holds("stack", n, i, c)' <=>
                 \/ Holds("stack", n, i, c)
                 \/ n = Len(Below) /\ i = Len(stack[n].children) + 1 /\ c = new
    <2>1. stack[n].children \in Seq(Chunk)
      BY <1>1, StateType, IncompleteType
    <2>2. CASE n = Len(Below)
      <3>1. stack'[n].children = Append(stack[n].children, new)
        BY <1>1, <2>2
      <3>2. /\ Len(stack[n].children) \in Nat
            /\ Len(stack'[n].children) = Len(stack[n].children) + 1
            /\ \A j \in 1 .. Len(stack[n].children) + 1 :
                 stack'[n].children[j] = IF j = Len(stack[n].children) + 1 THEN new
                                         ELSE stack[n].children[j]
        BY <1>2, <2>1, <3>1, OneMoreChild
      <3>3. i \in 1 .. Len(stack[n].children) + 1
              <=> \/ i \in 1 .. Len(stack[n].children)
                  \/ i = Len(stack[n].children) + 1
        BY SMTT(60), <3>2
      <3>4. Len(stack[n].children) + 1 \notin 1 .. Len(stack[n].children)
        BY <3>2
      <3>5. n \in 1 .. Len(stack) /\ n \in 1 .. Len(stack')
        BY <1>1
      <3>. QED
        BY <1>2, <2>2, <3>2, <3>3, <3>4, <3>5 DEF Holds
    <2>3. CASE n # Len(Below)
      <3>1. stack'[n].children = stack[n].children
        BY <1>1, <2>3
      <3>2. n \in 1 .. Len(stack) /\ n \in 1 .. Len(stack')
        BY <1>1
      <3>. QED
        BY <2>3, <3>1, <3>2 DEF Holds
    <2>. QED
      BY <2>2, <2>3
  <1>4. \A n, i, c : Holds("stack", n, i, c)' => n \in 1 .. Len(Below)
    BY <1>1 DEF Holds
  <1>. QED
    BY <1>3, <1>4 DEF new

\* The chunks of the finished frame go with it, and the new chunk stands for it.
LEMMA EndKeepsTree ==
  ASSUME IInv, Tree, EndFrame
  PROVE  Tree'
  <1> DEFINE g == completing.frame
             id == Len(done) + 1
             new == FrameChunk(id, g.start, g.end)
             len == Len(stack)
             last == Len(stack[len].children) + 1
  <1>1. /\ mode = "completing" /\ completing.rest = <<>> /\ root = 0
        /\ done' = Append(done, g)
        /\ completing'.frame.chunks = <<>> /\ completing'.rest = <<>>
        /\ HandOver(id, g.start, g.end)
    BY DEF EndFrame, NotCompleting, Tree, Settled
  <1>2. /\ BuilderTypeOK /\ StackInUse /\ g \in Complete /\ g.start \in Point /\ g.end \in Point
        /\ done \in Seq(Complete) /\ Len(done) \in Nat /\ id \in Nat /\ len \in Nat
        /\ Below = stack
    BY <1>1, StateType, CompleteType DEF IInv, BuilderTypeOK, Below
  <1>3. /\ new.kind = "Frame" /\ new.id = id /\ new.start = g.start /\ new.end = g.end
    BY <1>2, ChunkMade
  <1>4. /\ len = 0 => mode' = "completed" /\ root' = id
        /\ len # 0 => mode' = "in_progress" /\ root' = 0
    <2>1. len = 0 <=> Below = <<>>
      BY <1>2 DEF BuilderTypeOK
    <2>. QED
      BY <1>1, <2>1, HandOverRoot
  <1>5. \A n, i, c : Holds("stack", n, i, c)' <=>
          \/ Holds("stack", n, i, c)
          \/ len # 0 /\ n = len /\ i = last /\ c = new
    <2>1. \A n, i, c : Holds("stack", n, i, c)' <=>
            /\ n \in 1 .. len
            /\ \/ Holds("stack", n, i, c)
               \/ n = len /\ i = Len(stack[n].children) + 1 /\ c = new
      BY <1>1, <1>2, HandOverMoves
    <2>2. \A n, i, c : Holds("stack", n, i, c) => n \in 1 .. len
      BY DEF Holds
    <2>3. len # 0 <=> len \in 1 .. len
      BY <1>2
    <2> HIDE DEF new, len
    <2>. QED
      BY <2>1, <2>2, <2>3
  <1>6. /\ Len(done') = id /\ done'[id] = g
        /\ \A n \in 1 .. Len(done) : done'[n] = done[n]
        /\ \A n : n \in 1 .. id <=> n \in 1 .. Len(done) \/ n = id
        /\ id \notin 1 .. Len(done) /\ id # 0
    BY <1>1, <1>2
  <1>7. \A n, i, c : Holds("frame", n, i, c) <=>
          c.kind = "Frame" /\ n = 0 /\ i \in 1 .. Len(g.chunks) /\ c = g.chunks[i]
    BY DEF Holds
  <1> HIDE DEF g, id, new, len, last
  <1>8. \A n, i, c : Holds("done", n, i, c)' <=>
          \/ Holds("done", n, i, c)
          \/ n = id /\ Holds("frame", 0, i, c)
    <2>1. \A n, i, c : Holds("done", n, i, c)' <=>
            /\ c.kind = "Frame" /\ n \in 1 .. id
            /\ i \in 1 .. Len(done'[n].chunks) /\ c = done'[n].chunks[i]
      BY <1>6 DEF Holds
    <2>2. \A n, i, c : Holds("done", n, i, c) <=>
            /\ c.kind = "Frame" /\ n \in 1 .. Len(done)
            /\ i \in 1 .. Len(done[n].chunks) /\ c = done[n].chunks[i]
      BY DEF Holds
    <2>. QED
      BY <1>6, <1>7, <2>1, <2>2
  <1>9. \A n, i, c : /\ ~Holds("frame", n, i, c)' /\ ~Holds("rest", n, i, c)'
                     /\ ~Holds("rest", n, i, c)
    BY <1>1 DEF Holds
  <1>10. \A k, n, i, c : Holds(k, n, i, c) =>
           /\ c.id \in 1 .. Len(done)
           /\ c.start = done[c.id].start /\ c.end = done[c.id].end
    BY DEF Tree, Known
  <1>11. Known'
    <2> SUFFICES ASSUME NEW k, NEW n, NEW i, NEW c, Holds(k, n, i, c)'
                 PROVE  /\ c.id \in 1 .. Len(done') /\ c.id # root'
                        /\ c.start = done'[c.id].start /\ c.end = done'[c.id].end
      BY DEF Known
    <2>1. (\E l, o, j : Holds(l, o, j, c)) \/ (len # 0 /\ c = new)
      BY <1>5, <1>8, <1>9, ListKinds
    <2>2. CASE \E l, o, j : Holds(l, o, j, c)
      <3>1. /\ c.id \in 1 .. Len(done)
            /\ c.start = done[c.id].start /\ c.end = done[c.id].end
        BY <1>10, <2>2
      <3>2. root' = id \/ root' = 0
        BY <1>4
      <3>3. c.id # 0
        BY <3>1
      <3>. QED
        BY <1>6, <3>1, <3>2, <3>3
    <2>3. CASE len # 0 /\ c = new
      BY <1>3, <1>4, <1>6, <2>3
    <2>. QED
      BY <2>1, <2>2, <2>3
  <1>12. Unshared'
    <2> SUFFICES ASSUME NEW k, NEW n, NEW i, NEW c, NEW l, NEW o, NEW j, NEW d,
                        Holds(k, n, i, c)', Holds(l, o, j, d)', c.id = d.id
                 PROVE  k = l /\ n = o /\ i = j
      BY DEF Unshared
    <2>1. \A t, u, v : Holds(t, u, v, c) => c.id # id
      BY <1>6, <1>10
    <2>2. \A t, u, v : Holds(t, u, v, d) => d.id # id
      BY <1>6, <1>10
    <2>3. \A u, v, e : Holds("done", u, v, e) => u # id
      BY <1>6 DEF Holds
    <2>. QED
      BY <1>3, <1>5, <1>8, <1>9, <2>1, <2>2, <2>3, ListKinds DEF Tree, Unshared
  <1>13. Placed'
    <2> SUFFICES ASSUME NEW x \in 1 .. Len(done'), x # root'
                 PROVE  \E k, n, i, c : Holds(k, n, i, c)' /\ c.id = x
      BY DEF Placed
    <2>1. CASE x \in 1 .. Len(done)
      <3>1. PICK k, n, i, c : Holds(k, n, i, c) /\ c.id = x
        BY <1>1, <2>1 DEF Tree, Placed
      <3>2. CASE k = "frame"
        <4>1. \A t : t = id => Holds("done", t, i, c)'
          BY <1>8, <3>1, <3>2, ListKinds
        <4>. QED
          BY <3>1, <4>1
      <3>3. CASE k \in {"done", "stack"}
        <4>1. Holds(k, n, i, c)'
          BY <1>5, <1>8, <3>1, <3>3
        <4>. QED
          BY <3>1, <4>1
      <3>. QED
        BY <1>9, <3>1, <3>2, <3>3, ListKinds
    <2>2. CASE x = id
      <3>1. len # 0
        BY <1>4, <2>2
      <3>2. \A n, i, c : n = len /\ i = last /\ c = new => Holds("stack", n, i, c)'
        BY <1>5, <3>1
      <3>. QED
        BY <1>3, <2>2, <3>2
    <2>. QED
      BY <1>6, <2>1, <2>2
  <1>14. Settled'
    BY <1>1, <1>4 DEF Settled
  <1>. QED
    BY <1>11, <1>12, <1>13, <1>14 DEF Tree
\* The function takes its stub's place: the chunk that stood for it leaves the
\* stack together with the stub, and the one that is handed over shows the stub's
\* time, which is now the function's.
LEMMA ReplaceStubKeepsTree ==
  ASSUME IInv, Tree, mode = "in_progress", NEW m \in Point,
         StandsForChild(Last(stack)), ReplaceStub(Last(stack), m)
  PROVE  Tree'
  <1> DEFINE f == Last(stack)
             child == f.children[1]
             id == child.id
             new == FrameChunk(id, f.start, m)
             top == Len(stack)
             below == Len(Below)
             last == Len(stack[below].children) + 1
  <1>1. /\ done' = [done EXCEPT ![id].start = f.start, ![id].end = m]
        /\ HandOver(id, f.start, m) /\ UNCHANGED completing
        /\ Len(f.children) = 1 /\ child.kind = "Frame"
    BY DEF ReplaceStub, StandsForChild
  <1>2. /\ BuilderTypeOK /\ StackInUse /\ done \in Seq(Complete) /\ Len(done) \in Nat
    BY DEF IInv, BuilderTypeOK
  <1>3. /\ f = stack[top] /\ top \in 1 .. top /\ below = top - 1 /\ top \in Nat
        /\ f \in Incomplete /\ f.start \in Point
    BY <1>2, BelowIsPrefix, StateType, IncompleteType
  <1>4. /\ completing.frame.chunks = <<>> /\ completing.rest = <<>> /\ root = 0
    BY DEF Tree, Settled
  <1>5. Holds("stack", top, 1, child)
    <2>1. PICK n, g, c : n = top /\ g = f /\ c = child
      OBVIOUS
    <2>2. g = stack[n] /\ n \in 1 .. Len(stack) /\ c = g.children[1] /\ Len(g.children) = 1
      BY <1>1, <1>3, <2>1
    <2>3. n \in 1 .. Len(stack) /\ 1 \in 1 .. Len(stack[n].children) /\ c = stack[n].children[1]
      BY <2>2
    <2>4. c.kind = "Frame"
      BY <1>1, <2>1
    <2>5. Holds("stack", n, 1, c)
      BY <2>3, <2>4 DEF Holds
    <2>. QED
      BY <2>1, <2>5
  <1>6. id \in 1 .. Len(done) /\ id \in Nat /\ id # 0
    <2>1. id \in 1 .. Len(done)
      BY <1>5 DEF Tree, Known
    <2>. QED
      BY <1>2, <2>1
  <1>7. /\ new.kind = "Frame" /\ new.id = id /\ new.start = f.start /\ new.end = m
    BY <1>3, <1>6, ChunkMade
  <1>8. /\ below = 0 => mode' = "completed" /\ root' = id
        /\ below # 0 => mode' = "in_progress" /\ root' = 0
    <2>1. below = 0 <=> Below = <<>>
      BY <1>2, BelowIsPrefix
    <2>. QED
      BY <1>1, <1>4, <2>1, HandOverRoot
  <1>9. \A n, i, c : Holds("stack", n, i, c) <=>
          \/ n \in 1 .. below /\ Holds("stack", n, i, c)
          \/ n = top /\ i = 1 /\ c = child
    <2>1. \A n, i, c : Holds("stack", n, i, c) => n \in 1 .. below \/ n = top
      BY <1>3 DEF Holds
    <2>2. \A i, c : Holds("stack", top, i, c) <=> i = 1 /\ c = child
      <3>1. \A i, c : Holds("stack", top, i, c) <=>
              c.kind = "Frame" /\ i \in 1 .. 1 /\ c = f.children[i]
        BY <1>1, <1>3 DEF Holds
      <3>2. \A i : i \in 1 .. 1 <=> i = 1
        OBVIOUS
      <3>. QED
        BY <1>1, <3>1, <3>2
    <2> HIDE DEF f, child, top, below
    <2>. QED
      BY <2>1, <2>2
  <1>10. \A n, i, c : Holds("stack", n, i, c)' <=>
           \/ n \in 1 .. below /\ Holds("stack", n, i, c)
           \/ below # 0 /\ n = below /\ i = last /\ c = new
    <2>1. \A n, i, c : Holds("stack", n, i, c)' <=>
            /\ n \in 1 .. below
            /\ \/ Holds("stack", n, i, c)
               \/ n = below /\ i = Len(stack[n].children) + 1 /\ c = new
      BY <1>1, <1>2, <1>3, <1>6, HandOverMoves
    <2>2. below # 0 <=> below \in 1 .. below
      BY <1>3
    <2> HIDE DEF new, below
    <2>. QED
      BY <2>1, <2>2
  <1> HIDE DEF new, id, f, child, top, below, last
  <1>11. /\ Len(done') = Len(done) /\ done'[id].start = f.start /\ done'[id].end = m
         /\ \A n \in 1 .. Len(done) : done'[n].chunks = done[n].chunks
         /\ \A n \in 1 .. Len(done) : n # id => done'[n] = done[n]
    <2> DEFINE wide == [done[id] EXCEPT !.start = f.start, !.end = m]
    <2>1. done[id] \in Complete
      BY <1>2, <1>6, StateType
    <2>2. wide.start = f.start /\ wide.end = m /\ wide.chunks = done[id].chunks
      BY <2>1 DEF Complete
    <2>3. done' = [done EXCEPT ![id] = wide]
      BY <1>1, <1>2, <1>6
    <2> HIDE DEF wide
    <2>4. /\ Len(done') = Len(done)
          /\ \A n \in 1 .. Len(done) : done'[n] = IF n = id THEN wide ELSE done[n]
      BY <1>2, <1>6, <2>3
    <2>. QED
      BY <1>6, <2>2, <2>4
  <1>12. \A n, i, c : Holds("done", n, i, c)' <=> Holds("done", n, i, c)
    BY <1>11 DEF Holds
  <1>13. \A n, i, c : /\ ~Holds("frame", n, i, c)' /\ ~Holds("rest", n, i, c)'
                      /\ ~Holds("frame", n, i, c) /\ ~Holds("rest", n, i, c)
    BY <1>1, <1>4 DEF Holds
  <1>14. \A k, n, i, c : Holds(k, n, i, c) =>
           /\ c.id \in 1 .. Len(done)
           /\ c.start = done[c.id].start /\ c.end = done[c.id].end
           /\ c.id = id => k = "stack" /\ n = top /\ i = 1
    <2>1. child.id = id
      BY DEF id
    <2>. QED
      BY <1>5, <2>1 DEF Tree, Known, Unshared
  <1>15. top \notin 1 .. below
    BY <1>3
  <1>16. ASSUME NEW k, NEW n, NEW i, NEW c, Holds(k, n, i, c)'
         PROVE  \/ Holds(k, n, i, c) /\ c.id # id
                \/ k = "stack" /\ below # 0 /\ n = below /\ i = last /\ c = new
    BY <1>10, <1>12, <1>13, <1>14, <1>15, <1>16, ListKinds
  <1>17. Known'
    <2> SUFFICES ASSUME NEW k, NEW n, NEW i, NEW c, Holds(k, n, i, c)'
                 PROVE  /\ c.id \in 1 .. Len(done') /\ c.id # root'
                        /\ c.start = done'[c.id].start /\ c.end = done'[c.id].end
      BY DEF Known
    <2>1. CASE Holds(k, n, i, c) /\ c.id # id
      <3>1. /\ c.id \in 1 .. Len(done)
            /\ c.start = done[c.id].start /\ c.end = done[c.id].end
        BY <1>14, <2>1
      <3>2. root' = id \/ root' = 0
        BY <1>8
      <3>3. c.id # 0
        BY <3>1
      <3>. QED
        BY <1>11, <2>1, <3>1, <3>2, <3>3
    <2>2. CASE below # 0 /\ c = new
      BY <1>6, <1>7, <1>8, <1>11, <2>2
    <2>. QED
      BY <1>16, <2>1, <2>2
  <1>18. Unshared'
    <2> SUFFICES ASSUME NEW k, NEW n, NEW i, NEW c, NEW l, NEW o, NEW j, NEW d,
                        Holds(k, n, i, c)', Holds(l, o, j, d)', c.id = d.id
                 PROVE  k = l /\ n = o /\ i = j
      BY DEF Unshared
    <2>. QED
      BY <1>7, <1>16 DEF Tree, Unshared
  <1>19. Placed'
    <2> SUFFICES ASSUME NEW x \in 1 .. Len(done), x # root'
                 PROVE  \E k, n, i, c : Holds(k, n, i, c)' /\ c.id = x
      BY <1>11 DEF Placed
    <2>1. CASE x # id
      <3>1. x # root
        BY <1>4
      <3>2. PICK k, n, i, c : Holds(k, n, i, c) /\ c.id = x
        BY <3>1 DEF Tree, Placed
      <3>3. child.id = id
        BY DEF id
      <3>4. Holds(k, n, i, c)'
        BY <1>9, <1>10, <1>12, <1>13, <2>1, <3>2, <3>3, ListKinds
      <3>. QED
        BY <3>2, <3>4
    <2>2. CASE x = id
      <3>1. below # 0
        BY <1>8, <2>2
      <3>2. \A n, i, c : n = below /\ i = last /\ c = new => Holds("stack", n, i, c)'
        BY <1>10, <3>1
      <3>. QED
        BY <1>7, <2>2, <3>2
    <2>. QED
      BY <2>1, <2>2
  <1>20. Settled'
    <2>1. mode' \in {"completed", "in_progress"} /\ (mode' # "completed" => root' = 0)
      BY <1>8
    <2>. QED
      BY <1>1, <1>4, <2>1 DEF Settled
  <1>. QED
    BY <1>17, <1>18, <1>19, <1>20 DEF Tree
\* complete_frame, up to the first child.
LEMMA CompleteFrameKeepsTree ==
  ASSUME IInv, Tree, NEW m \in Point, CompleteFrame(m)
  PROVE  Tree'
  <1> DEFINE f == Last(stack)
             Fits == EnsureMonotonic(m) /\ IsRange(MetricsRange(f.start, m))
  <1>1. CASE ~Fits
    BY <1>1, ModeMovesTree DEF CompleteFrame, Panic
  <1>2. CASE Fits
    BY <1>2, ReplaceStubKeepsTree, BeginFrameKeepsTree DEF CompleteFrame
  <1>. QED
    BY <1>1, <1>2

\* A call keeps the tree, whatever its point.
LEMMA CallKeepsTree ==
  ASSUME IInv, Tree, NEW m \in Point, Call(m)
  PROVE  Tree'
  <1>1. CASE Pause(m)
    BY <1>1, ModeMovesTree DEF Pause
  <1>. QED
    BY <1>1, NewBuilderKeepsTree, PushKeepsTree, CompleteFrameKeepsTree, ResumeKeepsTree DEF Call

\* So do complete_frame's later steps, an event and the end of the trace.
LEMMA RestKeepsTree ==
  ASSUME IInv, Tree,
         \/ Proceed \/ TakeTrace \/ DropBuilder
         \/ \E m, e : EventOccured(e, m)
         \/ UNCHANGED builderVars
  PROVE  Tree'
  <1>1. CASE \E m, e : EventOccured(e, m)
    BY <1>1, ModeMovesTree DEF EventOccured
  <1>2. CASE UNCHANGED builderVars
    <2>1. UNCHANGED <<mode, stack, done, root, completing>>
      BY <1>2 DEF builderVars
    <2>2. \A k, n, i, c : Holds(k, n, i, c)' <=> Holds(k, n, i, c)
      BY <2>1 DEF Holds
    <2>3. Settled'
      BY <2>1 DEF Tree, Settled
    <2>. QED
      BY <2>1, <2>2, <2>3, ListsUnchanged
  <1>. QED
    BY <1>1, <1>2, AddKeepsTree, EndKeepsTree, NoBuilderKeepsTree
       DEF Proceed, TakeTrace, DropBuilder

\* Every step of any owner keeps the tree.
LEMMA NextKeepsTree == IInv /\ Tree /\ [BuilderNext]_builderVars => Tree'
  <1>1. \A m \in Points : m \in Point
    BY CallPointsAssumption
  <1>. QED
    BY <1>1, CallKeepsTree, RestKeepsTree DEF BuilderNext, RecordEvent

\* The place, in the terms of the properties, of a list.
PlaceOf(k, n) == CASE k = "frame" -> <<"completing", 1>>
                   [] k = "rest"  -> <<"completing", 2>>
                   [] OTHER       -> <<k, n>>

\* Every place is that of a list.
LEMMA PlaceIsList ==
  ASSUME NEW p \in Places
  PROVE  \E k, n : /\ p = PlaceOf(k, n)
                   /\ \A i, c : Holds(k, n, i, c) <=>
                        c.kind = "Frame" /\ i \in 1 .. Len(ChunksAt(p)) /\ c = ChunksAt(p)[i]
  <1>1. ASSUME NEW n \in 1 .. Len(done), p = <<"done", n>>
        PROVE  /\ p = PlaceOf("done", n)
               /\ \A i, c : Holds("done", n, i, c) <=>
                    c.kind = "Frame" /\ i \in 1 .. Len(ChunksAt(p)) /\ c = ChunksAt(p)[i]
    <2>1. ChunksAt(p) = done[n].chunks
      BY <1>1 DEF ChunksAt
    <2>. QED
      BY <1>1, <2>1 DEF Holds, PlaceOf
  <1>2. ASSUME NEW n \in 1 .. Len(stack), p = <<"stack", n>>
        PROVE  /\ p = PlaceOf("stack", n)
               /\ \A i, c : Holds("stack", n, i, c) <=>
                    c.kind = "Frame" /\ i \in 1 .. Len(ChunksAt(p)) /\ c = ChunksAt(p)[i]
    <2>1. ChunksAt(p) = stack[n].children
      BY <1>2 DEF ChunksAt
    <2>. QED
      BY <1>2, <2>1 DEF Holds, PlaceOf
  <1>3. ASSUME p = <<"completing", 1>>
        PROVE  /\ p = PlaceOf("frame", 0)
               /\ \A i, c : Holds("frame", 0, i, c) <=>
                    c.kind = "Frame" /\ i \in 1 .. Len(ChunksAt(p)) /\ c = ChunksAt(p)[i]
    <2>1. ChunksAt(p) = completing.frame.chunks
      BY <1>3 DEF ChunksAt
    <2>. QED
      BY <1>3, <2>1 DEF Holds, PlaceOf
  <1>4. ASSUME p = <<"completing", 2>>
        PROVE  /\ p = PlaceOf("rest", 0)
               /\ \A i, c : Holds("rest", 0, i, c) <=>
                    c.kind = "Frame" /\ i \in 1 .. Len(ChunksAt(p)) /\ c = ChunksAt(p)[i]
    <2>1. ChunksAt(p) = completing.rest
      BY <1>4 DEF ChunksAt
    <2>. QED
      BY <1>4, <2>1 DEF Holds, PlaceOf
  <1>5. \/ \E n \in 1 .. Len(done) : p = <<"done", n>>
        \/ \E n \in 1 .. Len(stack) : p = <<"stack", n>>
        \/ p = <<"completing", 1>> \/ p = <<"completing", 2>>
    BY DEF Places
  <1>. QED
    BY <1>1, <1>2, <1>3, <1>4, <1>5

\* Every list is at its place.
LEMMA ListHasPlace ==
  ASSUME NEW k, NEW n, NEW i, NEW c, Holds(k, n, i, c)
  PROVE  LET p == PlaceOf(k, n) IN
         p \in Places /\ i \in 1 .. Len(ChunksAt(p)) /\ c = ChunksAt(p)[i]
  <1>1. CASE k = "done"
    BY <1>1 DEF Holds, PlaceOf, Places, ChunksAt
  <1>2. CASE k = "stack"
    BY <1>2 DEF Holds, PlaceOf, Places, ChunksAt
  <1>3. CASE k = "frame"
    BY <1>3 DEF Holds, PlaceOf, Places, ChunksAt
  <1>4. CASE k = "rest"
    BY <1>4 DEF Holds, PlaceOf, Places, ChunksAt
  <1>. QED
    BY <1>1, <1>2, <1>3, <1>4 DEF Holds

\* So in a tree chunks have the range of their frames.
LEMMA TreeMatches == Tree => ChunksMatchFrames
  <1> SUFFICES ASSUME Tree, NEW p \in Places, NEW i \in 1 .. Len(ChunksAt(p)),
                      ChunksAt(p)[i].kind = "Frame"
               PROVE  LET c == ChunksAt(p)[i] IN
                      /\ c.id \in 1 .. Len(done)
                      /\ c.start = done[c.id].start /\ c.end = done[c.id].end
    BY DEF ChunksMatchFrames
  <1>1. \E k, n : Holds(k, n, i, ChunksAt(p)[i])
    BY PlaceIsList
  <1>. QED
    BY <1>1 DEF Tree, Known

\* And each frame is held once.
LEMMA TreeHoldsOnce == Tree => EachFrameHeldOnce
  <1> SUFFICES ASSUME Tree, NEW id \in 1 .. Len(done)
               PROVE  IF id = root THEN HeldNowhere(id) ELSE HeldOnce(id)
    BY DEF EachFrameHeldOnce
  <1>1. ASSUME NEW q \in Places, NEW j \in 1 .. Len(ChunksAt(q)), StandsFor(ChunksAt(q)[j], id)
        PROVE  \E l, o : q = PlaceOf(l, o) /\ Holds(l, o, j, ChunksAt(q)[j])
    BY <1>1, PlaceIsList DEF StandsFor
  <1>2. CASE id = root
    <2>1. \A k, n, i, c : Holds(k, n, i, c) => c.id # id
      BY <1>2 DEF Tree, Known
    <2>2. HeldNowhere(id)
      BY <1>1, <2>1 DEF HeldNowhere, StandsFor
    <2>. QED
      BY <1>2, <2>2
  <1>3. CASE id # root
    <2>1. PICK k, n, i, c : Holds(k, n, i, c) /\ c.id = id
      BY <1>3 DEF Tree, Placed
    <2> DEFINE p == PlaceOf(k, n)
    <2>2. p \in Places /\ i \in 1 .. Len(ChunksAt(p)) /\ c = ChunksAt(p)[i] /\ c.kind = "Frame"
      <3>1. p \in Places /\ i \in 1 .. Len(ChunksAt(p)) /\ c = ChunksAt(p)[i]
        BY <2>1, ListHasPlace
      <3>2. c.kind = "Frame"
        BY <2>1 DEF Holds
      <3>. QED
        BY <3>1, <3>2
    <2>3. ASSUME NEW q \in Places, NEW j \in 1 .. Len(ChunksAt(q))
          PROVE  StandsFor(ChunksAt(q)[j], id) <=> (q = p /\ j = i)
      <3>1. ASSUME StandsFor(ChunksAt(q)[j], id)
            PROVE  q = p /\ j = i
        <4>1. PICK l, o : q = PlaceOf(l, o) /\ Holds(l, o, j, ChunksAt(q)[j])
          BY <1>1, <3>1
        <4>2. l = k /\ o = n /\ j = i
          BY <2>1, <3>1, <4>1 DEF Tree, Unshared, StandsFor
        <4>. QED
          BY <4>1, <4>2
      <3>2. ASSUME q = p, j = i
            PROVE  StandsFor(ChunksAt(q)[j], id)
        BY <2>1, <2>2, <3>2 DEF StandsFor
      <3>. QED
        BY <3>1, <3>2
    <2> HIDE DEF p
    <2>4. HeldOnce(id)
      BY <2>2, <2>3 DEF HeldOnce
    <2>. QED
      BY <1>3, <2>4
  <1>. QED
    BY <1>2, <1>3

\* The tree holds whatever the owner does.
LEMMA TreeInvariance == BuilderSpec => []Tree
  <1>1. IInv /\ Tree /\ [BuilderNext]_builderVars => Tree'
    BY NextKeepsTree
  <1>. QED
    BY <1>1, InitTree, Invariance, PTL DEF BuilderSpec

\* A parent's view of its child is never stale: the chunk has the frame's range,
\* also after the frame has taken over the time of a PLT stub.
THEOREM ChunksAlwaysMatchFrames == BuilderSpec => []ChunksMatchFrames
  BY TreeInvariance, TreeMatches, PTL

\* No completed frame is lost, and none is in the trace twice.
THEOREM FramesAlwaysHeldOnce == BuilderSpec => []EachFrameHeldOnce
  BY TreeInvariance, TreeHoldsOnce, PTL


-----------------------------------------------------------------------------
(***************************************************************************)
(* Part 4, the inductive invariant of the driver.                          *)
(***************************************************************************)

\* The time of a point the driver passes: that of a time stamp, or none yet.
Clocked == {p \in Point : \/ p.cycles = 0 /\ p.ts = 0
                          \/ p.cycles \in Tsc /\ p.ts = Convert(p.cycles)}

DriverTypeOK ==
  /\ branchReason \in Class
  /\ curMetrics \in Clocked
  /\ lastIp \in Ip \cup {NoIp}
  /\ jumped \in BOOLEAN

\* the driver makes calls only while a trace is under way
JobInTrace ==
  /\ job \in [levels : Nat, call : Symbol \cup {NoSymbol}, pause : BOOLEAN]
  /\ job # NoJob => mode \notin {"none", "paused"}
  /\ job.pause => job.levels = 0 /\ job.call = NoSymbol

\* the k-th frame from the bottom is one the last block belongs to
Follows(k) == /\ lastIp \in Ip
              /\ \/ lastIp \in Covers[stack[k].symbol]
                 \/ stack[k].symbol = Resolve[lastIp]

\* Half-way through a return the frame it leads to is known: it is the one
\* that is on top once the levels left have been completed, if any remains.
ReturnsToBlock ==
  (mode \in {"in_progress", "paused", "completing"} /\ job.call = NoSymbol) =>
    /\ job.levels <= Len(stack)
    /\ job.levels < Len(stack) => Follows(Len(stack) - job.levels)

\* A call that is still to be made is the last block's, and finds a stack
\* without unknown frames.
CallFollowsBlock ==
  job.call # NoSymbol =>
    /\ lastIp \in Ip /\ job.call = Resolve[lastIp]
    /\ job.levels <= 2
    /\ job.levels < 2 /\ mode \in {"in_progress", "completing"} =>
         \A k \in 1 .. Len(stack) : ~IsUnknown(stack[k].symbol)

\* Once control flow is lost, the driver forgets the last branch or is on the
\* way to a state in which it will.
BranchForgotten ==
  jumped => \/ branchReason = "Unknown"
            \/ decoderState \in {"Resync", "SyncForward", "Finished"}

FramesFollowBlocks == /\ JobInTrace
                      /\ UnknownOnlyOnTop
                      /\ RootCalledOnce
                      /\ ReturnsToBlock
                      /\ CallFollowsBlock

DInv == /\ DriverTypeOK
        /\ BranchForgotten
        /\ FramesFollowBlocks

-----------------------------------------------------------------------------
(***************************************************************************)
(* Time.                                                                   *)
(***************************************************************************)

\* A block moves the driver's clock to another point that is not earlier.
LEMMA AdvanceMovesForward ==
  ASSUME curMetrics \in Clocked, NEW tsc \in Tsc, NEW insns \in Nat
  PROVE  Advance(tsc, insns) \in Clocked /\ Leq(curMetrics, Advance(tsc, insns))
  <1>1. /\ curMetrics \in Point /\ curMetrics.ts \in Nat /\ curMetrics.cycles \in Nat
        /\ curMetrics.insn_count \in Nat
    BY DEF Clocked, Point
  <1>2. tsc \in Nat /\ Convert(tsc) \in Nat
    BY TimeAssumption
  <1>3. CASE tsc >= curMetrics.cycles
    <2> DEFINE p == [ts |-> Convert(tsc), cycles |-> tsc,
                     insn_count |-> curMetrics.insn_count + insns]
    <2>1. Advance(tsc, insns) = p
      BY <1>3 DEF Advance
    <2>2. p \in Clocked
      BY <1>1, <1>2 DEF Clocked, Point
    <2>3. curMetrics.ts <= Convert(tsc)
      BY <1>1, <1>2, <1>3, TimeAssumption DEF Clocked
    <2>. QED
      BY <1>1, <1>2, <1>3, <2>1, <2>2, <2>3 DEF Leq
  <1>4. CASE ~(tsc >= curMetrics.cycles)
    <2> DEFINE p == [curMetrics EXCEPT !.insn_count = curMetrics.insn_count + insns]
    <2>1. Advance(tsc, insns) = p
      BY <1>4 DEF Advance
    <2>2. /\ p \in Point /\ p.ts = curMetrics.ts /\ p.cycles = curMetrics.cycles
          /\ p.insn_count = curMetrics.insn_count + insns
      BY <1>1 DEF Point
    <2> HIDE DEF p
    <2>. QED
      BY <1>1, <2>1, <2>2 DEF Clocked, Leq
  <1>. QED
    BY <1>3, <1>4

\* So does an event, if events are in order; in any case it has a time.
LEMMA EventIsClocked ==
  ASSUME curMetrics \in Clocked, NEW tsc \in EventTsc
  PROVE  /\ EventTime(tsc) \in Clocked
         /\ EventsInOrder => Leq(curMetrics, EventTime(tsc))
  <1>1. /\ curMetrics \in Point /\ curMetrics.ts \in Nat /\ curMetrics.cycles \in Nat
        /\ curMetrics.insn_count \in Nat
    BY DEF Clocked, Point
  <1>2. CASE tsc = NoTsc
    BY <1>1, <1>2, PointOrder DEF EventTime
  <1>3. CASE tsc # NoTsc
    <2>1. tsc \in Tsc /\ tsc \in Nat /\ Convert(tsc) \in Nat
      BY <1>3, TimeAssumption DEF EventTsc
    <2>2. EventTime(tsc) = [ts |-> Convert(tsc), cycles |-> tsc,
                            insn_count |-> curMetrics.insn_count]
      BY <1>3 DEF EventTime
    <2>3. EventTime(tsc) \in Clocked
      BY <1>1, <2>1, <2>2 DEF Clocked, Point
    <2>4. ASSUME EventsInOrder
          PROVE  Leq(curMetrics, EventTime(tsc))
      <3>1. tsc >= curMetrics.cycles
        BY <1>3, <2>4 DEF EventTsc
      <3>2. curMetrics.ts <= Convert(tsc)
        BY <1>1, <2>1, <3>1, TimeAssumption DEF Clocked
      <3>. QED
        BY <1>1, <2>1, <2>2, <3>1, <3>2 DEF Leq
    <2>. QED
      BY <2>3, <2>4
  <1>. QED
    BY <1>2, <1>3

-----------------------------------------------------------------------------
(***************************************************************************)
(* The driver is an owner: what one of its steps does to the builder.      *)
(***************************************************************************)

\* The points of calls are those the driver has just moved its clock to.
OwnerStep ==
  \/ Call(curMetrics')
  \/ \E e \in EventId, m \in Clocked : EventOccured(e, m)
  \/ Proceed
  \/ TakeTrace
  \/ DropBuilder
  \/ UNCHANGED builderVars

\* the driver's clock after a step
ClockMoves == /\ curMetrics' \in Clocked
              /\ EventsInOrder => Leq(curMetrics, curMetrics')

\* A call of a function or, for the root, the start of a return.
LEMMA CallEventIsOwned ==
  ASSUME NEW s \in Symbol, NEW m, curMetrics' = m, CallEvent(m, s)
  PROVE  OwnerStep
  BY DEF CallEvent, ReturnEvent, OwnerStep, Call

\* A block.
LEMMA ReadBlockIsOwned ==
  ASSUME DriverTypeOK, NEW ip \in Ip, NEW class \in Class, NEW insns \in InsnCounts,
         NEW tsc \in Tsc, NEW status \in Status, ReadBlock(ip, class, insns, tsc, status)
  PROVE  OwnerStep /\ ClockMoves
  <1> DEFINE m == Advance(tsc, insns)
  <1>1. curMetrics' = m /\ ProcessBlock(ip, m)
    BY DEF ReadBlock
  <1>2. m \in Clocked /\ Leq(curMetrics, m)
    BY InputAssumption, AdvanceMovesForward DEF DriverTypeOK
  <1>3. Resolve[ip] \in Symbol
    BY SymbolAssumption
  <1> HIDE DEF m
  <1>4. ASSUME Stay
        PROVE  OwnerStep
    BY <1>4 DEF Stay, OwnerStep
  <1>5. ASSUME \E n, c : ReturnEvent(n, c)
        PROVE  OwnerStep
    BY <1>5 DEF ReturnEvent, OwnerStep
  <1>6. ASSUME CallEvent(m, Resolve[ip])
        PROVE  OwnerStep
    BY <1>1, <1>3, <1>6, CallEventIsOwned
  <1>7. ASSUME NewBuilder(m, Resolve[ip])
        PROVE  OwnerStep
    BY <1>1, <1>3, <1>7 DEF OwnerStep, Call
  <1>8. \/ Stay
        \/ \E n, c : ReturnEvent(n, c)
        \/ CallEvent(m, Resolve[ip])
        \/ NewBuilder(m, Resolve[ip])
    BY <1>1 DEF ProcessBlock, LeaveUnknown, LeaveFrame, StayInFrame
  <1>. QED
    BY <1>1, <1>2, <1>4, <1>5, <1>6, <1>7, <1>8 DEF ClockMoves

\* Tracing is switched off or on at a point that is not behind the clock.
LEMMA SwitchIsOwned ==
  ASSUME NEW m \in Clocked, EventsInOrder => Leq(curMetrics, m),
         DisableTracing(m) \/ EnableTracing(m)
  PROVE  OwnerStep /\ ClockMoves
  BY DEF DisableTracing, EnableTracing, OwnerStep, ClockMoves, Call

\* An event.
LEMMA EventIsOwned ==
  ASSUME DriverTypeOK, NEW type \in EventType, NEW tsc \in EventTsc,
         ProcessEvent(type, EventTime(tsc))
  PROVE  OwnerStep /\ ClockMoves
  <1> DEFINE m == EventTime(tsc)
  <1>1. m \in Clocked /\ (EventsInOrder => Leq(curMetrics, m))
    BY EventIsClocked DEF DriverTypeOK
  <1>2. curMetrics \in Clocked /\ Leq(curMetrics, curMetrics)
    BY PointOrder DEF DriverTypeOK, Clocked
  <1>3. TraceInterrupted \in EventId /\ DataCollectionError \in EventId
    BY InputAssumption
  <1>4. \/ /\ Record(TraceInterrupted, m) \/ Record(DataCollectionError, m)
           /\ curMetrics' \in {m, curMetrics}
        \/ DisableTracing(m) \/ EnableTracing(m)
        \/ UNCHANGED <<builderVars, curMetrics>>
    BY DEF ProcessEvent
  <1> HIDE DEF m
  <1>5. CASE /\ Record(TraceInterrupted, m) \/ Record(DataCollectionError, m)
             /\ curMetrics' \in {m, curMetrics}
    BY <1>1, <1>2, <1>3, <1>5 DEF Record, OwnerStep, ClockMoves
  <1>6. CASE DisableTracing(m) \/ EnableTracing(m)
    BY <1>1, <1>6, SwitchIsOwned
  <1>7. CASE UNCHANGED <<builderVars, curMetrics>>
    BY <1>2, <1>7 DEF OwnerStep, ClockMoves
  <1>. QED
    BY <1>4, <1>5, <1>6, <1>7

\* A resync that finds a time moves the clock like a block without instructions.
LEMMA ResyncIsOwned ==
  ASSUME DriverTypeOK, NEW tsc \in Tsc \cup {NoTsc}, NEW suppressed \in BOOLEAN,
         NEW status \in Status, Resync(tsc, suppressed, status)
  PROVE  OwnerStep /\ ClockMoves
  <1> DEFINE m == IF tsc = NoTsc THEN curMetrics ELSE Advance(tsc, 0)
  <1>1. m \in Clocked /\ Leq(curMetrics, m)
    BY AdvanceMovesForward, PointOrder DEF DriverTypeOK, Clocked
  <1>2. DisableTracing(m) \/ (curMetrics' = m /\ UNCHANGED builderVars)
    BY DEF Resync
  <1> HIDE DEF m
  <1>. QED
    BY <1>1, <1>2, SwitchIsOwned DEF OwnerStep, ClockMoves

\* A step of the driver is at most one call of the builder, at the point the
\* driver's clock has reached.
LEMMA DriverOwns ==
  ASSUME DriverTypeOK, JobInTrace, Next
  PROVE  OwnerStep /\ ClockMoves
  <1> USE DEF ClockMoves
  <1>1. ASSUME UNCHANGED curMetrics PROVE ClockMoves
    BY <1>1, PointOrder DEF DriverTypeOK, Clocked
  <1>2. CASE CallNext \/ Finished \/ ReadBlockFails \/ ReadEventFails \/ ResyncIgnoresEvent
             \/ ResyncFails \/ Stopped \/ \E status \in Status : ReadBlockWithoutTime(status)
    BY <1>1, <1>2 DEF CallNext, Finished, ReadBlockFails, ReadEventFails, ResyncIgnoresEvent,
                      ResyncFails, Stopped, vars, driverVars, ReadBlockWithoutTime, OwnerStep
  <1>3. CASE ReturnTrace
    BY <1>1, <1>3 DEF ReturnTrace, OwnerStep
  <1>4. ASSUME NEW ip \in Ip, NEW class \in Class, NEW insns \in InsnCounts,
               NEW tsc \in Tsc, NEW status \in Status,
               ReadBlock(ip, class, insns, tsc, status)
        PROVE  OwnerStep /\ ClockMoves
    BY <1>4, ReadBlockIsOwned
  <1>5. ASSUME NEW type \in EventType, NEW tsc \in EventTsc, NEW status \in Status,
               ReadEvent(type, tsc, status)
        PROVE  OwnerStep /\ ClockMoves
    <2>1. UNCHANGED <<builderVars, curMetrics>> \/ ProcessEvent(type, EventTime(tsc))
      BY <1>5 DEF ReadEvent
    <2>. QED
      BY <1>1, <2>1, EventIsOwned DEF OwnerStep
  <1>6. ASSUME NEW tsc \in Tsc \cup {NoTsc}, NEW suppressed \in BOOLEAN,
               NEW status \in Status, Resync(tsc, suppressed, status)
        PROVE  OwnerStep /\ ClockMoves
    BY <1>6, ResyncIsOwned
  <1>7. CASE SyncForwardFails \/ \E status \in Status : SyncForward(status)
    BY <1>1, <1>7 DEF SyncForwardFails, SyncForward, DiscardTrace, OwnerStep
  <1>8. CASE PauseAfterEvent \/ ReturnOneLevel
    BY <1>1, <1>8 DEF PauseAfterEvent, ReturnOneLevel, driverVars, OwnerStep, Call
  <1>9. CASE CallAfterReturn
    <2>1. job.call \in Symbol /\ UNCHANGED curMetrics /\ CallEvent(curMetrics, job.call)
      BY <1>9 DEF CallAfterReturn, JobInTrace, driverVars
    <2>. QED
      BY <1>1, <2>1, CallEventIsOwned
  <1>10. CASE BuilderStep
    BY <1>1, <1>10 DEF BuilderStep, driverVars, OwnerStep
  <1>. QED
    BY <1>2, <1>3, <1>4, <1>5, <1>6, <1>7, <1>8, <1>9, <1>10 DEF Next, Loop

\* Whatever the driver does, its builder keeps its own invariant.
LEMMA OwnerStepKeeps ==
  ASSUME IInv, curMetrics' \in Clocked, OwnerStep
  PROVE  IInv'
  <1>1. Clocked \subseteq Point
    BY DEF Clocked
  <1>2. CASE UNCHANGED builderVars
    BY <1>2, NextPreserves
  <1>. QED
    BY <1>1, <1>2, CallKeeps, RestKeeps, EventOccuredKeeps DEF OwnerStep

-----------------------------------------------------------------------------
(***************************************************************************)
(* The symbols on the stack.                                               *)
(***************************************************************************)

SameSymbols == /\ Len(stack') = Len(stack)
               /\ \A k \in 1 .. Len(stack) : stack'[k].symbol = stack[k].symbol

OneFrameLess == /\ Len(stack') = Len(stack) - 1
                /\ \A k \in 1 .. Len(stack) - 1 : stack'[k].symbol = stack[k].symbol

AllKnown == \A k \in 1 .. Len(stack) : ~IsUnknown(stack[k].symbol)

\* HandOver takes away the completed frame and leaves the symbols below.
LEMMA HandOverLowers ==
  ASSUME IInv, mode \in {"in_progress", "completing"},
         NEW id \in Nat, NEW p \in Point, NEW q \in Point, HandOver(id, p, q)
  PROVE  /\ mode' \in {"in_progress", "completed"}
         /\ mode = "in_progress" => OneFrameLess
         /\ mode = "completing" => SameSymbols
  <1>1. BuilderTypeOK /\ StackInUse /\ Len(stack) \in Nat
    BY StateType DEF IInv
  <1>2. /\ mode' \in {"in_progress", "completed"}
        /\ Len(stack') = Len(Below)
        /\ \A k \in 1 .. Len(stack') : stack'[k].symbol = stack[k].symbol
    BY <1>1, HandOverPuts
  <1>3. mode = "in_progress" => Len(Below) = Len(stack) - 1
    BY <1>1, BelowIsPrefix
  <1>4. mode = "completing" => Below = stack
    BY DEF Below
  <1>. QED
    BY <1>1, <1>2, <1>3, <1>4 DEF OneFrameLess, SameSymbols

\* Completing a frame takes it off the stack or panics.
LEMMA CompleteFrameLowers ==
  ASSUME IInv, NEW m \in Point, CompleteFrame(m)
  PROVE  \/ mode' = "panicked" /\ UNCHANGED stack
         \/ mode' \in {"completing", "in_progress", "completed"} /\ OneFrameLess
  <1> DEFINE f == Last(stack)
             id == f.children[1].id
  <1>1. /\ mode = "in_progress" /\ BuilderTypeOK /\ StackInUse
        /\ f = stack[Len(stack)] /\ Len(stack) \in 1 .. Len(stack)
        /\ Len(Front(stack)) = Len(stack) - 1
        /\ \A k \in 1 .. Len(stack) - 1 : Front(stack)[k] = stack[k]
    <2>1. mode = "in_progress" /\ BuilderTypeOK /\ StackInUse
      BY DEF CompleteFrame, IInv
    <2>2. Below = Front(stack)
      BY <2>1 DEF Below
    <2>. QED
      BY <2>1, <2>2, BelowIsPrefix
  <1>2. f \in Incomplete /\ f.start \in Point
    BY <1>1, StateType, IncompleteType
  <1> HIDE DEF f
  <1>3. \/ Panic
        \/ StandsForChild(f) /\ ReplaceStub(f, m)
        \/ BeginFrame(f, m)
    BY DEF CompleteFrame, f
  <1>4. CASE Panic
    BY <1>4 DEF Panic
  <1>5. CASE StandsForChild(f) /\ ReplaceStub(f, m)
    <2>1. id \in Nat
      <3>1. 1 \in 1 .. Len(f.children)
        BY <1>5 DEF StandsForChild
      <3>2. f.children[1] \in Chunk
        BY <1>2, <3>1, IncompleteType
      <3>. QED
        BY <3>2 DEF Chunk
    <2>2. HandOver(id, f.start, m)
      BY <1>5 DEF ReplaceStub
    <2> HIDE DEF id
    <2>. QED
      BY <1>1, <1>2, <2>1, <2>2, HandOverLowers
  <1>6. CASE BeginFrame(f, m)
    BY <1>1, <1>6 DEF BeginFrame, OneFrameLess
  <1>. QED
    BY <1>3, <1>4, <1>5, <1>6

\* The rest of complete_frame leaves the symbols as they are.
LEMMA ProceedKeepsSymbols ==
  ASSUME IInv, Proceed
  PROVE  /\ mode = "completing"
         /\ mode' \in {"completing", "failed", "in_progress", "completed"}
         /\ SameSymbols
  <1>1. CASE AddNextChild
    BY <1>1 DEF AddNextChild, SameSymbols
  <1>2. CASE EndFrame
    <2> DEFINE f == completing.frame
    <2>1. Len(done) + 1 \in Nat /\ f.start \in Point /\ f.end \in Point
      BY StateType, CompleteType DEF IInv
    <2>2. mode = "completing" /\ HandOver(Len(done) + 1, f.start, f.end)
      BY <1>2 DEF EndFrame
    <2> HIDE DEF f
    <2>. QED
      BY <2>1, <2>2, HandOverLowers
  <1>. QED
    BY <1>1, <1>2 DEF Proceed

\* So does the end of a pause.
LEMMA ResumeKeepsSymbols ==
  ASSUME IInv, NEW m \in Point, Resume(m)
  PROVE  mode' \in {"in_progress", "panicked"} /\ SameSymbols
  <1> DEFINE c == PauseChunk(pauseStart, m)
  <1>1. stack \in Seq(Incomplete) /\ stack # <<>> /\ c \in Chunk
    BY ChunkMade DEF Resume, IInv, BuilderTypeOK, StackInUse
  <1>2. CASE Panic
    BY <1>2 DEF Panic, SameSymbols
  <1>3. CASE mode' = "in_progress" /\ stack' = [stack EXCEPT ![Len(stack)].children = Append(@, c)]
    <2> HIDE DEF c
    <2>. QED
      BY <1>1, <1>3, AddChildToTop DEF SameSymbols
  <1>. QED
    BY <1>2, <1>3 DEF Resume

\* Properties of the symbols on the stack outlive steps that keep them.
LEMMA SymbolsStay ==
  ASSUME IInv, IInv', UnknownOnlyOnTop, RootCalledOnce, SameSymbols
  PROVE  UnknownOnlyOnTop' /\ RootCalledOnce' /\ (AllKnown => AllKnown')
  <1>1. /\ stack \in Seq(Incomplete) /\ stack' \in Seq(Incomplete)
        /\ Len(stack) \in Nat
    BY DEF IInv, BuilderTypeOK
  <1>2. stack' # <<>> => 1 \in 1 .. Len(stack) /\ stack # <<>>
    BY <1>1 DEF SameSymbols
  <1>. QED
    BY <1>1, <1>2 DEF SameSymbols, UnknownOnlyOnTop, RootCalledOnce, AllKnown

\* Without its top the stack holds no unknown frame.
LEMMA SymbolsBelow ==
  ASSUME IInv, IInv', UnknownOnlyOnTop, RootCalledOnce, OneFrameLess
  PROVE  UnknownOnlyOnTop' /\ RootCalledOnce' /\ AllKnown'
  <1>1. /\ stack \in Seq(Incomplete) /\ stack' \in Seq(Incomplete)
        /\ Len(stack) \in Nat /\ Len(stack') \in Nat
    BY DEF IInv, BuilderTypeOK
  <1>2. stack' # <<>> => 1 \in 1 .. Len(stack) - 1 /\ stack # <<>>
    BY <1>1 DEF OneFrameLess
  <1>. QED
    BY <1>1, <1>2 DEF OneFrameLess, UnknownOnlyOnTop, RootCalledOnce, AllKnown

\* A frame other than the root's comes on top of known frames.
LEMMA SymbolPushed ==
  ASSUME IInv, AllKnown, RootCalledOnce, stack # <<>>,
         NEW s \in Symbol, s # stack[1].symbol, NEW m \in Point,
         stack' = Append(stack, IncompleteFrame(s, m))
  PROVE  UnknownOnlyOnTop' /\ RootCalledOnce' /\ stack'[Len(stack')].symbol = s
  <1>1. stack \in Seq(Incomplete) /\ Len(stack) \in Nat /\ Len(stack) >= 1
    BY DEF IInv, BuilderTypeOK
  <1>2. /\ Len(stack') = Len(stack) + 1
        /\ \A k \in 1 .. Len(stack) : stack'[k] = stack[k]
        /\ stack'[Len(stack) + 1].symbol = s
    BY <1>1 DEF IncompleteFrame
  <1>. QED
    BY <1>1, <1>2 DEF UnknownOnlyOnTop, RootCalledOnce, AllKnown

-----------------------------------------------------------------------------
(***************************************************************************)
(* Steps after which the frames still follow the blocks.                   *)
(***************************************************************************)

\* Nothing is to follow when there is no trace.
LEMMA FollowsOutsideTrace ==
  ASSUME mode' = "none", job' = NoJob,
         stack' = <<>> \/ (UNCHANGED stack /\ UnknownOnlyOnTop /\ RootCalledOnce)
  PROVE  FramesFollowBlocks'
  <1>1. UnknownOnlyOnTop' /\ RootCalledOnce'
    BY DEF UnknownOnlyOnTop, RootCalledOnce
  <1>2. job' = NoJob /\ mode' = "none"
    OBVIOUS
  <1>3. JobInTrace'
    BY <1>2 DEF JobInTrace, NoJob
  <1>4. ReturnsToBlock'
    BY <1>2 DEF ReturnsToBlock
  <1>5. CallFollowsBlock'
    BY <1>2 DEF CallFollowsBlock, NoJob
  <1>. QED
    BY <1>1, <1>3, <1>4, <1>5 DEF FramesFollowBlocks

\* The builder goes on with the same frames, or is lost.
LEMMA FollowsWithSameFrames ==
  ASSUME IInv, IInv', FramesFollowBlocks, SameSymbols, lastIp' = lastIp,
         job'.levels = job.levels, job'.call = job.call, JobInTrace',
         mode' \in {"in_progress", "paused", "completing"} =>
           mode \in {"in_progress", "paused", "completing"}
  PROVE  FramesFollowBlocks'
  <1>1. UnknownOnlyOnTop' /\ RootCalledOnce' /\ (AllKnown => AllKnown')
    BY SymbolsStay DEF FramesFollowBlocks
  <1>2. job.levels \in Nat /\ Len(stack) \in Nat /\ Len(stack') = Len(stack)
    BY StateType DEF IInv, FramesFollowBlocks, JobInTrace, SameSymbols
  <1>3. ReturnsToBlock'
    <2> SUFFICES ASSUME mode \in {"in_progress", "paused", "completing"},
                        job.call = NoSymbol
                 PROVE  /\ job.levels <= Len(stack)
                        /\ job.levels < Len(stack) => Follows(Len(stack) - job.levels)'
      BY <1>2 DEF ReturnsToBlock
    <2>1. /\ job.levels <= Len(stack)
          /\ job.levels < Len(stack) => Follows(Len(stack) - job.levels)
      BY DEF FramesFollowBlocks, ReturnsToBlock
    <2>2. job.levels < Len(stack) => Len(stack) - job.levels \in 1 .. Len(stack)
      BY <1>2
    <2>. QED
      BY <1>2, <2>1, <2>2 DEF Follows, SameSymbols
  <1>4. CallFollowsBlock'
    <2> SUFFICES ASSUME job.call # NoSymbol
                 PROVE  /\ lastIp \in Ip /\ job.call = Resolve[lastIp]
                        /\ job.levels <= 2
                        /\ job.levels < 2 /\ mode' \in {"in_progress", "completing"} => AllKnown'
      BY DEF CallFollowsBlock, AllKnown
    <2>1. mode # "paused"
      BY DEF FramesFollowBlocks, JobInTrace, NoJob
    <2>. QED
      BY <1>1, <2>1 DEF FramesFollowBlocks, CallFollowsBlock, AllKnown
  <1>. QED
    BY <1>1, <1>3, <1>4 DEF FramesFollowBlocks

\* contained_in_callstack finds a frame that covers the address.
LEMMA ContainingLevelCovers ==
  ASSUME IInv, stack # <<>>, NEW ip \in Ip
  PROVE  /\ ContainingLevel(ip) \in 0 .. Len(stack) - 1
         /\ ContainingLevel(ip) > 0 =>
              ip \in Covers[stack[Len(stack) - ContainingLevel(ip)].symbol]
  <1> DEFINE levels == {i \in 1 .. CallstackDepth - 1 : ip \in Covers[FrameSymbol(i)]}
  <1>1. Len(stack) \in Nat /\ Len(stack) >= 1
    BY DEF IInv, BuilderTypeOK
  <1>2. CASE levels = {}
    BY <1>1, <1>2 DEF ContainingLevel
  <1>3. CASE levels # {}
    <2>1. levels \subseteq Nat
      BY DEF CallstackDepth
    <2>2. PICK k \in levels : \A j \in levels : k <= j
      BY <1>3, <2>1, SmallestExists
    <2>3. ContainingLevel(ip) = Min(levels)
      BY <1>3 DEF ContainingLevel
    <2> HIDE DEF levels
    <2>4. Min(levels) \in levels
      BY <2>2 DEF Min
    <2>5. PICK l \in levels : l = ContainingLevel(ip)
      BY <2>3, <2>4
    <2>6. l \in 1 .. CallstackDepth - 1 /\ ip \in Covers[FrameSymbol(l)]
      BY DEF levels
    <2>. QED
      BY <1>1, <2>5, <2>6 DEF CallstackDepth, FrameSymbol
  <1>. QED
    BY <1>2, <1>3

\* A return starts that leads to a frame with the block, ends the trace, or
\* leaves an unknown frame and the one below it for the block's own function.
LEMMA FollowsReturn ==
  ASSUME IInv, FramesFollowBlocks, mode = "in_progress", NEW ip \in Ip, lastIp' = ip,
         NEW levels \in Nat, NEW call, ReturnEvent(levels, call),
         \/ /\ call = NoSymbol /\ levels <= Len(stack)
            /\ levels < Len(stack) => ip \in Covers[stack[Len(stack) - levels].symbol]
         \/ call = Resolve[ip] /\ levels = 2
  PROVE  FramesFollowBlocks'
  <1>1. /\ job' = [levels |-> levels, call |-> call, pause |-> FALSE]
        /\ UNCHANGED <<mode, stack>>
    BY DEF ReturnEvent, builderVars
  <1>2. job'.levels = levels /\ job'.call = call /\ ~job'.pause
    BY <1>1
  <1>3. Resolve[ip] \in Symbol /\ Resolve[ip] # NoSymbol
    BY SymbolAssumption
  <1>4. UnknownOnlyOnTop' /\ RootCalledOnce'
    BY <1>1 DEF FramesFollowBlocks, UnknownOnlyOnTop, RootCalledOnce
  <1>5. JobInTrace'
    BY <1>1, <1>3 DEF JobInTrace
  <1>6. ReturnsToBlock'
    BY <1>1, <1>2, <1>3 DEF ReturnsToBlock, Follows
  <1>7. CallFollowsBlock'
    BY <1>2, <1>3 DEF CallFollowsBlock
  <1>. QED
    BY <1>4, <1>5, <1>6, <1>7 DEF FramesFollowBlocks

\* The block's function is called on top of known frames; if it is the root's,
\* the trace ends.
LEMMA FollowsCall ==
  ASSUME IInv, IInv', FramesFollowBlocks, mode = "in_progress", AllKnown,
         NEW ip \in Ip, lastIp' = ip, NEW m \in Point, CallEvent(m, Resolve[ip])
  PROVE  FramesFollowBlocks'
  <1> DEFINE s == Resolve[ip]
  <1>1. s \in Symbol
    BY SymbolAssumption
  <1>2. stack # <<>> /\ Len(stack) \in Nat /\ Len(stack) >= 1
    BY DEF IInv, StackInUse, BuilderTypeOK
  <1>3. FrameSymbol(CallstackDepth - 1) = stack[1].symbol
    <2>1. Len(stack) - (Len(stack) - 1) = 1
      BY <1>2
    <2>. QED
      BY <2>1 DEF FrameSymbol, CallstackDepth
  <1>4. CASE s = FrameSymbol(CallstackDepth - 1)
    <2>1. ReturnEvent(Len(stack), NoSymbol)
      BY <1>4 DEF CallEvent, CallstackDepth
    <2>. QED
      BY <1>2, <2>1, FollowsReturn
  <1>5. CASE s # FrameSymbol(CallstackDepth - 1)
    <2>1. PushFrame(m, s) /\ job' = NoJob
      BY <1>5 DEF CallEvent
    <2> HIDE DEF s
    <2>2. job'.levels = 0 /\ job'.call = NoSymbol /\ JobInTrace'
      BY <2>1 DEF NoJob, JobInTrace
    <2>3. CallFollowsBlock'
      BY <2>2 DEF CallFollowsBlock
    <2>4. CASE Panic
      <3>1. mode' = "panicked" /\ UNCHANGED stack
        BY <2>4 DEF Panic
      <3>2. UnknownOnlyOnTop' /\ RootCalledOnce'
        BY <3>1 DEF FramesFollowBlocks, UnknownOnlyOnTop, RootCalledOnce
      <3>3. ReturnsToBlock'
        BY <3>1 DEF ReturnsToBlock
      <3>. QED
        BY <2>2, <2>3, <3>2, <3>3 DEF FramesFollowBlocks
    <2>5. CASE stack' = Append(stack, IncompleteFrame(s, m))
      <3>1. /\ UnknownOnlyOnTop' /\ RootCalledOnce'
            /\ stack'[Len(stack')].symbol = s
        BY <1>1, <1>2, <1>3, <1>5, <2>5, SymbolPushed DEF FramesFollowBlocks
      <3>2. Len(stack') \in Nat
        BY DEF IInv, BuilderTypeOK
      <3>3. ReturnsToBlock'
        BY <2>2, <3>1, <3>2 DEF ReturnsToBlock, Follows, s
      <3>. QED
        BY <2>2, <2>3, <3>1, <3>3 DEF FramesFollowBlocks
    <2>. QED
      BY <2>1, <2>4, <2>5 DEF PushFrame
  <1>. QED
    BY <1>4, <1>5

-----------------------------------------------------------------------------
(***************************************************************************)
(* Every step keeps the invariant.                                         *)
(***************************************************************************)

\* The driver's own variables keep their types, and a branch is forgotten
\* before the next block is read.
LEMMA DriverMoves ==
  ASSUME DInv, Next
  PROVE  DriverTypeOK' /\ BranchForgotten'
  <1>1. curMetrics' \in Clocked
    BY DriverOwns DEF DInv, FramesFollowBlocks, ClockMoves
  <1> SUFFICES /\ branchReason' \in Class /\ lastIp' \in Ip \cup {NoIp}
               /\ jumped' \in BOOLEAN /\ BranchForgotten'
    BY <1>1 DEF DriverTypeOK
  <1> USE DEF DInv, DriverTypeOK, BranchForgotten
  <1>2. "Unknown" \in Class
    BY DEF Class
  <1>3. CASE \/ CallNext \/ Finished \/ ReturnTrace \/ Stopped
             \/ UNCHANGED driverVars
    BY <1>3 DEF CallNext, Finished, ReturnTrace, Stopped, vars, driverVars
  <1>4. ASSUME NEW ip \in Ip, NEW class \in Class, NEW insns \in InsnCounts,
               NEW tsc \in Tsc, NEW status \in Status,
               ReadBlock(ip, class, insns, tsc, status)
        PROVE  /\ branchReason' \in Class /\ lastIp' \in Ip \cup {NoIp}
               /\ jumped' \in BOOLEAN /\ BranchForgotten'
    BY <1>4 DEF ReadBlock, ProcessBlock
  <1>5. CASE ReadBlockFails \/ \E status \in Status : ReadBlockWithoutTime(status)
    <2>1. CASE ReadBlockFails
      <3>1. /\ decoderState' \in {"Resync", "SyncForward", "Finished"}
            /\ UNCHANGED <<branchReason, lastIp>>
        BY <2>1 DEF ReadBlockFails
      <3>2. jumped' = TRUE
        BY <2>1 DEF ReadBlockFails
      <3>. QED
        BY <3>1, <3>2
    <2>2. CASE \E status \in Status : ReadBlockWithoutTime(status)
      <3>1. decoderState = "ReadBlock" /\ UNCHANGED <<branchReason, lastIp, jumped>>
        BY <2>2 DEF ReadBlockWithoutTime
      <3>. QED
        BY <3>1
    <2>. QED
      BY <1>5, <2>1, <2>2
  <1>6. ASSUME NEW type \in EventType, NEW tsc \in EventTsc, NEW status \in Status,
               ReadEvent(type, tsc, status)
        PROVE  /\ branchReason' \in Class /\ lastIp' \in Ip \cup {NoIp}
               /\ jumped' \in BOOLEAN /\ BranchForgotten'
    <2>1. decoderState \in {"ReadEvent", "ReadEventResync"} /\ UNCHANGED lastIp
      BY <1>6 DEF ReadEvent
    <2>2. CASE status = "eos"
      <3>1. decoderState' = "Finished" /\ UNCHANGED <<branchReason, jumped>>
        BY <1>6, <2>2 DEF ReadEvent, UpdateState
      <3>. QED
        BY <2>1, <3>1
    <2>3. CASE status # "eos"
      <3>1. /\ branchReason' = IF ClearsBranch(type) THEN "Unknown" ELSE branchReason
            /\ jumped' = (jumped \/ Jumps(type))
        BY <1>6, <2>3 DEF ReadEvent, ProcessEvent
      <3>2. Jumps(type) => ClearsBranch(type)
        BY DEF Jumps, ClearsBranch
      <3>. QED
        BY <1>2, <2>1, <3>1, <3>2
    <2>. QED
      BY <2>2, <2>3
  <1>7. CASE \/ ReadEventFails \/ ResyncIgnoresEvent \/ ResyncFails \/ SyncForwardFails
             \/ \E status \in Status : SyncForward(status)
             \/ \E tsc \in Tsc \cup {NoTsc}, suppressed \in BOOLEAN, status \in Status :
                  Resync(tsc, suppressed, status)
    <2>1. CASE ReadEventFails
      <3>1. /\ decoderState \in {"ReadEvent", "ReadEventResync"}
            /\ UNCHANGED <<branchReason, lastIp, jumped>>
        BY <2>1 DEF ReadEventFails
      <3>. QED
        BY <3>1
    <2>2. CASE ~ReadEventFails
      <3>1. branchReason' = "Unknown" /\ lastIp' \in {lastIp, NoIp}
        BY <1>7, <2>2 DEF ResyncIgnoresEvent, ResyncFails, SyncForwardFails, SyncForward, Resync
      <3>2. jumped' = TRUE \/ UNCHANGED jumped
        BY <1>7, <2>2 DEF ResyncIgnoresEvent, ResyncFails, SyncForwardFails, SyncForward, Resync
      <3>. QED
        BY <1>2, <3>1, <3>2
    <2>. QED
      BY <2>1, <2>2
  <1>8. CASE PauseAfterEvent \/ ReturnOneLevel \/ CallAfterReturn \/ BuilderStep
    BY <1>3, <1>8 DEF PauseAfterEvent, ReturnOneLevel, CallAfterReturn, BuilderStep
  <1>. QED
    BY <1>3, <1>4, <1>5, <1>6, <1>7, <1>8 DEF Next, Loop

\* A block.
LEMMA ReadBlockFollows ==
  ASSUME IInv, IInv', DInv, NEW ip \in Ip, NEW m \in Point, Looping, ProcessBlock(ip, m)
  PROVE  FramesFollowBlocks'
  <1>1. job = NoJob /\ FramesFollowBlocks
    BY DEF Looping, DInv
  <1>2. CASE mode = "none" /\ Resolve[ip] \in Target \ {Unknown} /\ NewBuilder(m, Resolve[ip])
             /\ lastIp' = ip /\ UNCHANGED job
    <2>1. /\ mode' = "in_progress" /\ job' = NoJob
          /\ Len(stack') = 1 /\ stack' # <<>> /\ stack'[1].symbol = Resolve[ip]
      BY <1>1, <1>2 DEF NewBuilder, IncompleteFrame
    <2>2. UnknownOnlyOnTop' /\ RootCalledOnce'
      BY <1>2, <2>1 DEF UnknownOnlyOnTop, RootCalledOnce
    <2>3. JobInTrace' /\ CallFollowsBlock'
      BY <2>1 DEF JobInTrace, CallFollowsBlock, NoJob
    <2>4. ReturnsToBlock'
      BY <1>2, <2>1 DEF ReturnsToBlock, Follows, NoJob
    <2>. QED
      BY <2>2, <2>3, <2>4 DEF FramesFollowBlocks
  <1>3. CASE mode \in {"none", "paused"} /\ Stay /\ UNCHANGED lastIp
    <2>1. SameSymbols /\ JobInTrace' /\ mode' = mode /\ job' = job
      BY <1>1, <1>3 DEF Stay, builderVars, SameSymbols, JobInTrace, FramesFollowBlocks
    <2>. QED
      BY <1>1, <1>3, <2>1, FollowsWithSameFrames DEF DInv
  <1>4. CASE mode = "in_progress" /\ lastIp' = ip /\ LeaveUnknown(ip)
    <2>1. IsUnknown(FrameSymbol(0)) /\ stack # <<>>
      BY <1>4 DEF LeaveUnknown, IInv, StackInUse
    <2>2. Resolve[ip] \in Symbol /\ Len(stack) \in Nat /\ Len(stack) >= 1
      BY <2>1, SymbolAssumption DEF IInv, BuilderTypeOK
    <2>3. CASE IsUnknown(Resolve[ip]) /\ Stay
      <3>1. UNCHANGED <<mode, stack>> /\ job' = NoJob
        BY <1>1, <2>3 DEF Stay, builderVars
      <3>2. JobInTrace' /\ CallFollowsBlock' /\ UnknownOnlyOnTop' /\ RootCalledOnce'
        BY <1>1, <3>1 DEF FramesFollowBlocks, JobInTrace, CallFollowsBlock, UnknownOnlyOnTop,
                          RootCalledOnce, NoJob
      <3>3. stack'[Len(stack')].symbol = Resolve[ip]
        BY <2>1, <2>2, <2>3, <3>1 DEF IsUnknown, FrameSymbol
      <3>4. ReturnsToBlock'
        BY <1>4, <2>2, <3>1, <3>3 DEF ReturnsToBlock, Follows, NoJob
      <3>. QED
        BY <3>2, <3>4 DEF FramesFollowBlocks
    <2>4. CASE ContainingLevel(ip) > 0 /\ ReturnEvent(ContainingLevel(ip), NoSymbol)
      BY <1>1, <1>4, <2>1, <2>2, <2>4, ContainingLevelCovers, FollowsReturn
    <2>5. CASE ReturnEvent(2, Resolve[ip])
      BY <1>1, <1>4, <2>5, FollowsReturn
    <2>. QED
      BY <1>4, <2>3, <2>4, <2>5 DEF LeaveUnknown
  <1>5. CASE mode = "in_progress" /\ lastIp' = ip /\ (LeaveFrame(ip, m) \/ StayInFrame(ip, m))
    <2>1. stack # <<>> /\ Len(stack) \in Nat /\ Len(stack) >= 1
      BY <1>5 DEF IInv, StackInUse, BuilderTypeOK
    <2>2. AllKnown
      <3>1. ~IsUnknown(stack[Len(stack)].symbol)
        BY <1>5, <2>1 DEF LeaveFrame, StayInFrame, FrameSymbol
      <3>. QED
        BY <1>1, <2>1, <3>1 DEF AllKnown, FramesFollowBlocks, UnknownOnlyOnTop
    <2>3. CASE CallEvent(m, Resolve[ip])
      BY <1>1, <1>5, <2>2, <2>3, FollowsCall
    <2>4. CASE ContainingLevel(ip) > 0 /\ ReturnEvent(ContainingLevel(ip), NoSymbol)
      BY <1>1, <1>5, <2>1, <2>4, ContainingLevelCovers, FollowsReturn
    <2>5. CASE CallstackDepth = 1 /\ ReturnEvent(1, NoSymbol)
      BY <1>1, <1>5, <2>1, <2>5, FollowsReturn DEF CallstackDepth
    <2>6. CASE ip \in Covers[FrameSymbol(0)] /\ Stay
      <3>1. UNCHANGED <<mode, stack>> /\ job' = NoJob
        BY <1>1, <2>6 DEF Stay, builderVars
      <3>2. JobInTrace' /\ CallFollowsBlock' /\ UnknownOnlyOnTop' /\ RootCalledOnce'
        BY <1>1, <3>1 DEF FramesFollowBlocks, JobInTrace, CallFollowsBlock, UnknownOnlyOnTop,
                          RootCalledOnce, NoJob
      <3>3. ip \in Covers[stack'[Len(stack')].symbol]
        BY <2>1, <2>6, <3>1 DEF FrameSymbol
      <3>4. ReturnsToBlock'
        BY <1>5, <2>1, <3>1, <3>3 DEF ReturnsToBlock, Follows, NoJob
      <3>. QED
        BY <3>2, <3>4 DEF FramesFollowBlocks
    <2>7. \/ CallEvent(m, Resolve[ip])
          \/ ContainingLevel(ip) > 0 /\ ReturnEvent(ContainingLevel(ip), NoSymbol)
          \/ CallstackDepth = 1 /\ ReturnEvent(1, NoSymbol)
          \/ ip \in Covers[FrameSymbol(0)] /\ Stay
      BY <1>5, <2>1, ContainingLevelCovers DEF LeaveFrame, StayInFrame
    <2>. QED
      BY <2>3, <2>4, <2>5, <2>6, <2>7
  <1>. QED
    BY <1>2, <1>3, <1>4, <1>5 DEF ProcessBlock

\* An event, or tracing switched by a resync.
LEMMA SwitchFollows ==
  ASSUME IInv, IInv', DInv, mode \in {"in_progress", "paused"} \/ UNCHANGED builderVars,
         job = NoJob, job' = NoJob \/ job' = [NoJob EXCEPT !.pause = (mode = "in_progress")],
         lastIp' = lastIp, NEW m \in Point,
         \/ UNCHANGED builderVars
         \/ /\ \E e \in EventId : EventOccured(e, m)
         \/ Pause(m) /\ job' = NoJob
         \/ Resume(m) /\ job' = NoJob
  PROVE  FramesFollowBlocks'
  <1>1. job'.levels = 0 /\ job'.call = NoSymbol /\ job.levels = 0 /\ job.call = NoSymbol
    BY DEF NoJob
  <1>2. job' \in [levels : Nat, call : Symbol \cup {NoSymbol}, pause : BOOLEAN]
    <2>1. (mode = "in_progress") \in BOOLEAN
      OBVIOUS
    <2>2. \A b \in BOOLEAN :
            [NoJob EXCEPT !.pause = b] \in [levels : Nat, call : Symbol \cup {NoSymbol},
                                           pause : BOOLEAN]
      BY DEF NoJob
    <2>3. NoJob \in [levels : Nat, call : Symbol \cup {NoSymbol}, pause : BOOLEAN]
      BY DEF NoJob
    <2>. QED
      BY <2>1, <2>2, <2>3
  <1>3. CASE UNCHANGED <<mode, stack>>
    <2>1. SameSymbols
      BY <1>3 DEF SameSymbols
    <2>2. job' # NoJob => mode = "in_progress"
      BY DEF NoJob
    <2>3. JobInTrace'
      BY <1>1, <1>2, <1>3, <2>2 DEF JobInTrace
    <2>. QED
      BY <1>1, <1>3, <2>1, <2>3, FollowsWithSameFrames DEF DInv
  <1>4. CASE job' = NoJob /\ SameSymbols /\ mode \in {"in_progress", "paused"}
    <2>1. JobInTrace'
      BY <1>2, <1>4 DEF JobInTrace, NoJob
    <2>. QED
      BY <1>1, <1>4, <2>1, FollowsWithSameFrames DEF DInv
  <1>5. Pause(m) => SameSymbols /\ mode = "in_progress"
    BY DEF Pause, SameSymbols
  <1>6. Resume(m) => SameSymbols /\ mode = "paused"
    BY ResumeKeepsSymbols DEF Resume
  <1>7. UNCHANGED builderVars \/ (\E e \in EventId : EventOccured(e, m)) => UNCHANGED <<mode, stack>>
    BY DEF builderVars, EventOccured
  <1>. QED
    BY <1>3, <1>4, <1>5, <1>6, <1>7

\* One more frame is completed.
LEMMA ReturnFollows ==
  ASSUME IInv, IInv', DInv, ReturnOneLevel
  PROVE  FramesFollowBlocks'
  <1>1. /\ job.levels > 0 /\ job' = [job EXCEPT !.levels = job.levels - 1]
        /\ CompleteFrame(curMetrics) /\ mode = "in_progress" /\ lastIp' = lastIp
        /\ JobInTrace
    BY DEF ReturnOneLevel, CompleteFrame, driverVars, DInv, FramesFollowBlocks
  <1>2. /\ job \in [levels : Nat, call : Symbol \cup {NoSymbol}, pause : BOOLEAN]
        /\ job.levels \in Nat
    BY <1>1 DEF JobInTrace
  <1>3. /\ job' \in [levels : Nat, call : Symbol \cup {NoSymbol}, pause : BOOLEAN]
        /\ job'.levels = job.levels - 1 /\ job'.call = job.call /\ job'.pause = job.pause
    BY <1>1, <1>2
  <1>4. ~job.pause
    BY <1>1, <1>2 DEF JobInTrace
  <1>5. \/ mode' = "panicked" /\ UNCHANGED stack
        \/ mode' \in {"completing", "in_progress", "completed"} /\ OneFrameLess
    BY <1>1, CompleteFrameLowers DEF DInv, DriverTypeOK, Clocked
  <1>6. JobInTrace'
    BY <1>3, <1>4, <1>5 DEF JobInTrace
  <1>7. CASE mode' = "panicked" /\ UNCHANGED stack
    <2>1. UnknownOnlyOnTop' /\ RootCalledOnce'
      BY <1>7 DEF DInv, FramesFollowBlocks, UnknownOnlyOnTop, RootCalledOnce
    <2>2. ReturnsToBlock'
      BY <1>7 DEF ReturnsToBlock
    <2>3. CallFollowsBlock'
      BY <1>1, <1>2, <1>3, <1>7 DEF DInv, FramesFollowBlocks, CallFollowsBlock
    <2>. QED
      BY <1>6, <2>1, <2>2, <2>3 DEF FramesFollowBlocks
  <1>8. CASE mode' \in {"completing", "in_progress", "completed"} /\ OneFrameLess
    <2>1. UnknownOnlyOnTop' /\ RootCalledOnce' /\ AllKnown'
      BY <1>8, SymbolsBelow DEF DInv, FramesFollowBlocks
    <2>2. Len(stack) \in Nat /\ Len(stack') = Len(stack) - 1
      BY <1>8 DEF OneFrameLess, IInv, BuilderTypeOK
    <2>3. ReturnsToBlock'
      <3> SUFFICES ASSUME job.call = NoSymbol
                   PROVE  (/\ job.levels <= Len(stack)
                           /\ job.levels < Len(stack) => Follows(Len(stack) - job.levels))'
        BY <1>3 DEF ReturnsToBlock
      <3>1. /\ job.levels <= Len(stack)
            /\ job.levels < Len(stack) => Follows(Len(stack) - job.levels)
        BY <1>1 DEF DInv, FramesFollowBlocks, ReturnsToBlock
      <3>2. Len(stack') - job'.levels = Len(stack) - job.levels
        BY <1>2, <1>3, <2>2
      <3>3. job'.levels <= Len(stack')
        BY <1>2, <1>3, <2>2, <3>1
      <3>4. ASSUME job'.levels < Len(stack')
            PROVE  Follows(Len(stack) - job.levels)'
        <4>1. /\ job.levels < Len(stack)
              /\ Len(stack) - job.levels \in 1 .. Len(stack) - 1
          BY <1>1, <1>2, <1>3, <2>2, <3>4
        <4>. QED
          BY <1>1, <1>8, <3>1, <3>2, <4>1 DEF Follows, OneFrameLess
      <3>. QED
        BY <3>3, <3>4
    <2>4. CallFollowsBlock'
      BY <1>1, <1>2, <1>3, <2>1 DEF DInv, FramesFollowBlocks, CallFollowsBlock, AllKnown
    <2>. QED
      BY <1>6, <2>1, <2>3, <2>4 DEF FramesFollowBlocks
  <1>. QED
    BY <1>5, <1>7, <1>8

\* The frames follow the blocks after every step.
LEMMA NextFollows ==
  ASSUME IInv, IInv', DInv, Next
  PROVE  FramesFollowBlocks'
  <1>1. curMetrics \in Point /\ curMetrics \in Clocked /\ JobInTrace
    BY DEF DInv, DriverTypeOK, Clocked, FramesFollowBlocks
  <1>2. ASSUME UNCHANGED <<builderVars, job, lastIp>>
        PROVE  FramesFollowBlocks'
    <2>1. SameSymbols /\ JobInTrace'
      BY <1>1, <1>2 DEF builderVars, SameSymbols, JobInTrace
    <2>. QED
      BY <1>2, <2>1, FollowsWithSameFrames DEF DInv, builderVars
  <1>3. CASE CallNext \/ Finished \/ ReadBlockFails \/ ReadEventFails \/ ResyncIgnoresEvent
             \/ ResyncFails \/ Stopped \/ \E status \in Status : ReadBlockWithoutTime(status)
    BY <1>2, <1>3 DEF CallNext, Finished, ReadBlockFails, ReadEventFails, ResyncIgnoresEvent,
                      ResyncFails, Stopped, vars, driverVars, ReadBlockWithoutTime
  <1>4. CASE ReturnTrace
    BY <1>4, FollowsOutsideTrace DEF ReturnTrace, TakeTrace, NoBuilder
  <1>5. ASSUME NEW ip \in Ip, NEW class \in Class, NEW insns \in InsnCounts,
               NEW tsc \in Tsc, NEW status \in Status,
               ReadBlock(ip, class, insns, tsc, status)
        PROVE  FramesFollowBlocks'
    <2>1. Advance(tsc, insns) \in Point
      BY <1>1, InputAssumption, AdvanceMovesForward DEF Clocked
    <2>. QED
      BY <1>5, <2>1, ReadBlockFollows DEF ReadBlock
  <1>6. ASSUME NEW type \in EventType, NEW tsc \in EventTsc, NEW status \in Status,
               ReadEvent(type, tsc, status)
        PROVE  FramesFollowBlocks'
    <2> DEFINE m == EventTime(tsc)
    <2>1. m \in Point
      BY <1>1, EventIsClocked DEF Clocked
    <2>2. lastIp' = lastIp /\ job = NoJob
      BY <1>6 DEF ReadEvent, Looping
    <2>3. CASE UNCHANGED <<builderVars, job>>
      BY <1>2, <2>2, <2>3
    <2>4. CASE ProcessEvent(type, m)
      <3> HIDE DEF m
      <3>1. TraceInterrupted \in EventId /\ DataCollectionError \in EventId
        BY InputAssumption
      <3>2. \/ /\ Record(TraceInterrupted, m) \/ Record(DataCollectionError, m)
               /\ job' = job \/ job' = [NoJob EXCEPT !.pause = (mode = "in_progress")]
            \/ (DisableTracing(m) \/ EnableTracing(m)) /\ job' = job
            \/ UNCHANGED <<builderVars, job>>
        BY <2>4 DEF ProcessEvent
      <3>3. \/ UNCHANGED builderVars
            \/ /\ mode \in {"in_progress", "paused"}
               /\ \/ \E e \in EventId : EventOccured(e, m)
                  \/ Pause(m) /\ job' = NoJob
                  \/ Resume(m) /\ job' = NoJob
        BY <2>2, <3>1, <3>2 DEF Record, DisableTracing, EnableTracing
      <3>. QED
        BY <2>1, <2>2, <3>2, <3>3, SwitchFollows
    <2>. QED
      BY <1>6, <2>3, <2>4 DEF ReadEvent
  <1>7. ASSUME NEW tsc \in Tsc \cup {NoTsc}, NEW suppressed \in BOOLEAN,
               NEW status \in Status, Resync(tsc, suppressed, status)
        PROVE  FramesFollowBlocks'
    <2> DEFINE m == IF tsc = NoTsc THEN curMetrics ELSE Advance(tsc, 0)
    <2>1. m \in Point
      BY <1>1, AdvanceMovesForward DEF Clocked
    <2>2. lastIp' = lastIp /\ job' = job /\ job = NoJob
      BY <1>7 DEF Resync, Looping
    <2>3. DisableTracing(m) \/ UNCHANGED builderVars
      BY <1>7 DEF Resync
    <2> HIDE DEF m
    <2>4. UNCHANGED builderVars \/ (mode = "in_progress" /\ Pause(m))
      BY <2>3 DEF DisableTracing
    <2>. QED
      BY <2>1, <2>2, <2>4, SwitchFollows
  <1>8. CASE SyncForwardFails \/ \E status \in Status : SyncForward(status)
    <2>1. DiscardTrace /\ job' = NoJob
      BY <1>8 DEF SyncForwardFails, SyncForward, Looping
    <2>2. /\ mode' = "none"
          /\ stack' = <<>> \/ UNCHANGED stack
      BY <2>1 DEF DiscardTrace, DropBuilder, NoBuilder, builderVars
    <2>. QED
      BY <2>1, <2>2, FollowsOutsideTrace DEF DInv, FramesFollowBlocks
  <1>9. CASE PauseAfterEvent
    <2>1. /\ job.pause /\ Pause(curMetrics) /\ job' = NoJob /\ lastIp' = lastIp
          /\ mode = "in_progress" /\ UNCHANGED stack
      BY <1>9 DEF PauseAfterEvent, driverVars, Pause
    <2>2. job.levels = 0 /\ job.call = NoSymbol /\ job'.levels = 0 /\ job'.call = NoSymbol
      BY <1>1, <2>1 DEF JobInTrace, NoJob
    <2>3. SameSymbols /\ JobInTrace'
      BY <2>1 DEF SameSymbols, JobInTrace, NoJob
    <2>. QED
      BY <2>1, <2>2, <2>3, FollowsWithSameFrames DEF DInv
  <1>10. CASE ReturnOneLevel
    BY <1>10, ReturnFollows
  <1>11. CASE CallAfterReturn
    <2>1. /\ job.levels = 0 /\ job.call # NoSymbol /\ mode = "in_progress"
          /\ CallEvent(curMetrics, job.call) /\ lastIp' = lastIp
      BY <1>11 DEF CallAfterReturn, driverVars
    <2>2. lastIp \in Ip /\ job.call = Resolve[lastIp] /\ AllKnown
      BY <2>1 DEF DInv, FramesFollowBlocks, CallFollowsBlock, AllKnown
    <2>. QED
      BY <1>1, <2>1, <2>2, FollowsCall DEF DInv
  <1>12. CASE BuilderStep
    <2>1. Proceed /\ job' = job /\ lastIp' = lastIp
      BY <1>12 DEF BuilderStep, driverVars
    <2>2. /\ mode = "completing" /\ SameSymbols
          /\ mode' \in {"completing", "failed", "in_progress", "completed"}
      BY <2>1, ProceedKeepsSymbols
    <2>3. JobInTrace'
      BY <1>1, <2>1, <2>2 DEF JobInTrace
    <2>. QED
      BY <2>1, <2>2, <2>3, FollowsWithSameFrames DEF DInv
  <1>. QED
    BY <1>3, <1>4, <1>5, <1>6, <1>7, <1>8, <1>9, <1>10, <1>11, <1>12 DEF Next, Loop

-----------------------------------------------------------------------------
(***************************************************************************)
(* What always holds, whatever the decoder returns.                        *)
(***************************************************************************)

\* There is nothing to follow at first.
LEMMA DriverStarts == Init => IInv /\ DInv
  <1> SUFFICES ASSUME Init PROVE IInv /\ DInv
    OBVIOUS
  <1>1. IInv
    BY InitEstablishes DEF Init
  <1>2. /\ mode = "none" /\ stack = <<>> /\ job = NoJob /\ lastIp = NoIp
        /\ curMetrics = Constant(0) /\ branchReason = "Unknown" /\ jumped = FALSE
    BY DEF Init, BuilderInit
  <1>3. curMetrics \in Clocked
    BY <1>2, ZeroIsLeast DEF Clocked, Constant
  <1>4. DriverTypeOK /\ BranchForgotten
    BY <1>2, <1>3 DEF DriverTypeOK, BranchForgotten, Class
  <1>5. FramesFollowBlocks
    BY <1>2 DEF FramesFollowBlocks, JobInTrace, UnknownOnlyOnTop, RootCalledOnce, ReturnsToBlock,
                CallFollowsBlock, NoJob
  <1>. QED
    BY <1>1, <1>4, <1>5 DEF DInv

\* Both invariants are inductive.
LEMMA DriverPreserves == (IInv /\ DInv) /\ [Next]_vars => (IInv /\ DInv)'
  <1> SUFFICES ASSUME IInv, DInv, [Next]_vars PROVE IInv' /\ DInv'
    OBVIOUS
  <1>1. CASE Next
    <2>1. OwnerStep /\ ClockMoves
      BY <1>1, DriverOwns DEF DInv, FramesFollowBlocks
    <2>2. IInv'
      BY <2>1, OwnerStepKeeps DEF ClockMoves
    <2>. QED
      BY <1>1, <2>2, DriverMoves, NextFollows DEF DInv
  <1>2. CASE UNCHANGED vars
    <2>1. UNCHANGED builderVars /\ UNCHANGED driverVars /\ UNCHANGED job
      BY <1>2 DEF vars
    <2>2. IInv'
      BY <2>1, NextPreserves
    <2>3. DriverTypeOK' /\ BranchForgotten'
      BY <2>1 DEF driverVars, DInv, DriverTypeOK, BranchForgotten
    <2>4. FramesFollowBlocks'
      BY <2>1 DEF builderVars, driverVars, DInv, FramesFollowBlocks, JobInTrace, UnknownOnlyOnTop,
                  RootCalledOnce, ReturnsToBlock, Follows, CallFollowsBlock
    <2>. QED
      BY <2>2, <2>3, <2>4 DEF DInv
  <1>. QED
    BY <1>1, <1>2

\* They hold in every run of the driver.
LEMMA DriverInvariance == Spec => [](IInv /\ DInv)
  BY DriverStarts, DriverPreserves, PTL DEF Spec

\* "At most, there is a single unknown frame at the top of the callstack": the
\* invariant process_block relies on, also while several frames are returned
\* from and before the call that may follow.
THEOREM UnknownAlwaysOnTop == Spec => []UnknownOnlyOnTop
  BY DriverInvariance, PTL DEF DInv, FramesFollowBlocks

\* A trace is rooted in one call of a target function and never holds another
\* call of that function.
THEOREM RootAlwaysCalledOnce == Spec => []RootCalledOnce
  BY DriverInvariance, PTL DEF DInv, FramesFollowBlocks

\* Between two iterations the frame on top is one the last block belongs to,
\* whatever calls and returns had to be guessed to get there.
THEOREM TopFrameAlwaysFollows == Spec => []TopFrameFollowsBlocks
  <1>1. IInv /\ DInv => TopFrameFollowsBlocks
    <2> SUFFICES ASSUME IInv, DInv, mode \in {"in_progress", "paused"}, job = NoJob
                 PROVE  \/ lastIp \in Ip /\ lastIp \in Covers[FrameSymbol(0)]
                        \/ lastIp \in Ip /\ FrameSymbol(0) = Resolve[lastIp]
      BY DEF TopFrameFollowsBlocks
    <2>1. Len(stack) \in Nat /\ Len(stack) > 0
      BY DEF IInv, StackInUse, BuilderTypeOK
    <2>2. job.levels = 0 /\ job.call = NoSymbol
      BY DEF NoJob
    <2>3. Follows(Len(stack) - 0)
      BY <2>1, <2>2 DEF DInv, FramesFollowBlocks, ReturnsToBlock
    <2>. QED
      BY <2>3 DEF Follows, FrameSymbol
  <1>. QED
    BY <1>1, DriverInvariance, PTL

\* After control flow was lost the next block is not taken for a call or a return
\* because of how the block before the gap ended.
THEOREM JumpsAlwaysForgetBranch == Spec => []JumpForgetsBranch
  <1>1. DInv => JumpForgetsBranch
    BY DEF DInv, BranchForgotten, JumpForgetsBranch
  <1>. QED
    BY <1>1, DriverInvariance, PTL

\* The frames of its traces form a tree: every chunk has the range of the frame it
\* stands for, and every frame but the root is in one list of chunks, once.
THEOREM TracesAlwaysTrees == Spec => [](ChunksMatchFrames /\ EachFrameHeldOnce)
  <1>1. Init => Tree
    BY InitTree DEF Init
  <1>2. ASSUME IInv, DInv, Tree, [Next]_vars
        PROVE  Tree'
    <2>1. CASE UNCHANGED vars
      BY <1>2, <2>1, RestKeepsTree DEF vars
    <2>2. CASE Next
      <3>1. OwnerStep /\ curMetrics' \in Clocked
        BY <1>2, <2>2, DriverOwns DEF DInv, FramesFollowBlocks, ClockMoves
      <3>2. curMetrics' \in Point
        BY <3>1 DEF Clocked
      <3>. QED
        BY <1>2, <3>1, <3>2, CallKeepsTree, RestKeepsTree DEF OwnerStep
    <2>. QED
      BY <1>2, <2>1, <2>2
  <1>. QED
    BY <1>1, <1>2, DriverInvariance, TreeMatches, TreeHoldsOnce, PTL DEF Spec

\* The driver's traces are well-formed even when events come out of order.
THEOREM TracesAlwaysWellFormed == Spec => []CompletedWellFormed
  BY DriverInvariance, PTL DEF IInv

-----------------------------------------------------------------------------
(***************************************************************************)
(* Part 5.  With events in order the driver is a careful owner: its clock  *)
(* is never behind the latest call, so that every call is one MonotoneSpec *)
(* allows.                                                                 *)
(***************************************************************************)

ClockUpToDate ==
  mode \in {"in_progress", "paused", "completing"} => Leq(Latest, curMetrics)

\* Every step of the driver is one of the careful owner.
LEMMA StepIsCareful ==
  ASSUME EventsInOrder, Clocked \subseteq Points, IInv, DInv, ClockUpToDate, [Next]_vars
  PROVE  [MonotoneNext]_builderVars
  <1>1. CASE UNCHANGED vars
    BY <1>1 DEF vars
  <1>2. CASE Next
    <2>1. OwnerStep /\ ClockMoves
      BY <1>2, DriverOwns DEF DInv, FramesFollowBlocks
    <2>2. /\ curMetrics' \in Points /\ curMetrics' \in Point /\ curMetrics \in Point
          /\ Leq(curMetrics, curMetrics')
      BY <2>1 DEF ClockMoves, Clocked, DInv, DriverTypeOK
    <2>3. CASE Call(curMetrics')
      <3>1. Latest \in Point
        BY StateType DEF IInv, Latest
      <3>2. mode \in {"none", "in_progress", "paused"}
        BY <2>3 DEF Call, NewBuilder, PushFrame, CompleteFrame, Pause, Resume
      <3>3. mode # "none" => Leq(Latest, curMetrics')
        BY <2>2, <3>1, <3>2, LeqTransitive DEF ClockUpToDate
      <3>. QED
        BY <2>2, <2>3, <3>3 DEF MonotoneNext
    <2>4. CASE \E e \in EventId, m \in Clocked : EventOccured(e, m)
      BY <2>4 DEF MonotoneNext, RecordEvent
    <2>. QED
      BY <2>1, <2>3, <2>4 DEF OwnerStep, MonotoneNext
  <1>. QED
    BY <1>1, <1>2

\* The clock stays up to date.
LEMMA ClockStaysUpToDate ==
  ASSUME EventsInOrder, IInv, DInv, ClockUpToDate, [Next]_vars
  PROVE  ClockUpToDate'
  <1>1. lastMetrics \in Point /\ pauseStart \in Point /\ curMetrics \in Point
    BY StateType DEF IInv, DInv, DriverTypeOK, Clocked
  <1>2. CASE UNCHANGED vars
    BY <1>2 DEF vars, builderVars, driverVars, ClockUpToDate, Latest
  <1>3. CASE Next
    <2>1. OwnerStep /\ curMetrics' \in Point /\ Leq(curMetrics, curMetrics')
      BY <1>3, DriverOwns DEF DInv, FramesFollowBlocks, ClockMoves, Clocked
    <2>2. Leq(curMetrics', curMetrics')
      BY <2>1, PointOrder
    <2>3. CASE Call(curMetrics')
      <3>1. mode' \in {"in_progress", "paused", "completing"} => Latest' = curMetrics'
        BY <2>3 DEF Call, NewBuilder, PushFrame, CompleteFrame, Pause, Resume, Panic, Latest,
                    ReplaceStub, BeginFrame, HandOver
      <3>. QED
        BY <2>2, <3>1 DEF ClockUpToDate
    <2>4. CASE \/ \E e \in EventId, m \in Clocked : EventOccured(e, m)
               \/ UNCHANGED builderVars
      <3>1. UNCHANGED <<mode, lastMetrics, pauseStart>>
        BY <2>4 DEF EventOccured, builderVars
      <3>. QED
        BY <1>1, <2>1, <3>1, LeqTransitive DEF ClockUpToDate, Latest
    <2>5. CASE Proceed
      <3>1. /\ mode = "completing" /\ mode' # "paused" /\ UNCHANGED lastMetrics
        BY <2>5, ProceedKeepsSymbols DEF Proceed, AddNextChild, EndFrame
      <3>. QED
        BY <1>1, <2>1, <3>1, LeqTransitive DEF ClockUpToDate, Latest
    <2>6. CASE TakeTrace \/ DropBuilder
      BY <2>6 DEF TakeTrace, DropBuilder, NoBuilder, ClockUpToDate
    <2>. QED
      BY <2>1, <2>3, <2>4, <2>5, <2>6 DEF OwnerStep
  <1>. QED
    BY <1>2, <1>3

\* It is up to date in every run with events in order.
LEMMA ClockAlwaysUpToDate ==
  ASSUME EventsInOrder
  PROVE  Spec => []ClockUpToDate
  <1>1. Init => ClockUpToDate
    BY DEF Init, BuilderInit, ClockUpToDate
  <1>2. (IInv /\ DInv) /\ ClockUpToDate /\ [Next]_vars => ClockUpToDate'
    BY ClockStaysUpToDate
  <1>. QED
    BY <1>1, <1>2, DriverInvariance, PTL DEF Spec

\* The Transformer implements the owner that moves forward in time, if events are
\* in order and Points leaves out none of the points its clock can reach.
THEOREM DriverIsCareful ==
  ASSUME EventsInOrder, Clocked \subseteq Points
  PROVE  Spec => MonotoneSpec
  <1>1. Init => BuilderInit
    BY DEF Init
  <1>2. (IInv /\ DInv) /\ ClockUpToDate /\ [Next]_vars => [MonotoneNext]_builderVars
    BY StepIsCareful
  <1>. QED
    BY <1>1, <1>2, DriverInvariance, ClockAlwaysUpToDate, PTL DEF Spec, MonotoneSpec

\* The order of Part 2 is kept, whatever Points the owner is given.
LEMMA DriverKeepsOrder ==
  ASSUME EventsInOrder, IInv, DInv, ClockUpToDate, MInv, [Next]_vars
  PROVE  MInv'
  <1>1. CASE UNCHANGED vars
    BY <1>1, MonotonePreserves DEF vars
  <1>2. CASE Next
    <2>1. /\ OwnerStep /\ Clocked \subseteq Point
          /\ curMetrics' \in Point /\ curMetrics \in Point /\ Leq(curMetrics, curMetrics')
      BY <1>2, DriverOwns DEF ClockMoves, Clocked, DInv, DriverTypeOK, FramesFollowBlocks
    <2>2. CASE Call(curMetrics')
      <3>1. Latest \in Point
        BY StateType DEF IInv, Latest
      <3>2. mode \in {"none", "in_progress", "paused"}
        BY <2>2 DEF Call, NewBuilder, PushFrame, CompleteFrame, Pause, Resume
      <3>3. mode # "none" => Leq(Latest, curMetrics')
        BY <2>1, <3>1, <3>2, LeqTransitive DEF ClockUpToDate
      <3>. QED
        BY <2>1, <2>2, <3>3, CallKeepsOrder
    <2>3. CASE \E e \in EventId, m \in Clocked : EventOccured(e, m)
      BY <2>1, <2>3, QuietKeepsOrder DEF EventOccured
    <2>4. CASE Proceed
      BY <2>4, AddKeepsOrder, EndKeepsOrder DEF Proceed
    <2>5. CASE TakeTrace \/ DropBuilder
      BY <2>5, FewFramesInOrder DEF TakeTrace, DropBuilder, NoBuilder
    <2>6. CASE UNCHANGED builderVars
      BY <2>6, MonotonePreserves
    <2>. QED
      BY <2>1, <2>2, <2>3, <2>4, <2>5, <2>6 DEF OwnerStep
  <1>. QED
    BY <1>1, <1>2

\* With events in order no assertion on time trips in any run of the driver, and the
\* expect on complete_frame in process_return_event never fails.
THEOREM BuilderNeverLost ==
  ASSUME EventsInOrder
  PROVE  Spec => []NeverLost
  <1>1. Init => MInv
    BY MonotoneInit DEF Init
  <1>2. (IInv /\ DInv) /\ ClockUpToDate /\ MInv /\ [Next]_vars => MInv'
    BY DriverKeepsOrder
  <1>3. MInv => NeverLost
    BY DEF MInv
  <1>. QED
    BY <1>1, <1>2, <1>3, DriverInvariance, ClockAlwaysUpToDate, PTL DEF Spec
=============================================================================
