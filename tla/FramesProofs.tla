----------------------------- MODULE FramesProofs -----------------------------
(***************************************************************************)
(* Lemmas about inserting into a sequence, which other lists need too, and *)
(* about points and Frame::insert_chunk: what it preserves, when it        *)
(* refuses and where it puts a chunk, for frames of any length.            *)
(***************************************************************************)
EXTENDS Frames, SequenceTheorems, WellFoundedInduction, TLAPS

-----------------------------------------------------------------------------
(***************************************************************************)
(* SequencesExt's InsertAt, and the largest and the smallest element of a  *)
(* set of numbers.                                                         *)
(***************************************************************************)

\* t is s with c inserted at position i
Inserts(t, s, i, c) ==
  /\ Len(t) = Len(s) + 1
  /\ \A j \in 1 .. Len(s) + 1 : t[j] = IF j < i THEN s[j] ELSE IF j = i THEN c ELSE s[j - 1]

\* SequencesExt's InsertAt, position by position.
LEMMA InsertAtIsSeq ==
  ASSUME NEW S, NEW s \in Seq(S), NEW i \in 1 .. Len(s) + 1, NEW c \in S
  PROVE  InsertAt(s, i, c) \in Seq(S) /\ Inserts(InsertAt(s, i, c), s, i, c)
  <1> DEFINE front == SubSeq(s, 1, i - 1)
             back  == SubSeq(s, i, Len(s))
             head  == front \o <<c>>
             whole == head \o back
             n     == Len(s)
  <1>1. n \in Nat /\ i \in 1 .. n + 1
    OBVIOUS
  <1>2. /\ front \in Seq(S) /\ Len(front) = i - 1
        /\ \A j \in 1 .. i - 1 : front[j] = s[j]
    BY SubSeqProperties
  <1>3. /\ back \in Seq(S) /\ Len(back) = n + 1 - i
        /\ \A j \in 1 .. n + 1 - i : back[j] = s[i + j - 1]
    BY SubSeqProperties
  <1> HIDE DEF front, back
  <1>4. /\ head \in Seq(S) /\ Len(head) = i
        /\ \A j \in 1 .. i : head[j] = IF j < i THEN s[j] ELSE c
    BY <1>1, <1>2
  <1> HIDE DEF head, n
  <1>5. /\ whole \in Seq(S) /\ Len(whole) = i + (n + 1 - i)
        /\ \A j \in 1 .. i + (n + 1 - i) :
              whole[j] = IF j <= i THEN head[j] ELSE back[j - i]
    <2>1. /\ whole \in Seq(S) /\ Len(whole) = Len(head) + Len(back)
          /\ \A j \in 1 .. Len(head) + Len(back) :
                whole[j] = IF j <= Len(head) THEN head[j] ELSE back[j - Len(head)]
      BY <1>3, <1>4, ConcatProperties
    <2>. QED
      BY <1>3, <1>4, <2>1
  <1>6. InsertAt(s, i, c) = whole
    BY DEF InsertAt, head, back, front
  <1> HIDE DEF whole
  <1>7. i + (n + 1 - i) = n + 1
    BY <1>1
  <1>8. \A j \in 1 .. n + 1 :
           whole[j] = IF j < i THEN s[j] ELSE IF j = i THEN c ELSE s[j - 1]
    <2> TAKE j \in 1 .. n + 1
    <2>1. CASE j <= i
      BY <1>1, <1>4, <1>5, <1>7, <2>1
    <2>2. CASE j > i
      <3>1. j - i \in 1 .. n + 1 - i /\ i + (j - i) - 1 = j - 1
        BY <1>1, <2>2
      <3>2. whole[j] = back[j - i]
        BY <1>1, <1>5, <1>7, <2>2
      <3>. QED
        BY <1>1, <1>3, <2>2, <3>1, <3>2
    <2>. QED
      BY <1>1, <2>1, <2>2
  <1>. QED
    BY <1>5, <1>6, <1>7, <1>8 DEF n, Inserts

\* Inserting behind the last position is appending.
LEMMA InsertAtEnd ==
  ASSUME NEW S, NEW s \in Seq(S), NEW c \in S
  PROVE  InsertAt(s, Len(s) + 1, c) = Append(s, c)
  <1>1. Len(s) + 1 \in 1 .. Len(s) + 1 /\ Len(s) \in Nat
    OBVIOUS
  <1>2. InsertAt(s, Len(s) + 1, c) \in Seq(S) /\ Inserts(InsertAt(s, Len(s) + 1, c), s, Len(s) + 1, c)
    BY <1>1, InsertAtIsSeq
  <1>3. /\ Append(s, c) \in Seq(S) /\ Len(Append(s, c)) = Len(s) + 1
        /\ \A j \in 1 .. Len(s) + 1 :
             Append(s, c)[j] = IF j < Len(s) + 1 THEN s[j] ELSE c
    BY <1>1
  <1>4. \A j \in 1 .. Len(s) + 1 : InsertAt(s, Len(s) + 1, c)[j] = Append(s, c)[j]
    BY <1>1, <1>2, <1>3 DEF Inserts
  <1>. QED
    BY <1>1, <1>2, <1>3, <1>4, SeqEqual DEF Inserts

\* A nonempty set of numbers up to n has a largest element.
LEMMA LargestExists ==
  ASSUME NEW n \in Nat, NEW T \in SUBSET (0 .. n), T # {}
  PROVE  \E m \in T : \A j \in T : j <= m
  <1> DEFINE mirror == {k \in 0 .. n : n - k \in T}
  <1>1. PICK i \in T : TRUE
    OBVIOUS
  <1>2. n - i \in mirror
    BY <1>1
  <1>3. mirror \subseteq Nat /\ mirror # {}
    BY <1>2
  <1>4. PICK k \in mirror : \A m \in mirror : ~(<<m, k>> \in OpToRel(<, Nat))
    <2> HIDE DEF mirror
    <2>. QED
      BY <1>3, WFMin, NatLessThanWellFounded, Zenon
  <1>5. \A m \in mirror : ~(m < k)
    BY <1>3, <1>4 DEF OpToRel
  <1>6. n - k \in T
    OBVIOUS
  <1>7. ASSUME NEW j \in T
        PROVE  j <= n - k
    <2>1. n - j \in mirror
      OBVIOUS
    <2>2. ~(n - j < k) /\ k \in 0 .. n /\ j \in 0 .. n
      BY <1>5, <2>1
    <2> HIDE DEF mirror
    <2>. QED
      BY <2>2
  <1>. QED
    BY <1>6, <1>7

\* A nonempty set of natural numbers has a smallest element.
LEMMA SmallestExists ==
  ASSUME NEW T \in SUBSET Nat, T # {}
  PROVE  \E m \in T : \A j \in T : m <= j
  <1>1. PICK k \in T : \A m \in T : ~(<<m, k>> \in OpToRel(<, Nat))
    BY WFMin, NatLessThanWellFounded, Zenon
  <1>2. \A m \in T : ~(m < k)
    BY <1>1 DEF OpToRel
  <1>. QED
    BY <1>2

-----------------------------------------------------------------------------
(***************************************************************************)
(* Frames.                                                                 *)
(***************************************************************************)

\* Every frame has these fields; TraceBuilder's also have a symbol.
IsFrame(f) == /\ f.start \in Point
              /\ f.end \in Point
              /\ f.chunks \in Seq(Chunk)

-----------------------------------------------------------------------------
(***************************************************************************)
(* The order on points.                                                    *)
(***************************************************************************)

\* Points are ordered counter by counter: Leq is a partial order, and some
\* counter falls from p to q exactly when p is not below q.
LEMMA PointOrder ==
  ASSUME NEW p \in Point, NEW q \in Point, NEW r \in Point
  PROVE  /\ Leq(p, p)
         /\ Leq(p, q) /\ Leq(q, r) => Leq(p, r)
         /\ Leq(p, q) /\ Leq(q, p) => p = q
         /\ Decreases(p, q) <=> ~Leq(p, q)
  <1>1. p.ts \in Nat /\ q.ts \in Nat /\ r.ts \in Nat
    BY DEF Point
  <1>2. p.cycles \in Nat /\ q.cycles \in Nat /\ r.cycles \in Nat
    BY DEF Point
  <1>3. p.insn_count \in Nat /\ q.insn_count \in Nat /\ r.insn_count \in Nat
    BY DEF Point
  <1>4. Leq(p, q) /\ Leq(q, p) => p = q
    BY <1>1, <1>2, <1>3 DEF Leq, Point
  <1>. QED
    BY <1>1, <1>2, <1>3, <1>4 DEF Leq, Decreases

\* What the difference of points adds up to: the pieces p..q and q..r make p..r.
LEMMA ElapsedAdds ==
  ASSUME NEW p \in Point, NEW q \in Point, NEW r \in Point
  PROVE  /\ Plus(Elapsed(p, q), Elapsed(q, r)) = Elapsed(p, r)
         /\ Leq(p, q) => Elapsed(p, q) \in Point
         /\ Elapsed(p, p) = Constant(0)
  BY DEF Point, Plus, Elapsed, Leq, Constant

-----------------------------------------------------------------------------
(***************************************************************************)
(* insert_chunk.                                                           *)
(***************************************************************************)

\* A chunk that is accepted has a last slot, and Slot is that one.
LEMMA SlotIsLast ==
  ASSUME NEW f, Len(f.chunks) \in Nat, NEW c, Accepts(f, c)
  PROVE  /\ Slot(f, c) \in Slots(f, c)
         /\ \A j \in Slots(f, c) : j <= Slot(f, c)
  <1>1. Slots(f, c) \subseteq 0 .. Len(f.chunks) /\ Slots(f, c) # {}
    BY DEF Slots, Accepts
  <1>2. \E s \in Slots(f, c) : \A j \in Slots(f, c) : j <= s
    BY <1>1, LargestExists
  <1>. QED
    BY <1>2 DEF Slot

\* The gap that takes a chunk lies between its neighbours, so the chunk does.
LEMMA SlotHasRoom ==
  ASSUME NEW f, IsFrame(f), NEW c \in Chunk, Accepts(f, c)
  PROVE  /\ Slot(f, c) \in 0 .. Len(f.chunks)
         /\ Leq(GapStart(f, Slot(f, c)), c.start)
         /\ Leq(c.end, GapEnd(f, Slot(f, c)))
  <1>1. Len(f.chunks) \in Nat
    BY DEF IsFrame
  <1>. QED
    BY <1>1, SlotIsLast DEF Slots, Includes, Gap, MetricsRange

\* Stored chunks are points and ranges of the right type.
LEMMA ChunkType ==
  ASSUME NEW f, IsFrame(f)
  PROVE  /\ f.start \in Point /\ f.end \in Point
         /\ f.chunks \in Seq(Chunk) /\ Len(f.chunks) \in Nat
         /\ \A i \in 1 .. Len(f.chunks) :
              /\ f.chunks[i] \in Chunk
              /\ f.chunks[i].start \in Point /\ f.chunks[i].end \in Point
  <1>1. f.start \in Point /\ f.end \in Point /\ f.chunks \in Seq(Chunk)
    BY DEF IsFrame
  <1>2. \A i \in 1 .. Len(f.chunks) : f.chunks[i] \in Chunk
    BY <1>1, ElementOfSeq
  <1>3. \A d \in Chunk : d.start \in Point /\ d.end \in Point
    BY DEF Chunk
  <1>. QED
    BY <1>1, <1>2, <1>3

\* insert_chunk keeps a frame well-formed, whatever range it accepts.
LEMMA InsertKeepsWellFormed ==
  ASSUME NEW f, IsFrame(f), NEW c \in Chunk,
         WellFormed(f), Accepts(f, c), Leq(c.start, c.end),
         NEW g, g.start = f.start, g.end = f.end,
         g.chunks = InsertAt(f.chunks, Slot(f, c) + 1, c)
  PROVE  IsFrame(g) /\ WellFormed(g)
  <1> DEFINE n == Len(f.chunks)
             k == Slot(f, c)
             new == g.chunks
             Old(j) == IF j <= k THEN j ELSE j - 1
  <1>1. /\ n \in Nat /\ k \in 0 .. n
        /\ c.start \in Point /\ c.end \in Point
    BY ChunkType, SlotHasRoom DEF Chunk
  <1>2. /\ new \in Seq(Chunk) /\ Len(new) = n + 1
        /\ \A j \in 1 .. n + 1 : new[j] = IF j < k + 1 THEN f.chunks[j]
                                          ELSE IF j = k + 1 THEN c
                                          ELSE f.chunks[j - 1]
    <2>1. f.chunks \in Seq(Chunk) /\ k + 1 \in 1 .. Len(f.chunks) + 1
      BY <1>1, ChunkType
    <2> DEFINE chunks == f.chunks
    <2>2. chunks \in Seq(Chunk) /\ k + 1 \in 1 .. Len(chunks) + 1
      BY <2>1
    <2> HIDE DEF chunks, k
    <2>3. /\ InsertAt(chunks, k + 1, c) \in Seq(Chunk)
          /\ Inserts(InsertAt(chunks, k + 1, c), chunks, k + 1, c)
      BY <2>2, InsertAtIsSeq
    <2>4. /\ InsertAt(chunks, k + 1, c) \in Seq(Chunk)
          /\ Len(InsertAt(chunks, k + 1, c)) = Len(chunks) + 1
          /\ \A j \in 1 .. Len(chunks) + 1 :
               InsertAt(chunks, k + 1, c)[j] = IF j < k + 1 THEN chunks[j]
                                               ELSE IF j = k + 1 THEN c
                                               ELSE chunks[j - 1]
      BY <2>3 DEF Inserts
    <2>. QED
      BY <2>4 DEF chunks, k
  <1>3. IsFrame(g)
    BY <1>2 DEF IsFrame
  <1>4. \A j \in 1 .. n : j <= k => Leq(f.chunks[j].end, c.start)
    <2> SUFFICES ASSUME NEW j \in 1 .. n, j <= k
                 PROVE  Leq(f.chunks[j].end, c.start)
      OBVIOUS
    <2>1. Leq(f.chunks[k].end, c.start)
      BY <1>1, SlotHasRoom DEF GapStart
    <2>2. j = k \/ Leq(f.chunks[j].end, f.chunks[k].start)
      BY <1>1 DEF WellFormed, ChunksChronological
    <2>3. Leq(f.chunks[k].start, f.chunks[k].end)
      BY <1>1 DEF WellFormed, ChunksInside
    <2>. QED
      BY <1>1, <2>1, <2>2, <2>3, ChunkType, PointOrder
  <1>5. \A j \in 1 .. n : k < j => Leq(c.end, f.chunks[j].start)
    <2> SUFFICES ASSUME NEW j \in 1 .. n, k < j
                 PROVE  Leq(c.end, f.chunks[j].start)
      OBVIOUS
    <2>1. Leq(c.end, f.chunks[k + 1].start)
      BY <1>1, SlotHasRoom DEF GapEnd
    <2>2. j = k + 1 \/ Leq(f.chunks[k + 1].end, f.chunks[j].start)
      BY <1>1 DEF WellFormed, ChunksChronological
    <2>3. Leq(f.chunks[k + 1].start, f.chunks[k + 1].end)
      BY <1>1 DEF WellFormed, ChunksInside
    <2>. QED
      BY <1>1, <2>1, <2>2, <2>3, ChunkType, PointOrder
  <1>6. Leq(f.start, c.start) /\ Leq(c.end, f.end)
    <2>1. k = 0 \/ (Leq(f.chunks[k].end, c.start) /\ Leq(f.chunks[k].start, f.chunks[k].end)
                      /\ Leq(f.start, f.chunks[k].start))
      BY <1>1, <1>4 DEF WellFormed, ChunksInside
    <2>2. Leq(f.start, c.start)
      BY <1>1, <2>1, SlotHasRoom, ChunkType, PointOrder DEF GapStart
    <2>3. k = n \/ (Leq(c.end, f.chunks[k + 1].start)
                      /\ Leq(f.chunks[k + 1].start, f.chunks[k + 1].end)
                      /\ Leq(f.chunks[k + 1].end, f.end))
      BY <1>1, <1>5 DEF WellFormed, ChunksInside
    <2>4. Leq(c.end, f.end)
      BY <1>1, <2>3, SlotHasRoom, ChunkType, PointOrder DEF GapEnd
    <2>. QED
      BY <2>2, <2>4
  <1> HIDE DEF new, k, n
  <1>7. ChunksInside(g)
    <2> SUFFICES ASSUME NEW j \in 1 .. n + 1
                 PROVE  /\ Leq(f.start, new[j].start)
                        /\ Leq(new[j].start, new[j].end)
                        /\ Leq(new[j].end, f.end)
      BY <1>2 DEF ChunksInside, new
    <2>1. CASE j = k + 1
      BY <1>1, <1>2, <1>6, <2>1
    <2>2. CASE j # k + 1
      <3>1. Old(j) \in 1 .. n /\ new[j] = f.chunks[Old(j)]
        BY <1>1, <1>2, <2>2
      <3>. QED
        BY <3>1 DEF WellFormed, ChunksInside, n
    <2>. QED
      BY <2>1, <2>2
  <1>8. ChunksChronological(g)
    <2> SUFFICES ASSUME NEW i \in 1 .. n + 1, NEW j \in 1 .. n + 1, i < j
                 PROVE  Leq(new[i].end, new[j].start)
      BY <1>2 DEF ChunksChronological, new
    <2>1. CASE i = k + 1
      <3>1. j - 1 \in 1 .. n /\ k < j - 1 /\ new[j] = f.chunks[j - 1] /\ new[i] = c
        BY <1>1, <1>2, <2>1
      <3>. QED
        BY <1>5, <3>1
    <2>2. CASE j = k + 1
      <3>1. i \in 1 .. n /\ i <= k /\ new[i] = f.chunks[i] /\ new[j] = c
        BY <1>1, <1>2, <2>2
      <3>. QED
        BY <1>4, <3>1
    <2>3. CASE i # k + 1 /\ j # k + 1
      <3>1. /\ Old(i) \in 1 .. n /\ new[i] = f.chunks[Old(i)]
            /\ Old(j) \in 1 .. n /\ new[j] = f.chunks[Old(j)]
            /\ Old(i) < Old(j)
        BY <1>1, <1>2, <2>3
      <3>. QED
        BY <3>1 DEF WellFormed, ChunksChronological, n
    <2>. QED
      BY <2>1, <2>2, <2>3
  <1>. QED
    BY <1>3, <1>7, <1>8 DEF WellFormed

\* Later gaps end later.
LEMMA GapEndsAscend ==
  ASSUME NEW f, IsFrame(f), WellFormed(f),
         NEW i \in 0 .. Len(f.chunks), NEW j \in i .. Len(f.chunks)
  PROVE  /\ GapEnd(f, i) \in Point
         /\ Leq(GapEnd(f, i), GapEnd(f, j))
  <1> DEFINE n == Len(f.chunks)
  <1>1. n \in Nat /\ i \in 0 .. n /\ j \in i .. n
    BY ChunkType
  <1>2. \A m \in 0 .. n : GapEnd(f, m) \in Point
    BY <1>1, ChunkType DEF GapEnd
  <1>3. CASE j = i
    BY <1>1, <1>2, <1>3, PointOrder
  <1>4. CASE i < j /\ j = n
    <2>1. i + 1 \in 1 .. n /\ GapEnd(f, i) = f.chunks[i + 1].start /\ GapEnd(f, j) = f.end
      BY <1>1, <1>4 DEF GapEnd
    <2>. QED
      BY <1>2, <2>1, ChunkType, PointOrder DEF WellFormed, ChunksInside
  <1>5. CASE i < j /\ j < n
    <2>1. /\ i + 1 \in 1 .. n /\ GapEnd(f, i) = f.chunks[i + 1].start
          /\ j + 1 \in 1 .. n /\ GapEnd(f, j) = f.chunks[j + 1].start
          /\ i + 1 < j + 1
      BY <1>1, <1>5 DEF GapEnd
    <2>2. /\ Leq(f.chunks[i + 1].start, f.chunks[i + 1].end)
          /\ Leq(f.chunks[i + 1].end, f.chunks[j + 1].start)
      BY <2>1 DEF WellFormed, ChunksInside, ChunksChronological
    <2>. QED
      BY <1>2, <2>1, <2>2, ChunkType, PointOrder
  <1>. QED
    BY <1>1, <1>2, <1>3, <1>4, <1>5

\* Giving up early loses nothing: every gap that includes the chunk is a slot.
LEMMA RoomyGapIsSlot ==
  ASSUME NEW f, IsFrame(f), NEW c \in Chunk, WellFormed(f),
         NEW i \in 0 .. Len(f.chunks), Includes(Gap(f, i), c)
  PROVE  i \in Slots(f, c)
  <1>1. Leq(c.end, GapEnd(f, i)) /\ c.end \in Point
    BY DEF Includes, Gap, MetricsRange, Chunk
  <1>2. ASSUME NEW j \in i .. Len(f.chunks)
        PROVE  ~GivesUp(f, c, j)
    <2>1. j \in 0 .. Len(f.chunks) /\ j \in j .. Len(f.chunks)
      BY ChunkType
    <2>2. GapEnd(f, i) \in Point /\ GapEnd(f, j) \in Point
      BY <2>1, GapEndsAscend
    <2>3. Leq(GapEnd(f, i), GapEnd(f, j))
      BY GapEndsAscend
    <2>. QED
      BY <1>1, <2>2, <2>3, PointOrder DEF GivesUp
  <1>. QED
    BY <1>2 DEF Slots

\* The chunks after the slot taken all end after the new chunk starts.
LEMMA SlotKeepsArrivalOrder ==
  ASSUME NEW f, IsFrame(f), NEW c \in Chunk, WellFormed(f), Accepts(f, c),
         NEW j \in Slot(f, c) + 1 .. Len(f.chunks)
  PROVE  ~Leq(f.chunks[j].end, c.start)
  <1> DEFINE n == Len(f.chunks)
             k == Slot(f, c)
  <1>1. n \in Nat /\ k \in 0 .. n /\ j \in 1 .. n /\ j > k /\ j \in 0 .. n
    BY ChunkType, SlotHasRoom
  <1> SUFFICES ASSUME Leq(f.chunks[j].end, c.start)
               PROVE  FALSE
    OBVIOUS
  <1>2. Leq(c.end, GapEnd(f, k)) /\ GapEnd(f, k) \in Point
        /\ Leq(GapEnd(f, k), GapEnd(f, j)) /\ GapEnd(f, j) \in Point
    <2>1. k \in 0 .. n /\ j \in k .. n /\ j \in j .. n
      BY <1>1
    <2> HIDE DEF k
    <2>2. GapEnd(f, k) \in Point /\ Leq(GapEnd(f, k), GapEnd(f, j))
      BY <1>1, <2>1, GapEndsAscend
    <2>3. GapEnd(f, j) \in Point
      BY <1>1, <2>1, GapEndsAscend
    <2>. QED
      BY <2>2, <2>3, SlotHasRoom DEF k
  <1>3. Leq(c.end, GapEnd(f, j))
    BY <1>2, PointOrder DEF Chunk
  <1>4. Includes(Gap(f, j), c)
    BY <1>1, <1>3 DEF Includes, Gap, MetricsRange, GapStart
  <1>5. j \in Slots(f, c)
    BY <1>1, <1>4, RoomyGapIsSlot
  <1>. QED
    BY <1>1, <1>5, SlotIsLast
=============================================================================
