---------------------------- MODULE DataRateProofs ----------------------------
(***************************************************************************)
(* Proofs about the data rate, for any window, granularity, width of the   *)
(* counters, times and numbers of bytes.                                   *)
(*                                                                         *)
(* Part 1: the walk of an update hands out all of its bytes.  Part 2: each *)
(* bin holds the bytes produced in its own stretch of time.                *)
(***************************************************************************)
EXTENDS DataRate, SequenceTheorems, TLAPS

\* The bytes handed out so far are the share of the time walked so far.
WalkInPlace ==
  walk.running =>
    /\ current_time \in Nat /\ current_bytes \in Nat
    /\ current_bytes <= walk.bytes
    /\ current_time <= walk.cursor /\ walk.cursor <= walk.timestamp
    /\ current_time < walk.timestamp
    /\ walk.assigned = Through(walk.cursor)

\* The inductive invariant.
IInv ==
  /\ current_time \in Nat \cup {Nothing}
  /\ current_bytes \in Nat \cup {Nothing}
  /\ current_time = Nothing <=> current_bytes = Nothing
  /\ walk \in [timestamp : Nat, bytes : Nat, cursor : Nat, assigned : Int, running : BOOLEAN]
  /\ WalkInPlace

-----------------------------------------------------------------------------
(***************************************************************************)
(* Arithmetic.                                                             *)
(***************************************************************************)

\* A quotient is an integer with a remainder below the divisor.
LEMMA Quotient ==
  ASSUME NEW n \in Int, NEW d \in Nat \ {0}
  PROVE  /\ n \div d \in Int /\ n % d \in Int
         /\ n = d * (n \div d) + (n % d) /\ 0 <= n % d /\ n % d < d
  OBVIOUS

\* A multiple of d is divided by d without a remainder.
LEMMA ExactQuotient ==
  ASSUME NEW n \in Int, NEW d \in Nat \ {0}
  PROVE  (n * d) \div d = n
  <1> DEFINE q == (n * d) \div d
             r == (n * d) % d
  <1>1. n * d \in Int
    OBVIOUS
  <1>2. q \in Int /\ r \in Int /\ n * d = d * q + r /\ 0 <= r /\ r < d
    BY <1>1, Quotient
  <1> HIDE DEF q, r
  <1>3. d * (n - q) = r
    BY <1>2
  <1>4. n - q \in Int /\ (n - q >= 1 \/ n - q <= -1 \/ n - q = 0)
    BY <1>2
  <1>5. n - q = 0
    BY <1>2, <1>3, <1>4
  <1>. QED
    BY <1>2, <1>5 DEF q

\* A quotient of nothing is nothing.
LEMMA ZeroQuotient ==
  ASSUME NEW d \in Nat \ {0}
  PROVE  0 \div d = 0
  BY ExactQuotient

\* The next boundary lies ahead.
LEMMA BoundaryAhead ==
  ASSUME NEW cursor \in Nat
  PROVE  NextBoundary(cursor) \in Nat /\ cursor < NextBoundary(cursor)
  <1> DEFINE q == cursor \div Granularity
             r == cursor % Granularity
  <1>1. Granularity \in Nat \ {0}
    BY RateAssumption
  <1>2. q \in Int /\ r \in Int /\ cursor = Granularity * q + r /\ 0 <= r /\ r < Granularity
    BY <1>1, Quotient
  <1>3. NextBoundary(cursor) = (q + 1) * Granularity
    BY DEF NextBoundary
  <1> HIDE DEF q, r
  <1>4. (q + 1) * Granularity = Granularity * q + Granularity
    BY <1>1, <1>2
  <1>. QED
    BY <1>1, <1>2, <1>3, <1>4

-----------------------------------------------------------------------------
LEMMA InitEstablishes == Init => IInv
  BY DEF Init, IInv, NoWalk, WalkInPlace

\* update takes a number of bytes and a time.
LEMMA CalledType ==
  ASSUME NEW bytes, NEW timestamp, Called(bytes, timestamp)
  PROVE  bytes \in Nat /\ timestamp \in Nat
  BY RateAssumption DEF Called

\* An update that needs no walk.
LEMMA ShortUpdateKeeps ==
  ASSUME IInv, NEW bytes, NEW timestamp,
         \/ FirstUpdate(bytes, timestamp)
         \/ UpdateInPlace(bytes, timestamp)
  PROVE  IInv'
  <1>1. bytes \in Nat /\ timestamp \in Nat
    BY CalledType DEF FirstUpdate, UpdateInPlace
  <1>2. ~walk.running /\ UNCHANGED walk
    BY DEF FirstUpdate, UpdateInPlace, Called, Idle
  <1>3. Nothing \notin Nat
    BY RateAssumption
  <1>4. /\ current_bytes' = bytes
        /\ current_time' = timestamp
    BY DEF FirstUpdate, UpdateInPlace
  <1>. QED
    BY <1>1, <1>2, <1>3, <1>4 DEF IInv, WalkInPlace

\* A walk starts where the last update ended, with nothing handed out.
LEMMA BeginWalkKeeps ==
  ASSUME IInv, NEW bytes, NEW timestamp, BeginWalk(bytes, timestamp)
  PROVE  IInv'
  <1>1. bytes \in Nat /\ timestamp \in Nat
    BY CalledType DEF BeginWalk
  <1>2. /\ current_time \in Nat /\ current_bytes \in Nat
        /\ current_time < timestamp /\ current_bytes <= bytes
        /\ UNCHANGED <<current_time, current_bytes>>
        /\ walk' = [timestamp |-> timestamp, bytes |-> bytes, cursor |-> current_time,
                    assigned |-> 0, running |-> TRUE]
    BY <1>1 DEF BeginWalk, Stale, IInv
  <1>3. Through(current_time)' = 0
    <2>1. Through(current_time)' = ((bytes - current_bytes) * (current_time - current_time))
                                       \div (timestamp - current_time)
      BY <1>2 DEF Through, ByteDelta, TimeDelta
    <2>2. timestamp - current_time \in Nat \ {0} /\ (bytes - current_bytes) * (current_time - current_time) = 0
      BY <1>1, <1>2
    <2>. QED
      BY <2>1, <2>2, ZeroQuotient
  <1>. QED
    BY <1>1, <1>2, <1>3 DEF IInv, WalkInPlace

\* A step moves the cursor ahead, but not past the end of the update.
LEMMA WalkStepKeeps ==
  ASSUME IInv, WalkStep
  PROVE  IInv'
  <1> DEFINE next == NextCursor
             share == Through(next)
  <1>1. /\ walk.running /\ walk.cursor \in Nat /\ walk.timestamp \in Nat /\ walk.bytes \in Nat
        /\ walk.cursor < walk.timestamp
        /\ current_time \in Nat /\ current_bytes \in Nat
        /\ current_time <= walk.cursor /\ current_bytes <= walk.bytes
        /\ UNCHANGED <<current_time, current_bytes>>
    BY DEF WalkStep, IInv, WalkInPlace
  <1>2. next \in Nat /\ walk.cursor < next /\ next <= walk.timestamp
    BY <1>1, BoundaryAhead DEF NextCursor
  <1> HIDE DEF next
  <1>3. share \in Int
    <2>1. TimeDelta \in Nat \ {0} /\ ByteDelta * (next - current_time) \in Int
      BY <1>1, <1>2 DEF TimeDelta, ByteDelta
    <2>. QED
      BY <2>1, Quotient DEF Through
  <1>4. walk' = [walk EXCEPT !.cursor = next, !.assigned = share]
    BY DEF WalkStep, next
  <1> HIDE DEF share
  <1>5. /\ walk'.timestamp = walk.timestamp /\ walk'.bytes = walk.bytes
        /\ walk'.cursor = next /\ walk'.assigned = share /\ walk'.running
        /\ walk' \in [timestamp : Nat, bytes : Nat, cursor : Nat, assigned : Int, running : BOOLEAN]
    BY <1>1, <1>2, <1>3, <1>4 DEF IInv
  <1>6. /\ Through(walk.cursor)' = Through(next)
        /\ Through(next) = share
    BY <1>1, <1>5 DEF Through, ByteDelta, TimeDelta, share
  <1>. QED
    BY <1>1, <1>2, <1>5, <1>6 DEF IInv, WalkInPlace

LEMMA EndWalkKeeps ==
  ASSUME IInv, EndWalk
  PROVE  IInv'
  <1>1. current_bytes' \in Nat /\ current_time' \in Nat /\ walk' = NoWalk
    BY DEF EndWalk, IInv
  <1>2. Nothing \notin Nat
    BY RateAssumption
  <1>. QED
    BY <1>1, <1>2 DEF NoWalk, IInv, WalkInPlace

LEMMA NextKeeps == IInv /\ [Next]_vars => IInv'
  <1> SUFFICES ASSUME IInv, [Next]_vars PROVE IInv'
    OBVIOUS
  <1>1. CASE UNCHANGED vars
    BY <1>1 DEF vars, IInv, WalkInPlace, Through, ByteDelta, TimeDelta
  <1>2. CASE WalkStep
    BY <1>2, WalkStepKeeps
  <1>3. CASE EndWalk
    BY <1>3, EndWalkKeeps
  <1>4. ASSUME NEW bytes \in 0 .. MaxBytes, NEW timestamp \in 0 .. MaxTime,
               \/ FirstUpdate(bytes, timestamp) \/ UpdateInPlace(bytes, timestamp)
               \/ BeginWalk(bytes, timestamp) \/ IgnoreUpdate(bytes, timestamp)
        PROVE  IInv'
    <2>1. CASE FirstUpdate(bytes, timestamp) \/ UpdateInPlace(bytes, timestamp)
      BY <2>1, ShortUpdateKeeps
    <2>2. CASE BeginWalk(bytes, timestamp)
      BY <2>2, BeginWalkKeeps
    <2>3. CASE IgnoreUpdate(bytes, timestamp)
      BY <1>1, <2>3 DEF IgnoreUpdate
    <2>. QED
      BY <1>4, <2>1, <2>2, <2>3
  <1>. QED
    BY <1>1, <1>2, <1>3, <1>4 DEF Next

LEMMA Invariance == Spec => []IInv
  BY InitEstablishes, NextKeeps, PTL DEF Spec

\* Rounding down at every boundary loses nothing: when the cursor has reached
\* the time of the update, all of its bytes have been handed out.
THEOREM AlwaysAllAssigned == Spec => []AllAssigned
  <1>1. IInv => AllAssigned
    <2> SUFFICES ASSUME IInv, walk.running, walk.cursor >= walk.timestamp
                 PROVE  walk.assigned = ByteDelta
      BY DEF AllAssigned
    <2>1. /\ walk.cursor = walk.timestamp
          /\ walk.assigned = Through(walk.timestamp)
          /\ TimeDelta \in Nat \ {0} /\ ByteDelta \in Int
      BY DEF IInv, WalkInPlace, TimeDelta, ByteDelta
    <2>2. Through(walk.timestamp) = (ByteDelta * TimeDelta) \div TimeDelta
      BY DEF Through, TimeDelta
    <2>. QED
      BY <2>1, <2>2, ExactQuotient
  <1>. QED
    BY <1>1, Invariance, PTL

-----------------------------------------------------------------------------
(***************************************************************************)
(* Part 2: the bins.                                                       *)
(*                                                                         *)
(* While an update walks, its point counts as accepted already: between it *)
(* and the point before, the bytes grow with the cursor.  The bin at the   *)
(* head holds what was handed out since the last boundary, every other bin *)
(* what was produced between two boundaries.                               *)
(***************************************************************************)
Point == [time : Nat, bytes : Nat]

Upcoming == IF walk.running
            THEN Append(points, [time |-> walk.timestamp, bytes |-> walk.bytes])
            ELSE points

Now == IF walk.running THEN walk.cursor ELSE current_time

HandedOut == IF walk.running THEN current_bytes + walk.assigned ELSE current_bytes

\* The first k points are those before time x.
Cut(pts, x, k) == \A i \in DOMAIN pts : i <= k <=> pts[i].time < x

\* The bytes produced before time x, as any points tell.
Produced(pts, x) ==
  LET last == CHOOSE k \in 0 .. Len(pts) : Cut(pts, x, k)
      p    == pts[last]
      q    == pts[last + 1]
  IN  IF last = 0 THEN pts[1].bytes
      ELSE IF last = Len(pts) THEN p.bytes
      ELSE p.bytes + ((q.bytes - p.bytes) * (x - p.time)) \div (q.time - p.time)

\* Points in the order of their times.
Chronicle(pts) ==
  /\ pts \in Seq(Point)
  /\ pts # <<>>
  /\ \A i \in 1 .. Len(pts) : pts[i].time <= pts[Len(pts)].time
  /\ \A x \in Int : \E k \in 0 .. Len(pts) : Cut(pts, x, k)

Filled(b, pts, now, handed) ==
  LET head == now \div Granularity
      bytes(k) == Produced(pts, k * Granularity)
  IN  /\ b[1] = (handed - bytes(head)) % BinLimit
      /\ \A i \in 2 .. NumBins :
           b[i] = (bytes(head - i + 2) - bytes(head - i + 1)) % BinLimit

BinsInv ==
  /\ bins \in [1 .. NumBins -> Int]
  /\ points = <<>> <=> current_time = Nothing
  /\ points = <<>> => bins = [i \in 1 .. NumBins |-> 0]
  /\ points # <<>> =>
       /\ Chronicle(points)
       /\ points[Len(points)] = [time |-> current_time, bytes |-> current_bytes]
       /\ Filled(bins, Upcoming, Now, HandedOut)

-----------------------------------------------------------------------------
(***************************************************************************)
(* Arithmetic of bins.                                                     *)
(***************************************************************************)

\* Quotient and remainder are the only ones.
LEMMA QuotientUnique ==
  ASSUME NEW d \in Nat \ {0}, NEW q \in Int, NEW r \in Int, 0 <= r, r < d
  PROVE  (d * q + r) \div d = q /\ (d * q + r) % d = r
  <1> DEFINE n == d * q + r
             q2 == n \div d
             r2 == n % d
  <1>1. n \in Int
    OBVIOUS
  <1>2. q2 \in Int /\ r2 \in Int /\ n = d * q2 + r2 /\ 0 <= r2 /\ r2 < d
    BY <1>1, Quotient
  <1>3. n = d * q + r
    OBVIOUS
  <1> HIDE DEF n, q2, r2
  <1>4. d * (q - q2) = r2 - r
    BY <1>2, <1>3
  <1>5. q - q2 \in Int /\ (q - q2 >= 1 \/ q - q2 <= -1 \/ q - q2 = 0)
    BY <1>2
  <1>6. q - q2 >= 1 => d * (q - q2) >= d
    BY <1>5
  <1>7. q - q2 <= -1 => d * (q - q2) <= -d
    BY <1>5
  <1>8. q - q2 = 0
    BY <1>2, <1>4, <1>5, <1>6, <1>7
  <1>9. q2 = q /\ r2 = r
    BY <1>2, <1>3, <1>8
  <1>. QED
    BY <1>9 DEF q2, r2, n

\* A bin that counts modulo the limit goes on counting modulo the limit.
LEMMA CountOn ==
  ASSUME NEW a \in Int, NEW b \in Int
  PROVE  ((a % BinLimit) + b) % BinLimit = (a + b) % BinLimit
  <1> DEFINE q == a \div BinLimit
             r == a % BinLimit
             q2 == (r + b) \div BinLimit
             r2 == (r + b) % BinLimit
  <1>1. BinLimit \in Nat \ {0}
    BY RateAssumption
  <1>2. q \in Int /\ r \in Int /\ a = BinLimit * q + r
    BY <1>1, Quotient
  <1>3. q2 \in Int /\ r2 \in Int /\ r + b = BinLimit * q2 + r2 /\ 0 <= r2 /\ r2 < BinLimit
    <2>1. r + b \in Int
      BY <1>2
    <2>. QED
      BY <1>1, <2>1, Quotient
  <1> HIDE DEF q, r, q2, r2
  <1>4. a + b = BinLimit * (q + q2) + r2
    BY <1>1, <1>2, <1>3
  <1>5. (BinLimit * (q + q2) + r2) % BinLimit = r2
    <2>1. q + q2 \in Int
      BY <1>2, <1>3
    <2>. QED
      BY <1>1, <1>3, <2>1, QuotientUnique
  <1>. QED
    BY <1>4, <1>5 DEF r2, r

\* A time lies in the bin between two boundaries.
LEMMA InBin ==
  ASSUME NEW now \in Nat
  PROVE  /\ now \div Granularity \in Int
         /\ (now \div Granularity) * Granularity <= now
         /\ now < (now \div Granularity + 1) * Granularity
  <1> DEFINE q == now \div Granularity
             r == now % Granularity
  <1>1. Granularity \in Nat \ {0}
    BY RateAssumption
  <1>2. q \in Int /\ r \in Int /\ now = Granularity * q + r /\ 0 <= r /\ r < Granularity
    BY <1>1, Quotient
  <1> HIDE DEF q, r
  <1>3. q * Granularity = Granularity * q /\ (q + 1) * Granularity = Granularity * q + Granularity
    BY <1>1, <1>2
  <1>4. q \in Int /\ q * Granularity <= now /\ now < (q + 1) * Granularity
    BY <1>1, <1>2, <1>3
  <1>. QED
    BY <1>4 DEF q

\* The bin is the only one.
LEMMA TheBin ==
  ASSUME NEW now \in Nat, NEW k \in Int,
         k * Granularity <= now, now < (k + 1) * Granularity
  PROVE  now \div Granularity = k
  <1>1. Granularity \in Nat \ {0}
    BY RateAssumption
  <1> DEFINE r == now - Granularity * k
  <1>2. r \in Int /\ 0 <= r /\ r < Granularity /\ now = Granularity * k + r
    BY <1>1
  <1> HIDE DEF r
  <1>. QED
    BY <1>1, <1>2, QuotientUnique

\* A boundary is in the bin that it begins.
LEMMA BoundaryBin ==
  ASSUME NEW k \in Int, k * Granularity \in Nat
  PROVE  (k * Granularity) \div Granularity = k
  BY RateAssumption, ExactQuotient

\* Earlier bins begin earlier.
LEMMA EarlierBin ==
  ASSUME NEW k \in Int, NEW n \in Int, k <= n
  PROVE  k * Granularity \in Int /\ k * Granularity <= n * Granularity
  <1>1. Granularity \in Nat \ {0}
    BY RateAssumption
  <1>2. (n - k) * Granularity >= 0
    BY <1>1
  <1>. QED
    BY <1>1, <1>2

-----------------------------------------------------------------------------
(***************************************************************************)
(* The bytes produced before a time.                                       *)
(***************************************************************************)

\* There is one cut.
LEMMA CutUnique ==
  ASSUME NEW pts \in Seq(Point), NEW x \in Int,
         NEW k \in 0 .. Len(pts), Cut(pts, x, k)
  PROVE  (CHOOSE j \in 0 .. Len(pts) : Cut(pts, x, j)) = k
  <1>1. \A j \in 0 .. Len(pts) : Cut(pts, x, j) => j = k
    <2> SUFFICES ASSUME NEW j \in 0 .. Len(pts), Cut(pts, x, j), j # k
                 PROVE  FALSE
      OBVIOUS
    <2>1. Len(pts) \in Nat /\ DOMAIN pts = 1 .. Len(pts)
      OBVIOUS
    <2>2. CASE j < k
      BY <2>1, <2>2 DEF Cut
    <2>3. CASE k < j
      BY <2>1, <2>3 DEF Cut
    <2>. QED
      BY <2>1, <2>2, <2>3
  <1>. QED
    BY <1>1

\* The bytes between the points on both sides of the cut.
Between(pts, x, k) ==
  LET p == pts[k]
      q == pts[k + 1]
  IN  p.bytes + ((q.bytes - p.bytes) * (x - p.time)) \div (q.time - p.time)

LEMMA ProducedAt ==
  ASSUME NEW pts \in Seq(Point), NEW x \in Int,
         NEW k \in 0 .. Len(pts), Cut(pts, x, k)
  PROVE  /\ k = 0 => Produced(pts, x) = pts[1].bytes
         /\ k # 0 /\ k = Len(pts) => Produced(pts, x) = pts[k].bytes
         /\ k # 0 /\ k # Len(pts) => Produced(pts, x) = Between(pts, x, k)
  <1> DEFINE last == CHOOSE j \in 0 .. Len(pts) : Cut(pts, x, j)
  <1>1. last = k
    BY CutUnique
  <1>2. Produced(pts, x) = IF last = 0 THEN pts[1].bytes
                           ELSE IF last = Len(pts) THEN pts[last].bytes
                           ELSE Between(pts, x, last)
    BY DEF Produced, Between
  <1> HIDE DEF last
  <1>. QED
    BY <1>1, <1>2

\* What the points of a chronicle are.
LEMMA ChronicleType ==
  ASSUME NEW pts, Chronicle(pts)
  PROVE  /\ pts \in Seq(Point) /\ Len(pts) \in Nat /\ Len(pts) >= 1 /\ DOMAIN pts = 1 .. Len(pts)
         /\ \A i \in 1 .. Len(pts) : pts[i] \in Point /\ pts[i].time \in Nat /\ pts[i].bytes \in Nat
         /\ pts[Len(pts)] \in Point /\ pts[Len(pts)].time \in Nat /\ pts[Len(pts)].bytes \in Nat
         /\ \A i \in 1 .. Len(pts) : pts[i].time <= pts[Len(pts)].time
  <1>1. pts \in Seq(Point) /\ pts # <<>>
    BY DEF Chronicle
  <1>2. Len(pts) \in Nat /\ Len(pts) >= 1 /\ DOMAIN pts = 1 .. Len(pts)
    BY <1>1
  <1>3. \A i \in 1 .. Len(pts) : pts[i] \in Point
    BY <1>1
  <1>4. \A p \in Point : p.time \in Nat /\ p.bytes \in Nat
    BY DEF Point
  <1>5. \A i \in 1 .. Len(pts) : pts[i].time <= pts[Len(pts)].time
    BY DEF Chronicle
  <1>6. Len(pts) \in 1 .. Len(pts)
    BY <1>2
  <1>. QED
    BY <1>1, <1>2, <1>3, <1>4, <1>5, <1>6

\* A time after all points, and a time at which there is a later one.
LEMMA CutAfter ==
  ASSUME NEW pts, Chronicle(pts), NEW x \in Int, pts[Len(pts)].time < x
  PROVE  Cut(pts, x, Len(pts))
  <1>1. \A i \in DOMAIN pts : i <= Len(pts) /\ pts[i].time \in Nat /\ pts[i].time <= pts[Len(pts)].time
    BY ChronicleType
  <1>2. pts[Len(pts)].time \in Nat
    BY ChronicleType
  <1>. QED
    BY <1>1, <1>2 DEF Cut

LEMMA CutInside ==
  ASSUME NEW pts, Chronicle(pts), NEW x \in Int, x <= pts[Len(pts)].time
  PROVE  \E k \in 0 .. Len(pts) - 1 : Cut(pts, x, k)
  <1>1. Len(pts) \in Nat /\ Len(pts) >= 1 /\ DOMAIN pts = 1 .. Len(pts)
    BY ChronicleType
  <1>2. PICK k \in 0 .. Len(pts) : Cut(pts, x, k)
    BY DEF Chronicle
  <1>3. pts[Len(pts)].time \in Nat
    BY ChronicleType
  <1>4. k # Len(pts)
    <2>1. Len(pts) \in DOMAIN pts /\ ~(pts[Len(pts)].time < x)
      BY <1>1, <1>3
    <2>. QED
      BY <1>2, <2>1 DEF Cut
  <1>5. k \in 0 .. Len(pts) - 1
    <2>1. PICK n : n = Len(pts)
      OBVIOUS
    <2>2. n \in Nat /\ k \in 0 .. n /\ k # n
      BY <1>1, <1>4, <2>1
    <2>3. k \in 0 .. n - 1
      BY <2>2
    <2>. QED
      BY <2>1, <2>3
  <1>. QED
    BY <1>2, <1>5

\* After the last point nothing more is produced.
LEMMA ProducedAfter ==
  ASSUME NEW pts, Chronicle(pts), NEW x \in Int, pts[Len(pts)].time < x
  PROVE  Produced(pts, x) = pts[Len(pts)].bytes
  <1>1. pts \in Seq(Point) /\ Len(pts) \in Nat /\ Len(pts) >= 1 /\ Len(pts) \in 0 .. Len(pts)
    BY ChronicleType
  <1>2. Cut(pts, x, Len(pts)) /\ Len(pts) # 0
    BY <1>1, CutAfter
  <1>. QED
    BY <1>1, <1>2, ProducedAt

\* A share of bytes over some time is a number.
LEMMA ShareType ==
  ASSUME NEW p \in Point, NEW q \in Point, NEW x \in Int, p.time < q.time
  PROVE  p.bytes + ((q.bytes - p.bytes) * (x - p.time)) \div (q.time - p.time) \in Int
  <1>1. /\ p.bytes \in Int /\ (q.bytes - p.bytes) * (x - p.time) \in Int
        /\ q.time - p.time \in Nat \ {0}
    BY DEF Point
  <1> DEFINE n == (q.bytes - p.bytes) * (x - p.time)
             d == q.time - p.time
  <1>2. n \in Int /\ d \in Nat \ {0}
    BY <1>1
  <1> HIDE DEF n, d
  <1>3. n \div d \in Int
    BY <1>2, Quotient
  <1>4. p.bytes + n \div d \in Int
    BY <1>1, <1>3
  <1>. QED
    BY <1>4 DEF n, d

LEMMA ProducedType ==
  ASSUME NEW pts, Chronicle(pts), NEW x \in Int
  PROVE  Produced(pts, x) \in Int
  <1>1. /\ pts \in Seq(Point) /\ Len(pts) \in Nat /\ Len(pts) >= 1 /\ DOMAIN pts = 1 .. Len(pts)
        /\ \A i \in 1 .. Len(pts) : pts[i] \in Point
    BY ChronicleType
  <1>2. PICK k \in 0 .. Len(pts) : Cut(pts, x, k)
    BY DEF Chronicle
  <1>3. CASE k = 0
    <2>1. Produced(pts, x) = pts[1].bytes
      BY <1>1, <1>2, <1>3, ProducedAt
    <2>. QED
      BY <1>1, <2>1 DEF Point
  <1>4. CASE k = Len(pts)
    <2>1. k # 0
      BY <1>1, <1>4
    <2>2. Produced(pts, x) = pts[k].bytes
      BY <2>1, <1>1, <1>2, <1>4, ProducedAt
    <2>. QED
      BY <1>1, <1>4, <2>2 DEF Point
  <1>5. CASE k # 0 /\ k # Len(pts)
    <2>1. k \in 1 .. Len(pts) /\ k + 1 \in 1 .. Len(pts)
      <3>1. k \in Nat /\ k <= Len(pts) /\ Len(pts) \in Nat
        BY <1>1, <1>2
      <3>. QED
        BY <3>1, <1>5
    <2>2. pts[k].time < x /\ ~(pts[k + 1].time < x)
      BY <1>1, <1>2, <2>1 DEF Cut
    <2>3. pts[k].time < pts[k + 1].time
      BY <1>1, <2>1, <2>2 DEF Point
    <2>4. Produced(pts, x) = pts[k].bytes + ((pts[k + 1].bytes - pts[k].bytes) * (x - pts[k].time))
                                               \div (pts[k + 1].time - pts[k].time)
      BY <1>1, <1>2, <1>5, ProducedAt DEF Between
    <2>. QED
      BY <1>1, <2>1, <2>3, <2>4, ShareType
  <1>. QED
    BY <1>3, <1>4, <1>5

\* A point that is added last.
LEMMA Appended ==
  ASSUME NEW pts, Chronicle(pts), NEW q \in Point, pts[Len(pts)].time <= q.time
  PROVE  LET more == Append(pts, q)
         IN  /\ Chronicle(more)
             /\ Len(more) = Len(pts) + 1 /\ more[Len(more)] = q
             /\ \A i \in 1 .. Len(pts) : more[i] = pts[i]
             /\ \A x \in Int : x <= q.time => \A k \in 0 .. Len(pts) : Cut(pts, x, k) => Cut(more, x, k)
  <1> DEFINE more == Append(pts, q)
  <1>1. /\ pts \in Seq(Point) /\ Len(pts) \in Nat /\ Len(pts) >= 1 /\ DOMAIN pts = 1 .. Len(pts)
        /\ \A i \in 1 .. Len(pts) : pts[i] \in Point
    BY ChronicleType
  <1>2. /\ more \in Seq(Point) /\ Len(more) = Len(pts) + 1 /\ more[Len(pts) + 1] = q
        /\ \A i \in 1 .. Len(pts) : more[i] = pts[i]
        /\ DOMAIN more = 1 .. Len(pts) + 1
    BY <1>1
  <1> HIDE DEF more
  <1>3. /\ \A i \in 1 .. Len(pts) : pts[i].time \in Nat /\ pts[i].time <= pts[Len(pts)].time
        /\ pts[Len(pts)].time \in Nat /\ q.time \in Nat
    <2>1. q.time \in Nat
      BY DEF Point
    <2>. QED
      BY <2>1, ChronicleType
  <1>4. q.time \in Nat /\ \A i \in 1 .. Len(pts) + 1 : more[i].time \in Nat /\ more[i].time <= q.time
    BY <1>1, <1>2, <1>3
  <1>5. ASSUME NEW x \in Int, x <= q.time, NEW k \in 0 .. Len(pts), Cut(pts, x, k)
        PROVE  Cut(more, x, k)
    BY <1>1, <1>2, <1>4, <1>5 DEF Cut
  <1>6. ASSUME NEW x \in Int
        PROVE  \E k \in 0 .. Len(more) : Cut(more, x, k)
    <2>1. CASE x <= q.time
      <3>1. PICK k \in 0 .. Len(pts) : Cut(pts, x, k)
        BY DEF Chronicle
      <3>2. k \in 0 .. Len(more)
        BY <1>1, <1>2
      <3>. QED
        BY <1>5, <2>1, <3>1, <3>2
    <2>2. CASE q.time < x
      <3>1. Cut(more, x, Len(more))
        BY <1>1, <1>2, <1>4, <2>2 DEF Cut
      <3>. QED
        BY <1>1, <1>2, <3>1
    <2>. QED
      BY <1>4, <2>1, <2>2
  <1>7. more # <<>>
    BY <1>1, <1>2
  <1>8. Chronicle(more)
    BY <1>2, <1>4, <1>6, <1>7 DEF Chronicle
  <1>. QED
    BY <1>2, <1>5, <1>8 DEF more

\* What was produced before earlier times stays as it is.
LEMMA ProducedStable ==
  ASSUME NEW pts, Chronicle(pts), NEW q \in Point, pts[Len(pts)].time <= q.time,
         NEW x \in Int, x <= pts[Len(pts)].time
  PROVE  Produced(Append(pts, q), x) = Produced(pts, x)
  <1> DEFINE more == Append(pts, q)
  <1>1. pts \in Seq(Point) /\ Len(pts) \in Nat /\ Len(pts) >= 1 /\ pts[Len(pts)].time \in Nat
    BY ChronicleType
  <1>2. /\ more \in Seq(Point) /\ Len(more) = Len(pts) + 1
        /\ \A i \in 1 .. Len(pts) : more[i] = pts[i]
        /\ \A k \in 0 .. Len(pts) : Cut(pts, x, k) => Cut(more, x, k)
    <2>1. x <= q.time
      BY <1>1 DEF Point
    <2>. QED
      BY <2>1, Appended DEF Chronicle
  <1> HIDE DEF more
  <1>3. PICK k \in 0 .. Len(pts) - 1 : Cut(pts, x, k)
    BY CutInside
  <1>4. k \in 0 .. Len(pts) /\ k \in 0 .. Len(more) /\ k # Len(pts) /\ k # Len(more)
    BY <1>1, <1>2
  <1>5. more[1] = pts[1] /\ (k # 0 => more[k] = pts[k]) /\ more[k + 1] = pts[k + 1]
    BY <1>1, <1>2, <1>3
  <1>6. Cut(more, x, k)
    BY <1>2, <1>3, <1>4
  <1>7. /\ k = 0 => Produced(pts, x) = pts[1].bytes /\ Produced(more, x) = more[1].bytes
        /\ k # 0 => Produced(pts, x) = Between(pts, x, k) /\ Produced(more, x) = Between(more, x, k)
    BY <1>1, <1>2, <1>3, <1>4, <1>6, ProducedAt
  <1>8. Produced(more, x) = Produced(pts, x)
    BY <1>5, <1>7 DEF Between
  <1>. QED
    BY <1>8 DEF more

\* Between the last two points, the bytes grow evenly.
LEMMA ProducedInside ==
  ASSUME NEW pts, Chronicle(pts), NEW q \in Point,
         NEW x \in Int, pts[Len(pts)].time < x, x <= q.time
  PROVE  LET p == pts[Len(pts)]
         IN  Produced(Append(pts, q), x) = p.bytes + ((q.bytes - p.bytes) * (x - p.time)) \div (q.time - p.time)
  <1> DEFINE more == Append(pts, q)
             n == Len(pts)
  <1>1. pts \in Seq(Point) /\ n \in Nat /\ n >= 1 /\ pts[n].time \in Nat /\ q.time \in Nat
    <2>1. q.time \in Nat
      BY DEF Point
    <2>. QED
      BY <2>1, ChronicleType
  <1>2. pts[n].time <= q.time
    BY <1>1
  <1>3. /\ more \in Seq(Point) /\ Len(more) = n + 1
        /\ more[n] = pts[n] /\ more[n + 1] = q
        /\ Cut(pts, x, n) => Cut(more, x, n)
    <2>1. n \in 0 .. n /\ n \in 1 .. n
      BY <1>1
    <2>2. /\ Chronicle(more) /\ Len(more) = n + 1 /\ more[Len(more)] = q
          /\ \A i \in 1 .. n : more[i] = pts[i]
          /\ \A k \in 0 .. n : Cut(pts, x, k) => Cut(more, x, k)
      BY <1>2, Appended
    <2>. QED
      BY <2>1, <2>2 DEF Chronicle
  <1>4. Cut(pts, x, n)
    BY CutAfter
  <1> HIDE DEF more
  <1>5. n # 0 /\ n # Len(more) /\ n \in 0 .. Len(more)
    BY <1>1, <1>3
  <1>6. Produced(more, x) = Between(more, x, n)
    BY <1>3, <1>4, <1>5, ProducedAt
  <1>7. Produced(more, x) = pts[n].bytes + ((q.bytes - pts[n].bytes) * (x - pts[n].time)) \div (q.time - pts[n].time)
    BY <1>3, <1>6 DEF Between
  <1>. QED
    BY <1>7 DEF more

-----------------------------------------------------------------------------
(***************************************************************************)
(* What the steps of an update do to the bins.                             *)
(***************************************************************************)

\* A new point does not change what the bins have to hold.
LEMMA FilledStable ==
  ASSUME NEW pts, Chronicle(pts), NEW q \in Point, pts[Len(pts)].time <= q.time,
         NEW b, NEW now \in Nat, now <= pts[Len(pts)].time, NEW handed,
         Filled(b, pts, now, handed)
  PROVE  Filled(b, Append(pts, q), now, handed)
  <1> DEFINE head == now \div Granularity
             more == Append(pts, q)
  <1>1. head \in Int /\ head * Granularity <= now
    BY InBin
  <1> HIDE DEF head, more
  <1>2. ASSUME NEW k \in Int, k <= head
        PROVE  Produced(more, k * Granularity) = Produced(pts, k * Granularity)
    <2>1. pts[Len(pts)].time \in Nat
      BY ChronicleType
    <2>2. k * Granularity \in Int /\ head * Granularity \in Int /\ k * Granularity <= head * Granularity
      BY SMTT(60), <1>1, <1>2, EarlierBin
    <2>3. k * Granularity <= pts[Len(pts)].time
      BY <1>1, <2>1, <2>2
    <2>. QED
      BY <2>2, <2>3, ProducedStable DEF more
  <1>3. b[1] = (handed - Produced(more, head * Granularity)) % BinLimit
    BY <1>1, <1>2 DEF Filled, head
  <1>4. ASSUME NEW i \in 2 .. NumBins
        PROVE  b[i] = (Produced(more, (head - i + 2) * Granularity)
                         - Produced(more, (head - i + 1) * Granularity)) % BinLimit
    <2>1. head - i + 2 \in Int /\ head - i + 1 \in Int /\ head - i + 2 <= head /\ head - i + 1 <= head
      BY <1>1
    <2>2. b[i] = (Produced(pts, (head - i + 2) * Granularity)
                    - Produced(pts, (head - i + 1) * Granularity)) % BinLimit
      BY DEF Filled, head
    <2>. QED
      BY <1>2, <2>1, <2>2
  <1>. QED
    BY <1>3, <1>4 DEF Filled, head, more

\* What is handed out within a bin goes to its head.
LEMMA FilledAdd ==
  ASSUME NEW pts, Chronicle(pts), NEW b \in [1 .. NumBins -> Int],
         NEW now \in Nat, NEW now2 \in Nat, now2 \div Granularity = now \div Granularity,
         NEW handed \in Int, NEW handed2 \in Int,
         Filled(b, pts, now, handed)
  PROVE  /\ AddToHead(b, handed2 - handed) \in [1 .. NumBins -> Int]
         /\ Filled(AddToHead(b, handed2 - handed), pts, now2, handed2)
  <1> DEFINE head == now \div Granularity
             start == Produced(pts, head * Granularity)
             c == AddToHead(b, handed2 - handed)
  <1>1. start \in Int
    <2>1. head * Granularity \in Int
      BY InBin, EarlierBin
    <2>. QED
      BY <2>1, ProducedType
  <1>2. b[1] = (handed - start) % BinLimit
    BY DEF Filled
  <1>3. NumBins \in Nat /\ 1 \in 1 .. NumBins /\ BinLimit \in Nat \ {0}
    BY RateAssumption
  <1>4. (b[1] + (handed2 - handed)) % BinLimit = (handed2 - start) % BinLimit
    <2> HIDE DEF start
    <2>1. handed - start \in Int /\ handed2 - handed \in Int
      BY <1>1
    <2>2. (b[1] + (handed2 - handed)) % BinLimit = ((handed - start) + (handed2 - handed)) % BinLimit
      BY <1>2, <2>1, CountOn
    <2>3. (handed - start) + (handed2 - handed) = handed2 - start
      BY <1>1
    <2>. QED
      BY <2>2, <2>3
  <1>5. (b[1] + (handed2 - handed)) % BinLimit \in Int
    <2>1. b[1] + (handed2 - handed) \in Int
      BY <1>3
    <2>. QED
      BY <1>3, <2>1, Quotient
  <1>6. /\ c \in [1 .. NumBins -> Int]
        /\ c[1] = (b[1] + (handed2 - handed)) % BinLimit
        /\ \A i \in 2 .. NumBins : c[i] = b[i]
    <2>1. c = [b EXCEPT ![1] = (b[1] + (handed2 - handed)) % BinLimit]
      BY DEF AddToHead
    <2>2. \A i \in 2 .. NumBins : i \in 1 .. NumBins /\ i # 1
      BY <1>3
    <2>. QED
      BY <1>3, <1>5, <2>1, <2>2
  <1> HIDE DEF c, start
  <1>7. c[1] = (handed2 - start) % BinLimit
    BY <1>4, <1>6
  <1>8. \A i \in 2 .. NumBins :
          c[i] = (Produced(pts, (head - i + 2) * Granularity)
                    - Produced(pts, (head - i + 1) * Granularity)) % BinLimit
    BY <1>6 DEF Filled
  <1>9. Filled(c, pts, now2, handed2)
    BY <1>7, <1>8 DEF Filled, start
  <1>. QED
    BY <1>6, <1>9 DEF c

\* The buffer is a sequence, and its head moves on by one.
LEMMA PushedFront ==
  ASSUME NEW b \in [1 .. NumBins -> Int]
  PROVE  /\ PushFront(b) \in [1 .. NumBins -> Int]
         /\ PushFront(b)[1] = 0
         /\ \A i \in 2 .. NumBins : PushFront(b)[i] = b[i - 1]
  <1>1. PICK n : n = NumBins
    OBVIOUS
  <1>2. n \in Nat \ {0}
    BY <1>1, RateAssumption
  <1>3. b \in Seq(Int) /\ Len(b) = n
    BY <1>1, <1>2
  <1>4. /\ SubSeq(b, 1, n - 1) \in Seq(Int) /\ Len(SubSeq(b, 1, n - 1)) = n - 1
        /\ \A i \in 1 .. n - 1 : SubSeq(b, 1, n - 1)[i] = b[i]
    <2>1. PICK m : m = n - 1
      OBVIOUS
    <2>2. m \in Nat /\ m <= n
      BY <1>2, <2>1
    <2>3. \A i \in 1 .. m : b[i] \in Int
      BY <1>1, <1>2, <2>2
    <2>4. /\ SubSeq(b, 1, m) \in Seq(Int)
          /\ Len(SubSeq(b, 1, m)) = IF 1 <= m THEN m - 1 + 1 ELSE 0
          /\ \A i \in 1 .. m - 1 + 1 : SubSeq(b, 1, m)[i] = b[1 + i - 1]
      BY <2>2, <2>3, SubSeqProperties
    <2>5. m - 1 + 1 = m /\ \A i \in 1 .. m : 1 + i - 1 = i
      BY <2>2
    <2>6. Len(SubSeq(b, 1, m)) = m
      BY <2>2, <2>4
    <2>. QED
      BY <2>1, <2>4, <2>5, <2>6
  <1>5. /\ PushFront(b) \in Seq(Int) /\ Len(PushFront(b)) = n
        /\ PushFront(b)[1] = 0
        /\ \A i \in 2 .. n : PushFront(b)[i] = SubSeq(b, 1, n - 1)[i - 1]
    BY <1>1, <1>2, <1>4 DEF PushFront
  <1>6. \A i \in 2 .. n : i - 1 \in 1 .. n - 1
    BY <1>2
  <1>. QED
    BY <1>1, <1>2, <1>4, <1>5, <1>6

\* When the boundary is reached, the bin at the head is complete.
LEMMA FilledPush ==
  ASSUME NEW pts, Chronicle(pts), NEW b \in [1 .. NumBins -> Int],
         NEW now \in Nat, NEW now2 \in Nat, now2 = (now \div Granularity + 1) * Granularity,
         NEW handed, handed = Produced(pts, now2),
         Filled(b, pts, now, handed)
  PROVE  Filled(PushFront(b), pts, now2, handed)
  <1> DEFINE head == now \div Granularity
             c == PushFront(b)
  <1>1. head \in Int
    BY InBin
  <1> HIDE DEF head
  <1>2. now2 = (head + 1) * Granularity /\ head + 1 \in Int
    BY <1>1 DEF head
  <1>3. now2 \div Granularity = head + 1
    BY <1>2, BoundaryBin
  <1>4. c[1] = 0 /\ \A i \in 2 .. NumBins : c[i] = b[i - 1]
    BY PushedFront
  <1> HIDE DEF c
  <1>5. handed \in Int /\ BinLimit \in Nat \ {0} /\ NumBins \in Nat
    BY ProducedType, RateAssumption
  <1>6. c[1] = (handed - Produced(pts, (head + 1) * Granularity)) % BinLimit
    <2>1. handed - Produced(pts, (head + 1) * Granularity) = 0
      BY <1>2, <1>5
    <2>2. 0 % BinLimit = 0
      BY <1>5
    <2>. QED
      BY <1>4, <2>1, <2>2
  <1>7. ASSUME NEW i \in 2 .. NumBins
        PROVE  c[i] = (Produced(pts, ((head + 1) - i + 2) * Granularity)
                         - Produced(pts, ((head + 1) - i + 1) * Granularity)) % BinLimit
    <2>1. CASE i = 2
      <3>1. (head + 1) - i + 2 = head + 1 /\ (head + 1) - i + 1 = head /\ i - 1 = 1
        BY <1>1, <2>1
      <3>2. b[1] = (Produced(pts, (head + 1) * Granularity) - Produced(pts, head * Granularity)) % BinLimit
        BY <1>2 DEF Filled, head
      <3>. QED
        BY <1>4, <3>1, <3>2
    <2>2. CASE i # 2
      <3>1. i - 1 \in 2 .. NumBins
        BY <1>5, <2>2
      <3>2. (head + 1) - i + 2 = head - (i - 1) + 2 /\ (head + 1) - i + 1 = head - (i - 1) + 1
        BY <1>1, <1>7
      <3>3. b[i - 1] = (Produced(pts, (head - (i - 1) + 2) * Granularity)
                          - Produced(pts, (head - (i - 1) + 1) * Granularity)) % BinLimit
        BY <3>1 DEF Filled, head
      <3>. QED
        BY <1>4, <3>2, <3>3
    <2>. QED
      BY <2>1, <2>2
  <1>8. Filled(c, pts, now2, handed)
    BY <1>3, <1>6, <1>7 DEF Filled
  <1>. QED
    BY <1>8 DEF c

-----------------------------------------------------------------------------
LEMMA BinsInit == Init => BinsInv
  <1> SUFFICES ASSUME Init PROVE BinsInv
    OBVIOUS
  <1>1. bins \in [1 .. NumBins -> Int]
    BY DEF Init
  <1>. QED
    BY <1>1 DEF Init, BinsInv

\* Nothing was produced yet when the first point is accepted.
LEMMA FirstUpdateFills ==
  ASSUME IInv, BinsInv, NEW bytes, NEW timestamp, FirstUpdate(bytes, timestamp)
  PROVE  BinsInv'
  <1> DEFINE q   == [time |-> timestamp, bytes |-> bytes]
             pts == <<q>>
  <1>1. bytes \in Nat /\ timestamp \in Nat /\ Nothing \notin Nat
    BY CalledType, RateAssumption DEF FirstUpdate
  <1>2. points = <<>> /\ bins = [i \in 1 .. NumBins |-> 0] /\ ~walk.running
    BY DEF FirstUpdate, BinsInv, Called, Idle
  <1>3. /\ points' = pts /\ bins' = bins /\ walk' = walk
        /\ current_time' = timestamp /\ current_bytes' = bytes
    BY <1>2 DEF FirstUpdate, Accepted
  <1>4. q \in Point /\ q.time = timestamp /\ q.bytes = bytes
    BY <1>1 DEF Point
  <1> HIDE DEF q
  <1>5. pts \in Seq(Point) /\ Len(pts) = 1 /\ pts[1] = q /\ DOMAIN pts = {1} /\ pts # <<>>
    BY <1>4
  <1> HIDE DEF pts
  <1>6. \A x \in Int : IF timestamp < x THEN Cut(pts, x, 1) ELSE Cut(pts, x, 0)
    BY <1>1, <1>4, <1>5 DEF Cut
  <1>7. Chronicle(pts)
    <2>1. \A i \in 1 .. Len(pts) : i = 1
      BY <1>5
    <2>2. \A x \in Int : \E k \in 0 .. Len(pts) : Cut(pts, x, k)
      BY <1>5, <1>6
    <2>. QED
      BY <1>1, <1>4, <1>5, <2>1, <2>2 DEF Chronicle
  <1>8. \A x \in Int : x <= timestamp => Produced(pts, x) = bytes
    BY <1>1, <1>4, <1>5, <1>6, ProducedAt
  <1>9. PICK head : head = timestamp \div Granularity
    OBVIOUS
  <1>10. ASSUME NEW k \in Int, k <= head
         PROVE  Produced(pts, k * Granularity) = bytes
    <2>1. head \in Int /\ head * Granularity <= timestamp
      BY <1>1, <1>9, InBin
    <2>2. k * Granularity \in Int /\ k * Granularity <= head * Granularity /\ head * Granularity \in Int
      BY <1>10, <2>1, EarlierBin
    <2>3. k * Granularity <= timestamp
      BY <1>1, <2>1, <2>2
    <2>. QED
      BY <1>8, <2>2, <2>3
  <1>11. Filled(bins, pts, timestamp, bytes)
    <2>1. head \in Int /\ NumBins \in Nat /\ 1 \in 1 .. NumBins /\ BinLimit \in Nat \ {0}
      BY <1>1, <1>9, InBin, RateAssumption
    <2>2. (bytes - bytes) % BinLimit = 0
      BY <1>1, <2>1
    <2>3. bins[1] = (bytes - Produced(pts, head * Granularity)) % BinLimit
      BY <1>2, <1>10, <2>1, <2>2
    <2>4. ASSUME NEW i \in 2 .. NumBins
          PROVE  bins[i] = (Produced(pts, (head - i + 2) * Granularity)
                              - Produced(pts, (head - i + 1) * Granularity)) % BinLimit
      <3>1. head - i + 2 \in Int /\ head - i + 2 <= head /\ head - i + 1 \in Int /\ head - i + 1 <= head
        BY <2>1
      <3>2. bins[i] = 0
        BY <1>2, <2>1
      <3>. QED
        BY <1>10, <2>2, <3>1, <3>2
    <2>. QED
      BY <1>9, <2>3, <2>4 DEF Filled
  <1>12. /\ Upcoming' = pts /\ Now' = timestamp /\ HandedOut' = bytes
    BY <1>2, <1>3 DEF Upcoming, Now, HandedOut
  <1>13. Filled(bins, Upcoming, Now, HandedOut)'
    BY <1>3, <1>11, <1>12 DEF Filled
  <1>14. points'[Len(points')] = [time |-> current_time', bytes |-> current_bytes']
    BY <1>3, <1>5 DEF q
  <1>15. bins' \in [1 .. NumBins -> Int]
    BY <1>3 DEF BinsInv
  <1>. QED
    BY <1>1, <1>3, <1>5, <1>7, <1>13, <1>14, <1>15 DEF BinsInv

\* Between updates.
LEMMA IdleFilled ==
  ASSUME IInv, BinsInv, current_time # Nothing
  PROVE  /\ Chronicle(points) /\ current_time \in Nat /\ current_bytes \in Nat
         /\ points[Len(points)] = [time |-> current_time, bytes |-> current_bytes]
         /\ points[Len(points)].time = current_time /\ points[Len(points)].bytes = current_bytes
         /\ Filled(bins, Upcoming, Now, HandedOut)
         /\ ~walk.running => Filled(bins, points, current_time, current_bytes)
  BY DEF IInv, BinsInv, Upcoming, Now, HandedOut

LEMMA UpdateInPlaceFills ==
  ASSUME IInv, BinsInv, NEW bytes, NEW timestamp, UpdateInPlace(bytes, timestamp)
  PROVE  BinsInv'
  <1> DEFINE q == [time |-> timestamp, bytes |-> bytes]
             more == Append(points, q)
  <1>1. bytes \in Nat /\ timestamp \in Nat
    BY CalledType DEF UpdateInPlace
  <1>2. ~walk.running /\ timestamp = current_time /\ current_time # Nothing
    BY DEF UpdateInPlace, Called, Idle
  <1>3. /\ points' = more /\ bins' = AddToHead(bins, bytes - current_bytes)
        /\ current_time' = timestamp /\ current_bytes' = bytes /\ walk' = walk
    BY <1>2 DEF UpdateInPlace, Accepted
  <1>4. q \in Point /\ q.time = timestamp
    BY <1>1 DEF Point
  <1> HIDE DEF q
  <1>5. /\ Chronicle(points) /\ current_time \in Nat /\ current_bytes \in Nat
        /\ points[Len(points)].time = current_time
        /\ Filled(bins, points, current_time, current_bytes)
    BY <1>2, IdleFilled
  <1>6. /\ Chronicle(more) /\ more[Len(more)] = q
        /\ Filled(bins, more, current_time, current_bytes)
    <2>1. current_time <= timestamp
      BY <1>1, <1>2
    <2>. QED
      BY <1>2, <1>4, <1>5, <2>1, Appended, FilledStable
  <1> HIDE DEF more
  <1>7. /\ AddToHead(bins, bytes - current_bytes) \in [1 .. NumBins -> Int]
        /\ Filled(AddToHead(bins, bytes - current_bytes), more, timestamp, bytes)
    BY <1>1, <1>2, <1>5, <1>6, FilledAdd DEF BinsInv
  <1>8. Upcoming' = more /\ Now' = timestamp /\ HandedOut' = bytes
    BY <1>2, <1>3 DEF Upcoming, Now, HandedOut
  <1>9. Filled(bins, Upcoming, Now, HandedOut)'
    BY <1>3, <1>7, <1>8 DEF Filled
  <1>10. more # <<>> /\ timestamp # Nothing
    BY <1>2, <1>6 DEF Chronicle
  <1>. QED
    BY <1>3, <1>6, <1>7, <1>9, <1>10 DEF BinsInv, q

LEMMA BeginWalkFills ==
  ASSUME IInv, BinsInv, NEW bytes, NEW timestamp, BeginWalk(bytes, timestamp)
  PROVE  BinsInv'
  <1> DEFINE q == [time |-> timestamp, bytes |-> bytes]
             more == Append(points, q)
  <1>1. bytes \in Nat /\ timestamp \in Nat
    BY CalledType DEF BeginWalk
  <1>2. ~walk.running /\ current_time < timestamp /\ current_time # Nothing
    <2>1. ~walk.running /\ timestamp > current_time /\ current_time # Nothing
      BY DEF BeginWalk, Called, Idle
    <2>. QED
      BY <1>1, <2>1 DEF IInv
  <1>3. /\ UNCHANGED <<points, bins, current_time, current_bytes>>
        /\ walk' = [timestamp |-> timestamp, bytes |-> bytes, cursor |-> current_time,
                    assigned |-> 0, running |-> TRUE]
    BY DEF BeginWalk
  <1>4. q \in Point /\ q.time = timestamp
    BY <1>1 DEF Point
  <1>5. /\ Chronicle(points) /\ current_time \in Nat /\ current_bytes \in Nat
        /\ points[Len(points)].time = current_time
        /\ Filled(bins, points, current_time, current_bytes)
    BY <1>2, IdleFilled
  <1>6. Filled(bins, more, current_time, current_bytes)
    <2>1. current_time <= timestamp
      BY <1>1, <1>2, <1>5
    <2> HIDE DEF q
    <2>. QED
      BY <1>2, <1>4, <1>5, <2>1, FilledStable
  <1>7. Upcoming' = more /\ Now' = current_time /\ HandedOut' = current_bytes
    <2>1. walk'.running /\ walk'.timestamp = timestamp /\ walk'.bytes = bytes
          /\ walk'.cursor = current_time /\ walk'.assigned = 0
      BY <1>3
    <2>. QED
      BY <1>3, <1>5, <2>1 DEF Upcoming, Now, HandedOut
  <1> HIDE DEF more
  <1>8. Filled(bins, Upcoming, Now, HandedOut)'
    BY <1>3, <1>6, <1>7 DEF Filled
  <1>9. Chronicle(points)'
    BY <1>3, <1>5 DEF Chronicle, Cut
  <1>. QED
    BY <1>3, <1>8, <1>9 DEF BinsInv

\* A step of the walk hands out what was produced up to the new cursor.
LEMMA WalkStepFills ==
  ASSUME IInv, BinsInv, WalkStep
  PROVE  BinsInv'
  <1> DEFINE q      == [time |-> walk.timestamp, bytes |-> walk.bytes]
             more   == Append(points, q)
             head   == walk.cursor \div Granularity
             handed == current_bytes + walk.assigned
  <1>1. PICK next : next = NextCursor
    OBVIOUS
  <1>2. PICK share : share = Through(next)
    OBVIOUS
  <1>3. PICK filled : filled = AddToHead(bins, share - walk.assigned)
    OBVIOUS
  <1>4. /\ walk.running /\ walk.cursor \in Nat /\ walk.timestamp \in Nat /\ walk.bytes \in Nat
        /\ walk.assigned \in Int
        /\ walk.cursor < walk.timestamp
        /\ current_time \in Nat /\ current_bytes \in Nat /\ current_time # Nothing
        /\ current_time <= walk.cursor /\ current_bytes <= walk.bytes
        /\ UNCHANGED <<current_time, current_bytes, points>>
    BY RateAssumption DEF WalkStep, IInv, WalkInPlace
  <1>5. /\ NextBoundary(walk.cursor) = (head + 1) * Granularity
        /\ NextBoundary(walk.cursor) \in Nat /\ walk.cursor < NextBoundary(walk.cursor)
        /\ next = IF NextBoundary(walk.cursor) < walk.timestamp
                  THEN NextBoundary(walk.cursor) ELSE walk.timestamp
    BY <1>1, <1>4, BoundaryAhead DEF NextBoundary, NextCursor
  <1>6. /\ next \in Nat /\ walk.cursor < next /\ next <= walk.timestamp /\ current_time < next
        /\ next <= NextBoundary(walk.cursor)
    BY <1>4, <1>5
  <1>7. head \in Int /\ head * Granularity <= walk.cursor
    BY <1>4, InBin
  <1> HIDE DEF head
  <1>8. /\ Chronicle(points)
        /\ points[Len(points)].time = current_time /\ points[Len(points)].bytes = current_bytes
        /\ points[Len(points)] = [time |-> current_time, bytes |-> current_bytes]
        /\ Filled(bins, Upcoming, Now, HandedOut)
    BY <1>4, IdleFilled
  <1>9. q \in Point /\ q.time = walk.timestamp /\ q.bytes = walk.bytes
    BY <1>4 DEF Point
  <1>10. Filled(bins, more, walk.cursor, handed)
    BY <1>4, <1>8 DEF Upcoming, Now, HandedOut
  <1> HIDE DEF q
  <1>11. Chronicle(more)
    BY <1>4, <1>8, <1>9, Appended
  <1>12. Produced(more, next) = current_bytes + share
    <2>1. Produced(more, next) = current_bytes + ((walk.bytes - current_bytes) * (next - current_time))
                                                    \div (walk.timestamp - current_time)
      BY <1>6, <1>8, <1>9, ProducedInside
    <2>. QED
      BY <1>2, <2>1 DEF Through, ByteDelta, TimeDelta
  <1>13. share \in Int
    <2>1. TimeDelta \in Nat \ {0} /\ ByteDelta * (next - current_time) \in Int
      BY <1>4, <1>6 DEF TimeDelta, ByteDelta
    <2>. QED
      BY <1>2, <2>1, Quotient DEF Through
  <1> HIDE DEF more
  <1>14. handed \in Int /\ current_bytes + share \in Int
         /\ (current_bytes + share) - handed = share - walk.assigned
    BY <1>4, <1>13
  <1> HIDE DEF handed
  <1>15. bins \in [1 .. NumBins -> Int]
    BY DEF BinsInv
  <1>16. filled \in [1 .. NumBins -> Int] /\ Filled(filled, more, walk.cursor, current_bytes + share)
    BY <1>3, <1>4, <1>10, <1>11, <1>14, <1>15, FilledAdd
  <1>17. /\ bins' = IF next = NextBoundary(walk.cursor) THEN PushFront(filled) ELSE filled
         /\ walk' = [walk EXCEPT !.cursor = next, !.assigned = share]
    BY <1>1, <1>2, <1>3 DEF WalkStep, Crosses
  <1>18. /\ bins' \in [1 .. NumBins -> Int]
         /\ Filled(bins', more, next, current_bytes + share)
    <2>1. CASE next = NextBoundary(walk.cursor)
      <3>1. Filled(PushFront(filled), more, next, current_bytes + share)
        BY <1>4, <1>5, <1>6, <1>11, <1>12, <1>16, <2>1, FilledPush DEF head
      <3>. QED
        BY <1>16, <1>17, <2>1, <3>1, PushedFront
    <2>2. CASE next # NextBoundary(walk.cursor)
      <3>1. head * Granularity \in Int
        BY <1>7, EarlierBin
      <3>2. head * Granularity <= next /\ next < (head + 1) * Granularity
        BY <1>4, <1>5, <1>6, <1>7, <2>2, <3>1
      <3>3. next \div Granularity = walk.cursor \div Granularity
        BY <1>6, <1>7, <3>2, TheBin DEF head
      <3>4. Filled(filled, more, next, current_bytes + share)
        BY <1>3, <1>4, <1>6, <1>10, <1>11, <1>14, <1>15, <3>3, FilledAdd
      <3>. QED
        BY <1>16, <1>17, <2>2, <3>4
    <2>. QED
      BY <2>1, <2>2
  <1>19. Upcoming' = more /\ Now' = next /\ HandedOut' = current_bytes + share
    <2>1. /\ walk'.running /\ walk'.timestamp = walk.timestamp /\ walk'.bytes = walk.bytes
          /\ walk'.cursor = next /\ walk'.assigned = share
      BY <1>4, <1>17 DEF IInv
    <2>. QED
      BY <1>4, <2>1 DEF Upcoming, Now, HandedOut, more, q
  <1>20. Filled(bins, Upcoming, Now, HandedOut)'
    BY <1>18, <1>19 DEF Filled
  <1>21. Chronicle(points)'
    BY <1>4, <1>8 DEF Chronicle, Cut
  <1>22. points # <<>>
    BY <1>8 DEF Chronicle
  <1>. QED
    BY <1>4, <1>8, <1>18, <1>20, <1>21, <1>22 DEF BinsInv

\* When the walk ends, all the bytes of the update are handed out.
LEMMA EndWalkFills ==
  ASSUME IInv, BinsInv, EndWalk
  PROVE  BinsInv'
  <1> DEFINE q    == [time |-> walk.timestamp, bytes |-> walk.bytes]
             more == Append(points, q)
  <1>1. /\ walk.running /\ walk.cursor \in Nat /\ walk.timestamp \in Nat /\ walk.bytes \in Nat
        /\ walk.cursor = walk.timestamp /\ walk.assigned = Through(walk.timestamp)
        /\ current_time \in Nat /\ current_bytes \in Nat /\ current_time # Nothing
        /\ current_time < walk.timestamp
    BY RateAssumption DEF EndWalk, IInv, WalkInPlace
  <1>2. current_bytes + walk.assigned = walk.bytes
    <2>1. TimeDelta \in Nat \ {0} /\ ByteDelta \in Int
      BY <1>1 DEF TimeDelta, ByteDelta
    <2>2. Through(walk.timestamp) = (ByteDelta * TimeDelta) \div TimeDelta
      BY DEF Through, TimeDelta
    <2>3. walk.assigned = ByteDelta
      BY <1>1, <2>1, <2>2, ExactQuotient
    <2>. QED
      BY <1>1, <2>3 DEF ByteDelta
  <1>3. /\ points' = more /\ bins' = bins
        /\ current_time' = walk.timestamp /\ current_bytes' = walk.bytes
        /\ ~walk'.running
    BY <1>1 DEF EndWalk, Accepted, NoWalk
  <1>4. /\ Chronicle(points)
        /\ points[Len(points)].time = current_time
        /\ Filled(bins, Upcoming, Now, HandedOut)
    BY <1>1, IdleFilled
  <1>5. q \in Point /\ q.time = walk.timestamp
    BY <1>1 DEF Point
  <1>6. Filled(bins, more, walk.timestamp, walk.bytes)
    BY <1>1, <1>2, <1>4 DEF Upcoming, Now, HandedOut
  <1> HIDE DEF q
  <1>7. Chronicle(more) /\ more[Len(more)] = q
    <2>1. points[Len(points)].time <= q.time
      BY <1>1, <1>4, <1>5
    <2>. QED
      BY <1>4, <1>5, <2>1, Appended
  <1> HIDE DEF more
  <1>8. Upcoming' = more /\ Now' = walk.timestamp /\ HandedOut' = walk.bytes
    BY <1>3 DEF Upcoming, Now, HandedOut
  <1>9. Filled(bins, Upcoming, Now, HandedOut)'
    BY <1>3, <1>6, <1>8 DEF Filled
  <1>10. more # <<>> /\ walk.timestamp # Nothing
    BY <1>1, <1>7, RateAssumption DEF Chronicle
  <1>. QED
    BY <1>3, <1>7, <1>9, <1>10 DEF BinsInv, q

LEMMA BinsNext == IInv /\ BinsInv /\ [Next]_vars => BinsInv'
  <1> SUFFICES ASSUME IInv, BinsInv, [Next]_vars PROVE BinsInv'
    OBVIOUS
  <1>1. CASE UNCHANGED vars
    BY <1>1 DEF vars, BinsInv, Upcoming, Now, HandedOut, Filled, Chronicle, Cut
  <1>2. CASE WalkStep
    BY <1>2, WalkStepFills
  <1>3. CASE EndWalk
    BY <1>3, EndWalkFills
  <1>4. ASSUME NEW bytes \in 0 .. MaxBytes, NEW timestamp \in 0 .. MaxTime,
               \/ FirstUpdate(bytes, timestamp) \/ UpdateInPlace(bytes, timestamp)
               \/ BeginWalk(bytes, timestamp) \/ IgnoreUpdate(bytes, timestamp)
        PROVE  BinsInv'
    <2>1. CASE FirstUpdate(bytes, timestamp)
      BY <2>1, FirstUpdateFills
    <2>2. CASE UpdateInPlace(bytes, timestamp)
      BY <2>2, UpdateInPlaceFills
    <2>3. CASE BeginWalk(bytes, timestamp)
      BY <2>3, BeginWalkFills
    <2>4. CASE IgnoreUpdate(bytes, timestamp)
      BY <1>1, <2>4 DEF IgnoreUpdate
    <2>. QED
      BY <1>4, <2>1, <2>2, <2>3, <2>4
  <1>. QED
    BY <1>1, <1>2, <1>3, <1>4 DEF Next

LEMMA BinsInvariance == Spec => [](IInv /\ BinsInv)
  BY InitEstablishes, NextKeeps, BinsInit, BinsNext, PTL DEF Spec

\* Between updates every bin holds exactly what was produced in its own stretch of
\* time, modulo the width of its counter: whatever the window, the granularity and
\* the updates (update and its walk over the bins).
THEOREM BinsAlwaysHoldTheirBytes == Spec => []BinsHoldTheirBytes
  <1>1. IInv /\ BinsInv => BinsHoldTheirBytes
    <2> SUFFICES ASSUME IInv, BinsInv, Idle, points # <<>>, NEW i \in 1 .. NumBins
                 PROVE  LET k == Newest - i + 1 IN
                        bins[i] = (ProducedBefore((k + 1) * Granularity)
                                     - ProducedBefore(k * Granularity)) % BinLimit
      BY DEF BinsHoldTheirBytes
    <2>1. /\ Chronicle(points) /\ current_time \in Nat
          /\ points[Len(points)].time = current_time /\ points[Len(points)].bytes = current_bytes
          /\ Filled(bins, points, current_time, current_bytes)
      BY IdleFilled DEF BinsInv, Idle
    <2>2. \A x : ProducedBefore(x) = Produced(points, x)
      BY DEF ProducedBefore, Produced, Cut
    <2>3. /\ Newest \in Int /\ Newest = current_time \div Granularity
          /\ current_time < (Newest + 1) * Granularity
      BY <2>1, InBin DEF Newest
    <2>4. CASE i = 1
      <3>1. Newest - i + 1 = Newest /\ Newest + 1 \in Int
        BY <2>3, <2>4
      <3>2. (Newest + 1) * Granularity \in Int
        BY <3>1, EarlierBin
      <3>3. Produced(points, (Newest + 1) * Granularity) = current_bytes
        BY <2>1, <2>3, <3>2, ProducedAfter
      <3>4. bins[1] = (current_bytes - Produced(points, Newest * Granularity)) % BinLimit
        BY <2>1, <2>3 DEF Filled
      <3>. QED
        BY <2>2, <2>4, <3>1, <3>3, <3>4
    <2>5. CASE i # 1
      <3>1. i \in 2 .. NumBins
        BY <2>5, RateAssumption
      <3>2. (Newest - i + 1) + 1 = Newest - i + 2
        BY <2>3
      <3>3. bins[i] = (Produced(points, (Newest - i + 2) * Granularity)
                         - Produced(points, (Newest - i + 1) * Granularity)) % BinLimit
        BY <2>1, <2>3, <3>1 DEF Filled
      <3>. QED
        BY <2>2, <3>2, <3>3
    <2>. QED
      BY <2>4, <2>5
  <1>. QED
    BY <1>1, BinsInvariance, PTL
=============================================================================
