------------------------------ MODULE MergeProofs ------------------------------
(***************************************************************************)
(* Proofs about the merging of traces, for any number of frames with any   *)
(* number of chunks and events, any threshold and wherever the rounded     *)
(* break points fall.                                                      *)
(*                                                                         *)
(* Parts 1 to 5 are about merge_children.  Part 1: the ids tell the chunks *)
(* of a frame apart, and sections and groups are handled in the order of   *)
(* each trace.  Part 2: find_lcs returns ids that all sequences have in    *)
(* this order.  Part 3: the groups are called in the order of the chunks   *)
(* of each trace.  Part 4: the new frame holds the merged chunks, in the   *)
(* order of the calls.  Part 5: the chunks merged from all traces are a    *)
(* longest selection that all traces have in this order.                   *)
(*                                                                         *)
(* Parts 6 to 10 are about the events of the root frames.  Part 6: scaling *)
(* keeps points in order and in the range of the new frame.  Part 7: the   *)
(* frames that were lost are sorted.  Part 8: what has been zipped and     *)
(* what is left to zip are together all occurrences.  Part 9: the          *)
(* inductive invariant of the merging of events.  Part 10: merging does    *)
(* not panic, and no occurrence is lost.                                   *)
(***************************************************************************)
EXTENDS MergeEvents, FramesProofs, FiniteSetTheorems

-----------------------------------------------------------------------------
(***************************************************************************)
(* Part 1.  Frames to merge, and the ids of their chunks.                  *)
(***************************************************************************)

\* the frames to merge
AreOriginals(ps) ==
  /\ Len(ps) \in Nat \ {0} /\ DOMAIN ps = 1 .. Len(ps)
  /\ \A t \in DOMAIN ps : IsOriginal(ps[t])

\* what a frame to merge consists of
LEMMA OriginalFields ==
  ASSUME NEW ps, AreOriginals(ps)
  PROVE  /\ Len(ps) \in Nat /\ Len(ps) >= 1 /\ DOMAIN ps = 1 .. Len(ps)
         /\ \A t \in DOMAIN ps :
              /\ ps[t].start \in Point /\ ps[t].end \in Point
              /\ Len(ps[t].chunks) \in Nat /\ DOMAIN ps[t].chunks = 1 .. Len(ps[t].chunks)
              /\ WellFormed(ps[t])
              /\ \A i \in DOMAIN ps[t].chunks :
                   ps[t].chunks[i].start \in Point /\ ps[t].chunks[i].end \in Point
  BY DEF AreOriginals, IsOriginal

\* A part of a finite set that lacks one of its elements is smaller.
LEMMA ProperPart ==
  ASSUME NEW S, IsFiniteSet(S), NEW T, T \subseteq S, NEW x, x \in S, x \notin T
  PROVE  Cardinality(T) # Cardinality(S)
  BY FS_Subset

\* No two chunks of a frame have the same key.
LEMMA KeysDiffer ==
  ASSUME NEW p, Len(p.chunks) \in Nat, DOMAIN p.chunks = 1 .. Len(p.chunks),
         NEW i \in DOMAIN p.chunks, NEW j \in DOMAIN p.chunks, i < j
  PROVE  Key(p, i) # Key(p, j)
  <1> DEFINE Same(k, m) == p.chunks[m].symbol = p.chunks[k].symbol
             Earlier(k) == {m \in 1 .. k - 1 : Same(k, m)}
  <1> SUFFICES ASSUME p.chunks[i].symbol = p.chunks[j].symbol
               PROVE  Cardinality(Earlier(i)) # Cardinality(Earlier(j))
    BY DEF Key
  <1>1. Earlier(i) \subseteq Earlier(j) /\ i \in Earlier(j) /\ i \notin Earlier(i)
    OBVIOUS
  <1>2. IsFiniteSet(Earlier(j))
    <2>1. IsFiniteSet(1 .. j - 1)
      BY FS_Interval
    <2>. QED
      BY <2>1, FS_Subset
  <1> HIDE DEF Earlier
  <1>. QED
    BY <1>1, <1>2, ProperPart

\* There are finitely many chunks.
LEMMA PlacesFinite ==
  ASSUME NEW ps, AreOriginals(ps)
  PROVE  IsFiniteSet(Places(ps))
  <1> DEFINE Row(t) == {t} \X DOMAIN ps[t].chunks
             rows == {Row(t) : t \in DOMAIN ps}
             row == [t \in DOMAIN ps |-> Row(t)]
  <1>1. IsFiniteSet(rows)
    <2>1. IsFiniteSet(DOMAIN ps)
      BY OriginalFields, FS_Interval
    <2>2. row \in Surjection(DOMAIN ps, rows)
      BY DEF Surjection
    <2>. QED
      BY <2>1, <2>2, FS_Surjection
  <1>2. ASSUME NEW T \in rows
        PROVE  IsFiniteSet(T)
    <2>1. PICK t \in DOMAIN ps : T = Row(t)
      OBVIOUS
    <2>2. IsFiniteSet({t}) /\ IsFiniteSet(DOMAIN ps[t].chunks)
      <3>1. PICK n : n = Len(ps[t].chunks)
        OBVIOUS
      <3>2. n \in Nat /\ DOMAIN ps[t].chunks = 1 .. n
        BY <3>1, OriginalFields
      <3>3. IsFiniteSet(1 .. n)
        BY <3>2, FS_Interval
      <3>. QED
        BY <3>2, <3>3, FS_Singleton
    <2>. QED
      BY <2>1, <2>2, FS_Product
  <1>3. Places(ps) = UNION rows
    BY DEF Places
  <1> HIDE DEF rows
  <1>. QED
    BY <1>1, <1>2, <1>3, FS_UNION

\* where a chunk is
LEMMA PlaceOf ==
  ASSUME NEW ps, AreOriginals(ps)
  PROVE  /\ \A p \in Places(ps) : /\ p = <<p[1], p[2]>> /\ p[1] \in Nat /\ p[2] \in Nat
                                  /\ p[1] \in DOMAIN ps /\ p[2] \in DOMAIN ps[p[1]].chunks
         /\ \A t \in DOMAIN ps : \A i \in DOMAIN ps[t].chunks : <<t, i>> \in Places(ps)
  <1>1. ASSUME NEW p \in Places(ps)
        PROVE  /\ p = <<p[1], p[2]>> /\ p[1] \in Nat /\ p[2] \in Nat
               /\ p[1] \in DOMAIN ps /\ p[2] \in DOMAIN ps[p[1]].chunks
    <2>1. PICK t \in DOMAIN ps : p \in {t} \X DOMAIN ps[t].chunks
      BY DEF Places
    <2>2. PICK i \in DOMAIN ps[t].chunks : p = <<t, i>>
      BY <2>1
    <2>3. t \in Nat /\ i \in Nat
      BY OriginalFields
    <2>. QED
      BY <2>2, <2>3
  <1>2. ASSUME NEW t \in DOMAIN ps, NEW i \in DOMAIN ps[t].chunks
        PROVE  <<t, i>> \in Places(ps)
    BY DEF Places
  <1>. QED
    BY <1>1, <1>2

\* Places are in a total order.
LEMMA PlaceOrder ==
  ASSUME NEW ps, AreOriginals(ps),
         NEW p \in Places(ps), NEW q \in Places(ps), NEW r \in Places(ps)
  PROVE  /\ NotAfter(p, q) \/ NotAfter(q, p)
         /\ NotAfter(p, p)
         /\ NotAfter(p, q) /\ NotAfter(q, p) => p = q
         /\ NotAfter(p, q) /\ NotAfter(q, r) => NotAfter(p, r)
  <1>1. p[1] \in Nat /\ q[1] \in Nat /\ r[1] \in Nat /\ p[2] \in Nat /\ q[2] \in Nat /\ r[2] \in Nat
    BY PlaceOf
  <1>2. p = <<p[1], p[2]>> /\ q = <<q[1], q[2]>>
    BY PlaceOf
  <1>3. NotAfter(p, q) /\ NotAfter(q, p) => p = q
    <2>1. NotAfter(p, q) /\ NotAfter(q, p) => p[1] = q[1] /\ p[2] = q[2]
      BY <1>1 DEF NotAfter
    <2>. QED
      BY <1>2, <2>1
  <1>. QED
    BY <1>1, <1>3 DEF NotAfter

\* A key that some chunk has is first seen somewhere.
LEMMA FirstPlaceIs ==
  ASSUME NEW ps, AreOriginals(ps), NEW key, \E q \in Places(ps) : KeyAt(ps, q) = key
  PROVE  LET p == FirstPlace(ps, key)
         IN /\ p \in Places(ps) /\ KeyAt(ps, p) = key
            /\ \A q \in Places(ps) : KeyAt(ps, q) = key => NotAfter(p, q)
  <1> DEFINE H == {q \in Places(ps) : KeyAt(ps, q) = key}
             T == {q[1] : q \in H}
  <1>1. T \in SUBSET Nat /\ T # {}
    BY PlaceOf
  <1>2. PICK t \in T : \A m \in T : t <= m
    BY <1>1, SmallestExists
  <1> DEFINE I == {q[2] : q \in {r \in H : r[1] = t}}
  <1>3. I \in SUBSET Nat /\ I # {}
    BY PlaceOf
  <1>4. PICK i \in I : \A m \in I : i <= m
    BY <1>3, SmallestExists
  <1>5. PICK p \in H : p[1] = t /\ p[2] = i
    BY <1>4
  <1>6. ASSUME NEW q \in H
        PROVE  NotAfter(p, q)
    <2>1. q[1] \in T /\ q[1] \in Nat /\ t \in Nat
      BY <1>1, PlaceOf
    <2>2. t <= q[1]
      BY <1>2, <2>1
    <2>3. q[1] = t => i <= q[2]
      BY <1>4
    <2>. QED
      BY <1>5, <2>1, <2>2, <2>3 DEF NotAfter
  <1>7. \E x \in Places(ps) :
          /\ KeyAt(ps, x) = key
          /\ \A q \in Places(ps) : KeyAt(ps, q) = key => NotAfter(x, q)
    BY <1>5, <1>6
  <1>. QED
    BY <1>7 DEF FirstPlace

\* How many keys there are when a key gets its id is a number up to that of all.
LEMMA IdType ==
  ASSUME NEW ps, AreOriginals(ps), NEW key
  PROVE  /\ IsFiniteSet({KeyAt(ps, q) : q \in Places(ps)})
         /\ IsFiniteSet({KeyAt(ps, q) : q \in {p \in Places(ps) : NotAfter(p, FirstPlace(ps, key))}})
         /\ IdOf(ps, key) \in 0 .. Cardinality({KeyAt(ps, q) : q \in Places(ps)})
  <1> DEFINE all == {KeyAt(ps, q) : q \in Places(ps)}
             some == {KeyAt(ps, q) : q \in {p \in Places(ps) : NotAfter(p, FirstPlace(ps, key))}}
             keyAt == [q \in Places(ps) |-> KeyAt(ps, q)]
  <1>1. keyAt \in Surjection(Places(ps), all)
    BY DEF Surjection
  <1>2. IsFiniteSet(all)
    BY <1>1, PlacesFinite, FS_Surjection
  <1>3. some \subseteq all
    OBVIOUS
  <1>4. IdOf(ps, key) = Cardinality(some)
    BY DEF IdOf
  <1> HIDE DEF all, some
  <1>5. IsFiniteSet(some) /\ Cardinality(some) \in Nat /\ Cardinality(all) \in Nat
        /\ Cardinality(some) <= Cardinality(all)
    BY <1>2, <1>3, FS_Subset, FS_CardinalityType
  <1>. QED
    BY <1>2, <1>4, <1>5 DEF all, some

\* Different keys have different ids: the later one counts the earlier.
LEMMA IdsDiffer ==
  ASSUME NEW ps, AreOriginals(ps), NEW p \in Places(ps), NEW q \in Places(ps),
         KeyAt(ps, p) # KeyAt(ps, q)
  PROVE  IdOf(ps, KeyAt(ps, p)) # IdOf(ps, KeyAt(ps, q))
  <1> DEFINE Upto(key) == {KeyAt(ps, r) : r \in {s \in Places(ps) : NotAfter(s, FirstPlace(ps, key))}}
  <1>1. ASSUME NEW a \in Places(ps), NEW b \in Places(ps), KeyAt(ps, a) # KeyAt(ps, b),
               NotAfter(FirstPlace(ps, KeyAt(ps, a)), FirstPlace(ps, KeyAt(ps, b)))
        PROVE  IdOf(ps, KeyAt(ps, a)) # IdOf(ps, KeyAt(ps, b))
    <2> DEFINE k == KeyAt(ps, a)
               l == KeyAt(ps, b)
    <2>1. PICK f : f = FirstPlace(ps, k)
      OBVIOUS
    <2>2. PICK g : g = FirstPlace(ps, l)
      OBVIOUS
    <2>3. /\ f \in Places(ps) /\ KeyAt(ps, f) = k
          /\ \A r \in Places(ps) : KeyAt(ps, r) = k => NotAfter(f, r)
      BY <2>1, FirstPlaceIs
    <2>4. /\ g \in Places(ps) /\ KeyAt(ps, g) = l
          /\ \A r \in Places(ps) : KeyAt(ps, r) = l => NotAfter(g, r)
      BY <2>2, FirstPlaceIs
    <2>5. NotAfter(f, g) /\ f # g
      BY <1>1, <2>1, <2>2, <2>3, <2>4
    <2>6. ASSUME NEW r \in Places(ps), NotAfter(r, f)
          PROVE  NotAfter(r, g) /\ r # g
      BY <2>3, <2>4, <2>5, <2>6, PlaceOrder
    <2>7. Upto(k) \subseteq Upto(l)
      BY <2>1, <2>2, <2>6
    <2>8. l \in Upto(l)
      BY <2>2, <2>4, PlaceOrder
    <2>9. l \notin Upto(k)
      <3> SUFFICES ASSUME NEW r \in Places(ps), NotAfter(r, f), KeyAt(ps, r) = l
                   PROVE  FALSE
        BY <2>1
      <3>1. NotAfter(g, r)
        BY <2>4
      <3>. QED
        BY <2>3, <2>4, <2>5, <3>1, PlaceOrder
    <2>10. IsFiniteSet(Upto(l)) /\ IdOf(ps, k) = Cardinality(Upto(k)) /\ IdOf(ps, l) = Cardinality(Upto(l))
      BY IdType DEF IdOf
    <2> HIDE DEF Upto, k, l
    <2>11. IdOf(ps, k) # IdOf(ps, l)
      BY <2>7, <2>8, <2>9, <2>10, ProperPart
    <2>. QED
      BY <2>11 DEF k, l
  <1>2. \/ NotAfter(FirstPlace(ps, KeyAt(ps, p)), FirstPlace(ps, KeyAt(ps, q)))
        \/ NotAfter(FirstPlace(ps, KeyAt(ps, q)), FirstPlace(ps, KeyAt(ps, p)))
    <2>1. FirstPlace(ps, KeyAt(ps, p)) \in Places(ps) /\ FirstPlace(ps, KeyAt(ps, q)) \in Places(ps)
      BY FirstPlaceIs
    <2>. QED
      BY <2>1, PlaceOrder
  <1>. QED
    BY <1>1, <1>2
-----------------------------------------------------------------------------
(***************************************************************************)
(* Chunks with their ids, sections and groups of them.                     *)
(***************************************************************************)

\* the chunks of a trace
Kids(ps, t) == {IdedChild(ps, t, i) : i \in DOMAIN ps[t].chunks}

AllKids(ps) == UNION {Kids(ps, t) : t \in DOMAIN ps}

\* in the order of the trace
Ascends(s) == \A i, j \in 1 .. Len(s) : i < j => s[i].original < s[j].original

\* part of the chunks of some traces, or one chunk of some traces
Section(ps) ==
  {seqs \in UNION {[D -> Seq(AllKids(ps))] : D \in SUBSET (DOMAIN ps)} :
     \A t \in DOMAIN seqs : seqs[t] \in Seq(Kids(ps, t)) /\ Ascends(seqs[t])}

Group(ps) ==
  {group \in UNION {[D -> AllKids(ps)] : D \in SUBSET (DOMAIN ps)} :
     /\ DOMAIN group # {} /\ \A t \in DOMAIN group : group[t] \in Kids(ps, t)
     /\ \A t, u \in DOMAIN group : group[t].id = group[u].id}

Item(ps) == [kind : {"find"}, seqs : Section(ps)] \cup [kind : {"process"}, group : Group(ps)]

Call(ps) == [group : Group(ps), added : BOOLEAN]

\* where the chunks of a trace are that a section, group or piece of work has
In(seqs, t) == IF t \in DOMAIN seqs THEN {seqs[t][i].original : i \in 1 .. Len(seqs[t])} ELSE {}

Chosen(group, t) == IF t \in DOMAIN group THEN {group[t].original} ELSE {}

Content(item, t) == IF item.kind = "find" THEN In(item.seqs, t) ELSE Chosen(item.group, t)

Below(A, B) == \A a \in A, b \in B : a < b

\* A chunk is known by its id and by its place in its trace.
LEMMA KidFields ==
  ASSUME NEW ps, AreOriginals(ps), NEW t \in DOMAIN ps, NEW a \in Kids(ps, t)
  PROVE  /\ a.id \in 0 .. Cardinality({KeyAt(ps, q) : q \in Places(ps)})
         /\ a.original \in DOMAIN ps[t].chunks /\ a.original \in Nat
         /\ a.offset \in Point /\ a.latency \in Point
         /\ \A b \in Kids(ps, t) : a.id = b.id => a.original = b.original
  <1>1. PICK i \in DOMAIN ps[t].chunks : a = IdedChild(ps, t, i)
    BY DEF Kids
  <1>2. \A k \in DOMAIN ps[t].chunks :
          /\ IdedChild(ps, t, k).id = IdOf(ps, Key(ps[t], k))
          /\ IdedChild(ps, t, k).original = k
          /\ IdedChild(ps, t, k).offset = Elapsed(ps[t].start, ps[t].chunks[k].start)
          /\ IdedChild(ps, t, k).latency = Elapsed(ps[t].chunks[k].start, ps[t].chunks[k].end)
    BY DEF IdedChild
  <1>3. /\ ps[t].start \in Point /\ ps[t].chunks[i].start \in Point /\ ps[t].chunks[i].end \in Point
        /\ Leq(ps[t].start, ps[t].chunks[i].start)
        /\ Leq(ps[t].chunks[i].start, ps[t].chunks[i].end)
    BY OriginalFields DEF WellFormed, ChunksInside
  <1>4. a.offset \in Point /\ a.latency \in Point
    BY <1>1, <1>2, <1>3, ElapsedAdds
  <1>5. ASSUME NEW b \in Kids(ps, t), a.id = b.id
        PROVE  a.original = b.original
    <2>1. PICK j \in DOMAIN ps[t].chunks : b = IdedChild(ps, t, j)
      BY DEF Kids
    <2>2. <<t, i>> \in Places(ps) /\ <<t, j>> \in Places(ps)
      BY PlaceOf
    <2>3. KeyAt(ps, <<t, i>>) = Key(ps[t], i) /\ KeyAt(ps, <<t, j>>) = Key(ps[t], j)
      BY DEF KeyAt
    <2>4. Key(ps[t], i) = Key(ps[t], j)
      BY <1>1, <1>2, <1>5, <2>1, <2>2, <2>3, IdsDiffer
    <2>5. i \in Nat /\ j \in Nat
      BY OriginalFields
    <2>6. i = j
      BY <2>4, <2>5, KeysDiffer, OriginalFields
    <2>. QED
      BY <1>1, <2>1, <2>6
  <1>6. i \in Nat
    BY OriginalFields
  <1>. QED
    BY <1>1, <1>2, <1>4, <1>5, <1>6, IdType

\* what a section and a group are
LEMMA SectionIs ==
  ASSUME NEW ps, NEW seqs \in Section(ps)
  PROVE  /\ DOMAIN seqs \subseteq DOMAIN ps
         /\ \A t \in DOMAIN seqs : /\ seqs[t] \in Seq(Kids(ps, t)) /\ Ascends(seqs[t])
                                   /\ Len(seqs[t]) \in Nat /\ DOMAIN seqs[t] = 1 .. Len(seqs[t])
                                   /\ \A i \in 1 .. Len(seqs[t]) : seqs[t][i] \in Kids(ps, t)
  BY ElementOfSeq, LenProperties DEF Section

LEMMA SectionMade ==
  ASSUME NEW ps, NEW D \in SUBSET (DOMAIN ps), NEW seqs,
         seqs = [t \in D |-> seqs[t]],
         \A t \in D : seqs[t] \in Seq(Kids(ps, t)) /\ Ascends(seqs[t])
  PROVE  seqs \in Section(ps)
  <1>1. ASSUME NEW t \in D
        PROVE  seqs[t] \in Seq(AllKids(ps))
    <2>1. Kids(ps, t) \subseteq AllKids(ps)
      BY DEF AllKids
    <2>2. seqs[t] \in Seq(Kids(ps, t))
      OBVIOUS
    <2>. QED
      BY <2>1, <2>2, SeqMonotonic
  <1>2. seqs \in [D -> Seq(AllKids(ps))] /\ DOMAIN seqs = D
    BY <1>1
  <1>. QED
    BY <1>2 DEF Section

LEMMA GroupIs ==
  ASSUME NEW ps, NEW group \in Group(ps)
  PROVE  /\ DOMAIN group \subseteq DOMAIN ps /\ DOMAIN group # {}
         /\ \A t \in DOMAIN group : group[t] \in Kids(ps, t)
         /\ \A t, u \in DOMAIN group : group[t].id = group[u].id
  BY DEF Group

LEMMA GroupMade ==
  ASSUME NEW ps, NEW D \in SUBSET (DOMAIN ps), D # {}, NEW group,
         group = [t \in D |-> group[t]], \A t \in D : group[t] \in Kids(ps, t),
         \A t, u \in D : group[t].id = group[u].id
  PROVE  group \in Group(ps)
  <1>1. \A t \in D : group[t] \in AllKids(ps)
    BY DEF AllKids
  <1>2. group \in [D -> AllKids(ps)] /\ DOMAIN group = D
    BY <1>1
  <1>. QED
    BY <1>2 DEF Group

\* A piece of a sequence of chunks is one, and has the chunks from a to b.
LEMMA PieceOf ==
  ASSUME NEW ps, NEW t, NEW s \in Seq(Kids(ps, t)), Ascends(s),
         NEW a \in 1 .. Len(s) + 1, NEW b \in 0 .. Len(s)
  PROVE  /\ SubSeq(s, a, b) \in Seq(Kids(ps, t)) /\ Ascends(SubSeq(s, a, b))
         /\ Len(SubSeq(s, a, b)) = IF a <= b THEN b - a + 1 ELSE 0
         /\ \A i \in 1 .. Len(SubSeq(s, a, b)) :
              /\ SubSeq(s, a, b)[i] = s[a + i - 1]
              /\ a + i - 1 \in a .. b /\ a + i - 1 \in 1 .. Len(s)
  <1>1. Len(s) \in Nat /\ a \in Int /\ b \in Int
    BY LenProperties
  <1>2. \A i \in a .. b : s[i] \in Kids(ps, t)
    BY <1>1, ElementOfSeq
  <1>3. /\ SubSeq(s, a, b) \in Seq(Kids(ps, t))
        /\ Len(SubSeq(s, a, b)) = IF a <= b THEN b - a + 1 ELSE 0
        /\ \A i \in 1 .. b - a + 1 : SubSeq(s, a, b)[i] = s[a + i - 1]
    BY <1>1, <1>2, SubSeqProperties
  <1> DEFINE p == SubSeq(s, a, b)
  <1> HIDE DEF p
  <1>4. \A i \in 1 .. Len(p) : p[i] = s[a + i - 1] /\ a + i - 1 \in a .. b /\ a + i - 1 \in 1 .. Len(s)
    BY <1>1, <1>3 DEF p
  <1>5. Ascends(p)
    <2> SUFFICES ASSUME NEW i \in 1 .. Len(p), NEW j \in 1 .. Len(p), i < j
                 PROVE  p[i].original < p[j].original
      BY DEF Ascends
    <2>1. a + i - 1 < a + j - 1
      BY <1>1
    <2>. QED
      BY <1>4, <2>1 DEF Ascends
  <1>. QED
    BY <1>3, <1>4, <1>5 DEF p

\* A chunk that is looked for where it is is found.
LEMMA Found ==
  ASSUME NEW s, NEW id \in Ids(s)
  PROVE  IndexOf(s, id) \in DOMAIN s /\ s[IndexOf(s, id)].id = id
  BY DEF Ids, IndexOf

-----------------------------------------------------------------------------
(***************************************************************************)
(* What find_frequent_children makes of a section.                         *)
(***************************************************************************)

\* The chunk a section is cut at is in one of its sequences.
LEMMA FrequentIsThere ==
  ASSUME NEW ps, AreOriginals(ps), NEW seqs \in Section(ps), IsFrequent(seqs)
  PROVE  Having(seqs, MostFrequent(seqs)) # {}
  <1> DEFINE A == AllIds(seqs)
             N == Cardinality({KeyAt(ps, q) : q \in Places(ps)})
             M == Cardinality(DOMAIN seqs)
             C == {Count(seqs, id) : id \in A}
             T == {id \in A : \A other \in A : Count(seqs, other) <= Count(seqs, id)}
  <1>1. IsFiniteSet(DOMAIN seqs)
    <2>1. PICK n : n = Len(ps)
      OBVIOUS
    <2>2. n \in Nat /\ DOMAIN ps = 1 .. n
      BY <2>1, OriginalFields
    <2>3. IsFiniteSet(DOMAIN ps)
      BY <2>2, FS_Interval
    <2>. QED
      BY <2>3, SectionIs, FS_Subset
  <1>2. M \in Nat /\ N \in Nat
    BY <1>1, IdType, FS_CardinalityType
  <1>3. A \in SUBSET (0 .. N) /\ A # {}
    <2>1. ASSUME NEW id \in A
          PROVE  id \in 0 .. N
      <3>1. PICK k \in DOMAIN seqs : \E i \in DOMAIN seqs[k] : id = seqs[k][i].id
        BY DEF AllIds, Ids
      <3>2. PICK i \in DOMAIN seqs[k] : id = seqs[k][i].id
        BY <3>1
      <3>3. PICK a : a = seqs[k][i]
        OBVIOUS
      <3>4. k \in DOMAIN ps /\ a \in Kids(ps, k) /\ id = a.id
        BY <3>2, <3>3, SectionIs
      <3>. QED
        BY <3>4, KidFields
    <2>. QED
      BY <2>1 DEF IsFrequent
  <1>4. C \in SUBSET (0 .. M) /\ C # {}
    <2>1. ASSUME NEW id \in A
          PROVE  Count(seqs, id) \in 0 .. M
      <3>1. Having(seqs, id) \subseteq DOMAIN seqs
        BY DEF Having
      <3>. QED
        BY <1>1, <1>2, <3>1, FS_Subset, FS_CardinalityType DEF Count
    <2> HIDE DEF A, M
    <2>. QED
      BY <1>3, <2>1
  <1>5. PICK c \in C : \A d \in C : d <= c
    BY <1>2, <1>4, LargestExists
  <1>6. T \in SUBSET (0 .. N) /\ T # {}
    BY <1>3, <1>5
  <1>7. \E m \in T : \A i \in T : m >= i
    <2>1. PICK m \in T : \A i \in T : i <= m
      BY <1>2, <1>6, LargestExists
    <2>2. T \subseteq Nat
      BY <1>2, <1>6
    <2>. QED
      BY <2>1, <2>2
  <1>8. Max(T) \in T
    BY <1>7 DEF Max
  <1>9. MostFrequent(seqs) \in A
    BY <1>8 DEF MostFrequent
  <1>. QED
    BY <1>9 DEF AllIds, Having

\* a sequence is cut somewhere, just before the chunk if it has it
CutsAt(s, id, n) ==
  /\ n \in 0 .. Len(s)
  /\ id \in Ids(s) => n + 1 = IndexOf(s, id) /\ n + 1 \in 1 .. Len(s)

\* Every sequence of a section is cut like this.
LEMMA CutAt ==
  ASSUME NEW ps, NEW seqs \in Section(ps), NEW id, NEW cut \in Cuts(seqs, id),
         NEW t \in DOMAIN seqs
  PROVE  CutsAt(seqs[t], id, cut[t])
  <1>1. Len(seqs[t]) \in Nat /\ DOMAIN seqs[t] = 1 .. Len(seqs[t])
    BY SectionIs
  <1>2. CASE id \in Ids(seqs[t])
    <2>1. cut[t] = IndexOf(seqs[t], id) - 1
      BY <1>2 DEF Cuts
    <2>2. IndexOf(seqs[t], id) \in DOMAIN seqs[t]
      BY <1>2, Found
    <2>. QED
      BY <1>1, <2>1, <2>2 DEF CutsAt
  <1>3. CASE id \notin Ids(seqs[t])
    <2>1. cut[t] \in BreakPoints(IndexAvg(seqs, id), Len(seqs[t]))
      BY <1>3 DEF Cuts
    <2>. QED
      BY <1>1, <1>3, <2>1 DEF BreakPoints, CutsAt
  <1>. QED
    BY <1>2, <1>3

\* The two halves of a section are sections, and the chunks between them a
\* group; in every trace they come in this order and are chunks of the section.
LEMMA SectionSplits ==
  ASSUME NEW ps, AreOriginals(ps), NEW seqs \in Section(ps), NEW id, NEW cut,
         \A t \in DOMAIN seqs : CutsAt(seqs[t], id, cut[t]), Having(seqs, id) # {}
  PROVE  /\ Before(seqs, cut) \in Section(ps)
         /\ Matching(seqs, id) \in Group(ps)
         /\ After(seqs, cut, id) \in Section(ps)
         /\ \A t \in DOMAIN ps :
              /\ In(Before(seqs, cut), t) \subseteq In(seqs, t)
              /\ Chosen(Matching(seqs, id), t) \subseteq In(seqs, t)
              /\ In(After(seqs, cut, id), t) \subseteq In(seqs, t)
              /\ Below(In(Before(seqs, cut), t), Chosen(Matching(seqs, id), t))
              /\ Below(Chosen(Matching(seqs, id), t), In(After(seqs, cut, id), t))
              /\ Below(In(Before(seqs, cut), t), In(After(seqs, cut, id), t))
  <1> DEFINE b == Before(seqs, cut)
             m == Matching(seqs, id)
             a == After(seqs, cut, id)
             D == DOMAIN seqs
             H == Having(seqs, id)
             Skip(t) == cut[t] + (IF id \in Ids(seqs[t]) THEN 2 ELSE 1)
  <1>1. /\ b = [t \in D |-> SubSeq(seqs[t], 1, cut[t])]
        /\ a = [t \in D |-> SubSeq(seqs[t], Skip(t), Len(seqs[t]))]
        /\ m = [t \in H |-> seqs[t][IndexOf(seqs[t], id)]]
    BY DEF Before, After, Matching
  <1>2. /\ D \subseteq DOMAIN ps /\ H \subseteq D /\ H # {}
        /\ H = {t \in D : id \in Ids(seqs[t])}
    BY SectionIs DEF Having
  <1>3. ASSUME NEW t \in D
        PROVE  /\ seqs[t] \in Seq(Kids(ps, t)) /\ Ascends(seqs[t]) /\ Len(seqs[t]) \in Nat
               /\ DOMAIN seqs[t] = 1 .. Len(seqs[t])
               /\ \A i \in 1 .. Len(seqs[t]) : /\ seqs[t][i] \in Kids(ps, t)
                                               /\ seqs[t][i].original \in Nat
               /\ cut[t] \in 0 .. Len(seqs[t])
               /\ Skip(t) \in 1 .. Len(seqs[t]) + 1 /\ cut[t] < Skip(t)
               /\ t \in H => /\ cut[t] + 1 = IndexOf(seqs[t], id)
                             /\ cut[t] + 1 \in 1 .. Len(seqs[t]) /\ Skip(t) = cut[t] + 2
    <2>1. /\ seqs[t] \in Seq(Kids(ps, t)) /\ Ascends(seqs[t]) /\ Len(seqs[t]) \in Nat
          /\ DOMAIN seqs[t] = 1 .. Len(seqs[t])
          /\ \A i \in 1 .. Len(seqs[t]) : seqs[t][i] \in Kids(ps, t)
      BY SectionIs
    <2>2. \A i \in 1 .. Len(seqs[t]) : seqs[t][i].original \in Nat
      BY <1>2, <2>1, KidFields
    <2>3. /\ cut[t] \in 0 .. Len(seqs[t])
          /\ id \in Ids(seqs[t]) => /\ cut[t] + 1 = IndexOf(seqs[t], id)
                                    /\ cut[t] + 1 \in 1 .. Len(seqs[t])
      BY DEF CutsAt
    <2>4. t \in H <=> id \in Ids(seqs[t])
      BY <1>2
    <2>5. PICK x : x = cut[t]
      OBVIOUS
    <2>6. PICK n : n = Len(seqs[t])
      OBVIOUS
    <2>7. /\ x \in 0 .. n /\ n \in Nat
          /\ Skip(t) = IF id \in Ids(seqs[t]) THEN x + 2 ELSE x + 1
          /\ id \in Ids(seqs[t]) => x + 1 \in 1 .. n
      BY <2>1, <2>3, <2>5, <2>6
    <2>8. /\ Skip(t) \in 1 .. n + 1 /\ x < Skip(t)
          /\ id \in Ids(seqs[t]) => Skip(t) = x + 2
      BY <2>7
    <2>. QED
      BY <2>1, <2>2, <2>3, <2>4, <2>5, <2>6, <2>8
  <1> HIDE DEF b, m, a, D, H, Skip
  <1>4. ASSUME NEW t \in D
        PROVE  /\ b[t] \in Seq(Kids(ps, t)) /\ Ascends(b[t])
               /\ \A i \in 1 .. Len(b[t]) : b[t][i] = seqs[t][i] /\ i \in 1 .. cut[t]
    <2>1. 1 \in 1 .. Len(seqs[t]) + 1 /\ cut[t] \in 0 .. Len(seqs[t])
      BY <1>3
    <2>2. /\ b[t] = SubSeq(seqs[t], 1, cut[t])
          /\ seqs[t] \in Seq(Kids(ps, t)) /\ Ascends(seqs[t])
      BY <1>1, <1>3
    <2>3. /\ b[t] \in Seq(Kids(ps, t)) /\ Ascends(b[t])
          /\ \A i \in 1 .. Len(b[t]) : b[t][i] = seqs[t][1 + i - 1] /\ 1 + i - 1 \in 1 .. cut[t]
      BY <2>1, <2>2, PieceOf
    <2>4. \A i \in 1 .. Len(b[t]) : 1 + i - 1 = i
      OBVIOUS
    <2>. QED
      BY <2>3, <2>4
  <1>5. ASSUME NEW t \in D
        PROVE  /\ a[t] \in Seq(Kids(ps, t)) /\ Ascends(a[t])
               /\ \A i \in 1 .. Len(a[t]) : \E j \in Skip(t) .. Len(seqs[t]) : a[t][i] = seqs[t][j]
    <2>1. PICK x : x = Skip(t)
      OBVIOUS
    <2>2. PICK n : n = Len(seqs[t])
      OBVIOUS
    <2>3. PICK s : s = seqs[t]
      OBVIOUS
    <2>4. /\ a[t] = SubSeq(s, x, n) /\ x \in 1 .. Len(s) + 1 /\ n \in 0 .. Len(s)
          /\ s \in Seq(Kids(ps, t)) /\ Ascends(s)
      BY <1>1, <1>3, <2>1, <2>2, <2>3
    <2>5. PICK r : r = SubSeq(s, x, n)
      OBVIOUS
    <2>6. /\ r \in Seq(Kids(ps, t)) /\ Ascends(r)
          /\ \A i \in 1 .. Len(r) : r[i] = s[x + i - 1] /\ x + i - 1 \in x .. n
      BY <2>4, <2>5, PieceOf
    <2>7. a[t] = r
      BY <2>4, <2>5
    <2>8. \A i \in 1 .. Len(r) : \E j \in x .. n : r[i] = s[j]
      BY <2>6
    <2>. QED
      BY <2>1, <2>2, <2>3, <2>6, <2>7, <2>8
  <1>6. ASSUME NEW t \in H
        PROVE  m[t] = seqs[t][cut[t] + 1] /\ m[t] \in Kids(ps, t) /\ m[t].id = id
    <2>1. t \in D /\ id \in Ids(seqs[t])
      BY <1>2
    <2>2. seqs[t][IndexOf(seqs[t], id)].id = id
      BY <2>1, Found
    <2>. QED
      BY <1>1, <1>3, <2>1, <2>2
  <1>7. b \in Section(ps) /\ a \in Section(ps)
    <2>1. b = [t \in D |-> b[t]] /\ a = [t \in D |-> a[t]]
      BY <1>1
    <2>. QED
      BY <1>2, <1>4, <1>5, <2>1, SectionMade
  <1>8. m \in Group(ps)
    <2>1. m = [t \in H |-> m[t]] /\ H \subseteq DOMAIN ps
      BY <1>1, <1>2
    <2>. QED
      BY <1>2, <1>6, <2>1, GroupMade
  <1>9. ASSUME NEW t \in DOMAIN ps
        PROVE  /\ In(b, t) \subseteq In(seqs, t)
               /\ Chosen(m, t) \subseteq In(seqs, t)
               /\ In(a, t) \subseteq In(seqs, t)
               /\ Below(In(b, t), Chosen(m, t))
               /\ Below(Chosen(m, t), In(a, t))
               /\ Below(In(b, t), In(a, t))
    <2>1. CASE t \notin D
      <3>1. t \notin DOMAIN b /\ t \notin DOMAIN a /\ t \notin DOMAIN m
        BY <1>1, <1>2, <2>1
      <3>. QED
        BY <3>1 DEF In, Chosen, Below
    <2>2. CASE t \in D
      <3>1. DOMAIN b = D /\ DOMAIN a = D /\ DOMAIN m = H
        BY <1>1
      <3>2. \A x \in In(b, t) : \E i \in 1 .. cut[t] : i \in 1 .. Len(seqs[t]) /\ x = seqs[t][i].original
        BY <1>3, <1>4, <2>2, <3>1 DEF In
      <3>3. \A x \in In(a, t) : \E j \in Skip(t) .. Len(seqs[t]) :
              j \in 1 .. Len(seqs[t]) /\ x = seqs[t][j].original
        BY <1>3, <1>5, <2>2, <3>1 DEF In
      <3>4. \A x \in Chosen(m, t) : /\ x = seqs[t][cut[t] + 1].original
                                    /\ cut[t] + 1 \in 1 .. Len(seqs[t]) /\ Skip(t) = cut[t] + 2
        BY <1>3, <1>6, <2>2, <3>1 DEF Chosen
      <3>5. \A i \in 1 .. Len(seqs[t]) : seqs[t][i].original \in In(seqs, t)
        BY <2>2 DEF In, D
      <3>6. In(b, t) \subseteq In(seqs, t) /\ Chosen(m, t) \subseteq In(seqs, t) /\ In(a, t) \subseteq In(seqs, t)
        BY <3>2, <3>3, <3>4, <3>5
      <3>7. \A i, j \in 1 .. Len(seqs[t]) : i < j => seqs[t][i].original < seqs[t][j].original
        BY <1>3, <2>2 DEF Ascends
      <3>8. cut[t] \in Nat /\ Skip(t) \in Nat /\ cut[t] < Skip(t) /\ Len(seqs[t]) \in Nat
        BY <1>3, <2>2
      <3>9. Below(In(b, t), Chosen(m, t))
        <4> SUFFICES ASSUME NEW x \in In(b, t), NEW y \in Chosen(m, t)
                     PROVE  x < y
          BY DEF Below
        <4>1. PICK i \in 1 .. cut[t] : i \in 1 .. Len(seqs[t]) /\ x = seqs[t][i].original
          BY <3>2
        <4>2. y = seqs[t][cut[t] + 1].original /\ cut[t] + 1 \in 1 .. Len(seqs[t]) /\ i < cut[t] + 1
          BY <3>4, <3>8, <4>1
        <4>. QED
          BY <3>7, <4>1, <4>2
      <3>10. Below(Chosen(m, t), In(a, t))
        <4> SUFFICES ASSUME NEW x \in Chosen(m, t), NEW y \in In(a, t)
                     PROVE  x < y
          BY DEF Below
        <4>1. PICK j \in Skip(t) .. Len(seqs[t]) : j \in 1 .. Len(seqs[t]) /\ y = seqs[t][j].original
          BY <3>3
        <4>2. x = seqs[t][cut[t] + 1].original /\ cut[t] + 1 \in 1 .. Len(seqs[t]) /\ cut[t] + 1 < j
          BY <3>4, <3>8, <4>1
        <4>. QED
          BY <3>7, <4>1, <4>2
      <3>11. Below(In(b, t), In(a, t))
        <4> SUFFICES ASSUME NEW x \in In(b, t), NEW y \in In(a, t)
                     PROVE  x < y
          BY DEF Below
        <4>1. PICK i \in 1 .. cut[t] : i \in 1 .. Len(seqs[t]) /\ x = seqs[t][i].original
          BY <3>2
        <4>2. PICK j \in Skip(t) .. Len(seqs[t]) : j \in 1 .. Len(seqs[t]) /\ y = seqs[t][j].original
          BY <3>3
        <4>3. i < j
          BY <3>8, <4>1, <4>2
        <4>. QED
          BY <3>7, <4>1, <4>2, <4>3
      <3>. QED
        BY <3>6, <3>9, <3>10, <3>11
    <2>. QED
      BY <2>1, <2>2
  <1>. QED
    BY <1>7, <1>8, <1>9 DEF b, m, a

-----------------------------------------------------------------------------
(***************************************************************************)
(* Part 2.  find_lcs returns ids that all sequences have in this order.    *)
(* EndingAt is a recursive function: that one exists, and what its values  *)
(* are, is shown by taking the least position at which it would fail.      *)
(***************************************************************************)

\* ids from the n-th on occur in s, in this order
LeftIn(ids, n, s) ==
  \A k \in n .. Len(ids) :
    /\ ids[k] \in Ids(s)
    /\ \A l \in n .. Len(ids) : k < l => IndexOf(s, ids[k]) < IndexOf(s, ids[l])

\* the sequences merge_children starts with
Whole(ps, seqs) == seqs \in Section(ps) /\ DOMAIN seqs = DOMAIN ps

Candidates(seqs, f, k) ==
  {j \in 1 .. k - 1 : f[j] # <<>> /\ Precedes(seqs, seqs[1][j].id, seqs[1][k].id)}

Lens(f, E) == [j \in E |-> Len(f[j])]

\* one value of the recursive function from the earlier ones
Extended(seqs, f, k) ==
  IF ~InAll(seqs, seqs[1][k].id) THEN <<>>
  ELSE IF Candidates(seqs, f, k) = {} THEN <<seqs[1][k].id>>
  ELSE Append(f[Max(Longest(Candidates(seqs, f, k), Lens(f, Candidates(seqs, f, k))))], seqs[1][k].id)

\* a common subsequence that ends with the k-th chunk of the first sequence, if any
CommonUpTo(seqs, s, k) ==
  /\ s \in Seq(Nat) /\ Len(s) <= k
  /\ \A i \in 1 .. Len(s) : InAll(seqs, s[i])
  /\ \A i, j \in 1 .. Len(s) : i < j => Precedes(seqs, s[i], s[j])
  /\ s # <<>> => s[Len(s)] = seqs[1][k].id

\* Of several sequences there is a longest one.
LEMMA LongestIs ==
  ASSUME NEW n \in Nat, NEW E \in SUBSET (1 .. n), E # {}, NEW lens, \A j \in E : lens[j] \in 0 .. n
  PROVE  /\ Longest(E, lens) \subseteq E /\ Longest(E, lens) # {}
         /\ Max(Longest(E, lens)) \in E
         /\ \A i \in Longest(E, lens), j \in E : lens[j] <= lens[i]
         /\ \A j \in E : lens[j] <= lens[Max(Longest(E, lens))]
  <1> DEFINE V == {lens[j] : j \in E}
  <1>1. V \in SUBSET (0 .. n) /\ V # {}
    OBVIOUS
  <1>2. PICK v \in V : \A w \in V : w <= v
    BY <1>1, LargestExists
  <1>3. \E m \in V : \A w \in V : m >= w
    <2>1. V \subseteq Nat
      BY <1>1
    <2>. QED
      BY <1>2, <2>1
  <1>4. Max(V) \in V /\ \A w \in V : w <= Max(V)
    <2>1. Max(V) \in V /\ \A w \in V : Max(V) >= w
      BY <1>3 DEF Max
    <2>2. V \subseteq Nat
      BY <1>1
    <2> HIDE DEF V
    <2>. QED
      BY <2>1, <2>2
  <1> DEFINE L == Longest(E, lens)
  <1>5. L \in SUBSET (0 .. n) /\ L # {} /\ L \subseteq E
    <2>1. L = {j \in E : lens[j] = Max(V)}
      BY DEF Longest
    <2>2. PICK j \in E : Max(V) = lens[j]
      BY <1>4
    <2>3. E \subseteq 0 .. n
      OBVIOUS
    <2> HIDE DEF V, L
    <2>. QED
      BY <2>1, <2>2, <2>3
  <1>6. PICK m \in L : \A w \in L : w <= m
    BY <1>5, LargestExists
  <1>7. \E x \in L : \A w \in L : x >= w
    <2>1. L \subseteq Nat
      BY <1>5
    <2> HIDE DEF L
    <2>. QED
      BY <1>6, <2>1
  <1>8. \A i \in L, j \in E : lens[j] <= lens[i]
    <2> SUFFICES ASSUME NEW i \in L, NEW j \in E
                 PROVE  lens[j] <= lens[i]
      OBVIOUS
    <2>1. lens[i] = Max(V) /\ lens[j] \in V
      BY DEF Longest
    <2>. QED
      BY <1>4, <2>1
  <1> HIDE DEF L
  <1>9. Max(L) \in L
    BY <1>7 DEF Max
  <1>. QED
    BY <1>5, <1>8, <1>9 DEF L

\* the ids of the sequences are numbers, and positions in them too
LEMMA WholeFields ==
  ASSUME NEW ps, AreOriginals(ps), NEW seqs, Whole(ps, seqs)
  PROVE  /\ 1 \in DOMAIN seqs /\ Len(seqs[1]) \in Nat /\ DOMAIN seqs[1] = 1 .. Len(seqs[1])
         /\ \A k \in 1 .. Len(seqs[1]) : seqs[1][k].id \in Nat
         /\ \A t \in DOMAIN seqs : \A id \in Ids(seqs[t]) : IndexOf(seqs[t], id) \in Nat
  <1>1. 1 \in DOMAIN seqs /\ seqs \in Section(ps) /\ DOMAIN seqs = DOMAIN ps
    BY OriginalFields DEF Whole
  <1>2. ASSUME NEW k \in 1 .. Len(seqs[1])
        PROVE  seqs[1][k].id \in Nat
    <2>1. seqs[1][k] \in Kids(ps, 1)
      BY <1>1, SectionIs
    <2>2. Cardinality({KeyAt(ps, q) : q \in Places(ps)}) \in Nat
      BY IdType, FS_CardinalityType
    <2>. QED
      BY <1>1, <2>1, <2>2, KidFields
  <1>3. ASSUME NEW t \in DOMAIN seqs, NEW id \in Ids(seqs[t])
        PROVE  IndexOf(seqs[t], id) \in Nat
    BY <1>1, Found, SectionIs
  <1>. QED
    BY <1>1, <1>2, <1>3, SectionIs

\* If all have three ids, of which the second follows the first and the third the
\* second, then the third follows the first.
LEMMA PrecedesTransitive ==
  ASSUME NEW ps, AreOriginals(ps), NEW seqs, Whole(ps, seqs), NEW a, NEW b, NEW c,
         InAll(seqs, a), InAll(seqs, b), InAll(seqs, c), Precedes(seqs, a, b), Precedes(seqs, b, c)
  PROVE  Precedes(seqs, a, c)
  <1> SUFFICES ASSUME NEW t \in DOMAIN seqs
               PROVE  IndexOf(seqs[t], a) < IndexOf(seqs[t], c)
    BY DEF Precedes
  <1>1. IndexOf(seqs[t], a) \in Nat /\ IndexOf(seqs[t], b) \in Nat /\ IndexOf(seqs[t], c) \in Nat
    BY WholeFields DEF InAll
  <1>2. IndexOf(seqs[t], a) < IndexOf(seqs[t], b) /\ IndexOf(seqs[t], b) < IndexOf(seqs[t], c)
    BY DEF Precedes
  <1>. QED
    BY <1>1, <1>2

\* A value of the recursive function is as it should be if the earlier ones are,
\* and depends on them only.
LEMMA ExtendedIsCommon ==
  ASSUME NEW ps, AreOriginals(ps), NEW seqs, Whole(ps, seqs), NEW k \in 1 .. Len(seqs[1]),
         NEW f, \A j \in 1 .. k - 1 : CommonUpTo(seqs, f[j], j),
         NEW g, \A j \in 1 .. k - 1 : g[j] = f[j]
  PROVE  /\ Extended(seqs, g, k) = Extended(seqs, f, k)
         /\ CommonUpTo(seqs, Extended(seqs, f, k), k)
  <1> DEFINE id == seqs[1][k].id
             E == Candidates(seqs, f, k)
             x == Max(Longest(E, Lens(f, E)))
  <1>1. k \in Nat /\ id \in Nat /\ k >= 1
    BY WholeFields
  <1>2. Candidates(seqs, g, k) = E
    BY DEF Candidates
  <1>3. E \in SUBSET (1 .. k)
    BY <1>1 DEF Candidates
  <1>4. Lens(g, E) = Lens(f, E)
    BY DEF Lens, Candidates
  <1>5. CASE ~InAll(seqs, id)
    BY <1>1, <1>5 DEF Extended, CommonUpTo
  <1>6. CASE InAll(seqs, id) /\ E = {}
    <2>1. Extended(seqs, g, k) = <<id>> /\ Extended(seqs, f, k) = <<id>>
      BY <1>2, <1>6 DEF Extended
    <2> HIDE DEF id
    <2>2. CommonUpTo(seqs, <<id>>, k)
      BY <1>1, <1>6 DEF CommonUpTo, id
    <2>. QED
      BY <2>1, <2>2
  <1>7. CASE InAll(seqs, id) /\ E # {}
    <2>1. \A j \in E : Lens(f, E)[j] \in 0 .. k
      <3> SUFFICES ASSUME NEW j \in E
                   PROVE  Lens(f, E)[j] \in 0 .. k
        OBVIOUS
      <3>1. j \in 1 .. k - 1 /\ Lens(f, E)[j] = Len(f[j])
        BY DEF Candidates, Lens
      <3>2. f[j] \in Seq(Nat) /\ Len(f[j]) <= j
        BY <3>1 DEF CommonUpTo
      <3>. QED
        BY <1>1, <3>1, <3>2, LenProperties
    <2>2. x \in E
      <3> HIDE DEF E
      <3>. QED
        BY <1>1, <1>3, <1>7, <2>1, LongestIs
    <2>3. x \in 1 .. k - 1 /\ f[x] # <<>> /\ Precedes(seqs, seqs[1][x].id, id)
      BY <2>2 DEF Candidates
    <2>4. Extended(seqs, f, k) = Append(f[x], id)
      BY <1>7 DEF Extended
    <2>5. Extended(seqs, g, k) = Append(g[x], id)
      BY <1>2, <1>4, <1>7 DEF Extended
    <2> HIDE DEF E, x, id
    <2>6. PICK s : s = f[x]
      OBVIOUS
    <2>7. /\ s \in Seq(Nat) /\ Len(s) <= x /\ s # <<>> /\ s[Len(s)] = seqs[1][x].id
          /\ \A i \in 1 .. Len(s) : InAll(seqs, s[i])
          /\ \A i, j \in 1 .. Len(s) : i < j => Precedes(seqs, s[i], s[j])
      BY <2>3, <2>6 DEF CommonUpTo
    <2>8. PICK m : m = Len(s)
      OBVIOUS
    <2>9. m \in Nat /\ m >= 1 /\ m \in 1 .. m
      BY <2>7, <2>8, EmptySeq
    <2>10. /\ Append(s, id) \in Seq(Nat) /\ Len(Append(s, id)) = m + 1
           /\ \A i \in 1 .. m : Append(s, id)[i] = s[i]
           /\ Append(s, id)[m + 1] = id
      BY <1>1, <2>7, <2>8, AppendProperties
    <2>11. \A i \in 1 .. m : Precedes(seqs, s[i], id)
      <3> SUFFICES ASSUME NEW i \in 1 .. m
                   PROVE  Precedes(seqs, s[i], id)
        OBVIOUS
      <3>1. Precedes(seqs, s[m], id) /\ InAll(seqs, s[m]) /\ InAll(seqs, s[i]) /\ InAll(seqs, id)
        BY <1>7, <2>3, <2>7, <2>8, <2>9 DEF id
      <3>2. i = m \/ Precedes(seqs, s[i], s[m])
        BY <2>7, <2>8, <2>9
      <3>. QED
        BY <3>1, <3>2, PrecedesTransitive
    <2>12. CommonUpTo(seqs, Append(s, id), k)
      <3> DEFINE r == Append(s, id)
      <3>1. r \in Seq(Nat) /\ Len(r) = m + 1 /\ Len(r) <= k /\ r[m + 1] = id
        BY <1>1, <2>3, <2>7, <2>8, <2>9, <2>10
      <3>2. \A i \in 1 .. m + 1 : InAll(seqs, r[i])
        <4> SUFFICES ASSUME NEW i \in 1 .. m + 1
                     PROVE  InAll(seqs, r[i])
          OBVIOUS
        <4>1. i = m + 1 \/ i \in 1 .. m
          BY <2>9
        <4>. QED
          BY <1>7, <2>7, <2>8, <2>10, <4>1 DEF id
      <3>3. \A i, j \in 1 .. m + 1 : i < j => Precedes(seqs, r[i], r[j])
        <4> SUFFICES ASSUME NEW i \in 1 .. m + 1, NEW j \in 1 .. m + 1, i < j
                     PROVE  Precedes(seqs, r[i], r[j])
          OBVIOUS
        <4>1. i \in 1 .. m /\ (j = m + 1 \/ j \in 1 .. m)
          BY <2>9
        <4>. QED
          BY <2>7, <2>8, <2>10, <2>11, <4>1
      <3> HIDE DEF r
      <3>. QED
        BY <3>1, <3>2, <3>3 DEF CommonUpTo, r, id
    <2>13. g[x] = s
      BY <2>3, <2>6
    <2>. QED
      BY <2>4, <2>5, <2>6, <2>12, <2>13
  <1>. QED
    BY <1>5, <1>6, <1>7

\* So the recursive function exists, and each of its values is as it should be.
LEMMA EndingAtIsCommon ==
  ASSUME NEW ps, AreOriginals(ps), NEW seqs, Whole(ps, seqs)
  PROVE  /\ DOMAIN EndingAt(seqs) = 1 .. Len(seqs[1])
         /\ \A k \in 1 .. Len(seqs[1]) : /\ EndingAt(seqs)[k] = Extended(seqs, EndingAt(seqs), k)
                                         /\ CommonUpTo(seqs, EndingAt(seqs)[k], k)
  <1> DEFINE n == Len(seqs[1])
             D == DOMAIN seqs[1]
             Is(f) == f = [k \in D |-> Extended(seqs, f, k)]
             sub == CHOOSE f : Is(f)
             Upto(f, m) == \A k \in 1 .. m : /\ f[k] = Extended(seqs, f, k)
                                             /\ CommonUpTo(seqs, f[k], k)
             Missing == {m \in 0 .. n : ~\E f : Upto(f, m)}
  <1>1. n \in Nat /\ D = 1 .. n
    BY WholeFields
  <1>2. EndingAt(seqs) = sub
    BY DEF EndingAt, Extended, Candidates, Lens
  <1> HIDE DEF n, D
  <1>3. Missing = {}
    <2> SUFFICES ASSUME Missing # {}
                 PROVE  FALSE
      OBVIOUS
    <2>1. Missing \in SUBSET Nat
      BY <1>1
    <2>2. PICK m \in Missing : \A l \in Missing : m <= l
      BY <2>1, SmallestExists
    <2>3. m \in 0 .. n /\ ~\E f : Upto(f, m)
      OBVIOUS
    <2>4. m # 0
      <3>1. \A f : Upto(f, 0)
        OBVIOUS
      <3>. QED
        BY <2>3, <3>1
    <2>5. m - 1 \in 0 .. n /\ ~(m <= m - 1) /\ m \in 1 .. n /\ m \in Nat
      BY <1>1, <2>3, <2>4
    <2>6. m - 1 \notin Missing
      BY <2>2, <2>5
    <2>7. PICK f : Upto(f, m - 1)
      BY <2>5, <2>6
    <2> HIDE DEF Missing
    <2>8. PICK g : g = [k \in 1 .. m |-> IF k = m THEN Extended(seqs, f, m) ELSE f[k]]
      OBVIOUS
    <2>9. ASSUME NEW k \in 1 .. m
          PROVE  g[k] = Extended(seqs, g, k) /\ CommonUpTo(seqs, g[k], k)
      <3>1. \A j \in 1 .. k - 1 : CommonUpTo(seqs, f[j], j) /\ g[j] = f[j]
        <4> SUFFICES ASSUME NEW j \in 1 .. k - 1
                     PROVE  CommonUpTo(seqs, f[j], j) /\ g[j] = f[j]
          OBVIOUS
        <4>1. j \in 1 .. m - 1 /\ j \in 1 .. m /\ j # m
          BY <2>5
        <4>. QED
          BY <2>7, <2>8, <4>1
      <3>2. k \in 1 .. Len(seqs[1])
        BY <1>1, <2>5 DEF n
      <3>3. /\ Extended(seqs, g, k) = Extended(seqs, f, k)
            /\ CommonUpTo(seqs, Extended(seqs, f, k), k)
        BY <3>1, <3>2, ExtendedIsCommon
      <3>4. g[k] = Extended(seqs, f, k)
        <4>1. CASE k = m
          BY <2>8, <4>1
        <4>2. CASE k # m
          <5>1. k \in 1 .. m - 1
            BY <2>5, <4>2
          <5>. QED
            BY <2>7, <2>8, <4>2, <5>1
        <4>. QED
          BY <4>1, <4>2
      <3>. QED
        BY <3>3, <3>4
    <2>. QED
      BY <2>3, <2>9
  <1>4. \E f : Is(f)
    <2>1. n \in 0 .. n
      BY <1>1
    <2>2. PICK f : Upto(f, n)
      BY <1>3, <2>1, Zenon
    <2>3. PICK g : g = [k \in D |-> f[k]]
      OBVIOUS
    <2>4. ASSUME NEW k \in D
          PROVE  g[k] = Extended(seqs, g, k)
      <3>1. k \in 1 .. n /\ k \in 1 .. Len(seqs[1])
        BY <1>1 DEF n
      <3>2. \A j \in 1 .. k - 1 : CommonUpTo(seqs, f[j], j) /\ g[j] = f[j]
        <4> SUFFICES ASSUME NEW j \in 1 .. k - 1
                     PROVE  CommonUpTo(seqs, f[j], j) /\ g[j] = f[j]
          OBVIOUS
        <4>1. j \in 1 .. n
          BY <1>1, <3>1
        <4>. QED
          BY <1>1, <2>2, <2>3, <4>1
      <3>3. Extended(seqs, g, k) = Extended(seqs, f, k)
        BY <3>1, <3>2, ExtendedIsCommon
      <3>. QED
        BY <2>2, <2>3, <3>1, <3>3
    <2>5. g = [k \in D |-> Extended(seqs, g, k)]
      BY <2>3, <2>4
    <2>. QED
      BY <2>5
  <1>5. Is(sub)
    BY <1>4
  <1> HIDE DEF sub
  <1>6. DOMAIN sub = D /\ \A k \in D : sub[k] = Extended(seqs, sub, k)
    <2>1. PICK h : h = [k \in D |-> Extended(seqs, sub, k)]
      OBVIOUS
    <2>2. sub = h
      BY <1>5, <2>1
    <2>. QED
      BY <2>1, <2>2
  <1> DEFINE Wrong == {k \in 1 .. n : ~CommonUpTo(seqs, sub[k], k)}
  <1>7. Wrong = {}
    <2> SUFFICES ASSUME Wrong # {}
                 PROVE  FALSE
      OBVIOUS
    <2>1. Wrong \in SUBSET Nat
      BY <1>1
    <2>2. PICK k \in Wrong : \A l \in Wrong : k <= l
      BY <2>1, SmallestExists
    <2>3. k \in 1 .. n /\ ~CommonUpTo(seqs, sub[k], k)
      OBVIOUS
    <2>4. \A j \in 1 .. k - 1 : CommonUpTo(seqs, sub[j], j)
      <3> SUFFICES ASSUME NEW j \in 1 .. k - 1
                   PROVE  CommonUpTo(seqs, sub[j], j)
        OBVIOUS
      <3>1. j \in 1 .. n /\ ~(k <= j)
        BY <1>1, <2>3
      <3>. QED
        BY <2>2, <3>1
    <2>5. k \in 1 .. Len(seqs[1]) /\ k \in D
      BY <1>1, <2>3 DEF n
    <2>6. CommonUpTo(seqs, Extended(seqs, sub, k), k)
      BY <2>4, <2>5, ExtendedIsCommon
    <2>. QED
      BY <1>6, <2>3, <2>5, <2>6
  <1>. QED
    BY <1>1, <1>2, <1>6, <1>7 DEF n

\* find_lcs returns ids that are in all sequences, in this order, and as many as
\* any subproblem.
LEMMA LcsIsCommon ==
  ASSUME NEW ps, AreOriginals(ps), NEW seqs, Whole(ps, seqs)
  PROVE  /\ FindLcs(seqs) \in Seq(Nat)
         /\ \A t \in DOMAIN seqs : LeftIn(FindLcs(seqs), 1, seqs[t])
         /\ \A k \in 1 .. Len(seqs[1]) : Len(EndingAt(seqs)[k]) <= Len(FindLcs(seqs))
  <1> DEFINE n == Len(seqs[1])
             sub == EndingAt(seqs)
             lens == [k \in DOMAIN sub |-> Len(sub[k])]
             ends == Longest(DOMAIN sub, lens)
             Id(k) == seqs[1][k].id
             smallest == CHOOSE k \in ends : \A j \in ends : Id(k) <= Id(j)
             lcs0 == FindLcs(seqs)
  <1>1. n \in Nat /\ DOMAIN sub = 1 .. n /\ \A k \in 1 .. n : CommonUpTo(seqs, sub[k], k) /\ Id(k) \in Nat
    BY WholeFields, EndingAtIsCommon
  <1>2. lcs0 = IF DOMAIN sub = {} THEN <<>> ELSE sub[smallest]
    BY DEF FindLcs
  <1>3. CASE DOMAIN sub = {}
    <2>1. lcs0 = <<>> /\ Len(lcs0) = 0
      BY <1>2, <1>3
    <2> HIDE DEF lcs0
    <2>2. lcs0 \in Seq(Nat) /\ \A t \in DOMAIN seqs : LeftIn(lcs0, 1, seqs[t])
      BY <2>1 DEF LeftIn
    <2>3. \A k \in 1 .. n : FALSE
      BY <1>1, <1>3
    <2>. QED
      BY <2>2, <2>3 DEF lcs0
  <1>4. CASE DOMAIN sub # {}
    <2> HIDE DEF sub
    <2>1. \A k \in 1 .. n : lens[k] \in 0 .. n
      <3> SUFFICES ASSUME NEW k \in 1 .. n
                   PROVE  lens[k] \in 0 .. n
        OBVIOUS
      <3>1. lens[k] = Len(sub[k]) /\ sub[k] \in Seq(Nat) /\ Len(sub[k]) <= k
        BY <1>1 DEF CommonUpTo
      <3>2. Len(sub[k]) \in Nat
        BY <3>1, LenProperties
      <3>. QED
        BY <1>1, <3>1, <3>2
    <2>2. ends \subseteq 1 .. n /\ ends # {}
      <3>1. \A j \in DOMAIN sub : lens[j] \in 0 .. n
        BY <1>1, <2>1
      <3> HIDE DEF lens
      <3>2. n \in Nat /\ DOMAIN sub \in SUBSET (1 .. n) /\ DOMAIN sub # {}
        BY <1>1, <1>4
      <3> HIDE DEF n
      <3>. QED
        BY <1>1, <3>1, <3>2, LongestIs
    <2>3. \A i \in ends, k \in 1 .. n : lens[k] <= lens[i]
      <3>1. \A j \in DOMAIN sub : lens[j] \in 0 .. n
        BY <1>1, <2>1
      <3> HIDE DEF lens
      <3>2. n \in Nat /\ DOMAIN sub \in SUBSET (1 .. n) /\ DOMAIN sub # {}
        BY <1>1, <1>4
      <3> HIDE DEF n
      <3>. QED
        BY <1>1, <3>1, <3>2, LongestIs
    <2>4. \A k \in 1 .. n : lens[k] = Len(sub[k])
      BY <1>1
    <2> HIDE DEF ends
    <2> DEFINE ids == {Id(k) : k \in ends}
    <2>5. ids \in SUBSET Nat /\ ids # {}
      BY <1>1, <2>2
    <2>6. PICK i \in ids : \A j \in ids : i <= j
      <3> HIDE DEF ids
      <3>. QED
        BY <2>5, SmallestExists
    <2>7. smallest \in ends
      BY <2>6
    <2>8. smallest \in 1 .. n
      BY <2>2, <2>7
    <2> HIDE DEF smallest
    <2>9. lcs0 = sub[smallest] /\ CommonUpTo(seqs, lcs0, smallest)
      BY <1>1, <1>2, <1>4, <2>8
    <2> HIDE DEF lcs0
    <2>10. /\ lcs0 \in Seq(Nat) /\ Len(lcs0) \in Nat
           /\ \A k \in 1 .. Len(lcs0) : InAll(seqs, lcs0[k])
           /\ \A k, l \in 1 .. Len(lcs0) : k < l => Precedes(seqs, lcs0[k], lcs0[l])
      BY <2>9, LenProperties DEF CommonUpTo
    <2>11. \A t \in DOMAIN seqs : LeftIn(lcs0, 1, seqs[t])
      BY <2>10 DEF LeftIn, InAll, Precedes
    <2>12. \A k \in 1 .. n : Len(sub[k]) <= Len(lcs0)
      <3> HIDE DEF lens
      <3>. QED
        BY <2>7, <2>8, <2>9, <2>3, <2>4
    <2>. QED
      BY <2>10, <2>11, <2>12 DEF lcs0, sub
  <1>. QED
    BY <1>3, <1>4

\* Once a common chunk is found the following ones are still to come.
LEMMA NextIsLeft ==
  ASSUME NEW ps, AreOriginals(ps), NEW t \in DOMAIN ps, NEW s \in Seq(Kids(ps, t)), Ascends(s),
         NEW ids \in Seq(Nat), NEW n \in 1 .. Len(ids), LeftIn(ids, n, s)
  PROVE  LeftIn(ids, n + 1, SubSeq(s, IndexOf(s, ids[n]) + 1, Len(s)))
  <1> DEFINE f == IndexOf(s, ids[n])
             m == Len(s)
             r == SubSeq(s, f + 1, m)
             At(k) == IndexOf(s, ids[k])
  <1>1. /\ m \in Nat /\ DOMAIN s = 1 .. m /\ Len(ids) \in Nat
        /\ \A i \in 1 .. m : s[i] \in Kids(ps, t)
    BY LenProperties, ElementOfSeq
  <1>2. \A k \in n .. Len(ids) : /\ At(k) \in 1 .. m /\ s[At(k)].id = ids[k]
                                 /\ k # n => f < At(k)
    <2> SUFFICES ASSUME NEW k \in n .. Len(ids)
                 PROVE  /\ At(k) \in 1 .. m /\ s[At(k)].id = ids[k]
                        /\ k # n => f < At(k)
      OBVIOUS
    <2>1. At(k) \in 1 .. m /\ s[At(k)].id = ids[k]
      BY <1>1, Found DEF LeftIn
    <2>2. n \in n .. Len(ids) /\ (k # n => n < k)
      BY <1>1
    <2>3. k # n => f < At(k)
      BY <2>2 DEF LeftIn
    <2>. QED
      BY <2>1, <2>3
  <1>3. f \in 1 .. m
    BY <1>1, <1>2
  <1>4. /\ r \in Seq(Kids(ps, t)) /\ Ascends(r) /\ Len(r) = m - f
        /\ \A i \in 1 .. m - f : r[i] = s[f + i]
    <2>1. PICK a : a = f + 1
      OBVIOUS
    <2>2. a \in 1 .. Len(s) + 1 /\ m \in 0 .. Len(s)
      BY <1>1, <1>3, <2>1
    <2>3. /\ r \in Seq(Kids(ps, t)) /\ Ascends(r)
          /\ Len(r) = IF a <= m THEN m - a + 1 ELSE 0
          /\ \A i \in 1 .. Len(r) : r[i] = s[a + i - 1]
      BY <2>1, <2>2, PieceOf
    <2> HIDE DEF r, f, m
    <2>4. Len(r) = m - f
      BY <1>1, <1>3, <2>1, <2>3
    <2>5. \A i \in 1 .. m - f : r[i] = s[f + i]
      <3> SUFFICES ASSUME NEW i \in 1 .. m - f
                   PROVE  r[i] = s[f + i]
        OBVIOUS
      <3>1. a + i - 1 = f + i
        BY <1>1, <1>3, <2>1
      <3>. QED
        BY <2>3, <2>4, <3>1
    <2>. QED
      BY <2>3, <2>4, <2>5
  <1> HIDE DEF r, f
  <1>5. ASSUME NEW k \in n + 1 .. Len(ids)
        PROVE  ids[k] \in Ids(r) /\ IndexOf(r, ids[k]) = At(k) - f
    <2>1. k \in n .. Len(ids) /\ k # n
      BY <1>1
    <2>2. PICK p : p = At(k)
      OBVIOUS
    <2>3. p \in 1 .. m /\ s[p].id = ids[k] /\ f < p
      BY <1>2, <2>1, <2>2
    <2>4. p - f \in 1 .. m - f /\ f + (p - f) = p
      BY <1>1, <1>3, <2>3
    <2>5. r[p - f] = s[p] /\ DOMAIN r = 1 .. m - f
      BY <1>4, <2>4, LenProperties
    <2>6. ids[k] \in Ids(r)
      BY <2>3, <2>4, <2>5 DEF Ids
    <2>7. PICK q : q = IndexOf(r, ids[k])
      OBVIOUS
    <2>8. q \in 1 .. m - f /\ r[q].id = ids[k]
      BY <2>5, <2>6, <2>7, Found
    <2>9. f + q \in 1 .. m /\ s[f + q].id = ids[k]
      BY <1>1, <1>3, <1>4, <2>8
    <2>10. s[f + q].original = s[p].original
      <3>1. PICK x : x = s[f + q]
        OBVIOUS
      <3>2. PICK y : y = s[p]
        OBVIOUS
      <3>3. x \in Kids(ps, t) /\ y \in Kids(ps, t) /\ x.id = y.id
        BY <1>1, <2>3, <2>9, <3>1, <3>2
      <3>4. x.original = y.original
        BY <3>3, KidFields
      <3>. QED
        BY <3>1, <3>2, <3>4
    <2>11. f + q = p
      <3>1. \A i \in 1 .. m : s[i].original \in Nat
        BY <1>1, KidFields
      <3>2. \A i, j \in 1 .. m : i < j => s[i].original < s[j].original
        BY DEF Ascends
      <3>3. PICK u : u = f + q
        OBVIOUS
      <3>4. u \in 1 .. m /\ p \in 1 .. m /\ s[u].original = s[p].original
        BY <2>3, <2>9, <2>10, <3>3
      <3>5. ~(u < p) /\ ~(p < u)
        BY <3>1, <3>2, <3>4
      <3>. QED
        BY <1>1, <3>3, <3>4, <3>5
    <2>. QED
      BY <1>3, <2>2, <2>3, <2>6, <2>7, <2>8, <2>11
  <1>6. ASSUME NEW k \in n + 1 .. Len(ids), NEW l \in n + 1 .. Len(ids), k < l
        PROVE  At(k) - f < At(l) - f
    <2>1. k \in n .. Len(ids) /\ l \in n .. Len(ids)
      BY <1>1
    <2>2. At(k) < At(l)
      BY <1>6, <2>1 DEF LeftIn
    <2>3. At(k) \in Nat /\ At(l) \in Nat /\ f \in Nat
      BY <1>2, <1>3, <2>1
    <2> HIDE DEF At
    <2>. QED
      BY <2>2, <2>3
  <1>7. LeftIn(ids, n + 1, r)
    <2> SUFFICES ASSUME NEW k \in n + 1 .. Len(ids)
                 PROVE  /\ ids[k] \in Ids(r)
                        /\ \A l \in n + 1 .. Len(ids) :
                             k < l => IndexOf(r, ids[k]) < IndexOf(r, ids[l])
      BY DEF LeftIn
    <2>. QED
      BY <1>5, <1>6
  <1>. QED
    BY <1>7 DEF r, f

-----------------------------------------------------------------------------
(***************************************************************************)
(* The order in which a trace's chunks are called, worked on and left.     *)
(***************************************************************************)

\* cs have been called, ws are to be worked on, and then come the chunks in rest
Ordered(cs, ws, rest, t) ==
  /\ \A i, j \in 1 .. Len(cs) : i < j => Below(Chosen(cs[i].group, t), Chosen(cs[j].group, t))
  /\ \A i \in 1 .. Len(cs) : \A k \in 1 .. Len(ws) : Below(Chosen(cs[i].group, t), Content(ws[k], t))
  /\ \A k, l \in 1 .. Len(ws) : k < l => Below(Content(ws[k], t), Content(ws[l], t))
  /\ \A i \in 1 .. Len(cs) : Below(Chosen(cs[i].group, t), rest)
  /\ \A k \in 1 .. Len(ws) : Below(Content(ws[k], t), rest)

\* Fewer chunks are in order too.
LEMMA FewerBelow ==
  ASSUME NEW A, NEW B, Below(A, B), NEW C, C \subseteq A, NEW D, D \subseteq B
  PROVE  Below(C, D)
  BY DEF Below

\* A section is worked on in three steps.
LEMMA OrderedSplit ==
  ASSUME NEW W, NEW cs, NEW ws \in Seq(W), ws # <<>>, NEW rest, NEW t, Ordered(cs, ws, rest, t),
         NEW x \in W, NEW y \in W, NEW z \in W,
         Content(x, t) \subseteq Content(Head(ws), t),
         Content(y, t) \subseteq Content(Head(ws), t),
         Content(z, t) \subseteq Content(Head(ws), t),
         Below(Content(x, t), Content(y, t)), Below(Content(y, t), Content(z, t)),
         Below(Content(x, t), Content(z, t))
  PROVE  <<x, y, z>> \o Tail(ws) \in Seq(W) /\ Ordered(cs, <<x, y, z>> \o Tail(ws), rest, t)
  <1> DEFINE new == <<x, y, z>> \o Tail(ws)
             n == Len(ws)
             Old(k) == IF k <= 3 THEN 1 ELSE k - 2
  <1>1. n \in Nat /\ n >= 1 /\ Head(ws) = ws[1]
    BY EmptySeq
  <1>2. /\ Tail(ws) \in Seq(W) /\ Len(Tail(ws)) = n - 1
        /\ \A k \in 1 .. n - 1 : Tail(ws)[k] = ws[k + 1]
    BY HeadTailProperties
  <1>3. /\ new \in Seq(W) /\ Len(new) = n + 2
        /\ new[1] = x /\ new[2] = y /\ new[3] = z
        /\ \A k \in 4 .. n + 2 : new[k] = ws[k - 2]
    <2>1. <<x, y, z>> \in Seq(W) /\ Len(<<x, y, z>>) = 3
      OBVIOUS
    <2>2. /\ new \in Seq(W) /\ Len(new) = 3 + (n - 1)
          /\ \A k \in 1 .. 3 + (n - 1) : new[k] = IF k <= 3 THEN <<x, y, z>>[k] ELSE Tail(ws)[k - 3]
      BY <1>2, <2>1, ConcatProperties
    <2> HIDE DEF new
    <2>3. Len(new) = n + 2 /\ new[1] = x /\ new[2] = y /\ new[3] = z
      BY <1>1, <2>2
    <2>4. \A k \in 4 .. n + 2 : new[k] = ws[k - 2]
      <3> SUFFICES ASSUME NEW k \in 4 .. n + 2
                   PROVE  new[k] = ws[k - 2]
        OBVIOUS
      <3>1. k - 3 \in 1 .. n - 1 /\ k \in 1 .. 3 + (n - 1) /\ ~(k <= 3) /\ (k - 3) + 1 = k - 2
        BY <1>1
      <3>2. new[k] = Tail(ws)[k - 3]
        BY <2>2, <3>1
      <3>. QED
        BY <1>2, <3>1, <3>2
    <2>. QED
      BY <2>2, <2>3, <2>4
  <1> HIDE DEF new, n
  <1>4. \A k \in 1 .. n + 2 : /\ Old(k) \in 1 .. n
                              /\ Content(new[k], t) \subseteq Content(ws[Old(k)], t)
    <2> SUFFICES ASSUME NEW k \in 1 .. n + 2
                 PROVE  /\ Old(k) \in 1 .. n
                        /\ Content(new[k], t) \subseteq Content(ws[Old(k)], t)
      OBVIOUS
    <2>1. CASE k \in {1, 2, 3}
      BY <1>1, <1>3, <2>1
    <2>2. CASE k \in 4 .. n + 2
      BY <1>1, <1>3, <2>2
    <2>. QED
      BY <1>1, <2>1, <2>2
  <1>5. \A k, l \in 1 .. n + 2 : k < l => Below(Content(new[k], t), Content(new[l], t))
    <2> SUFFICES ASSUME NEW k \in 1 .. n + 2, NEW l \in 1 .. n + 2, k < l
                 PROVE  Below(Content(new[k], t), Content(new[l], t))
      OBVIOUS
    <2>1. CASE l <= 3
      <3>1. (k = 1 /\ l = 2) \/ (k = 1 /\ l = 3) \/ (k = 2 /\ l = 3)
        BY <1>1, <2>1
      <3>. QED
        BY <1>3, <3>1
    <2>2. CASE l > 3
      <3>1. Old(k) < Old(l)
        BY <1>1, <2>2
      <3>2. Old(k) \in 1 .. Len(ws) /\ Old(l) \in 1 .. Len(ws)
        BY <1>4 DEF n
      <3>3. Below(Content(ws[Old(k)], t), Content(ws[Old(l)], t))
        BY <3>1, <3>2 DEF Ordered
      <3>. QED
        BY <1>4, <3>3, FewerBelow
    <2>. QED
      BY <1>1, <2>1, <2>2
  <1>6. ASSUME NEW i \in 1 .. Len(cs), NEW k \in 1 .. n + 2
        PROVE  Below(Chosen(cs[i].group, t), Content(new[k], t))
    <2>1. Old(k) \in 1 .. Len(ws) /\ Content(new[k], t) \subseteq Content(ws[Old(k)], t)
      BY <1>4 DEF n
    <2>2. Below(Chosen(cs[i].group, t), Content(ws[Old(k)], t))
      BY <2>1 DEF Ordered
    <2>. QED
      BY <2>1, <2>2, FewerBelow
  <1>7. ASSUME NEW k \in 1 .. n + 2
        PROVE  Below(Content(new[k], t), rest)
    <2>1. Old(k) \in 1 .. Len(ws) /\ Content(new[k], t) \subseteq Content(ws[Old(k)], t)
      BY <1>4 DEF n
    <2>2. Below(Content(ws[Old(k)], t), rest)
      BY <2>1 DEF Ordered
    <2>. QED
      BY <2>1, <2>2, FewerBelow
  <1>8. Ordered(cs, new, rest, t)
    BY <1>3, <1>5, <1>6, <1>7 DEF Ordered
  <1>. QED
    BY <1>3, <1>8 DEF new

\* A piece of work is done.
LEMMA OrderedPop ==
  ASSUME NEW W, NEW cs, NEW ws \in Seq(W), ws # <<>>, NEW rest, NEW t, Ordered(cs, ws, rest, t)
  PROVE  Tail(ws) \in Seq(W) /\ Ordered(cs, Tail(ws), rest, t)
  <1> DEFINE n == Len(ws)
             new == Tail(ws)
  <1>1. n \in Nat /\ n >= 1
    BY EmptySeq
  <1>2. /\ new \in Seq(W) /\ Len(new) = n - 1
        /\ \A k \in 1 .. n - 1 : new[k] = ws[k + 1] /\ k + 1 \in 1 .. n
    BY <1>1, HeadTailProperties
  <1> HIDE DEF new
  <1>3. \A k, l \in 1 .. n - 1 : k < l => Below(Content(new[k], t), Content(new[l], t))
    <2> SUFFICES ASSUME NEW k \in 1 .. n - 1, NEW l \in 1 .. n - 1, k < l
                 PROVE  Below(Content(new[k], t), Content(new[l], t))
      OBVIOUS
    <2>1. k + 1 < l + 1
      BY <1>1
    <2>. QED
      BY <1>2, <2>1 DEF Ordered
  <1>4. \A i \in 1 .. Len(cs) : \A k \in 1 .. n - 1 : Below(Chosen(cs[i].group, t), Content(new[k], t))
    BY <1>2 DEF Ordered
  <1>5. \A k \in 1 .. n - 1 : Below(Content(new[k], t), rest)
    BY <1>2 DEF Ordered
  <1>6. Ordered(cs, new, rest, t)
    BY <1>2, <1>3, <1>4, <1>5 DEF Ordered
  <1>. QED
    BY <1>2, <1>6 DEF new

\* A group is called.
LEMMA OrderedCall ==
  ASSUME NEW C, NEW cs \in Seq(C), NEW W, NEW ws \in Seq(W), ws # <<>>, NEW rest, NEW t,
         Ordered(cs, ws, rest, t), NEW c \in C, Content(Head(ws), t) = Chosen(c.group, t)
  PROVE  Append(cs, c) \in Seq(C) /\ Ordered(Append(cs, c), Tail(ws), rest, t)
  <1> DEFINE n == Len(ws)
             m == Len(cs)
             new == Append(cs, c)
             left == Tail(ws)
             S == Chosen(c.group, t)
  <1>1. n \in Nat /\ n >= 1 /\ m \in Nat /\ S = Content(ws[1], t) /\ 1 \in 1 .. n
    BY EmptySeq, LenProperties
  <1>2. Ordered(cs, left, rest, t) /\ left \in Seq(W)
    BY OrderedPop
  <1>3. /\ new \in Seq(C) /\ Len(new) = m + 1 /\ new[m + 1] = c
        /\ \A i \in 1 .. m : new[i] = cs[i]
    BY AppendProperties
  <1>4. Len(left) = n - 1 /\ \A k \in 1 .. n - 1 : left[k] = ws[k + 1] /\ k + 1 \in 1 .. n /\ 1 < k + 1
    BY <1>1, HeadTailProperties
  <1> HIDE DEF new, left
  <1>5. \A i, j \in 1 .. m + 1 : i < j => Below(Chosen(new[i].group, t), Chosen(new[j].group, t))
    <2> SUFFICES ASSUME NEW i \in 1 .. m + 1, NEW j \in 1 .. m + 1, i < j
                 PROVE  Below(Chosen(new[i].group, t), Chosen(new[j].group, t))
      OBVIOUS
    <2>1. i \in 1 .. m /\ new[i] = cs[i]
      BY <1>1, <1>3
    <2>2. CASE j = m + 1
      BY <1>1, <1>3, <2>1, <2>2 DEF Ordered
    <2>3. CASE j \in 1 .. m
      BY <1>3, <2>1, <2>3 DEF Ordered
    <2>. QED
      BY <1>1, <2>2, <2>3
  <1>6. \A i \in 1 .. m + 1 : \A k \in 1 .. n - 1 : Below(Chosen(new[i].group, t), Content(left[k], t))
    <2> SUFFICES ASSUME NEW i \in 1 .. m + 1, NEW k \in 1 .. n - 1
                 PROVE  Below(Chosen(new[i].group, t), Content(left[k], t))
      OBVIOUS
    <2>1. CASE i = m + 1
      BY <1>1, <1>3, <1>4, <2>1 DEF Ordered
    <2>2. CASE i \in 1 .. m
      BY <1>2, <1>3, <1>4, <2>2 DEF Ordered
    <2>. QED
      BY <1>1, <2>1, <2>2
  <1>7. \A i \in 1 .. m + 1 : Below(Chosen(new[i].group, t), rest)
    <2> SUFFICES ASSUME NEW i \in 1 .. m + 1
                 PROVE  Below(Chosen(new[i].group, t), rest)
      OBVIOUS
    <2>1. CASE i = m + 1
      BY <1>1, <1>3, <2>1 DEF Ordered
    <2>2. CASE i \in 1 .. m
      BY <1>3, <2>2 DEF Ordered
    <2>. QED
      BY <1>1, <2>1, <2>2
  <1>8. Ordered(new, left, rest, t)
    BY <1>2, <1>3, <1>4, <1>5, <1>6, <1>7 DEF Ordered
  <1>. QED
    BY <1>3, <1>8 DEF new, left

\* The chunks up to a common one are taken from the rest.
LEMMA OrderedTake ==
  ASSUME NEW cs, NEW rest, NEW t, Ordered(cs, <<>>, rest, t), NEW x, NEW y, NEW left,
         Content(x, t) \subseteq rest, Content(y, t) \subseteq rest, left \subseteq rest,
         Below(Content(x, t), Content(y, t)), Below(Content(y, t), left), Below(Content(x, t), left)
  PROVE  Ordered(cs, <<x, y>>, left, t)
  <1> DEFINE ws == <<x, y>>
  <1>1. Len(ws) = 2 /\ ws[1] = x /\ ws[2] = y /\ \A k \in 1 .. 2 : k = 1 \/ k = 2
    OBVIOUS
  <1> HIDE DEF ws
  <1>2. \A i \in 1 .. Len(cs) : /\ Below(Chosen(cs[i].group, t), Content(x, t))
                                /\ Below(Chosen(cs[i].group, t), Content(y, t))
                                /\ Below(Chosen(cs[i].group, t), left)
    <2> SUFFICES ASSUME NEW i \in 1 .. Len(cs)
                 PROVE  /\ Below(Chosen(cs[i].group, t), Content(x, t))
                        /\ Below(Chosen(cs[i].group, t), Content(y, t))
                        /\ Below(Chosen(cs[i].group, t), left)
      OBVIOUS
    <2>1. Below(Chosen(cs[i].group, t), rest)
      BY DEF Ordered
    <2>. QED
      BY <2>1, FewerBelow
  <1>3. \A k, l \in 1 .. 2 : k < l => k = 1 /\ l = 2
    OBVIOUS
  <1>4. Ordered(cs, ws, left, t)
    <2>1. \A i, j \in 1 .. Len(cs) : i < j => Below(Chosen(cs[i].group, t), Chosen(cs[j].group, t))
      BY DEF Ordered
    <2>2. \A i \in 1 .. Len(cs) : \A k \in 1 .. 2 : Below(Chosen(cs[i].group, t), Content(ws[k], t))
      BY <1>1, <1>2
    <2>3. \A k, l \in 1 .. 2 : k < l => Below(Content(ws[k], t), Content(ws[l], t))
      BY <1>1, <1>3
    <2>4. \A k \in 1 .. 2 : Below(Content(ws[k], t), left)
      BY <1>1
    <2>. QED
      BY <1>1, <1>2, <2>1, <2>2, <2>3, <2>4 DEF Ordered
  <1>. QED
    BY <1>4 DEF ws

\* The last section is all of the rest.
LEMMA OrderedLast ==
  ASSUME NEW cs, NEW t, NEW x, Ordered(cs, <<>>, Content(x, t), t)
  PROVE  Ordered(cs, <<x>>, {}, t)
  <1> DEFINE ws == <<x>>
  <1>1. Len(ws) = 1 /\ ws[1] = x /\ \A k \in 1 .. 1 : k = 1
    OBVIOUS
  <1> HIDE DEF ws
  <1>2. \A S : Below(S, {})
    BY DEF Below
  <1>3. \A k, l \in 1 .. 1 : ~(k < l)
    OBVIOUS
  <1>4. Ordered(cs, ws, {}, t)
    BY <1>1, <1>2, <1>3 DEF Ordered
  <1>. QED
    BY <1>4 DEF ws

\* Less may be left.
LEMMA OrderedRest ==
  ASSUME NEW cs, NEW ws, NEW rest, NEW t, Ordered(cs, ws, rest, t), NEW left, left \subseteq rest
  PROVE  Ordered(cs, ws, left, t)
  <1>1. \A i \in 1 .. Len(cs) : Below(Chosen(cs[i].group, t), left)
    BY DEF Ordered, Below
  <1>2. \A k \in 1 .. Len(ws) : Below(Content(ws[k], t), left)
    BY DEF Ordered, Below
  <1>. QED
    BY <1>1, <1>2 DEF Ordered

\* index_children gives every trace all of its chunks.
LEMMA IndexIsWhole ==
  ASSUME NEW ps, AreOriginals(ps)
  PROVE  Whole(ps, IndexChildren(ps))
  <1> DEFINE seqs == IndexChildren(ps)
  <1>1. seqs = [t \in DOMAIN ps |-> [i \in DOMAIN ps[t].chunks |-> IdedChild(ps, t, i)]]
    BY DEF IndexChildren
  <1> HIDE DEF seqs
  <1>2. ASSUME NEW t \in DOMAIN ps
        PROVE  seqs[t] \in Seq(Kids(ps, t)) /\ Ascends(seqs[t])
    <2>1. PICK n : n = Len(ps[t].chunks)
      OBVIOUS
    <2>2. n \in Nat /\ DOMAIN ps[t].chunks = 1 .. n
      BY <2>1, OriginalFields
    <2>3. seqs[t] = [i \in 1 .. n |-> IdedChild(ps, t, i)]
      BY <1>1, <2>2
    <2>4. \A i \in 1 .. n : IdedChild(ps, t, i) \in Kids(ps, t)
      BY <2>2 DEF Kids
    <2>5. seqs[t] \in [1 .. n -> Kids(ps, t)]
      BY <2>3, <2>4
    <2>6. seqs[t] \in Seq(Kids(ps, t))
      BY <2>2, <2>5, SeqDef
    <2>7. Len(seqs[t]) = n
      BY <2>2, <2>5, <2>6, LenProperties
    <2>8. \A i \in 1 .. n : seqs[t][i].original = i
      BY <2>3 DEF IdedChild
    <2>9. Ascends(seqs[t])
      BY <2>2, <2>7, <2>8 DEF Ascends
    <2>. QED
      BY <2>6, <2>9
  <1>3. seqs = [t \in DOMAIN ps |-> seqs[t]]
    BY <1>1
  <1>4. DOMAIN ps \in SUBSET (DOMAIN ps)
    OBVIOUS
  <1>5. seqs \in Section(ps)
    BY <1>2, <1>3, <1>4, SectionMade
  <1>. QED
    BY <1>1, <1>5 DEF Whole, seqs

\* what comes before a common chunk, and what is left
UpTo(seqs, id) == [t \in Having(seqs, id) |-> SubSeq(seqs[t], 1, IndexOf(seqs[t], id) - 1)]

Onwards(ps, seqs, id) ==
  [t \in DOMAIN ps |-> IF t \in Having(seqs, id)
                       THEN SubSeq(seqs[t], IndexOf(seqs[t], id) + 1, Len(seqs[t]))
                       ELSE seqs[t]]

\* the chunks of a trace come in this order and are all in the sequences
TakenInOrder(b, m, a, seqs, t) ==
  /\ In(b, t) \subseteq In(seqs, t)
  /\ Chosen(m, t) \subseteq In(seqs, t)
  /\ In(a, t) \subseteq In(seqs, t)
  /\ Below(In(b, t), Chosen(m, t))
  /\ Below(Chosen(m, t), In(a, t))
  /\ Below(In(b, t), In(a, t))

\* A common chunk is in every sequence, and cuts a section and itself off all of
\* them; the following common chunks are in what is left.
LEMMA CommonTaken ==
  ASSUME NEW ps, AreOriginals(ps), NEW seqs, Whole(ps, seqs), NEW ids \in Seq(Nat),
         NEW n \in 1 .. Len(ids), \A t \in DOMAIN seqs : LeftIn(ids, n, seqs[t]),
         NEW id, id = ids[n]
  PROVE  /\ UpTo(seqs, id) \in Section(ps) /\ Matching(seqs, id) \in Group(ps)
         /\ Whole(ps, Onwards(ps, seqs, id))
         /\ \A t \in DOMAIN Onwards(ps, seqs, id) : LeftIn(ids, n + 1, Onwards(ps, seqs, id)[t])
         /\ \A t \in DOMAIN ps :
              TakenInOrder(UpTo(seqs, id), Matching(seqs, id), Onwards(ps, seqs, id), seqs, t)
  <1> DEFINE b == UpTo(seqs, id)
             a == Onwards(ps, seqs, id)
             cut == [t \in DOMAIN ps |-> IndexOf(seqs[t], id) - 1]
  <1>1. /\ id = ids[n]
        /\ b = [t \in Having(seqs, id) |-> SubSeq(seqs[t], 1, IndexOf(seqs[t], id) - 1)]
        /\ a = [t \in DOMAIN ps |-> IF t \in Having(seqs, id)
                                    THEN SubSeq(seqs[t], IndexOf(seqs[t], id) + 1, Len(seqs[t]))
                                    ELSE seqs[t]]
    BY DEF UpTo, Onwards
  <1>2. DOMAIN seqs = DOMAIN ps /\ seqs \in Section(ps) /\ 1 \in DOMAIN ps
    BY OriginalFields DEF Whole
  <1>3. ASSUME NEW t \in DOMAIN ps
        PROVE  /\ id \in Ids(seqs[t]) /\ IndexOf(seqs[t], id) \in 1 .. Len(seqs[t])
               /\ Len(seqs[t]) \in Nat
    <2>1. n \in n .. Len(ids)
      BY LenProperties
    <2>2. id \in Ids(seqs[t])
      BY <1>1, <1>2, <2>1 DEF LeftIn
    <2>. QED
      BY <1>2, <2>2, Found, SectionIs
  <1>4. Having(seqs, id) = DOMAIN ps
    BY <1>2, <1>3 DEF Having
  <1>5. ASSUME NEW t \in DOMAIN ps
        PROVE  CutsAt(seqs[t], id, cut[t]) /\ cut[t] + 2 = IndexOf(seqs[t], id) + 1
    <2>1. cut[t] = IndexOf(seqs[t], id) - 1
      BY <1>1
    <2>. QED
      BY <1>3, <2>1 DEF CutsAt
  <1>6. b = Before(seqs, cut)
    BY <1>1, <1>2, <1>4 DEF Before
  <1>7. a = After(seqs, cut, id)
    <2>1. After(seqs, cut, id) = [t \in DOMAIN ps |->
             SubSeq(seqs[t], cut[t] + (IF id \in Ids(seqs[t]) THEN 2 ELSE 1), Len(seqs[t]))]
      BY <1>2 DEF After
    <2>2. ASSUME NEW t \in DOMAIN ps
          PROVE  cut[t] + (IF id \in Ids(seqs[t]) THEN 2 ELSE 1) = IndexOf(seqs[t], id) + 1
      BY <1>3, <1>5
    <2>3. After(seqs, cut, id) = [t \in DOMAIN ps |->
                                    SubSeq(seqs[t], IndexOf(seqs[t], id) + 1, Len(seqs[t]))]
      BY <2>1, <2>2
    <2>4. a = [t \in DOMAIN ps |-> SubSeq(seqs[t], IndexOf(seqs[t], id) + 1, Len(seqs[t]))]
      BY <1>1, <1>4
    <2>. QED
      BY <2>3, <2>4
  <1>8. DOMAIN a = DOMAIN ps
    BY <1>1
  <1> HIDE DEF cut, a, b
  <1>9. ASSUME NEW t \in DOMAIN a
        PROVE  LeftIn(ids, n + 1, a[t])
    <2>1. t \in DOMAIN ps /\ seqs[t] \in Seq(Kids(ps, t)) /\ Ascends(seqs[t])
      BY <1>2, <1>8, SectionIs
    <2>2. a[t] = SubSeq(seqs[t], IndexOf(seqs[t], ids[n]) + 1, Len(seqs[t]))
      BY <1>1, <1>4, <2>1
    <2>3. LeftIn(ids, n, seqs[t])
      BY <1>2, <2>1
    <2>4. LeftIn(ids, n + 1, SubSeq(seqs[t], IndexOf(seqs[t], ids[n]) + 1, Len(seqs[t])))
      BY <2>1, <2>3, NextIsLeft
    <2>. QED
      BY <2>2, <2>4
  <1>10. \A t \in DOMAIN seqs : CutsAt(seqs[t], id, cut[t])
    BY <1>2, <1>5
  <1>11. Having(seqs, id) # {}
    BY <1>2, <1>4
  <1>12. /\ Before(seqs, cut) \in Section(ps)
         /\ Matching(seqs, id) \in Group(ps)
         /\ After(seqs, cut, id) \in Section(ps)
         /\ \A t \in DOMAIN ps :
              /\ In(Before(seqs, cut), t) \subseteq In(seqs, t)
              /\ Chosen(Matching(seqs, id), t) \subseteq In(seqs, t)
              /\ In(After(seqs, cut, id), t) \subseteq In(seqs, t)
              /\ Below(In(Before(seqs, cut), t), Chosen(Matching(seqs, id), t))
              /\ Below(Chosen(Matching(seqs, id), t), In(After(seqs, cut, id), t))
              /\ Below(In(Before(seqs, cut), t), In(After(seqs, cut, id), t))
    BY <1>2, <1>10, <1>11, SectionSplits
  <1>. QED
    BY <1>6, <1>7, <1>8, <1>9, <1>12 DEF Whole, TakenInOrder, a, b

-----------------------------------------------------------------------------
(***************************************************************************)
(* Part 3.  The groups are called in the order of the chunks of each       *)
(* trace.                                                                  *)
(***************************************************************************)

\* what the variables hold; common chunks are left in the rest of each trace
Known ==
  /\ AreOriginals(parents)
  /\ work \in Seq(Item(parents))
  /\ called \in Seq(Call(parents))
  /\ phase = "index" => work = <<>> /\ called = <<>> /\ nextCommon = 1
  /\ phase = "common" => /\ Whole(parents, sequences)
                         /\ lcs \in Seq(Nat) /\ nextCommon \in Nat \ {0}
                         /\ \A t \in DOMAIN sequences : LeftIn(lcs, nextCommon, sequences[t])

\* of each trace
Rest(t) == IF phase = "common" THEN In(sequences, t) ELSE {}

\* In every trace, what has been called comes before what is to be worked on,
\* and that before what has not been cut off yet.
InOrder == \A t \in DOMAIN parents : Ordered(called, work, Rest(t), t)

OrderInv == Known /\ InOrder

LEMMA InitOrder == Init => OrderInv
  <1> SUFFICES ASSUME Init
               PROVE  OrderInv
    OBVIOUS
  <1>1. PICK input \in Inputs : parents = input.parents
    BY DEF Init, MergeInit
  <1>2. AreOriginals(parents)
    BY <1>1, InputsAssumption DEF AreOriginals
  <1>3. /\ phase = "index" /\ work = <<>> /\ called = <<>> /\ nextCommon = 1
        /\ Len(called) = 0 /\ Len(work) = 0
    BY DEF Init, MergeInit
  <1>4. Known
    BY <1>2, <1>3 DEF Known
  <1>5. InOrder
    BY <1>3 DEF InOrder, Ordered
  <1>. QED
    BY <1>4, <1>5 DEF OrderInv

\* kinds of work
LEMMA HeadIs ==
  ASSUME NEW ps, NEW ws \in Seq(Item(ps)), ws # <<>>
  PROVE  /\ Head(ws) \in Item(ps) /\ Tail(ws) \in Seq(Item(ps))
         /\ Head(ws).kind = "find" => Head(ws).seqs \in Section(ps)
         /\ Head(ws).kind = "process" => Head(ws).group \in Group(ps)
  <1>1. Head(ws) \in Item(ps) /\ Tail(ws) \in Seq(Item(ps))
    BY HeadTailProperties
  <1>. QED
    BY <1>1 DEF Item

LEMMA ItemMade ==
  ASSUME NEW ps
  PROVE  /\ \A seqs \in Section(ps) : /\ Find(seqs) \in Item(ps)
                                      /\ \A t : Content(Find(seqs), t) = In(seqs, t)
         /\ \A group \in Group(ps) : /\ Process(group) \in Item(ps)
                                     /\ \A t : Content(Process(group), t) = Chosen(group, t)
  BY DEF Item, Find, Process, Content

LEMMA OrderIndex ==
  ASSUME OrderInv, Index
  PROVE  OrderInv'
  <1>1. /\ phase = "index" /\ phase' = "common" /\ parents' = parents
        /\ work' = work /\ called' = called /\ nextCommon' = nextCommon
        /\ sequences' = IndexChildren(parents) /\ lcs' = FindLcs(IndexChildren(parents))
    BY DEF Index
  <1>2. AreOriginals(parents) /\ work = <<>> /\ called = <<>> /\ nextCommon = 1
    BY <1>1 DEF OrderInv, Known
  <1>3. PICK seqs : seqs = IndexChildren(parents)
    OBVIOUS
  <1>4. /\ Whole(parents, seqs) /\ FindLcs(seqs) \in Seq(Nat)
        /\ \A t \in DOMAIN seqs : LeftIn(FindLcs(seqs), 1, seqs[t])
    BY <1>2, <1>3, IndexIsWhole, LcsIsCommon
  <1>5. /\ Whole(parents, sequences') /\ lcs' \in Seq(Nat)
        /\ \A t \in DOMAIN sequences' : LeftIn(lcs', nextCommon', sequences'[t])
    BY <1>1, <1>2, <1>3, <1>4
  <1>6. Known'
    BY <1>1, <1>2, <1>5 DEF OrderInv, Known
  <1>7. ASSUME NEW t \in DOMAIN parents
        PROVE  Ordered(<<>>, <<>>, In(IndexChildren(parents), t), t)
    BY DEF Ordered
  <1>8. InOrder'
    BY <1>1, <1>2, <1>7 DEF InOrder, Rest
  <1>. QED
    BY <1>6, <1>8 DEF OrderInv

LEMMA OrderNextCommon ==
  ASSUME OrderInv, NextCommon
  PROVE  OrderInv'
  <1>1. /\ phase = "common" /\ phase' = "common" /\ work = <<>> /\ parents' = parents
        /\ called' = called /\ lcs' = lcs /\ nextCommon' = nextCommon + 1
        /\ nextCommon <= Len(lcs)
    BY DEF NextCommon
  <1>2. PICK id : id = lcs[nextCommon]
    OBVIOUS
  <1>3. PICK b : b = UpTo(sequences, id)
    OBVIOUS
  <1>4. PICK m : m = Matching(sequences, id)
    OBVIOUS
  <1>5. PICK a : a = Onwards(parents, sequences, id)
    OBVIOUS
  <1>6. AreOriginals(parents) /\ DOMAIN parents = 1 .. Len(parents)
    BY DEF OrderInv, Known, AreOriginals
  <1>7. work' = <<Find(b), Process(m)>> /\ sequences' = a
    BY <1>2, <1>3, <1>4, <1>5, <1>6 DEF NextCommon, Traces, UpTo, Onwards
  <1>8. /\ Whole(parents, sequences) /\ lcs \in Seq(Nat) /\ nextCommon \in 1 .. Len(lcs)
        /\ \A t \in DOMAIN sequences : LeftIn(lcs, nextCommon, sequences[t])
        /\ called \in Seq(Call(parents)) /\ nextCommon + 1 \in Nat \ {0}
    BY <1>1, LenProperties DEF OrderInv, Known
  <1>9. /\ b \in Section(parents) /\ m \in Group(parents) /\ Whole(parents, a)
        /\ \A t \in DOMAIN a : LeftIn(lcs, nextCommon + 1, a[t])
        /\ \A t \in DOMAIN parents : TakenInOrder(b, m, a, sequences, t)
    BY <1>2, <1>3, <1>4, <1>5, <1>6, <1>8, CommonTaken
  <1>10. Find(b) \in Item(parents) /\ Process(m) \in Item(parents)
    BY <1>9, ItemMade
  <1>11. Known'
    BY <1>1, <1>6, <1>7, <1>8, <1>9, <1>10 DEF Known
  <1>12. ASSUME NEW t \in DOMAIN parents
         PROVE  Ordered(called, <<Find(b), Process(m)>>, In(a, t), t)
    <2>1. Ordered(called, <<>>, In(sequences, t), t)
      BY <1>1 DEF OrderInv, InOrder, Rest
    <2>2. Content(Find(b), t) = In(b, t) /\ Content(Process(m), t) = Chosen(m, t)
      BY <1>9, ItemMade
    <2>. QED
      BY <1>9, <2>1, <2>2, OrderedTake DEF TakenInOrder
  <1>13. InOrder'
    BY <1>1, <1>7, <1>12 DEF InOrder, Rest
  <1>. QED
    BY <1>11, <1>13 DEF OrderInv

LEMMA OrderLastSection ==
  ASSUME OrderInv, LastSection
  PROVE  OrderInv'
  <1>1. /\ phase = "common" /\ phase' = "last" /\ work = <<>> /\ work' = <<Find(sequences)>>
        /\ parents' = parents /\ called' = called
    BY DEF LastSection
  <1>2. /\ AreOriginals(parents) /\ called \in Seq(Call(parents))
        /\ sequences \in Section(parents)
    BY <1>1 DEF OrderInv, Known, Whole
  <1>3. Find(sequences) \in Item(parents) /\ \A t : Content(Find(sequences), t) = In(sequences, t)
    BY <1>2, ItemMade
  <1>4. Known'
    BY <1>1, <1>2, <1>3 DEF Known
  <1>5. ASSUME NEW t \in DOMAIN parents
        PROVE  Ordered(called, <<Find(sequences)>>, {}, t)
    <2>1. Ordered(called, <<>>, Content(Find(sequences), t), t)
      BY <1>1, <1>3 DEF OrderInv, InOrder, Rest
    <2>. QED
      BY <2>1, OrderedLast
  <1>6. InOrder'
    BY <1>1, <1>5 DEF InOrder, Rest
  <1>. QED
    BY <1>4, <1>6 DEF OrderInv

LEMMA OrderEndSection ==
  ASSUME OrderInv, EndSection
  PROVE  OrderInv'
  <1>1. /\ work # <<>> /\ work' = Tail(work) /\ phase \in {"common", "last"}
        /\ UNCHANGED <<parents, sequences, lcs, nextCommon, phase, called>>
    BY DEF EndSection, NextWork
  <1>2. work \in Seq(Item(parents))
    BY DEF OrderInv, Known
  <1>3. Tail(work) \in Seq(Item(parents))
    BY <1>1, <1>2, HeadIs
  <1>4. Known'
    BY <1>1, <1>3 DEF OrderInv, Known
  <1>5. ASSUME NEW t \in DOMAIN parents
        PROVE  Ordered(called, Tail(work), Rest(t), t)
    BY <1>1, <1>2, OrderedPop DEF OrderInv, InOrder
  <1>6. InOrder'
    BY <1>1, <1>5 DEF InOrder, Rest
  <1>. QED
    BY <1>4, <1>6 DEF OrderInv

LEMMA OrderSplitSection ==
  ASSUME OrderInv, SplitSection
  PROVE  OrderInv'
  <1>1. /\ work # <<>> /\ Head(work).kind = "find" /\ phase \in {"common", "last"}
        /\ IsFrequent(Head(work).seqs)
        /\ UNCHANGED <<parents, sequences, lcs, nextCommon, phase, called>>
    BY DEF SplitSection, NextWork
  <1>2. PICK seqs : seqs = Head(work).seqs
    OBVIOUS
  <1>3. PICK id : id = MostFrequent(seqs)
    OBVIOUS
  <1>4. PICK cut \in Cuts(seqs, id) :
          work' = << Find(Before(seqs, cut)), Process(Matching(seqs, id)),
                     Find(After(seqs, cut, id)) >> \o Tail(work)
    BY <1>2, <1>3 DEF SplitSection
  <1>5. PICK x : x = Find(Before(seqs, cut))
    OBVIOUS
  <1>6. PICK y : y = Process(Matching(seqs, id))
    OBVIOUS
  <1>7. PICK z : z = Find(After(seqs, cut, id))
    OBVIOUS
  <1>8. AreOriginals(parents) /\ work \in Seq(Item(parents))
    BY DEF OrderInv, Known
  <1>9. seqs \in Section(parents) /\ IsFrequent(seqs)
    BY <1>1, <1>2, <1>8, HeadIs
  <1>10. Having(seqs, id) # {}
    BY <1>3, <1>8, <1>9, FrequentIsThere
  <1>11. \A t \in DOMAIN seqs : CutsAt(seqs[t], id, cut[t])
    BY <1>9, CutAt
  <1>12. /\ Before(seqs, cut) \in Section(parents)
         /\ Matching(seqs, id) \in Group(parents)
         /\ After(seqs, cut, id) \in Section(parents)
         /\ \A t \in DOMAIN parents :
              /\ In(Before(seqs, cut), t) \subseteq In(seqs, t)
              /\ Chosen(Matching(seqs, id), t) \subseteq In(seqs, t)
              /\ In(After(seqs, cut, id), t) \subseteq In(seqs, t)
              /\ Below(In(Before(seqs, cut), t), Chosen(Matching(seqs, id), t))
              /\ Below(Chosen(Matching(seqs, id), t), In(After(seqs, cut, id), t))
              /\ Below(In(Before(seqs, cut), t), In(After(seqs, cut, id), t))
    BY <1>8, <1>9, <1>10, <1>11, SectionSplits
  <1>13. /\ x \in Item(parents) /\ y \in Item(parents) /\ z \in Item(parents)
         /\ \A t : /\ Content(x, t) = In(Before(seqs, cut), t)
                   /\ Content(y, t) = Chosen(Matching(seqs, id), t)
                   /\ Content(z, t) = In(After(seqs, cut, id), t)
    BY <1>5, <1>6, <1>7, <1>12, ItemMade
  <1>14. \A t : Content(Head(work), t) = In(seqs, t)
    BY <1>1, <1>2 DEF Content
  <1>15. ASSUME NEW t \in DOMAIN parents
         PROVE  /\ <<x, y, z>> \o Tail(work) \in Seq(Item(parents))
                /\ Ordered(called, <<x, y, z>> \o Tail(work), Rest(t), t)
    <2>1. Ordered(called, work, Rest(t), t)
      BY DEF OrderInv, InOrder
    <2>2. /\ Content(x, t) \subseteq Content(Head(work), t)
          /\ Content(y, t) \subseteq Content(Head(work), t)
          /\ Content(z, t) \subseteq Content(Head(work), t)
          /\ Below(Content(x, t), Content(y, t))
          /\ Below(Content(y, t), Content(z, t))
          /\ Below(Content(x, t), Content(z, t))
      BY <1>12, <1>13, <1>14
    <2>. QED
      BY <1>1, <1>8, <1>13, <2>1, <2>2, OrderedSplit
  <1>16. 1 \in DOMAIN parents
    BY <1>8, OriginalFields
  <1>17. work' = <<x, y, z>> \o Tail(work)
    BY <1>4, <1>5, <1>6, <1>7
  <1>18. Known'
    BY <1>1, <1>15, <1>16, <1>17 DEF OrderInv, Known
  <1>19. InOrder'
    BY <1>1, <1>15, <1>17 DEF InOrder, Rest
  <1>. QED
    BY <1>18, <1>19 DEF OrderInv

LEMMA OrderAddAveragedChild ==
  ASSUME OrderInv, AddAveragedChild
  PROVE  OrderInv'
  <1>1. PICK c : c \in {[group |-> Head(work).group, added |-> TRUE],
                        [group |-> Head(work).group, added |-> FALSE]} /\ called' = Append(called, c)
    BY DEF AddAveragedChild
  <1>2. /\ work # <<>> /\ Head(work).kind = "process" /\ phase \in {"common", "last"}
        /\ work' = Tail(work) /\ phase' \in {phase, "panicked"}
        /\ UNCHANGED <<parents, sequences, lcs, nextCommon>>
    BY DEF AddAveragedChild, NextWork
  <1>3. work \in Seq(Item(parents)) /\ called \in Seq(Call(parents))
    BY DEF OrderInv, Known
  <1>4. Head(work).group \in Group(parents) /\ Tail(work) \in Seq(Item(parents))
    BY <1>2, <1>3, HeadIs
  <1>5. c \in Call(parents) /\ c.group = Head(work).group
    <2>1. PICK g : g = Head(work).group
      OBVIOUS
    <2>2. c = [group |-> g, added |-> TRUE] \/ c = [group |-> g, added |-> FALSE]
      BY <1>1, <2>1
    <2>3. TRUE \in BOOLEAN /\ FALSE \in BOOLEAN /\ g \in Group(parents)
      BY <1>4, <2>1
    <2>4. \A f \in BOOLEAN : [group |-> g, added |-> f] \in Call(parents)
      BY <2>3, Zenon DEF Call
    <2>5. c \in Call(parents)
      BY <2>2, <2>3, <2>4, Zenon
    <2>6. c.group = g
      BY <2>2
    <2>. QED
      BY <2>1, <2>5, <2>6
  <1>6. \A t : Content(Head(work), t) = Chosen(c.group, t)
    BY <1>2, <1>5 DEF Content
  <1>7. ASSUME NEW t \in DOMAIN parents
        PROVE  Append(called, c) \in Seq(Call(parents)) /\ Ordered(Append(called, c), Tail(work), Rest(t), t)
    <2>1. Ordered(called, work, Rest(t), t)
      BY DEF OrderInv, InOrder
    <2>. QED
      BY <1>2, <1>3, <1>5, <1>6, <2>1, OrderedCall
  <1>8. Append(called, c) \in Seq(Call(parents))
    BY <1>3, <1>5, AppendProperties
  <1>9. Known'
    BY <1>1, <1>2, <1>4, <1>8 DEF OrderInv, Known
  <1>10. InOrder'
    <2>1. PICK left : left = [t \in DOMAIN parents |-> IF phase' = "common" THEN In(sequences, t) ELSE {}]
      OBVIOUS
    <2>2. ASSUME NEW t \in DOMAIN parents
          PROVE  Ordered(Append(called, c), Tail(work), left[t], t)
      <3>1. left[t] \subseteq Rest(t)
        BY <1>2, <2>1 DEF Rest
      <3>. QED
        BY <1>7, <3>1, OrderedRest
    <2>. QED
      BY <1>1, <1>2, <2>1, <2>2 DEF InOrder, Rest
  <1>. QED
    BY <1>9, <1>10 DEF OrderInv

\* Steps that leave the sections and the calls alone.
LEMMA OrderKept ==
  ASSUME OrderInv, phase # "common", phase' \notin {"common", "index"},
         UNCHANGED <<parents, work, called>>
  PROVE  OrderInv'
  <1>1. Known'
    BY DEF OrderInv, Known
  <1>2. \A t \in DOMAIN parents : Rest(t) = {}
    BY DEF Rest
  <1>3. InOrder'
    BY <1>2 DEF OrderInv, InOrder, Rest
  <1>. QED
    BY <1>1, <1>3 DEF OrderInv

LEMMA OrderStep ==
  ASSUME OrderInv, [Next]_vars
  PROVE  OrderInv'
  <1>1. CASE Index
    BY <1>1, OrderIndex
  <1>2. CASE NextCommon
    BY <1>2, OrderNextCommon
  <1>3. CASE LastSection
    BY <1>3, OrderLastSection
  <1>4. CASE EndSection
    BY <1>4, OrderEndSection
  <1>5. CASE SplitSection
    BY <1>5, OrderSplitSection
  <1>6. CASE AddAveragedChild
    BY <1>6, OrderAddAveragedChild
  <1>7. CASE Return
    BY <1>7, OrderKept DEF Return
  <1>8. CASE NextTrace \/ SkipEvent \/ ZipNext
    BY <1>8, OrderKept DEF NextTrace, SkipEvent, ZipNext, Searching, mergeVars
  <1>9. CASE NewEvent
    BY <1>9, OrderKept DEF NewEvent, Searching, KeepMerging
  <1>10. CASE EndZip
    BY <1>10, OrderKept DEF EndZip, KeepMerging
  <1>11. CASE Finish
    BY <1>11, OrderKept DEF Finish, KeepMerging
  <1>12. CASE UNCHANGED vars
    BY <1>12 DEF vars, mergeVars, OrderInv, Known, InOrder, Rest
  <1>. QED
    BY <1>1, <1>2, <1>3, <1>4, <1>5, <1>6, <1>7, <1>8, <1>9, <1>10, <1>11, <1>12
       DEF Next, MergeNext, Over

THEOREM OrderInvariant == Spec => []OrderInv
  BY InitOrder, OrderStep, PTL DEF Spec

\* Calls that are in order in every trace are what CalledInOriginalOrder says.
LEMMA OrderIsOriginal == OrderInv => CalledInOriginalOrder
  <1> SUFFICES ASSUME OrderInv, NEW i \in DOMAIN called, NEW j \in DOMAIN called, i < j,
                      NEW t \in DOMAIN called[i].group \cap DOMAIN called[j].group
               PROVE  called[i].group[t].original < called[j].group[t].original
    BY DEF CalledInOriginalOrder
  <1>1. called \in Seq(Call(parents)) /\ DOMAIN called = 1 .. Len(called)
    BY LenProperties DEF OrderInv, Known
  <1>2. called[i] \in Call(parents)
    BY <1>1, ElementOfSeq
  <1>3. t \in DOMAIN parents
    BY <1>2, GroupIs DEF Call
  <1>4. Ordered(called, work, Rest(t), t)
    BY <1>3 DEF OrderInv, InOrder
  <1>5. Below(Chosen(called[i].group, t), Chosen(called[j].group, t))
    BY <1>1, <1>4 DEF Ordered
  <1>. QED
    BY <1>5 DEF Below, Chosen

\* "process_child() is guaranteed to be called in original order": whichever
\* chunks the traces lack and wherever a trace without the chunk is cut, the
\* chunks of each trace are called in their order and none of them twice.
THEOREM AlwaysCalledInOriginalOrder == Spec => []CalledInOriginalOrder
  BY OrderInvariant, OrderIsOriginal, PTL

-----------------------------------------------------------------------------
(***************************************************************************)
(* Part 4.  What the new frame holds.                                      *)
(*                                                                         *)
(* The sum of an average is a recursive function of sets of traces: that   *)
(* one exists, and that its values are points, is shown by taking the size *)
(* of a smallest set at which it would fail.                               *)
(***************************************************************************)
LEMMA PlusIsPoint ==
  ASSUME NEW p \in Point, NEW q \in Point
  PROVE  Plus(p, q) \in Point /\ Leq(p, Plus(p, q)) /\ Constant(0) \in Point
  BY DEF Point, Plus, Leq, Constant

LEMMA SumIsPoint ==
  ASSUME NEW D, IsFiniteSet(D), NEW p \in [D -> Point]
  PROVE  FoldFunction(Plus, Constant(0), p) \in Point
  <1> DEFINE One(x) == CHOOSE y \in x : TRUE
             Body(f, x) == IF x = {} THEN Constant(0) ELSE Plus(p[One(x)], f[x \ {One(x)}])
             Folds(f) == f = [x \in SUBSET D |-> Body(f, x)]
             iter == CHOOSE f : Folds(f)
             Upto(f, n) == \A x \in SUBSET D : Cardinality(x) <= n => f[x] = Body(f, x)
             Missing == {n \in Nat : ~\E f : Upto(f, n)}
  <1>1. FoldFunction(Plus, Constant(0), p) = iter[D]
    BY DEF FoldFunction, FoldFunctionOnSet, MapThenFoldSet
  <1>2. \A x \in SUBSET D : IsFiniteSet(x) /\ Cardinality(x) \in Nat /\ Cardinality(x) <= Cardinality(D)
    BY FS_Subset, FS_CardinalityType
  <1>3. ASSUME NEW x \in SUBSET D, x # {}
        PROVE  /\ One(x) \in D /\ p[One(x)] \in Point /\ x \ {One(x)} \in SUBSET D
               /\ Cardinality(x \ {One(x)}) = Cardinality(x) - 1
    <2>1. One(x) \in x
      BY <1>3
    <2>. QED
      BY <1>2, <2>1, FS_RemoveElement
  <1>4. Missing = {}
    <2> SUFFICES ASSUME Missing # {}
                 PROVE  FALSE
      OBVIOUS
    <2>1. Missing \in SUBSET Nat
      OBVIOUS
    <2>2. PICK n \in Missing : \A m \in Missing : n <= m
      BY <2>1, SmallestExists
    <2>3. n \in Nat /\ ~\E f : Upto(f, n)
      <3> HIDE DEF Upto
      <3>. QED
        OBVIOUS
    <2>4. \E f : \A x \in SUBSET D : Cardinality(x) < n => f[x] = Body(f, x)
      <3>1. CASE n = 0
        BY <1>2, <3>1
      <3>2. CASE n # 0
        <4>1. n - 1 \in Nat /\ ~(n <= n - 1)
          BY <2>3, <3>2
        <4>2. n - 1 \notin Missing
          BY <2>2, <4>1
        <4>3. PICK f : Upto(f, n - 1)
          BY <4>1, <4>2
        <4>4. \A x \in SUBSET D : Cardinality(x) < n => Cardinality(x) <= n - 1
          BY <1>2, <2>3
        <4>. QED
          BY <4>3, <4>4
      <3>. QED
        BY <3>1, <3>2
    <2>5. PICK f : \A x \in SUBSET D : Cardinality(x) < n => f[x] = Body(f, x)
      BY <2>4
    <2>6. PICK g : g = [x \in SUBSET D |-> IF Cardinality(x) < n THEN f[x] ELSE Body(f, x)]
      OBVIOUS
    <2>7. ASSUME NEW x \in SUBSET D, Cardinality(x) <= n
          PROVE  g[x] = Body(g, x)
      <3>1. g[x] = Body(f, x)
        BY <2>5, <2>6
      <3>2. CASE x = {}
        BY <3>1, <3>2
      <3>3. CASE x # {}
        <4>1. PICK y : y = x \ {One(x)}
          OBVIOUS
        <4>2. y \in SUBSET D /\ Cardinality(y) < n
          BY <1>2, <1>3, <2>3, <2>7, <3>3, <4>1
        <4>3. g[y] = f[y]
          BY <2>5, <2>6, <4>2
        <4>4. g[x] = Plus(p[One(x)], f[y])
          BY <3>1, <3>3, <4>1
        <4>. QED
          BY <3>3, <4>1, <4>3, <4>4
      <3>. QED
        BY <3>2, <3>3
    <2>8. Upto(g, n)
      BY <2>7
    <2> HIDE DEF Upto
    <2>. QED
      BY <2>3, <2>8
  <1>5. PICK f : Upto(f, Cardinality(D))
    <2>1. Cardinality(D) \in Nat /\ Cardinality(D) \notin Missing
      BY <1>4, FS_CardinalityType
    <2> HIDE DEF Upto
    <2>. QED
      BY <2>1
  <1>6. Folds(iter)
    <2>1. PICK g : g = [x \in SUBSET D |-> f[x]]
      OBVIOUS
    <2>2. ASSUME NEW x \in SUBSET D
          PROVE  g[x] = Body(g, x)
      <3>1. g[x] = Body(f, x)
        BY <1>2, <1>5, <2>1
      <3>2. x # {} => g[x \ {One(x)}] = f[x \ {One(x)}]
        BY <1>3, <2>1
      <3>. QED
        BY <3>1, <3>2
    <2>3. Folds(g)
      BY <2>1, <2>2
    <2>. QED
      BY <2>3
  <1>7. \A x \in SUBSET D : iter[x] = Body(iter, x)
    BY <1>6
  <1> HIDE DEF iter
  <1> DEFINE Bad == {n \in Nat : \E x \in SUBSET D : Cardinality(x) = n /\ iter[x] \notin Point}
  <1>8. Bad = {}
    <2> SUFFICES ASSUME Bad # {}
                 PROVE  FALSE
      OBVIOUS
    <2>1. Bad \in SUBSET Nat
      OBVIOUS
    <2>2. PICK n \in Bad : \A m \in Bad : n <= m
      BY <2>1, SmallestExists
    <2>3. PICK x \in SUBSET D : Cardinality(x) = n /\ iter[x] \notin Point
      OBVIOUS
    <2>4. x # {}
      <3>1. iter[{}] = Constant(0) /\ {} \in SUBSET D
        BY <1>7
      <3>2. Constant(0) \in Point
        BY DEF Constant, Point
      <3>3. iter[{}] \in Point
        BY <3>1, <3>2
      <3> HIDE DEF Bad
      <3>. QED
        BY <2>3, <3>3
    <2>5. PICK y : y = x \ {One(x)}
      OBVIOUS
    <2>6. /\ y \in SUBSET D /\ Cardinality(y) = n - 1 /\ p[One(x)] \in Point
          /\ iter[x] = Plus(p[One(x)], iter[y])
      BY <1>3, <1>7, <2>3, <2>4, <2>5
    <2>7. iter[y] \notin Point
      BY <2>3, <2>6, PlusIsPoint
    <2>8. Cardinality(y) \in Bad
      BY <1>2, <2>6, <2>7
    <2>9. n <= n - 1 /\ n \in Nat
      BY <2>2, <2>6, <2>8
    <2>. QED
      BY <2>9
  <1>9. iter[D] \in Point
    BY <1>2, <1>8
  <1>. QED
    BY <1>1, <1>9

\* Dividing by the number of traces leaves a point.
LEMMA AverageIsPoint ==
  ASSUME NEW D, IsFiniteSet(D), D # {}, NEW p \in [D -> Point]
  PROVE  Average(p) \in Point
  <1>1. PICK s : s = FoldFunction(Plus, Constant(0), p)
    OBVIOUS
  <1>2. PICK n : n = Cardinality(DOMAIN p)
    OBVIOUS
  <1>3. s \in Point
    BY <1>1, SumIsPoint
  <1>4. n \in Nat /\ n # 0
    BY <1>2, FS_CardinalityType, FS_EmptySet
  <1>5. \A x \in Nat : x \div n \in Nat
    BY <1>4
  <1>6. Average(p) = [ts |-> s.ts \div n, cycles |-> s.cycles \div n, insn_count |-> s.insn_count \div n]
    BY <1>1, <1>2 DEF Average, Divided
  <1>7. s.ts \in Nat /\ s.cycles \in Nat /\ s.insn_count \in Nat
    BY <1>3 DEF Point
  <1>. QED
    BY <1>5, <1>6, <1>7 DEF Point

\* the range that a chunk is cut to, if it is one
LEMMA ConstrainIs ==
  ASSUME newParent.end \in Point, minMetrics \in Point, NEW p \in Point, NEW q \in Point
  PROVE  /\ Constrain(p, q).start \in Point /\ Constrain(p, q).end \in Point
         /\ Leq(minMetrics, Constrain(p, q).start) /\ Leq(Constrain(p, q).end, newParent.end)
         /\ IsRange(Constrain(p, q)) => Leq(Constrain(p, q).start, Constrain(p, q).end)
  <1> DEFINE a == Constrain(p, q).start
             b == Constrain(p, q).end
             e == newParent.end
             m == minMetrics
  <1>1. /\ a = [ts |-> Larger(p.ts, m.ts), cycles |-> Larger(p.cycles, m.cycles),
                insn_count |-> Larger(p.insn_count, m.insn_count)]
        /\ b = [ts |-> Smaller(q.ts, e.ts), cycles |-> Smaller(q.cycles, e.cycles),
                insn_count |-> Smaller(q.insn_count, e.insn_count)]
    BY DEF Constrain, MetricsRange
  <1> HIDE DEF a, b
  <1>2. \A x, y \in Nat : /\ Larger(x, y) \in Nat /\ y <= Larger(x, y)
                          /\ Smaller(x, y) \in Nat /\ Smaller(x, y) <= y
    BY DEF Larger, Smaller
  <1>3. /\ p.ts \in Nat /\ q.ts \in Nat /\ e.ts \in Nat /\ m.ts \in Nat
        /\ p.cycles \in Nat /\ q.cycles \in Nat /\ e.cycles \in Nat /\ m.cycles \in Nat
        /\ p.insn_count \in Nat /\ q.insn_count \in Nat /\ e.insn_count \in Nat /\ m.insn_count \in Nat
    BY DEF Point
  <1>4. a \in Point /\ b \in Point
    BY <1>1, <1>2, <1>3 DEF Point
  <1>5. Leq(m, a) /\ Leq(b, e)
    BY <1>1, <1>2, <1>3 DEF Leq
  <1>6. ~Decreases(a, b) => Leq(a, b)
    BY <1>4, PointOrder
  <1>. QED
    BY <1>4, <1>5, <1>6 DEF a, b, IsRange

\* A chunk that begins after all others have ended and ends with the frame at the
\* latest is accepted and becomes the last one.
LEMMA LastChunkAppended ==
  ASSUME NEW f, f \in [start : Point, end : Point, chunks : Seq(Chunk)], WellFormed(f),
         NEW m \in Point, Leq(f.start, m), \A i \in 1 .. Len(f.chunks) : Leq(f.chunks[i].end, m),
         NEW c \in Chunk, Leq(m, c.start), Leq(c.start, c.end), Leq(c.end, f.end)
  PROVE  /\ Accepts(f, c)
         /\ InsertChunk(f, c) \in [start : Point, end : Point, chunks : Seq(Chunk)]
         /\ InsertChunk(f, c).start = f.start /\ InsertChunk(f, c).end = f.end
         /\ InsertChunk(f, c).chunks = Append(f.chunks, c)
         /\ WellFormed(InsertChunk(f, c))
  <1> DEFINE n == Len(f.chunks)
             g == InsertChunk(f, c)
  <1>1. IsFrame(f) /\ f.chunks \in Seq(Chunk) /\ n \in Nat /\ c.start \in Point /\ c.end \in Point
    BY ChunkType DEF IsFrame, Chunk
  <1>2. Leq(GapStart(f, n), c.start)
    <2>1. CASE n = 0
      BY <1>1, <2>1, PointOrder, ChunkType DEF GapStart
    <2>2. CASE n # 0
      BY <1>1, <2>2, PointOrder, ChunkType DEF GapStart
    <2>. QED
      BY <2>1, <2>2
  <1>3. Includes(Gap(f, n), c)
    BY <1>2 DEF Includes, Gap, MetricsRange, GapEnd
  <1>4. n \in Slots(f, c)
    BY <1>1, <1>3, RoomyGapIsSlot
  <1>5. Accepts(f, c)
    BY <1>4 DEF Accepts
  <1>6. Slot(f, c) = n
    <2>1. Slot(f, c) \in Slots(f, c) /\ n <= Slot(f, c)
      BY <1>1, <1>4, <1>5, SlotIsLast
    <2>2. Slot(f, c) \in 0 .. n
      BY <2>1 DEF Slots
    <2>. QED
      BY <1>1, <2>1, <2>2
  <1>7. /\ g = [f EXCEPT !.chunks = InsertAt(f.chunks, Slot(f, c) + 1, c)]
        /\ InsertAt(f.chunks, Slot(f, c) + 1, c) = Append(f.chunks, c)
    BY <1>1, <1>6, InsertAtEnd DEF InsertChunk
  <1> HIDE DEF g
  <1>8. /\ g.start = f.start /\ g.end = f.end /\ g.chunks = Append(f.chunks, c)
        /\ g \in [start : Point, end : Point, chunks : Seq(Chunk)]
    <2>1. Append(f.chunks, c) \in Seq(Chunk)
      BY <1>1
    <2>. QED
      BY <1>7, <2>1
  <1>9. WellFormed(g)
    BY <1>1, <1>5, <1>7, <1>8, InsertKeepsWellFormed
  <1>. QED
    BY <1>5, <1>8, <1>9 DEF g

\* A group has a first chunk, and averages.
LEMMA GroupFields ==
  ASSUME NEW ps, AreOriginals(ps), NEW group \in Group(ps)
  PROVE  /\ FirstOf(group).id \in Nat
         /\ Average([k \in DOMAIN group |-> group[k].offset]) \in Point
         /\ Average([k \in DOMAIN group |-> group[k].latency]) \in Point
  <1> DEFINE D == DOMAIN group
  <1>1. D \subseteq DOMAIN ps /\ D # {} /\ \A t \in D : group[t] \in Kids(ps, t)
    BY GroupIs
  <1>2. Len(ps) \in Nat /\ DOMAIN ps = 1 .. Len(ps)
    BY OriginalFields
  <1>3. IsFiniteSet(D)
    <2>1. PICK n : n = Len(ps)
      OBVIOUS
    <2>2. n \in Nat /\ DOMAIN ps = 1 .. n
      BY <1>2, <2>1
    <2>3. IsFiniteSet(1 .. n)
      BY <2>2, FS_Interval
    <2>. QED
      BY <1>1, <2>2, <2>3, FS_Subset
  <1>4. \A t \in D : /\ group[t].offset \in Point /\ group[t].latency \in Point
                     /\ group[t].id \in Nat
    <2> SUFFICES ASSUME NEW t \in D
                 PROVE  /\ group[t].offset \in Point /\ group[t].latency \in Point
                        /\ group[t].id \in Nat
      OBVIOUS
    <2>1. t \in DOMAIN ps /\ group[t] \in Kids(ps, t)
      BY <1>1
    <2>2. Cardinality({KeyAt(ps, q) : q \in Places(ps)}) \in Nat
      BY IdType, FS_CardinalityType
    <2>. QED
      BY <2>1, <2>2, KidFields
  <1>5. Min(D) \in D
    <2>1. D \in SUBSET Nat
      BY <1>1, <1>2
    <2> HIDE DEF D
    <2>2. \E m \in D : \A j \in D : m <= j
      BY <1>1, <2>1, SmallestExists
    <2>. QED
      BY <2>2 DEF Min
  <1>6. PICK p : p = [k \in D |-> group[k].offset]
    OBVIOUS
  <1>7. PICK q : q = [k \in D |-> group[k].latency]
    OBVIOUS
  <1>8. p \in [D -> Point] /\ q \in [D -> Point]
    BY <1>4, <1>6, <1>7
  <1>9. FirstOf(group).id \in Nat
    BY <1>4, <1>5 DEF FirstOf
  <1> HIDE DEF D
  <1>10. Average(p) \in Point /\ Average(q) \in Point
    BY <1>1, <1>3, <1>8, AverageIsPoint
  <1>. QED
    BY <1>6, <1>7, <1>9, <1>10 DEF D

\* the calls up to the n-th whose chunk was added
AddedIn(cs, n) == {i \in 1 .. n : cs[i].added}

\* how many of them there are when another call is made
LEMMA AddedCounts ==
  ASSUME NEW C, NEW cs \in Seq(C), NEW c \in C
  PROVE  /\ \A n \in 0 .. Len(cs) : /\ AddedIn(Append(cs, c), n) = AddedIn(cs, n)
                                    /\ Cardinality(AddedIn(cs, n)) \in 0 .. n
         /\ \A i \in AddedIn(cs, Len(cs)) :
              /\ i \in 1 .. Len(cs)
              /\ Cardinality(AddedIn(cs, i)) \in 1 .. Cardinality(AddedIn(cs, Len(cs)))
         /\ c.added =>
              /\ AddedIn(Append(cs, c), Len(cs) + 1) = AddedIn(cs, Len(cs)) \cup {Len(cs) + 1}
              /\ Cardinality(AddedIn(Append(cs, c), Len(cs) + 1))
                   = Cardinality(AddedIn(cs, Len(cs))) + 1
         /\ ~c.added => AddedIn(Append(cs, c), Len(cs) + 1) = AddedIn(cs, Len(cs))
  <1> DEFINE n == Len(cs)
             new == Append(cs, c)
  <1>1. n \in Nat /\ new[n + 1] = c /\ \A i \in 1 .. n : new[i] = cs[i]
    BY LenProperties, AppendProperties
  <1> HIDE DEF n, new
  <1>2. \A m \in 0 .. n : AddedIn(new, m) = AddedIn(cs, m)
    BY <1>1 DEF AddedIn
  <1>3. ASSUME NEW m \in 0 .. n
        PROVE  IsFiniteSet(AddedIn(cs, m)) /\ Cardinality(AddedIn(cs, m)) \in 0 .. m
    <2>1. m \in Nat /\ AddedIn(cs, m) \subseteq 1 .. m
      BY <1>1 DEF AddedIn
    <2>2. IsFiniteSet(1 .. m) /\ Cardinality(1 .. m) = m
      BY <2>1, FS_Interval
    <2>3. IsFiniteSet(AddedIn(cs, m)) /\ Cardinality(AddedIn(cs, m)) <= m
      BY <2>1, <2>2, FS_Subset
    <2>. QED
      BY <2>1, <2>3, FS_CardinalityType
  <1>4. ASSUME NEW i \in AddedIn(cs, n)
        PROVE  i \in 1 .. n /\ Cardinality(AddedIn(cs, i)) \in 1 .. Cardinality(AddedIn(cs, n))
    <2>1. i \in 1 .. n /\ i \in 0 .. n /\ n \in 0 .. n
      BY <1>1 DEF AddedIn
    <2>2. i \in AddedIn(cs, i) /\ AddedIn(cs, i) \subseteq AddedIn(cs, n)
      BY <1>1, <2>1 DEF AddedIn
    <2>3. IsFiniteSet(AddedIn(cs, i)) /\ IsFiniteSet(AddedIn(cs, n))
      BY <1>3, <2>1
    <2>4. Cardinality(AddedIn(cs, i)) <= Cardinality(AddedIn(cs, n))
      BY <2>2, <2>3, FS_Subset
    <2>5. Cardinality(AddedIn(cs, i)) \in Nat /\ Cardinality(AddedIn(cs, i)) # 0
      BY <2>2, <2>3, FS_CardinalityType, FS_EmptySet
    <2>6. Cardinality(AddedIn(cs, n)) \in Nat
      BY <2>3, FS_CardinalityType
    <2>. QED
      BY <2>1, <2>4, <2>5, <2>6
  <1>5. c.added => AddedIn(new, n + 1) = AddedIn(cs, n) \cup {n + 1}
    BY <1>1 DEF AddedIn
  <1>6. ~c.added => AddedIn(new, n + 1) = AddedIn(cs, n)
    BY <1>1 DEF AddedIn
  <1>7. Cardinality(AddedIn(cs, n) \cup {n + 1}) = Cardinality(AddedIn(cs, n)) + 1
    <2>1. n \in 0 .. n /\ n + 1 \notin AddedIn(cs, n)
      BY <1>1 DEF AddedIn
    <2>2. IsFiniteSet(AddedIn(cs, n))
      BY <1>3, <2>1
    <2>. QED
      BY <2>1, <2>2, FS_AddElement
  <1>. QED
    BY <1>2, <1>3, <1>4, <1>5, <1>6, <1>7 DEF n, new

\* the id a chunk is merged under
IdGiven(group) == IF FirstOf(group).symbol = Pause THEN 0 ELSE FirstOf(group).id

\* the chunks that were added, in the order of the calls; the others are lost
Holds(cs, chunks, points) ==
  /\ Len(chunks) = Cardinality(AddedIn(cs, Len(cs)))
  /\ Len(points) = Len(cs) - Cardinality(AddedIn(cs, Len(cs)))
  /\ \A i \in AddedIn(cs, Len(cs)) : chunks[Cardinality(AddedIn(cs, i))].id = IdGiven(cs[i].group)

LEMMA HoldsAdded ==
  ASSUME NEW C, NEW cs \in Seq(C), NEW c \in C, c.added, NEW S, NEW chunks \in Seq(S), NEW chunk \in S,
         NEW points, Holds(cs, chunks, points), chunk.id = IdGiven(c.group)
  PROVE  Holds(Append(cs, c), Append(chunks, chunk), points)
  <1> DEFINE n == Len(cs)
             k == Len(chunks)
             new == Append(cs, c)
             more == Append(chunks, chunk)
  <1>1. /\ n \in Nat /\ Len(new) = n + 1 /\ new[n + 1] = c /\ \A i \in 1 .. n : new[i] = cs[i]
        /\ k \in Nat /\ Len(more) = k + 1 /\ more[k + 1] = chunk /\ \A i \in 1 .. k : more[i] = chunks[i]
    BY LenProperties, AppendProperties
  <1>2. /\ \A m \in 0 .. n : AddedIn(new, m) = AddedIn(cs, m)
        /\ \A i \in AddedIn(cs, n) : /\ i \in 1 .. n
                                     /\ Cardinality(AddedIn(cs, i)) \in 1 .. Cardinality(AddedIn(cs, n))
        /\ AddedIn(new, n + 1) = AddedIn(cs, n) \cup {n + 1}
        /\ Cardinality(AddedIn(new, n + 1)) = Cardinality(AddedIn(cs, n)) + 1
    BY AddedCounts
  <1>3. /\ k = Cardinality(AddedIn(cs, n)) /\ Len(points) = n - Cardinality(AddedIn(cs, n))
        /\ \A i \in AddedIn(cs, n) : chunks[Cardinality(AddedIn(cs, i))].id = IdGiven(cs[i].group)
    BY DEF Holds
  <1> HIDE DEF n, k, new, more
  <1>4. ASSUME NEW i \in AddedIn(new, n + 1)
        PROVE  more[Cardinality(AddedIn(new, i))].id = IdGiven(new[i].group)
    <2>1. CASE i = n + 1
      BY <1>1, <1>2, <1>3, <2>1
    <2>2. CASE i # n + 1
      <3>1. i \in AddedIn(cs, n) /\ i \in 1 .. n /\ i \in 0 .. n
        BY <1>2, <2>2
      <3>2. Cardinality(AddedIn(cs, i)) \in 1 .. k /\ AddedIn(new, i) = AddedIn(cs, i)
        BY <1>2, <1>3, <3>1
      <3>3. more[Cardinality(AddedIn(cs, i))] = chunks[Cardinality(AddedIn(cs, i))] /\ new[i] = cs[i]
        BY <1>1, <3>1, <3>2
      <3>. QED
        BY <1>3, <3>1, <3>2, <3>3
    <2>. QED
      BY <2>1, <2>2
  <1>5. Len(points) = (n + 1) - Cardinality(AddedIn(new, n + 1))
    BY <1>1, <1>2, <1>3
  <1>6. Holds(new, more, points)
    BY <1>1, <1>2, <1>3, <1>4, <1>5 DEF Holds
  <1>. QED
    BY <1>6 DEF new, more

LEMMA HoldsLost ==
  ASSUME NEW C, NEW cs \in Seq(C), NEW c \in C, ~c.added, NEW chunks,
         NEW points \in Seq(Point), NEW p \in Point, Holds(cs, chunks, points)
  PROVE  Holds(Append(cs, c), chunks, Append(points, p))
  <1> DEFINE n == Len(cs)
             new == Append(cs, c)
             more == Append(points, p)
  <1>1. /\ n \in Nat /\ Len(new) = n + 1 /\ \A i \in 1 .. n : new[i] = cs[i]
        /\ Len(points) \in Nat /\ Len(more) = Len(points) + 1
    BY LenProperties, AppendProperties
  <1>2. /\ \A m \in 0 .. n : /\ AddedIn(new, m) = AddedIn(cs, m)
                             /\ Cardinality(AddedIn(cs, m)) \in 0 .. m
        /\ \A i \in AddedIn(cs, n) : i \in 1 .. n
        /\ AddedIn(new, n + 1) = AddedIn(cs, n)
    BY AddedCounts
  <1>3. /\ Len(chunks) = Cardinality(AddedIn(cs, n)) /\ Len(points) = n - Cardinality(AddedIn(cs, n))
        /\ \A i \in AddedIn(cs, n) : chunks[Cardinality(AddedIn(cs, i))].id = IdGiven(cs[i].group)
    BY DEF Holds
  <1> HIDE DEF n, new, more
  <1>4. ASSUME NEW i \in AddedIn(new, n + 1)
        PROVE  chunks[Cardinality(AddedIn(new, i))].id = IdGiven(new[i].group)
    <2>1. i \in AddedIn(cs, n) /\ i \in 1 .. n /\ i \in 0 .. n
      BY <1>1, <1>2
    <2>. QED
      BY <1>1, <1>2, <1>3, <2>1
  <1>5. n \in 0 .. n /\ Cardinality(AddedIn(cs, n)) \in Nat
    BY <1>1, <1>2
  <1>6. Len(more) = (n + 1) - Cardinality(AddedIn(new, n + 1))
    BY <1>1, <1>2, <1>3, <1>5
  <1>7. Holds(new, chunks, more)
    BY <1>1, <1>2, <1>3, <1>4, <1>6 DEF Holds
  <1>. QED
    BY <1>7 DEF new, more

\* the new frame, whose chunks have all ended where the next one may begin
NewFrame ==
  /\ newParent \in [start : Point, end : Point, chunks : Seq(Chunk)]
  /\ WellFormed(newParent)
  /\ minMetrics \in Point /\ Leq(newParent.start, minMetrics)
  /\ \A i \in 1 .. Len(newParent.chunks) : Leq(newParent.chunks[i].end, minMetrics)

MergedInv == /\ NewFrame
             /\ lost \in Seq(Point)
             /\ Holds(called, newParent.chunks, lost)

LEMMA InitMerged == Init => MergedInv
  <1> SUFFICES ASSUME Init
               PROVE  MergedInv
    OBVIOUS
  <1>1. PICK input \in Inputs :
          newParent = [start |-> input.start, end |-> input.end, chunks |-> <<>>]
    BY DEF Init, MergeInit
  <1>2. input.start \in Point /\ input.end \in Point /\ Leq(input.start, input.end)
    BY InputsAssumption
  <1>3. /\ newParent.start = input.start /\ newParent.end = input.end /\ newParent.chunks = <<>>
        /\ Len(newParent.chunks) = 0 /\ <<>> \in Seq(Chunk)
    BY <1>1
  <1>4. newParent \in [start : Point, end : Point, chunks : Seq(Chunk)]
    BY <1>1, <1>2, <1>3
  <1>5. minMetrics = newParent.start /\ lost = <<>> /\ called = <<>>
    BY DEF Init, MergeInit
  <1>6. WellFormed(newParent)
    BY <1>2, <1>3 DEF WellFormed, ChunksInside, ChunksChronological
  <1>7. NewFrame
    BY <1>2, <1>3, <1>4, <1>5, <1>6, PointOrder DEF NewFrame
  <1>8. Holds(<<>>, <<>>, <<>>)
    <2>1. Len(<<>>) = 0 /\ AddedIn(<<>>, 0) = {}
      BY DEF AddedIn
    <2>. QED
      BY <2>1, FS_EmptySet DEF Holds
  <1>. QED
    BY <1>3, <1>5, <1>7, <1>8 DEF MergedInv

\* What add_averaged_child does to the new frame: a chunk that is a range is
\* accepted and becomes the last one, and another one is lost.
LEMMA MergedAddAveragedChild ==
  ASSUME OrderInv, MergedInv, AddAveragedChild
  PROVE  MergedInv' /\ phase' = phase
  <1> DEFINE group == Head(work).group
             start == AveragedStart(group)
             range == Constrain(start, AveragedEnd(group))
             chunk == MergedChunk(group, range)
  <1>1. /\ work # <<>> /\ work \in Seq(Item(parents)) /\ Head(work).kind = "process"
        /\ AreOriginals(parents) /\ called \in Seq(Call(parents))
    BY DEF AddAveragedChild, NextWork, OrderInv, Known
  <1>2. group \in Group(parents)
    BY <1>1, HeadIs
  <1>3. /\ newParent.start \in Point /\ newParent.end \in Point /\ minMetrics \in Point
        /\ newParent.chunks \in Seq(Chunk) /\ lost \in Seq(Point)
        /\ newParent \in [start : Point, end : Point, chunks : Seq(Chunk)]
        /\ WellFormed(newParent) /\ Leq(newParent.start, minMetrics)
        /\ \A i \in 1 .. Len(newParent.chunks) : Leq(newParent.chunks[i].end, minMetrics)
        /\ Holds(called, newParent.chunks, lost)
    BY DEF MergedInv, NewFrame
  <1>4. start \in Point /\ AveragedEnd(group) \in Point
    BY <1>1, <1>2, <1>3, GroupFields, PlusIsPoint DEF AveragedStart, AveragedEnd
  <1>5. /\ range.start \in Point /\ range.end \in Point
        /\ Leq(minMetrics, range.start) /\ Leq(range.end, newParent.end)
        /\ IsRange(range) => Leq(range.start, range.end)
    BY <1>3, <1>4, ConstrainIs
  <1>6. FirstOf(group).id \in Nat
    BY <1>1, <1>2, GroupFields
  <1>7. /\ chunk \in Chunk /\ chunk.start = range.start /\ chunk.end = range.end
        /\ chunk.id = IdGiven(group)
    <2>1. CASE FirstOf(group).symbol = Pause
      <3>1. chunk = [kind |-> "Pause", id |-> 0, start |-> range.start, end |-> range.end]
        BY <2>1 DEF MergedChunk, PauseChunk
      <3>. QED
        BY <1>5, <2>1, <3>1 DEF Chunk, ChunkKind, IdGiven
    <2>2. CASE FirstOf(group).symbol # Pause
      <3>1. chunk = [kind |-> "Frame", id |-> FirstOf(group).id, start |-> range.start, end |-> range.end]
        BY <2>2 DEF MergedChunk, FrameChunk
      <3>. QED
        BY <1>5, <1>6, <2>2, <3>1 DEF Chunk, ChunkKind, IdGiven
    <2>. QED
      BY <2>1, <2>2
  <1>8. \/ /\ IsRange(range)
           /\ minMetrics' = range.end
           /\ newParent' = IF Accepts(newParent, chunk) THEN InsertChunk(newParent, chunk)
                           ELSE newParent
           /\ phase' = IF Accepts(newParent, chunk) THEN phase ELSE "panicked"
           /\ called' = Append(called, [group |-> group, added |-> TRUE])
           /\ UNCHANGED lost
        \/ /\ ~IsRange(range)
           /\ lost' = Append(lost, start)
           /\ called' = Append(called, [group |-> group, added |-> FALSE])
           /\ UNCHANGED <<newParent, minMetrics, phase>>
    BY DEF AddAveragedChild
  <1> HIDE DEF group, start, range, chunk
  <1>9. \A f \in BOOLEAN : [group |-> group, added |-> f] \in Call(parents)
    BY <1>2, Zenon DEF Call
  <1>10. CASE IsRange(range)
    <2>1. PICK g : g = InsertChunk(newParent, chunk)
      OBVIOUS
    <2>2. /\ Accepts(newParent, chunk)
          /\ g \in [start : Point, end : Point, chunks : Seq(Chunk)]
          /\ g.start = newParent.start /\ g.end = newParent.end
          /\ g.chunks = Append(newParent.chunks, chunk)
          /\ WellFormed(g)
      BY <1>3, <1>5, <1>7, <1>10, <2>1, LastChunkAppended
    <2>3. PICK c : c = [group |-> group, added |-> TRUE]
      OBVIOUS
    <2>4. c \in Call(parents)
      BY <1>9, <2>3, Zenon
    <2>5. c.added /\ c.group = group
      BY <2>3
    <2>6. /\ minMetrics' = range.end /\ newParent' = g /\ phase' = phase
          /\ called' = Append(called, c) /\ lost' = lost
      BY <1>8, <1>10, <2>1, <2>2, <2>3
    <2>7. Holds(Append(called, c), Append(newParent.chunks, chunk), lost)
      BY <1>1, <1>3, <1>7, <2>4, <2>5, HoldsAdded
    <2>8. Leq(minMetrics, range.end)
      BY <1>3, <1>5, <1>10, PointOrder
    <2>9. Leq(newParent.start, range.end)
      BY <1>3, <1>5, <2>8, PointOrder
    <2>10. ASSUME NEW i \in 1 .. Len(Append(newParent.chunks, chunk))
           PROVE  Leq(Append(newParent.chunks, chunk)[i].end, range.end)
      <3>1. CASE i \in 1 .. Len(newParent.chunks)
        <4>1. Append(newParent.chunks, chunk)[i] = newParent.chunks[i]
          BY <1>3, <3>1, <1>7, AppendProperties
        <4>2. newParent.chunks[i].end \in Point
          <5>1. newParent.chunks[i] \in Chunk
            BY <1>3, <3>1, ElementOfSeq
          <5>. QED
            BY <5>1 DEF Chunk
        <4>. QED
          BY <1>3, <1>5, <2>8, <3>1, <4>1, <4>2, PointOrder
      <3>2. CASE i = Len(newParent.chunks) + 1
        BY <1>3, <1>5, <1>7, <3>2, AppendProperties, PointOrder
      <3>3. i \in 1 .. Len(newParent.chunks) + 1 /\ Len(newParent.chunks) \in Nat
        BY <1>3, <1>7, AppendProperties, LenProperties
      <3>. QED
        BY <3>1, <3>2, <3>3
    <2>11. NewFrame'
      BY <1>5, <2>2, <2>6, <2>9, <2>10 DEF NewFrame
    <2>. QED
      BY <1>3, <2>2, <2>6, <2>7, <2>11 DEF MergedInv
  <1>11. CASE ~IsRange(range)
    <2>1. PICK c : c = [group |-> group, added |-> FALSE]
      OBVIOUS
    <2>2. c \in Call(parents)
      BY <1>9, <2>1, Zenon
    <2>3. ~c.added
      BY <2>1
    <2>4. /\ lost' = Append(lost, start) /\ called' = Append(called, c)
          /\ UNCHANGED <<newParent, minMetrics, phase>>
      BY <1>8, <1>11, <2>1
    <2>5. Holds(Append(called, c), newParent.chunks, Append(lost, start))
      BY <1>1, <1>3, <1>4, <2>2, <2>3, HoldsLost
    <2>6. NewFrame' /\ Append(lost, start) \in Seq(Point)
      BY <1>3, <1>4, <2>4, AppendProperties DEF MergedInv, NewFrame
    <2>. QED
      BY <2>4, <2>5, <2>6 DEF MergedInv
  <1>. QED
    BY <1>10, <1>11

LEMMA MergedStep ==
  ASSUME OrderInv, MergedInv, [Next]_vars
  PROVE  MergedInv'
  <1>1. CASE AddAveragedChild
    BY <1>1, MergedAddAveragedChild
  <1>2. ASSUME UNCHANGED <<newParent, minMetrics, lost, called>>
        PROVE  MergedInv'
    BY <1>2 DEF MergedInv, NewFrame
  <1>3. CASE Index \/ NextCommon \/ LastSection \/ EndSection \/ SplitSection \/ Return
    BY <1>2, <1>3 DEF Index, NextCommon, LastSection, EndSection, SplitSection, Return
  <1>4. CASE NextTrace \/ SkipEvent \/ ZipNext \/ UNCHANGED vars
    BY <1>2, <1>4 DEF NextTrace, SkipEvent, ZipNext, vars, mergeVars
  <1>5. CASE NewEvent \/ EndZip \/ Finish
    BY <1>2, <1>5 DEF NewEvent, EndZip, Finish, KeepMerging
  <1>. QED
    BY <1>1, <1>3, <1>4, <1>5 DEF Next, MergeNext, Over

THEOREM MergedInvariant == Spec => []MergedInv
  <1>1. Init => OrderInv /\ MergedInv
    BY InitOrder, InitMerged
  <1>2. OrderInv /\ MergedInv /\ [Next]_vars => (OrderInv /\ MergedInv)'
    BY OrderStep, MergedStep
  <1>. QED
    BY <1>1, <1>2, PTL DEF Spec

LEMMA MergedIsInOrder == MergedInv => MergedInCallOrder
  <1> SUFFICES ASSUME MergedInv
               PROVE  MergedInCallOrder
    OBVIOUS
  <1>1. \A n : Added(n) = AddedIn(called, n)
    BY DEF Added, AddedIn
  <1>2. WellFormed(newParent) /\ Holds(called, newParent.chunks, lost)
    BY DEF MergedInv, NewFrame
  <1>. QED
    BY <1>1, <1>2 DEF Holds, IdGiven, MergedInCallOrder

\* However averaged ranges overlap, the new frame holds what was not lost in the
\* order in which it was handled, as ranges inside the frame one after the other.
THEOREM AlwaysMergedInCallOrder == Spec => []MergedInCallOrder
  BY MergedInvariant, MergedIsInOrder, PTL

\* "Merged child frame should be valid", "Merged pause chunk should be valid":
\* insert_chunk never refuses a chunk that has been cut to fit.
THEOREM MergedChildAccepted == Spec => [][AddAveragedChild => phase' # "panicked"]_vars
  <1>1. OrderInv /\ MergedInv => [AddAveragedChild => phase' # "panicked"]_vars
    <2> SUFFICES ASSUME OrderInv, MergedInv, AddAveragedChild
                 PROVE  phase' # "panicked"
      OBVIOUS
    <2>1. phase \in {"common", "last"}
      BY DEF AddAveragedChild, NextWork
    <2>2. phase' = phase
      BY MergedAddAveragedChild
    <2>. QED
      BY <2>1, <2>2
  <1>. QED
    BY <1>1, OrderInvariant, MergedInvariant, PTL
-----------------------------------------------------------------------------
(***************************************************************************)
(* Part 5.  The chunks merged from all traces are a longest selection that *)
(* is common to them.  First, find_lcs: no common selection of the first   *)
(* sequence that ends with a chunk is longer than the subproblem of it.    *)
(***************************************************************************)

\* all sequences have these chunks of the first one, in the same order
CommonIn(seqs, chosen) ==
  /\ \A i \in chosen : InAll(seqs, seqs[1][i].id)
  /\ \A i, j \in chosen : i < j => Precedes(seqs, seqs[1][i].id, seqs[1][j].id)

\* The subproblem of a chunk is longer by one than that of any other chunk that
\* precedes it in all sequences.
LEMMA EndingIsLonger ==
  ASSUME NEW ps, AreOriginals(ps), NEW seqs, Whole(ps, seqs), NEW k \in 1 .. Len(seqs[1]),
         InAll(seqs, seqs[1][k].id)
  PROVE  /\ Len(EndingAt(seqs)[k]) >= 1
         /\ \A j \in 1 .. k - 1 :
              EndingAt(seqs)[j] # <<>> /\ Precedes(seqs, seqs[1][j].id, seqs[1][k].id)
                => Len(EndingAt(seqs)[k]) >= Len(EndingAt(seqs)[j]) + 1
  <1> DEFINE sub == EndingAt(seqs)
             id == seqs[1][k].id
             E == Candidates(seqs, sub, k)
             lens == Lens(sub, E)
             x == Max(Longest(E, lens))
  <1>1. k \in Nat /\ k >= 1 /\ Len(seqs[1]) \in Nat
    BY WholeFields
  <1>2. ASSUME NEW j \in 1 .. k
        PROVE  sub[j] \in Seq(Nat) /\ Len(sub[j]) \in Nat /\ Len(sub[j]) <= j
    <2>1. j \in 1 .. Len(seqs[1])
      BY <1>1
    <2>2. CommonUpTo(seqs, sub[j], j)
      BY <2>1, EndingAtIsCommon
    <2>. QED
      BY <2>2, LenProperties DEF CommonUpTo
  <1>3. sub[k] = IF E = {} THEN <<id>> ELSE Append(sub[x], id)
    BY EndingAtIsCommon DEF Extended
  <1>4. E = {j \in 1 .. k - 1 : sub[j] # <<>> /\ Precedes(seqs, seqs[1][j].id, id)}
    BY DEF Candidates
  <1>5. lens = [j \in E |-> Len(sub[j])]
    BY DEF Lens
  <1> HIDE DEF sub, E, lens, id
  <1>6. CASE E = {}
    <2>1. Len(sub[k]) = 1
      BY <1>3, <1>6
    <2>. QED
      BY <1>4, <1>6, <2>1 DEF sub, id
  <1>7. CASE E # {}
    <2>1. E \in SUBSET (1 .. k)
      BY <1>1, <1>4
    <2>2. \A j \in E : lens[j] \in 0 .. k
      <3> SUFFICES ASSUME NEW j \in E
                   PROVE  lens[j] \in 0 .. k
        OBVIOUS
      <3>1. j \in 1 .. k /\ lens[j] = Len(sub[j])
        BY <1>5, <2>1
      <3>. QED
        BY <1>1, <1>2, <3>1
    <2>3. x \in E /\ \A j \in E : lens[j] <= lens[x]
      BY <1>1, <1>7, <2>1, <2>2, LongestIs
    <2> HIDE DEF x
    <2>4. sub[x] \in Seq(Nat) /\ Len(sub[x]) \in Nat
      BY <1>2, <2>1, <2>3
    <2>5. Len(sub[k]) = Len(sub[x]) + 1
      BY <1>3, <1>7, <2>4, AppendProperties DEF x
    <2>6. \A j \in E : Len(sub[j]) <= Len(sub[x])
      BY <1>5, <2>3
    <2>7. \A j \in E : Len(sub[j]) + 1 <= Len(sub[k])
      <3> SUFFICES ASSUME NEW j \in E
                   PROVE  Len(sub[j]) + 1 <= Len(sub[k])
        OBVIOUS
      <3>1. Len(sub[j]) \in Nat /\ Len(sub[j]) <= Len(sub[x])
        BY <1>2, <2>1, <2>6
      <3>. QED
        BY <2>4, <2>5, <3>1
    <2>8. Len(sub[k]) >= 1
      BY <2>4, <2>5
    <2>9. \A j \in 1 .. k - 1 : sub[j] # <<>> /\ Precedes(seqs, seqs[1][j].id, id)
            => Len(sub[k]) >= Len(sub[j]) + 1
      <3> SUFFICES ASSUME NEW j \in 1 .. k - 1, sub[j] # <<>>, Precedes(seqs, seqs[1][j].id, id)
                   PROVE  Len(sub[k]) >= Len(sub[j]) + 1
        OBVIOUS
      <3>1. j \in E /\ j \in 1 .. k
        BY <1>1, <1>4
      <3>2. Len(sub[j]) \in Nat /\ Len(sub[k]) \in Nat
        BY <1>2, <2>4, <2>5, <3>1
      <3>3. Len(sub[j]) + 1 <= Len(sub[k])
        BY <2>7, <3>1
      <3>. QED
        BY <3>2, <3>3
    <2>. QED
      BY <2>8, <2>9 DEF sub, id
  <1>. QED
    BY <1>6, <1>7

\* No common selection that ends with a chunk is larger than its subproblem.
LEMMA NoneEndingIsLarger ==
  ASSUME NEW ps, AreOriginals(ps), NEW seqs, Whole(ps, seqs), NEW k \in 1 .. Len(seqs[1]),
         NEW chosen \in SUBSET (1 .. k), k \in chosen, CommonIn(seqs, chosen)
  PROVE  Cardinality(chosen) <= Len(EndingAt(seqs)[k])
  <1> DEFINE n == Len(seqs[1])
             len(i) == Len(EndingAt(seqs)[i])
             Exceeds(i, C) == i \in C /\ CommonIn(seqs, C) /\ ~(Cardinality(C) <= len(i))
             Wrong == {i \in 1 .. n : \E C \in SUBSET (1 .. i) : Exceeds(i, C)}
  <1>1. n \in Nat
    BY WholeFields
  <1>2. \A i \in 1 .. n : EndingAt(seqs)[i] \in Seq(Nat) /\ len(i) \in Nat
    BY EndingAtIsCommon, LenProperties DEF CommonUpTo
  <1>3. Wrong = {}
    <2> SUFFICES ASSUME Wrong # {}
                 PROVE  FALSE
      OBVIOUS
    <2>1. Wrong \in SUBSET Nat
      BY <1>1
    <2>2. PICK i \in Wrong : \A j \in Wrong : i <= j
      BY <2>1, SmallestExists
    <2>3. i \in 1 .. n /\ i \in Nat
      BY <1>1
    <2>4. PICK C \in SUBSET (1 .. i) : Exceeds(i, C)
      OBVIOUS
    <2>5. i \in C /\ CommonIn(seqs, C) /\ ~(Cardinality(C) <= len(i))
      BY <2>4
    <2>6. \A j \in 1 .. n : \A D \in SUBSET (1 .. j) : Exceeds(j, D) => j \in Wrong
      OBVIOUS
    <2> HIDE DEF Wrong, len, n
    <2> DEFINE rest == C \ {i}
    <2>7. IsFiniteSet(C) /\ IsFiniteSet(rest) /\ Cardinality(C) \in Nat
          /\ Cardinality(rest) = Cardinality(C) - 1
      <3>1. IsFiniteSet(1 .. i)
        BY <2>3, FS_Interval
      <3>2. IsFiniteSet(C)
        BY <3>1, FS_Subset
      <3>. QED
        BY <2>5, <3>2, FS_RemoveElement, FS_CardinalityType
    <2>8. i \in 1 .. Len(seqs[1]) /\ InAll(seqs, seqs[1][i].id)
      BY <2>3, <2>5 DEF n, CommonIn
    <2>9. len(i) >= 1 /\ len(i) \in Nat
      BY <1>2, <2>3, <2>8, EndingIsLonger DEF len
    <2>10. rest # {}
      <3> SUFFICES ASSUME rest = {}
                   PROVE  FALSE
        OBVIOUS
      <3>1. Cardinality(rest) = 0
        BY FS_EmptySet
      <3>. QED
        BY <2>5, <2>7, <2>9, <3>1
    <2>11. PICK j \in rest : \A m \in rest : m <= j
      <3>1. rest \in SUBSET (0 .. i)
        BY <2>3
      <3> HIDE DEF rest
      <3>. QED
        BY <2>3, <2>10, <3>1, LargestExists
    <2>12. j \in 1 .. i - 1 /\ j \in C /\ j \in 1 .. n /\ j < i
      BY <1>1, <2>3
    <2>13. rest \in SUBSET (1 .. j)
      BY <2>3, <2>11, <2>12
    <2>14. CommonIn(seqs, rest)
      BY <2>5 DEF CommonIn
    <2>15. Cardinality(rest) <= len(j)
      <3>1. j \notin Wrong
        BY <2>2, <2>3, <2>12
      <3>2. ~Exceeds(j, rest)
        BY <2>6, <2>12, <2>13, <3>1
      <3>. QED
        BY <2>14, <3>2
    <2>16. Cardinality(rest) # 0 /\ Cardinality(rest) \in Nat
      BY <2>7, <2>10, FS_EmptySet, FS_CardinalityType
    <2>17. EndingAt(seqs)[j] # <<>> /\ len(j) \in Nat
      <3>1. EndingAt(seqs)[j] \in Seq(Nat) /\ len(j) = Len(EndingAt(seqs)[j]) /\ len(j) \in Nat
        BY <1>2, <2>12 DEF len
      <3>2. len(j) # 0
        BY <2>15, <2>16, <3>1
      <3>. QED
        BY <3>1, <3>2, EmptySeq
    <2>18. Precedes(seqs, seqs[1][j].id, seqs[1][i].id)
      BY <2>5, <2>12 DEF CommonIn
    <2>19. len(i) >= len(j) + 1
      BY <2>8, <2>12, <2>17, <2>18, EndingIsLonger DEF len
    <2> HIDE DEF rest
    <2>. QED
      BY <2>5, <2>7, <2>9, <2>15, <2>16, <2>17, <2>19
  <1>4. ~Exceeds(k, chosen)
    BY <1>3
  <1>. QED
    BY <1>4

\* find_lcs is right: no common selection is larger than what it returns.
LEMMA LcsIsLongest ==
  ASSUME NEW ps, AreOriginals(ps), NEW seqs, Whole(ps, seqs),
         NEW chosen \in SUBSET (1 .. Len(seqs[1])), CommonIn(seqs, chosen)
  PROVE  Cardinality(chosen) <= Len(FindLcs(seqs))
  <1>1. PICK n : n = Len(seqs[1])
    OBVIOUS
  <1>2. n \in Nat /\ chosen \in SUBSET (1 .. n)
    BY <1>1, WholeFields
  <1>3. FindLcs(seqs) \in Seq(Nat) /\ Len(FindLcs(seqs)) \in Nat
    BY LcsIsCommon, LenProperties
  <1>4. CASE chosen = {}
    BY <1>3, <1>4, FS_EmptySet
  <1>5. CASE chosen # {}
    <2>1. chosen \in SUBSET (0 .. n)
      BY <1>2
    <2>2. PICK k \in chosen : \A m \in chosen : m <= k
      BY <1>2, <1>5, <2>1, LargestExists
    <2>3. k \in 1 .. n /\ chosen \in SUBSET (1 .. k)
      BY <1>2, <2>2
    <2>4. Cardinality(chosen) <= Len(EndingAt(seqs)[k])
      BY <1>1, <2>2, <2>3, NoneEndingIsLarger
    <2>5. Len(EndingAt(seqs)[k]) <= Len(FindLcs(seqs))
      BY <1>1, <2>3, LcsIsCommon
    <2>6. Len(EndingAt(seqs)[k]) \in Nat
      BY <1>1, <2>3, EndingAtIsCommon, LenProperties DEF CommonUpTo
    <2>7. Cardinality(chosen) \in Nat
      <3>1. IsFiniteSet(1 .. n)
        BY <1>2, FS_Interval
      <3>. QED
        BY <1>2, <3>1, FS_Subset, FS_CardinalityType
    <2>. QED
      BY <1>3, <2>4, <2>5, <2>6, <2>7
  <1>. QED
    BY <1>4, <1>5
-----------------------------------------------------------------------------
(***************************************************************************)
(* Every common chunk found is made a group of all traces, which is called *)
(* before merge_children returns.                                          *)
(***************************************************************************)

\* the chunk of every trace that has the id
IsWholeGroup(group, id) == DOMAIN group = DOMAIN parents /\ group[1].id = id

IsToDo(ws, id) == \E k \in 1 .. Len(ws) : ws[k].kind = "process" /\ IsWholeGroup(ws[k].group, id)

IsCalled(cs, id) == \E i \in 1 .. Len(cs) : IsWholeGroup(cs[i].group, id)

\* no common chunk is forgotten
LcsInv ==
  phase # "index" =>
    /\ lcs = FindLcs(IndexChildren(parents))
    /\ nextCommon \in 1 .. Len(lcs) + 1
    /\ \A k \in 1 .. nextCommon - 1 : IsToDo(work, lcs[k]) \/ IsCalled(called, lcs[k])
    /\ phase \in {"last", "events", "done"} => nextCommon = Len(lcs) + 1
    /\ phase \in {"events", "done"} => work = <<>>

\* A section does not stand for a common chunk.
LEMMA ToDoKept ==
  ASSUME NEW W, NEW ws \in Seq(W), ws # <<>>, Head(ws).kind # "process", NEW id, IsToDo(ws, id)
  PROVE  /\ IsToDo(Tail(ws), id)
         /\ \A new \in Seq(W) : IsToDo(new \o Tail(ws), id)
  <1>1. PICK k \in 1 .. Len(ws) : ws[k].kind = "process" /\ IsWholeGroup(ws[k].group, id)
    BY DEF IsToDo
  <1>2. PICK n : n = Len(ws)
    OBVIOUS
  <1>3. n \in Nat /\ n >= 1 /\ Head(ws) = ws[1] /\ k \in 1 .. n
    BY <1>2, EmptySeq
  <1>4. /\ Tail(ws) \in Seq(W) /\ Len(Tail(ws)) = n - 1
        /\ \A i \in 1 .. n - 1 : Tail(ws)[i] = ws[i + 1]
    BY <1>2, HeadTailProperties
  <1>5. k # 1
    BY <1>1, <1>3
  <1>6. k - 1 \in 1 .. n - 1 /\ (k - 1) + 1 = k
    BY <1>3, <1>5
  <1>7. Tail(ws)[k - 1] = ws[k]
    BY <1>4, <1>6
  <1>8. IsToDo(Tail(ws), id)
    BY <1>1, <1>4, <1>6, <1>7 DEF IsToDo
  <1>9. ASSUME NEW new \in Seq(W)
        PROVE  IsToDo(new \o Tail(ws), id)
    <2>1. PICK all : all = new \o Tail(ws)
      OBVIOUS
    <2>2. PICK m : m = Len(new)
      OBVIOUS
    <2>3. /\ m \in Nat /\ Len(all) = m + (n - 1)
          /\ \A i \in 1 .. m + (n - 1) : all[i] = IF i <= m THEN new[i] ELSE Tail(ws)[i - m]
      <3>1. PICK tail : tail = Tail(ws)
        OBVIOUS
      <3>2. tail \in Seq(W) /\ Len(tail) = n - 1 /\ m \in Nat
        BY <1>4, <2>2, <3>1, LenProperties
      <3>3. /\ Len(new \o tail) = m + Len(tail)
            /\ \A i \in 1 .. m + Len(tail) : (new \o tail)[i] = IF i <= m THEN new[i] ELSE tail[i - m]
        BY <2>2, <3>2, ConcatProperties
      <3>. QED
        BY <2>1, <3>1, <3>2, <3>3
    <2>4. m + (k - 1) \in 1 .. m + (n - 1) /\ ~(m + (k - 1) <= m) /\ (m + (k - 1)) - m = k - 1
      BY <1>3, <1>6, <2>3
    <2>5. all[m + (k - 1)] = ws[k]
      BY <1>7, <2>3, <2>4
    <2>. QED
      BY <1>1, <2>1, <2>3, <2>4, <2>5 DEF IsToDo
  <1>. QED
    BY <1>8, <1>9

\* What was to be done first has been called then.
LEMMA ToDoCalled ==
  ASSUME NEW W, NEW ws \in Seq(W), ws # <<>>, NEW C, NEW cs \in Seq(C), NEW c \in C,
         c.group = Head(ws).group, NEW id, IsToDo(ws, id) \/ IsCalled(cs, id)
  PROVE  IsToDo(Tail(ws), id) \/ IsCalled(Append(cs, c), id)
  <1>1. PICK m : m = Len(cs)
    OBVIOUS
  <1>2. /\ m \in Nat /\ Len(Append(cs, c)) = m + 1 /\ Append(cs, c)[m + 1] = c
        /\ \A i \in 1 .. m : Append(cs, c)[i] = cs[i]
    BY <1>1, AppendProperties, LenProperties
  <1>3. \A i \in 1 .. m : i \in 1 .. m + 1
    BY <1>2
  <1>4. CASE IsCalled(cs, id)
    BY <1>1, <1>2, <1>3, <1>4 DEF IsCalled
  <1>5. CASE IsToDo(ws, id)
    <2>1. PICK k \in 1 .. Len(ws) : ws[k].kind = "process" /\ IsWholeGroup(ws[k].group, id)
      BY <1>5 DEF IsToDo
    <2>2. PICK n : n = Len(ws)
      OBVIOUS
    <2>3. /\ n \in Nat /\ k \in 1 .. n /\ Head(ws) = ws[1] /\ Len(Tail(ws)) = n - 1
          /\ \A i \in 1 .. n - 1 : Tail(ws)[i] = ws[i + 1]
      BY <2>2, EmptySeq, HeadTailProperties
    <2>4. CASE k = 1
      <3>1. IsWholeGroup(Append(cs, c)[m + 1].group, id) /\ m + 1 \in 1 .. m + 1
        BY <1>2, <2>1, <2>3, <2>4
      <3>. QED
        BY <1>2, <3>1 DEF IsCalled
    <2>5. CASE k # 1
      <3>1. k - 1 \in 1 .. n - 1 /\ (k - 1) + 1 = k
        BY <2>3, <2>5
      <3>2. Tail(ws)[k - 1] = ws[k]
        BY <2>3, <3>1
      <3>. QED
        BY <2>1, <2>3, <3>1, <3>2 DEF IsToDo
    <2>. QED
      BY <2>4, <2>5
  <1>. QED
    BY <1>4, <1>5

LEMMA LcsIndex ==
  ASSUME OrderInv, Index
  PROVE  LcsInv'
  <1>1. /\ phase' = "common" /\ phase = "index" /\ lcs' = FindLcs(IndexChildren(parents))
        /\ nextCommon' = nextCommon /\ parents' = parents
    BY DEF Index
  <1>2. AreOriginals(parents) /\ nextCommon = 1
    BY <1>1 DEF OrderInv, Known
  <1>3. lcs' \in Seq(Nat) /\ Len(lcs') \in Nat
    BY <1>1, <1>2, IndexIsWhole, LcsIsCommon, LenProperties
  <1>4. 1 \in 1 .. Len(lcs') + 1 /\ \A k \in 1 .. 1 - 1 : FALSE
    BY <1>3
  <1>. QED
    BY <1>1, <1>2, <1>4 DEF LcsInv

LEMMA LcsNextCommon ==
  ASSUME OrderInv, LcsInv, NextCommon
  PROVE  LcsInv'
  <1>1. /\ phase = "common" /\ phase' = "common" /\ work = <<>> /\ nextCommon <= Len(lcs)
        /\ parents' = parents /\ called' = called /\ lcs' = lcs /\ nextCommon' = nextCommon + 1
    BY DEF NextCommon
  <1>2. PICK id : id = lcs[nextCommon]
    OBVIOUS
  <1>3. PICK x : x = Find([t \in Having(sequences, id) |->
                             SubSeq(sequences[t], 1, IndexOf(sequences[t], id) - 1)])
    OBVIOUS
  <1>4. PICK m : m = Matching(sequences, id)
    OBVIOUS
  <1>5. work' = <<x, Process(m)>>
    BY <1>2, <1>3, <1>4 DEF NextCommon
  <1>6. /\ Whole(parents, sequences) /\ lcs \in Seq(Nat) /\ Len(lcs) \in Nat
        /\ AreOriginals(parents) /\ nextCommon \in 1 .. Len(lcs)
        /\ \A t \in DOMAIN sequences : LeftIn(lcs, nextCommon, sequences[t])
    BY <1>1, LenProperties DEF OrderInv, Known
  <1>7. DOMAIN sequences = DOMAIN parents /\ 1 \in DOMAIN parents
    BY <1>6, OriginalFields DEF Whole
  <1>8. \A t \in DOMAIN parents : id \in Ids(sequences[t])
    <2>1. nextCommon \in nextCommon .. Len(lcs)
      BY <1>6
    <2>. QED
      BY <1>2, <1>6, <1>7, <2>1 DEF LeftIn
  <1>9. Having(sequences, id) = DOMAIN parents
    BY <1>7, <1>8 DEF Having
  <1>10. m = [t \in DOMAIN parents |-> sequences[t][IndexOf(sequences[t], id)]]
    BY <1>4, <1>9 DEF Matching
  <1>11. m[1].id = id
    BY <1>7, <1>8, <1>10, Found
  <1>12. IsWholeGroup(m, id)
    BY <1>10, <1>11 DEF IsWholeGroup
  <1>13. Process(m).kind = "process" /\ Process(m).group = m
    BY DEF Process
  <1>14. IsToDo(<<x, Process(m)>>, id)
    <2>1. PICK ws : ws = <<x, Process(m)>>
      OBVIOUS
    <2>2. 2 \in 1 .. Len(ws) /\ ws[2] = Process(m)
      BY <2>1
    <2>3. IsToDo(ws, id)
      BY <1>12, <1>13, <2>2 DEF IsToDo
    <2>. QED
      BY <2>1, <2>3
  <1>15. \A k \in 1 .. nextCommon - 1 : IsCalled(called, lcs[k])
    <2>1. ~\E i \in 1 .. Len(<<>>) : TRUE
      OBVIOUS
    <2>2. \A i : ~IsToDo(<<>>, i)
      BY <2>1 DEF IsToDo
    <2>. QED
      BY <1>1, <2>2 DEF LcsInv
  <1>16. ASSUME NEW k \in 1 .. (nextCommon + 1) - 1
         PROVE  IsToDo(<<x, Process(m)>>, lcs[k]) \/ IsCalled(called, lcs[k])
    <2>1. k = nextCommon \/ k \in 1 .. nextCommon - 1
      BY <1>6
    <2>. QED
      BY <1>2, <1>14, <1>15, <2>1
  <1>17. nextCommon + 1 \in 1 .. Len(lcs) + 1
    BY <1>6
  <1>. QED
    BY <1>1, <1>5, <1>16, <1>17 DEF LcsInv, IsToDo, IsCalled, IsWholeGroup

LEMMA LcsLastSection ==
  ASSUME OrderInv, LcsInv, LastSection
  PROVE  LcsInv'
  <1>1. /\ phase = "common" /\ phase' = "last" /\ work = <<>> /\ nextCommon > Len(lcs)
        /\ UNCHANGED <<parents, lcs, nextCommon, called>>
    BY DEF LastSection
  <1>2. lcs \in Seq(Nat) /\ Len(lcs) \in Nat /\ nextCommon \in 1 .. Len(lcs) + 1
    BY <1>1, LenProperties DEF OrderInv, Known, LcsInv
  <1>3. nextCommon = Len(lcs) + 1
    BY <1>1, <1>2
  <1>4. \A k \in 1 .. nextCommon - 1 : IsCalled(called, lcs[k])
    <2>1. ~\E i \in 1 .. Len(<<>>) : TRUE
      OBVIOUS
    <2>2. \A i : ~IsToDo(<<>>, i)
      BY <2>1 DEF IsToDo
    <2>. QED
      BY <1>1, <2>2 DEF LcsInv
  <1>. QED
    BY <1>1, <1>2, <1>3, <1>4 DEF LcsInv, IsToDo, IsCalled, IsWholeGroup

\* Steps of find_frequent_children: only a section is taken from the work.
LEMMA LcsSections ==
  ASSUME OrderInv, LcsInv, EndSection \/ SplitSection
  PROVE  LcsInv'
  <1>1. /\ work # <<>> /\ Head(work).kind = "find" /\ phase \in {"common", "last"}
        /\ UNCHANGED <<parents, lcs, nextCommon, phase, called>>
    BY DEF EndSection, SplitSection, NextWork
  <1>2. work \in Seq(Item(parents))
    BY DEF OrderInv, Known
  <1>3. ASSUME NEW id, IsToDo(work, id)
        PROVE  IsToDo(work', id)
    <2>1. CASE EndSection
      <3>1. work' = Tail(work)
        BY <2>1 DEF EndSection
      <3>2. IsToDo(Tail(work), id)
        BY <1>1, <1>2, <1>3, ToDoKept
      <3>. QED
        BY <3>1, <3>2
    <2>2. CASE SplitSection
      <3>1. PICK b, m, a : work' = <<Find(b), Process(m), Find(a)>> \o Tail(work)
        BY <2>2 DEF SplitSection
      <3>2. PICK W : W = Item(parents) \cup {Find(b), Process(m), Find(a)}
        OBVIOUS
      <3>3. work \in Seq(W) /\ <<Find(b), Process(m), Find(a)>> \in Seq(W)
        BY <1>2, <3>2, SeqMonotonic
      <3>4. IsToDo(<<Find(b), Process(m), Find(a)>> \o Tail(work), id)
        BY <1>1, <1>3, <3>3, ToDoKept
      <3>. QED
        BY <3>1, <3>4
    <2>. QED
      BY <2>1, <2>2
  <1>4. phase' \notin {"events", "done"} /\ phase # "index"
    BY <1>1
  <1>5. \A id : IsToDo(work, id) => IsToDo(work, id)'
    BY <1>1, <1>3 DEF IsToDo, IsWholeGroup
  <1>6. \A id : IsCalled(called, id) => IsCalled(called, id)'
    BY <1>1 DEF IsCalled, IsWholeGroup
  <1>. QED
    BY <1>1, <1>4, <1>5, <1>6 DEF LcsInv

LEMMA LcsAddAveragedChild ==
  ASSUME OrderInv, LcsInv, AddAveragedChild
  PROVE  LcsInv'
  <1>1. PICK c : /\ c.group = Head(work).group
                 /\ called' = Append(called, c)
    BY DEF AddAveragedChild
  <1>2. /\ work # <<>> /\ phase \in {"common", "last"}
        /\ work' = Tail(work) /\ phase' \in {phase, "panicked"}
        /\ UNCHANGED <<parents, lcs, nextCommon>>
    BY DEF AddAveragedChild, NextWork
  <1>3. work \in Seq(Item(parents)) /\ called \in Seq(Call(parents) \cup {c}) /\ c \in Call(parents) \cup {c}
    BY SeqMonotonic DEF OrderInv, Known
  <1>4. ASSUME NEW id, IsToDo(work, id) \/ IsCalled(called, id)
        PROVE  IsToDo(Tail(work), id) \/ IsCalled(Append(called, c), id)
    BY <1>1, <1>2, <1>3, <1>4, ToDoCalled
  <1>5. phase # "index" /\ phase' \notin {"events", "done"}
    BY <1>2
  <1>. QED
    BY <1>1, <1>2, <1>4, <1>5 DEF LcsInv, IsToDo, IsCalled, IsWholeGroup

\* Steps after the last section.
LEMMA LcsKept ==
  ASSUME LcsInv, phase # "index", phase' # "index",
         UNCHANGED <<parents, lcs, nextCommon, work, called>>,
         phase' \in {"last", "events", "done"} => phase \in {"last", "events", "done"},
         phase' \in {"events", "done"} => work = <<>>
  PROVE  LcsInv'
  BY DEF LcsInv, IsToDo, IsCalled, IsWholeGroup

LEMMA LcsStep ==
  ASSUME OrderInv, LcsInv, [Next]_vars
  PROVE  LcsInv'
  <1>1. CASE Index
    BY <1>1, LcsIndex
  <1>2. CASE NextCommon
    BY <1>2, LcsNextCommon
  <1>3. CASE LastSection
    BY <1>3, LcsLastSection
  <1>4. CASE EndSection \/ SplitSection
    BY <1>4, LcsSections
  <1>5. CASE AddAveragedChild
    BY <1>5, LcsAddAveragedChild
  <1>6. CASE Return
    BY <1>6, LcsKept DEF Return
  <1>7. ASSUME phase = "events" => work = <<>>
        PROVE  \/ NextTrace \/ SkipEvent \/ ZipNext \/ NewEvent \/ EndZip \/ Finish
               => LcsInv'
    <2>1. CASE NextTrace \/ SkipEvent \/ ZipNext
      BY <1>7, <2>1, LcsKept DEF NextTrace, SkipEvent, ZipNext, Searching, mergeVars
    <2>2. CASE NewEvent
      BY <1>7, <2>2, LcsKept DEF NewEvent, Searching, KeepMerging
    <2>3. CASE EndZip \/ Finish
      BY <1>7, <2>3, LcsKept DEF EndZip, Finish, KeepMerging
    <2>. QED
      BY <2>1, <2>2, <2>3
  <1>8. phase = "events" => work = <<>>
    BY DEF LcsInv
  <1>9. CASE UNCHANGED vars
    BY <1>9 DEF vars, mergeVars, LcsInv, IsToDo, IsCalled, IsWholeGroup
  <1>. QED
    BY <1>1, <1>2, <1>3, <1>4, <1>5, <1>6, <1>7, <1>8, <1>9 DEF Next, MergeNext, Over

THEOREM LcsInvariant == Spec => []LcsInv
  <1>1. Init => OrderInv /\ LcsInv
    BY InitOrder DEF Init, MergeInit, LcsInv
  <1>2. OrderInv /\ LcsInv /\ [Next]_vars => (OrderInv /\ LcsInv)'
    BY OrderStep, LcsStep
  <1>. QED
    BY <1>1, <1>2, PTL DEF Spec

-----------------------------------------------------------------------------
(***************************************************************************)
(* Common selections of chunks are common selections of ids.               *)
(***************************************************************************)

\* Chunks of two traces have the same id only if they have the same key.
LEMMA SameIdSameKey ==
  ASSUME NEW ps, AreOriginals(ps), NEW t \in DOMAIN ps, NEW u \in DOMAIN ps,
         NEW a \in Kids(ps, t), NEW b \in Kids(ps, u), a.id = b.id
  PROVE  Key(ps[t], a.original) = Key(ps[u], b.original)
  <1>1. PICK i \in DOMAIN ps[t].chunks : a = IdedChild(ps, t, i)
    BY DEF Kids
  <1>2. PICK j \in DOMAIN ps[u].chunks : b = IdedChild(ps, u, j)
    BY DEF Kids
  <1>3. a.original = i /\ a.id = IdOf(ps, Key(ps[t], i)) /\ b.original = j /\ b.id = IdOf(ps, Key(ps[u], j))
    BY <1>1, <1>2 DEF IdedChild
  <1>4. <<t, i>> \in Places(ps) /\ <<u, j>> \in Places(ps)
    BY PlaceOf
  <1>5. KeyAt(ps, <<t, i>>) = Key(ps[t], i) /\ KeyAt(ps, <<u, j>>) = Key(ps[u], j)
    BY DEF KeyAt
  <1>6. Key(ps[t], i) = Key(ps[u], j)
    BY <1>3, <1>4, <1>5, IdsDiffer
  <1>. QED
    BY <1>3, <1>6

\* A chunk is where it was in its trace when index_children has given it its id.
LEMMA IndexedAt ==
  ASSUME NEW ps, AreOriginals(ps), NEW t \in DOMAIN ps
  PROVE  /\ Len(IndexChildren(ps)[t]) = Len(ps[t].chunks)
         /\ DOMAIN IndexChildren(ps)[t] = 1 .. Len(ps[t].chunks)
         /\ \A i \in DOMAIN ps[t].chunks :
              /\ IndexChildren(ps)[t][i].id = IdOf(ps, Key(ps[t], i))
              /\ IdOf(ps, Key(ps[t], i)) \in Ids(IndexChildren(ps)[t])
              /\ IndexOf(IndexChildren(ps)[t], IdOf(ps, Key(ps[t], i))) = i
         /\ \A a \in Kids(ps, t) : /\ a.id \in Ids(IndexChildren(ps)[t])
                                   /\ IndexOf(IndexChildren(ps)[t], a.id) = a.original
  <1>1. PICK s : s = IndexChildren(ps)[t]
    OBVIOUS
  <1>2. PICK n : n = Len(ps[t].chunks)
    OBVIOUS
  <1>3. n \in Nat /\ DOMAIN ps[t].chunks = 1 .. n
    BY <1>2, OriginalFields
  <1>4. s = [i \in 1 .. n |-> IdedChild(ps, t, i)]
    BY <1>1, <1>3 DEF IndexChildren
  <1>5. s \in Seq(Kids(ps, t)) /\ Len(s) = n
    <2>1. \A i \in 1 .. n : IdedChild(ps, t, i) \in Kids(ps, t)
      BY <1>3 DEF Kids
    <2>2. s \in [1 .. n -> Kids(ps, t)]
      BY <1>4, <2>1
    <2>3. s \in Seq(Kids(ps, t))
      BY <1>3, <2>2, SeqDef
    <2>. QED
      BY <1>3, <2>2, <2>3, LenProperties
  <1>6. \A i \in 1 .. n : s[i].id = IdOf(ps, Key(ps[t], i)) /\ s[i].original = i /\ s[i] \in Kids(ps, t)
    BY <1>3, <1>4 DEF IdedChild, Kids
  <1>7. ASSUME NEW i \in 1 .. n
        PROVE  s[i].id \in Ids(s) /\ IndexOf(s, s[i].id) = i
    <2>1. s[i].id \in Ids(s)
      BY <1>4 DEF Ids
    <2>2. PICK j : j = IndexOf(s, s[i].id)
      OBVIOUS
    <2>3. j \in 1 .. n /\ s[j].id = s[i].id
      BY <1>4, <2>1, <2>2, Found
    <2>4. s[j].original = s[i].original
      <3>1. PICK x : x = s[j]
        OBVIOUS
      <3>2. PICK y : y = s[i]
        OBVIOUS
      <3>3. x \in Kids(ps, t) /\ y \in Kids(ps, t) /\ x.id = y.id
        BY <1>6, <2>3, <3>1, <3>2
      <3>4. x.original = y.original
        BY <3>3, KidFields
      <3>. QED
        BY <3>1, <3>2, <3>4
    <2>. QED
      BY <1>6, <2>1, <2>2, <2>3, <2>4
  <1>8. ASSUME NEW a \in Kids(ps, t)
        PROVE  a.id \in Ids(s) /\ IndexOf(s, a.id) = a.original
    <2>1. PICK i \in 1 .. n : a = IdedChild(ps, t, i)
      BY <1>3 DEF Kids
    <2>2. a = s[i] /\ a.original = i
      BY <1>4, <1>6, <2>1
    <2>. QED
      BY <1>7, <2>2
  <1>. QED
    BY <1>1, <1>2, <1>3, <1>4, <1>5, <1>6, <1>7, <1>8

\* What is common to the traces is common to the sequences of their chunks.
LEMMA CommonIsCommonIn ==
  ASSUME NEW chosen \in SUBSET (DOMAIN parents[1].chunks), AreOriginals(parents), IsCommon(chosen)
  PROVE  CommonIn(IndexChildren(parents), chosen)
  <1> DEFINE seqs == IndexChildren(parents)
             Id(i) == IdOf(parents, Key(parents[1], i))
  <1>1. DOMAIN seqs = Traces /\ DOMAIN parents = Traces /\ 1 \in Traces
    BY OriginalFields DEF IndexChildren, Traces
  <1>2. \A i \in chosen : seqs[1][i].id = Id(i)
    BY <1>1, IndexedAt
  <1>3. ASSUME NEW t \in Traces
        PROVE  /\ \A i \in chosen : Id(i) \in Ids(seqs[t])
               /\ \A i, j \in chosen : i < j => IndexOf(seqs[t], Id(i)) < IndexOf(seqs[t], Id(j))
    <2>1. PICK f \in [chosen -> DOMAIN parents[t].chunks] :
            /\ \A i \in chosen : Key(parents[t], f[i]) = Key(parents[1], i)
            /\ \A i, j \in chosen : i < j => f[i] < f[j]
      BY DEF IsCommon
    <2>2. ASSUME NEW i \in chosen
          PROVE  Id(i) \in Ids(seqs[t]) /\ IndexOf(seqs[t], Id(i)) = f[i]
      <3>1. f[i] \in DOMAIN parents[t].chunks /\ Id(i) = IdOf(parents, Key(parents[t], f[i]))
        BY <2>1
      <3>. QED
        BY <1>1, <3>1, IndexedAt
    <2>. QED
      BY <2>1, <2>2
  <1> HIDE DEF seqs, Id
  <1>4. ASSUME NEW i \in chosen
        PROVE  InAll(seqs, seqs[1][i].id)
    BY <1>1, <1>2, <1>3 DEF InAll
  <1>5. ASSUME NEW i \in chosen, NEW j \in chosen, i < j
        PROVE  Precedes(seqs, seqs[1][i].id, seqs[1][j].id)
    BY <1>1, <1>2, <1>3, <1>5 DEF Precedes
  <1>. QED
    BY <1>4, <1>5 DEF CommonIn, seqs

-----------------------------------------------------------------------------
(***************************************************************************)
(* What was merged from all traces.                                        *)
(***************************************************************************)

\* a call for all traces
IsWholeCall(i) == i \in 1 .. Len(called) /\ DOMAIN called[i].group = Traces

\* what such a call has of each trace
LEMMA WholeCallIs ==
  ASSUME OrderInv
  PROVE  /\ AreOriginals(parents) /\ DOMAIN parents = Traces /\ 1 \in Traces
         /\ \A i : IsWholeCall(i) =>
              /\ i \in DOMAIN called /\ i \in Nat
              /\ \A t \in Traces : /\ called[i].group[t] \in Kids(parents, t)
                                   /\ called[i].group[t].original \in DOMAIN parents[t].chunks
                                   /\ called[i].group[t].original \in Nat
                                   /\ called[i].group[t].id = called[i].group[1].id
  <1>1. AreOriginals(parents) /\ called \in Seq(Call(parents)) /\ DOMAIN called = 1 .. Len(called)
    BY LenProperties DEF OrderInv, Known
  <1>2. DOMAIN parents = Traces /\ 1 \in Traces
    BY <1>1, OriginalFields DEF Traces
  <1>3. ASSUME NEW i, IsWholeCall(i), NEW t \in Traces
        PROVE  /\ called[i].group[t] \in Kids(parents, t)
               /\ called[i].group[t].original \in DOMAIN parents[t].chunks
               /\ called[i].group[t].original \in Nat
               /\ called[i].group[t].id = called[i].group[1].id
    <2>1. PICK group : group = called[i].group
      OBVIOUS
    <2>2. group \in Group(parents) /\ DOMAIN group = Traces
      <3>1. called[i] \in Call(parents) /\ DOMAIN called[i].group = Traces
        BY <1>1, <1>3, ElementOfSeq DEF IsWholeCall
      <3>2. called[i].group \in Group(parents)
        BY <3>1 DEF Call
      <3>. QED
        BY <2>1, <3>1, <3>2
    <2>3. group[t] \in Kids(parents, t) /\ group[t].id = group[1].id
      BY <1>2, <2>2, GroupIs
    <2>. QED
      BY <1>1, <1>2, <2>1, <2>3, KidFields
  <1>4. \A i : IsWholeCall(i) => i \in DOMAIN called /\ i \in Nat
    BY <1>1 DEF IsWholeCall
  <1>. QED
    BY <1>1, <1>2, <1>3, <1>4

\* The chunks merged from all traces are common to them: they were called in the
\* order of every trace.
LEMMA MergedIsCommon ==
  ASSUME OrderInv
  PROVE  /\ IsCommon(MergedFromAll)
         /\ MergedFromAll \subseteq DOMAIN parents[1].chunks
  <1> DEFINE M == MergedFromAll
             Of(i, t) == called[i].group[t].original
  <1>1. M = {Of(i, 1) : i \in {j \in DOMAIN called : DOMAIN called[j].group = Traces}}
    BY DEF MergedFromAll
  <1>2. DOMAIN called = 1 .. Len(called)
    BY LenProperties DEF OrderInv, Known
  <1>3. \A o \in M : \E i : IsWholeCall(i) /\ Of(i, 1) = o
    BY <1>1, <1>2 DEF IsWholeCall
  <1>4. \A i : IsWholeCall(i) => Of(i, 1) \in DOMAIN parents[1].chunks
    BY WholeCallIs
  <1>5. M \subseteq DOMAIN parents[1].chunks
    BY <1>3, <1>4
  <1>6. \A i, j : IsWholeCall(i) /\ IsWholeCall(j) /\ i < j =>
          \A t \in Traces : Of(i, t) < Of(j, t)
    <2>1. CalledInOriginalOrder
      BY OrderIsOriginal
    <2>. QED
      BY <1>2, <2>1 DEF CalledInOriginalOrder, IsWholeCall
  <1> HIDE DEF M, Of
  <1>7. PICK call : call = [o \in M |-> CHOOSE i : IsWholeCall(i) /\ Of(i, 1) = o]
    OBVIOUS
  <1>8. \A o \in M : IsWholeCall(call[o]) /\ Of(call[o], 1) = o
    BY <1>3, <1>7
  <1>9. ASSUME NEW t \in Traces
        PROVE  \E f \in [M -> DOMAIN parents[t].chunks] :
                 /\ \A i \in M : Key(parents[t], f[i]) = Key(parents[1], i)
                 /\ \A i, j \in M : i < j => f[i] < f[j]
    <2>1. PICK f : f = [o \in M |-> Of(call[o], t)]
      OBVIOUS
    <2>2. ASSUME NEW o \in M
          PROVE  f[o] \in DOMAIN parents[t].chunks /\ Key(parents[t], f[o]) = Key(parents[1], o)
      <3>1. PICK a : a = called[call[o]].group[t]
        OBVIOUS
      <3>2. PICK b : b = called[call[o]].group[1]
        OBVIOUS
      <3>3. /\ a \in Kids(parents, t) /\ b \in Kids(parents, 1) /\ a.id = b.id
            /\ a.original \in DOMAIN parents[t].chunks
            /\ AreOriginals(parents) /\ t \in DOMAIN parents /\ 1 \in DOMAIN parents
        BY <1>8, <3>1, <3>2, WholeCallIs
      <3>4. a.original = f[o] /\ b.original = o
        BY <1>8, <2>1, <3>1, <3>2 DEF Of
      <3>5. Key(parents[t], a.original) = Key(parents[1], b.original)
        BY <3>3, SameIdSameKey
      <3>. QED
        BY <3>3, <3>4, <3>5
    <2>3. ASSUME NEW i \in M, NEW j \in M, i < j
          PROVE  f[i] < f[j]
      <3>1. PICK x : x = call[i]
        OBVIOUS
      <3>2. PICK y : y = call[j]
        OBVIOUS
      <3>3. /\ IsWholeCall(x) /\ Of(x, 1) = i /\ IsWholeCall(y) /\ Of(y, 1) = j
            /\ f[i] = Of(x, t) /\ f[j] = Of(y, t)
        BY <1>8, <2>1, <3>1, <3>2
      <3>4. x \in Nat /\ y \in Nat /\ i \in Nat /\ j \in Nat /\ 1 \in Traces
        BY <3>3, WholeCallIs DEF Of
      <3>5. x # y
        BY <2>3, <3>3, <3>4
      <3>6. ~(y < x)
        <4> SUFFICES ASSUME y < x
                     PROVE  FALSE
          OBVIOUS
        <4>1. j < i
          BY <1>6, <3>3, <3>4
        <4>. QED
          BY <2>3, <3>4, <4>1
      <3>7. x < y
        BY <3>4, <3>5, <3>6
      <3>. QED
        BY <1>6, <3>3, <3>7
    <2>4. f \in [M -> DOMAIN parents[t].chunks]
      BY <2>1, <2>2
    <2>. QED
      BY <2>2, <2>3, <2>4
  <1>10. IsCommon(M)
    BY <1>9 DEF IsCommon
  <1>. QED
    BY <1>5, <1>10 DEF M

\* In the end one of them is there for each id of the longest common subsequence.
LEMMA MergedIsLongest ==
  ASSUME OrderInv, LcsInv, phase \in {"events", "done"}
  PROVE  /\ Len(FindLcs(IndexChildren(parents))) \in Nat
         /\ Cardinality(MergedFromAll) \in Nat
         /\ Len(FindLcs(IndexChildren(parents))) <= Cardinality(MergedFromAll)
  <1>1. PICK ids : ids = FindLcs(IndexChildren(parents))
    OBVIOUS
  <1>2. PICK seqs : seqs = IndexChildren(parents)
    OBVIOUS
  <1>3. /\ AreOriginals(parents) /\ DOMAIN parents = Traces /\ 1 \in Traces /\ 1 \in DOMAIN seqs
        /\ Whole(parents, seqs)
    BY <1>2, WholeCallIs, IndexIsWhole DEF Whole
  <1>4. ids \in Seq(Nat) /\ Len(ids) \in Nat /\ LeftIn(ids, 1, seqs[1])
    BY <1>1, <1>2, <1>3, LcsIsCommon, LenProperties
  <1>5. ASSUME NEW k \in 1 .. Len(ids)
        PROVE  IndexOf(seqs[1], ids[k]) \in MergedFromAll
    <2>1. lcs = ids /\ nextCommon = Len(ids) + 1 /\ work = <<>>
      BY <1>1 DEF LcsInv
    <2>2. k \in 1 .. nextCommon - 1
      BY <1>4, <2>1
    <2>3. IsToDo(work, ids[k]) \/ IsCalled(called, ids[k])
      BY <2>1, <2>2 DEF LcsInv
    <2>4. ~IsToDo(work, ids[k])
      <3>1. ~\E i \in 1 .. Len(<<>>) : TRUE
        OBVIOUS
      <3>. QED
        BY <2>1, <3>1 DEF IsToDo
    <2>5. PICK i \in 1 .. Len(called) : IsWholeGroup(called[i].group, ids[k])
      BY <2>3, <2>4 DEF IsCalled
    <2>6. IsWholeCall(i) /\ called[i].group[1].id = ids[k]
      BY <1>3, <2>5 DEF IsWholeGroup, IsWholeCall
    <2>7. PICK a : a = called[i].group[1]
      OBVIOUS
    <2>8. a \in Kids(parents, 1) /\ a.id = ids[k] /\ i \in DOMAIN called
      BY <1>3, <2>6, <2>7, WholeCallIs
    <2>9. IndexOf(seqs[1], ids[k]) = a.original
      BY <1>2, <1>3, <2>8, IndexedAt
    <2>10. a.original \in MergedFromAll
      BY <2>6, <2>7, <2>8 DEF MergedFromAll, IsWholeCall
    <2>. QED
      BY <2>9, <2>10
  <1>6. IsFiniteSet(MergedFromAll) /\ Cardinality(MergedFromAll) \in Nat
    <2>1. PICK n : n = Len(parents[1].chunks)
      OBVIOUS
    <2>2. n \in Nat /\ DOMAIN parents[1].chunks = 1 .. n
      BY <1>3, <2>1, OriginalFields
    <2>3. IsFiniteSet(1 .. n)
      BY <2>2, FS_Interval
    <2>. QED
      BY <2>2, <2>3, MergedIsCommon, FS_Subset, FS_CardinalityType
  <1>7. PICK where : where = [k \in 1 .. Len(ids) |-> IndexOf(seqs[1], ids[k])]
    OBVIOUS
  <1>8. \A k, l \in 1 .. Len(ids) : k < l => where[k] < where[l]
    BY <1>4, <1>7 DEF LeftIn
  <1>9. \A k \in 1 .. Len(ids) : where[k] \in Nat
    BY <1>3, <1>4, <1>7, WholeFields DEF LeftIn
  <1>10. where \in Injection(1 .. Len(ids), MergedFromAll)
    <2>1. where \in [1 .. Len(ids) -> MergedFromAll]
      BY <1>5, <1>7
    <2>2. ASSUME NEW k \in 1 .. Len(ids), NEW l \in 1 .. Len(ids), where[k] = where[l]
          PROVE  k = l
      <3>1. ~(k < l) /\ ~(l < k)
        BY <1>8, <1>9, <2>2
      <3>. QED
        BY <1>4, <3>1
    <2>. QED
      BY <2>1, <2>2 DEF Injection, IsInjective
  <1>11. Cardinality(1 .. Len(ids)) <= Cardinality(MergedFromAll)
    BY <1>6, <1>10, FS_Injection
  <1>12. Cardinality(1 .. Len(ids)) = Len(ids)
    <2>1. PICK n : n = Len(ids)
      OBVIOUS
    <2>2. n \in Nat /\ n \in Int /\ 1 \in Int
      BY <1>4, <2>1
    <2>3. Cardinality(1 .. n) = IF 1 > n THEN 0 ELSE n - 1 + 1
      BY <2>2, FS_Interval
    <2>. QED
      BY <2>1, <2>2, <2>3
  <1>. QED
    BY <1>1, <1>4, <1>6, <1>11, <1>12

LEMMA LcsIsMerged == OrderInv /\ LcsInv => LongestCommonMerged
  <1> SUFFICES ASSUME OrderInv, LcsInv, phase \in {"events", "done"},
                      NEW chosen \in SUBSET (DOMAIN parents[1].chunks), IsCommon(chosen)
               PROVE  Cardinality(chosen) <= Cardinality(MergedFromAll)
    BY MergedIsCommon DEF LongestCommonMerged
  <1>1. AreOriginals(parents) /\ 1 \in DOMAIN parents
    BY WholeCallIs
  <1>2. PICK seqs : seqs = IndexChildren(parents)
    OBVIOUS
  <1>3. Whole(parents, seqs) /\ CommonIn(seqs, chosen)
    BY <1>1, <1>2, IndexIsWhole, CommonIsCommonIn
  <1>4. DOMAIN parents[1].chunks = 1 .. Len(seqs[1])
    BY <1>1, <1>2, IndexedAt, OriginalFields
  <1>5. Cardinality(chosen) <= Len(FindLcs(seqs))
    BY <1>1, <1>3, <1>4, LcsIsLongest
  <1>6. Cardinality(chosen) \in Nat
    <2>1. PICK n : n = Len(parents[1].chunks)
      OBVIOUS
    <2>2. n \in Nat /\ DOMAIN parents[1].chunks = 1 .. n
      BY <1>1, <2>1, OriginalFields
    <2>3. IsFiniteSet(1 .. n)
      BY <2>2, FS_Interval
    <2>. QED
      BY <2>2, <2>3, FS_Subset, FS_CardinalityType
  <1>. QED
    BY <1>2, <1>5, <1>6, MergedIsLongest

\* "we find the longest common subsequence": the dynamic program finds one, each
\* of its chunks is merged from all traces whatever is merged between them, and
\* no selection of chunks that all traces have in this order is larger.
THEOREM AlwaysLongestCommonMerged == Spec => []LongestCommonMerged
  BY OrderInvariant, LcsInvariant, LcsIsMerged, PTL

-----------------------------------------------------------------------------
(***************************************************************************)
(* Part 6.  Scaling keeps points points, in their order and in the range   *)
(* of the new frame.                                                       *)
(***************************************************************************)

\* division
LEMMA Quotient ==
  ASSUME NEW n \in Int, NEW d \in Nat \ {0}
  PROVE  n \div d \in Int /\ n = d * (n \div d) + (n % d) /\ 0 <= n % d /\ n % d < d
  OBVIOUS

\* A larger quotient is of a larger number.
LEMMA QuotientLess ==
  ASSUME NEW a \in Int, NEW b \in Int, NEW d \in Nat \ {0}, a < b
  PROVE  d * a + d <= d * b
  <1>1. PICK k \in Nat : b = a + 1 + k
    BY b = a + 1 + (b - a - 1)
  <1>2. d * b = d * a + d + d * k
    BY <1>1
  <1>3. d * k \in Nat
    BY <1>1
  <1>. QED
    BY <1>2, <1>3

LEMMA QuotientGrows ==
  ASSUME NEW n \in Int, NEW m \in Int, n <= m, NEW d \in Nat \ {0}
  PROVE  n \div d <= m \div d
  <1>1. PICK a \in Int, r \in Int : a = n \div d /\ n = d * a + r /\ 0 <= r /\ r < d
    BY Quotient
  <1>2. PICK b \in Int, s \in Int : b = m \div d /\ m = d * b + s /\ 0 <= s /\ s < d
    BY Quotient
  <1>3. SUFFICES ASSUME b < a
                 PROVE  FALSE
    BY <1>1, <1>2
  <1>4. d * b + d <= d * a /\ d * a \in Int /\ d * b \in Int
    BY <1>3, QuotientLess
  <1>. QED
    BY <1>1, <1>2, <1>4

LEMMA ProductGrows ==
  ASSUME NEW w \in Nat, NEW x \in Int, NEW y \in Int, x <= y
  PROVE  w * x <= w * y
  <1>1. PICK k \in Nat : y = x + k
    BY y = x + (y - x)
  <1>2. w * y = w * x + w * k /\ w * k \in Nat /\ w * x \in Int
    BY <1>1
  <1>. QED
    BY <1>2

\* one counter
LEMMA CounterScales ==
  ASSUME NEW x \in Nat, NEW start \in Nat, NEW end \in Nat, start <= x, start < end,
         NEW a \in Nat, NEW b \in Nat, a <= b
  PROVE  /\ ScaleCounter(x, start, end, a, b) \in Nat
         /\ a <= ScaleCounter(x, start, end, a, b)
         /\ x <= end => ScaleCounter(x, start, end, a, b) <= b
  <1>1. PICK w \in Nat, d \in Nat \ {0}, y \in Nat : w = b - a /\ d = end - start /\ y = x - start
    OBVIOUS
  <1>2. PICK q \in Int, r \in Int : q = (w * y) \div d /\ w * y = d * q + r /\ 0 <= r /\ r < d
    BY Quotient
  <1>3. ScaleCounter(x, start, end, a, b) = q + a
    BY <1>1, <1>2 DEF ScaleCounter
  <1>4. w * y \in Nat /\ d * q \in Int
    BY <1>2
  <1>5. 0 <= q
    <2>1. CASE q < 0
      <3>1. d * q + d <= d * 0
        BY <2>1, QuotientLess
      <3>. QED
        BY <1>2, <1>4, <3>1
    <2>. QED
      BY <2>1
  <1>6. ASSUME x <= end
        PROVE  q <= w
    <2>1. w * y <= w * d
      BY <1>1, <1>6, ProductGrows
    <2>2. CASE w < q
      <3>1. d * w + d <= d * q
        BY <2>2, QuotientLess
      <3>2. d * w = w * d /\ w * d \in Nat
        OBVIOUS
      <3>. QED
        BY <1>2, <1>4, <2>1, <3>1, <3>2
    <2>. QED
      BY <2>2
  <1>. QED
    BY <1>1, <1>3, <1>5, <1>6

LEMMA CounterOrder ==
  ASSUME NEW x \in Nat, NEW y \in Nat, NEW start \in Nat, NEW end \in Nat, start < end, x <= y,
         NEW a \in Nat, NEW b \in Nat, a <= b
  PROVE  ScaleCounter(x, start, end, a, b) <= ScaleCounter(y, start, end, a, b)
  <1>1. PICK w \in Nat, d \in Nat \ {0}, u \in Int, v \in Int :
          w = b - a /\ d = end - start /\ u = x - start /\ v = y - start
    OBVIOUS
  <1>2. w * u <= w * v /\ w * u \in Int /\ w * v \in Int
    BY <1>1, ProductGrows
  <1>3. (w * u) \div d <= (w * v) \div d /\ (w * u) \div d \in Int /\ (w * v) \div d \in Int
    BY <1>2, QuotientGrows, Quotient
  <1>. QED
    BY <1>1, <1>3 DEF ScaleCounter

\* An occurrence in a trace becomes one in the new frame.
LEMMA ScaledIs ==
  ASSUME MergedInv, NEW trace, trace.start \in Point, trace.end \in Point,
         NEW o \in Point, CanScale(o, trace)
  PROVE  /\ Scaled(o, trace) \in Point /\ Leq(newParent.start, Scaled(o, trace))
         /\ Leq(o, trace.end) => Leq(Scaled(o, trace), newParent.end)
  <1>1. /\ newParent.start \in Point /\ newParent.end \in Point
        /\ Leq(newParent.start, newParent.end)
    BY DEF MergedInv, NewFrame, WellFormed, ChunksInside
  <1>2. PICK a, b : a = newParent.start /\ b = newParent.end
    OBVIOUS
  <1>3. PICK s : s = Scaled(o, trace)
    OBVIOUS
  <1>4. s = [ts         |-> ScaleCounter(o.ts, trace.start.ts, trace.end.ts, a.ts, b.ts),
             cycles     |-> ScaleCounter(o.cycles, trace.start.cycles, trace.end.cycles, a.cycles, b.cycles),
             insn_count |-> ScaleCounter(o.insn_count, trace.start.insn_count, trace.end.insn_count,
                                         a.insn_count, b.insn_count)]
    BY <1>2, <1>3 DEF Scaled
  <1>5. a \in Point /\ b \in Point /\ Leq(a, b)
    BY <1>1, <1>2
  <1>6. /\ s.ts \in Nat /\ a.ts <= s.ts
        /\ o.ts <= trace.end.ts => s.ts <= b.ts
    BY <1>4, <1>5, CounterScales DEF CanScale, Point, Leq
  <1>7. /\ s.cycles \in Nat /\ a.cycles <= s.cycles
        /\ o.cycles <= trace.end.cycles => s.cycles <= b.cycles
    BY <1>4, <1>5, CounterScales DEF CanScale, Point, Leq
  <1>8. /\ s.insn_count \in Nat /\ a.insn_count <= s.insn_count
        /\ o.insn_count <= trace.end.insn_count => s.insn_count <= b.insn_count
    BY <1>4, <1>5, CounterScales DEF CanScale, Point, Leq
  <1>9. s \in Point
    BY <1>4, <1>6, <1>7, <1>8 DEF Point
  <1>. QED
    BY <1>2, <1>3, <1>6, <1>7, <1>8, <1>9 DEF Leq

\* Occurrences keep their order.
LEMMA ScaledOrder ==
  ASSUME MergedInv, NEW trace, trace.start \in Point, trace.end \in Point,
         NEW o \in Point, NEW p \in Point, CanScale(o, trace), o.ts <= p.ts
  PROVE  Scaled(o, trace).ts <= Scaled(p, trace).ts
  <1>1. /\ newParent.start \in Point /\ newParent.end \in Point
        /\ Leq(newParent.start, newParent.end)
    BY DEF MergedInv, NewFrame, WellFormed, ChunksInside
  <1>. QED
    BY <1>1, CounterOrder DEF CanScale, Scaled, Point, Leq

\* A sequence is a function on an interval that starts at one.
LEMMA SequenceMade ==
  ASSUME NEW S, NEW n \in Nat, NEW s \in [1 .. n -> S]
  PROVE  s \in Seq(S) /\ Len(s) = n
  BY SeqDef

\* What a trace says of an id is in the order of time.
LEMMA OccurencesAre ==
  ASSUME NEW trace, HasEvents(trace), NEW id
  PROVE  /\ OccurencesIn(trace, id) \in Seq(Point) /\ Sorted(OccurencesIn(trace, id))
         /\ \/ OccurencesIn(trace, id) = <<>>
            \/ \E i \in DOMAIN trace.events : OccurencesIn(trace, id) = trace.events[i].occurences
  <1> DEFINE is == {i \in DOMAIN trace.events : trace.events[i].id = id}
  <1>1. is \in SUBSET Nat /\ is \subseteq DOMAIN trace.events
    BY DEF HasEvents
  <1>2. CASE is = {}
    <2>1. OccurencesIn(trace, id) = <<>>
      BY <1>2 DEF OccurencesIn
    <2>2. <<>> \in Seq(Point) /\ Sorted(<<>>)
      BY DEF Sorted
    <2>. QED
      BY <2>1, <2>2
  <1>3. CASE is # {}
    <2>1. PICK m \in is : \A j \in is : m <= j
      BY <1>1, <1>3, SmallestExists
    <2>2. Min(is) \in is
      BY <2>1 DEF Min
    <2>3. OccurencesIn(trace, id) = trace.events[Min(is)].occurences
      BY <1>3 DEF OccurencesIn
    <2> HIDE DEF is
    <2>. QED
      BY <1>1, <2>2, <2>3 DEF HasEvents
  <1>. QED
    BY <1>2, <1>3

\* all that a trace says of an id can be scaled
CanScaleAll(trace, id) == \A o \in ToSet(OccurencesIn(trace, id)) : CanScale(o, trace)

\* Scaled, it still is.
LEMMA ScaledInAre ==
  ASSUME MergedInv, NEW trace, trace.start \in Point, trace.end \in Point,
         HasEvents(trace), NEW id, CanScaleAll(trace, id)
  PROVE  /\ ScaledIn(trace, id) \in Seq(Point) /\ Sorted(ScaledIn(trace, id))
         /\ \A i \in DOMAIN ScaledIn(trace, id) :
              Leq(newParent.start, ScaledIn(trace, id)[i])
         /\ (\A o \in ToSet(OccurencesIn(trace, id)) : Leq(o, trace.end)) =>
              \A i \in DOMAIN ScaledIn(trace, id) : Leq(ScaledIn(trace, id)[i], newParent.end)
  <1>1. PICK os : os = OccurencesIn(trace, id)
    OBVIOUS
  <1>2. os \in Seq(Point) /\ Sorted(os)
    BY <1>1, OccurencesAre
  <1>3. PICK n : n = Len(os)
    OBVIOUS
  <1>4. n \in Nat /\ DOMAIN os = 1 .. n
    BY <1>2, <1>3, LenProperties
  <1>5. PICK ss : ss = ScaledIn(trace, id)
    OBVIOUS
  <1>6. ss = [i \in 1 .. n |-> Scaled(os[i], trace)]
    BY <1>1, <1>4, <1>5 DEF ScaledIn
  <1>7. ASSUME NEW i \in 1 .. n
        PROVE  os[i] \in Point /\ os[i] \in ToSet(os) /\ CanScale(os[i], trace)
    <2>1. os[i] \in Point
      BY <1>2, <1>3, ElementOfSeq
    <2>2. os[i] \in ToSet(os)
      BY <1>4 DEF ToSet
    <2>. QED
      BY <1>1, <2>1, <2>2 DEF CanScaleAll
  <1>8. ASSUME NEW i \in 1 .. n
        PROVE  /\ ss[i] \in Point /\ Leq(newParent.start, ss[i])
               /\ Leq(os[i], trace.end) => Leq(ss[i], newParent.end)
    <2>1. ss[i] = Scaled(os[i], trace)
      BY <1>6
    <2>. QED
      BY <1>7, <2>1, ScaledIs
  <1>9. DOMAIN ss = 1 .. n /\ ss \in [1 .. n -> Point]
    BY <1>6, <1>8
  <1>10. ASSUME NEW i \in 1 .. n, NEW j \in 1 .. n, i < j
         PROVE  ss[i].ts <= ss[j].ts
    <2>1. ss[i] = Scaled(os[i], trace) /\ ss[j] = Scaled(os[j], trace)
      BY <1>6
    <2>2. os[i].ts <= os[j].ts
      BY <1>2, <1>4, <1>10 DEF Sorted
    <2>. QED
      BY <1>7, <2>1, <2>2, ScaledOrder
  <1>11. ss \in Seq(Point) /\ Sorted(ss)
    BY <1>4, <1>9, <1>10, SequenceMade DEF Sorted
  <1>. QED
    BY <1>1, <1>5, <1>7, <1>8, <1>9, <1>11

-----------------------------------------------------------------------------
(***************************************************************************)
(* Part 7.  Sorting the frames that were lost.                             *)
(***************************************************************************)

\* what comes no later than the i-th element when sorted
UpToRank(os, i) == {j \in DOMAIN os : os[j].ts < os[i].ts \/ (os[j].ts = os[i].ts /\ j <= i)}

\* Ranks tell the elements apart, and earlier ones have lower ranks.
LEMMA RankIs ==
  ASSUME NEW os \in Seq(Point), NEW i \in DOMAIN os
  PROVE  /\ Rank(os, i) \in 1 .. Len(os)
         /\ \A j \in DOMAIN os : Rank(os, i) = Rank(os, j) => i = j
         /\ \A j \in DOMAIN os : Rank(os, i) <= Rank(os, j) => os[i].ts <= os[j].ts
  <1>1. PICK n : n = Len(os)
    OBVIOUS
  <1>2. n \in Nat /\ DOMAIN os = 1 .. n
    BY <1>1, LenProperties
  <1>3. \A j \in 1 .. n : os[j].ts \in Nat
    <2>1. \A j \in 1 .. n : os[j] \in Point
      BY <1>1, ElementOfSeq
    <2>. QED
      BY <2>1 DEF Point
  <1>4. \A j \in 1 .. n : Rank(os, j) = Cardinality(UpToRank(os, j))
    BY DEF Rank, UpToRank
  <1>5. IsFiniteSet(1 .. n) /\ Cardinality(1 .. n) = n
    BY <1>2, FS_Interval
  <1>6. \A j \in 1 .. n : UpToRank(os, j) \in SUBSET (1 .. n) /\ j \in UpToRank(os, j)
    BY <1>2, <1>3 DEF UpToRank
  <1>7. ASSUME NEW j \in 1 .. n
        PROVE  IsFiniteSet(UpToRank(os, j)) /\ Rank(os, j) \in 1 .. n
    <2>1. PICK S : S = UpToRank(os, j)
      OBVIOUS
    <2>2. S \in SUBSET (1 .. n)
      BY <1>6, <2>1
    <2>3. IsFiniteSet(S) /\ Cardinality(S) <= n
      BY <1>5, <2>2, FS_Subset
    <2>4. Cardinality(S) \in Nat /\ Cardinality(S) # 0
      BY <1>6, <2>1, <2>3, FS_CardinalityType, FS_EmptySet
    <2>5. Rank(os, j) = Cardinality(S)
      BY <1>4, <2>1
    <2>. QED
      BY <1>2, <2>1, <2>3, <2>4, <2>5
  <1>8. ASSUME NEW j \in 1 .. n, NEW k \in 1 .. n, j # k, j \in UpToRank(os, k)
        PROVE  Rank(os, j) < Rank(os, k)
    <2>1. UpToRank(os, j) \in SUBSET UpToRank(os, k)
      BY <1>2, <1>3, <1>8 DEF UpToRank
    <2>2. k \notin UpToRank(os, j)
      BY <1>2, <1>3, <1>8 DEF UpToRank
    <2>3. PICK S, T : S = UpToRank(os, j) /\ T = UpToRank(os, k)
      OBVIOUS
    <2>4. Cardinality(S) # Cardinality(T)
      BY <1>6, <1>7, <2>1, <2>2, <2>3, ProperPart
    <2>5. Cardinality(S) <= Cardinality(T)
      BY <1>7, <2>1, <2>3, FS_Subset
    <2>6. Rank(os, j) = Cardinality(S) /\ Rank(os, k) = Cardinality(T)
      BY <1>4, <2>3
    <2>7. Rank(os, j) \in Nat /\ Rank(os, k) \in Nat
      BY <1>7
    <2>. QED
      BY <2>4, <2>5, <2>6, <2>7
  <1>9. ASSUME NEW j \in 1 .. n, i # j
        PROVE  (i \in UpToRank(os, j) /\ os[i].ts <= os[j].ts) \/ j \in UpToRank(os, i)
    BY <1>2, <1>3, <1>9 DEF UpToRank
  <1>10. ASSUME NEW j \in 1 .. n, Rank(os, i) = Rank(os, j), i # j
         PROVE  FALSE
    <2>1. Rank(os, i) \in Nat /\ Rank(os, j) \in Nat
      BY <1>2, <1>7
    <2>. QED
      BY <1>2, <1>8, <1>9, <1>10, <2>1
  <1>11. ASSUME NEW j \in 1 .. n, Rank(os, i) <= Rank(os, j)
         PROVE  os[i].ts <= os[j].ts
    <2>1. Rank(os, i) \in Nat /\ Rank(os, j) \in Nat
      BY <1>2, <1>7
    <2>2. CASE i = j
      BY <1>2, <1>3, <2>2
    <2>3. CASE i # j
      BY <1>2, <1>8, <1>9, <1>11, <2>1, <2>3
    <2>. QED
      BY <2>2, <2>3
  <1>. QED
    BY <1>1, <1>2, <1>7, <1>10, <1>11

\* Every rank is someone's.
LEMMA RankOfSome ==
  ASSUME NEW os \in Seq(Point), NEW k \in DOMAIN os
  PROVE  \E i \in DOMAIN os : Rank(os, i) = k
  <1>1. PICK n : n = Len(os)
    OBVIOUS
  <1>2. n \in Nat /\ DOMAIN os = 1 .. n
    BY <1>1, LenProperties
  <1>3. PICK f : f = [i \in 1 .. n |-> Rank(os, i)]
    OBVIOUS
  <1>4. \A i \in 1 .. n : /\ f[i] = Rank(os, i) /\ f[i] \in 1 .. n
                          /\ \A j \in 1 .. n : f[i] = f[j] => i = j
    BY <1>1, <1>2, <1>3, RankIs
  <1>5. f \in Injection(1 .. n, 1 .. n)
    BY <1>3, <1>4 DEF Injection, IsInjective
  <1>6. f \in Surjection(1 .. n, 1 .. n)
    BY <1>2, <1>5, FS_Interval, FS_Injection
  <1>. QED
    BY <1>2, <1>4, <1>6 DEF Surjection

LEMMA SortedLostIs ==
  ASSUME lost \in Seq(Point)
  PROVE  SortedLost \in Seq(Point) /\ Len(SortedLost) = Len(lost) /\ Sorted(SortedLost)
  <1>1. PICK n : n = Len(lost)
    OBVIOUS
  <1>2. n \in Nat /\ DOMAIN lost = 1 .. n
    BY <1>1, LenProperties
  <1>3. PICK place : place = [k \in 1 .. n |-> CHOOSE i \in DOMAIN lost : Rank(lost, i) = k]
    OBVIOUS
  <1>4. ASSUME NEW k \in 1 .. n
        PROVE  place[k] \in 1 .. n /\ Rank(lost, place[k]) = k
    <2>1. \E i \in DOMAIN lost : Rank(lost, i) = k
      BY <1>2, RankOfSome
    <2>2. place[k] = CHOOSE i \in DOMAIN lost : Rank(lost, i) = k
      BY <1>3
    <2>. QED
      BY <1>2, <2>1, <2>2, Zenon
  <1>5. PICK s : s = SortedLost
    OBVIOUS
  <1>6. s = [k \in 1 .. n |-> lost[place[k]]]
    BY <1>2, <1>3, <1>5 DEF SortedLost
  <1>7. \A k \in 1 .. n : s[k] = lost[place[k]] /\ s[k] \in Point
    BY <1>1, <1>4, <1>6, ElementOfSeq
  <1>8. s \in [1 .. n -> Point]
    BY <1>6, <1>7
  <1>9. ASSUME NEW j \in 1 .. n, NEW k \in 1 .. n, j < k
        PROVE  s[j].ts <= s[k].ts
    <2>1. Rank(lost, place[j]) <= Rank(lost, place[k])
      BY <1>4, <1>9
    <2>2. lost[place[j]].ts <= lost[place[k]].ts
      BY <1>2, <1>4, <2>1, RankIs
    <2>. QED
      BY <1>7, <2>2
  <1>10. s \in Seq(Point) /\ Len(s) = n /\ DOMAIN s = 1 .. n
    BY <1>2, <1>8, SequenceMade
  <1>. QED
    BY <1>1, <1>5, <1>9, <1>10 DEF Sorted

-----------------------------------------------------------------------------
(***************************************************************************)
(* Part 8.  Zipping: what has been taken from the iterators and what is    *)
(* left in them are together all occurrences, in order.                    *)
(***************************************************************************)

Spots(qs) == UNION {{t} \X DOMAIN qs[t] : t \in DOMAIN qs}

\* where a point is left in the iterators
Left(qs, p) == {q \in Spots(qs) : qs[q[1]][q[2]] = p}

LEMMA SpotsFinite ==
  ASSUME NEW n \in Nat, NEW qs, DOMAIN qs = 1 .. n,
         \A t \in 1 .. n : Len(qs[t]) \in Nat /\ DOMAIN qs[t] = 1 .. Len(qs[t])
  PROVE  IsFiniteSet(Spots(qs))
  <1>1. PICK rows : rows = {{t} \X DOMAIN qs[t] : t \in 1 .. n}
    OBVIOUS
  <1>2. PICK row : row = [t \in 1 .. n |-> {t} \X DOMAIN qs[t]]
    OBVIOUS
  <1>3. row \in Surjection(1 .. n, rows)
    <2>1. row \in [1 .. n -> rows]
      BY <1>1, <1>2
    <2>2. \A T \in rows : \E t \in 1 .. n : row[t] = T
      BY <1>1, <1>2
    <2>. QED
      BY <2>1, <2>2 DEF Surjection
  <1>4. IsFiniteSet(rows)
    <2>1. IsFiniteSet(1 .. n)
      BY FS_Interval
    <2>. QED
      BY <1>3, <2>1, FS_Surjection
  <1>5. ASSUME NEW T \in rows
        PROVE  IsFiniteSet(T)
    <2>1. PICK t \in 1 .. n : T = {t} \X DOMAIN qs[t]
      BY <1>1
    <2>2. PICK m : m = Len(qs[t])
      OBVIOUS
    <2>3. m \in Nat /\ DOMAIN qs[t] = 1 .. m
      BY <2>2
    <2>4. IsFiniteSet(1 .. m)
      BY <2>3, FS_Interval
    <2>5. IsFiniteSet({t})
      BY FS_Singleton
    <2>. QED
      BY <2>1, <2>3, <2>4, <2>5, FS_Product
  <1>6. Spots(qs) = UNION rows
    BY <1>1 DEF Spots
  <1>. QED
    BY <1>4, <1>5, <1>6, FS_UNION

\* n iterators
AreIterators(qs, n) == DOMAIN qs = 1 .. n /\ \A t \in 1 .. n : DOMAIN qs[t] = 1 .. Len(qs[t])

LEMMA LeftAt ==
  ASSUME NEW n \in Nat, NEW qs, AreIterators(qs, n), NEW p
  PROVE  \A q \in Left(qs, p) : /\ q = <<q[1], q[2]>> /\ q[1] \in 1 .. n
                                /\ q[2] \in 1 .. Len(qs[q[1]]) /\ qs[q[1]][q[2]] = p
  <1> SUFFICES ASSUME NEW q \in Left(qs, p)
               PROVE  /\ q = <<q[1], q[2]>> /\ q[1] \in 1 .. n
                      /\ q[2] \in 1 .. Len(qs[q[1]]) /\ qs[q[1]][q[2]] = p
    OBVIOUS
  <1>1. q \in Spots(qs) /\ qs[q[1]][q[2]] = p
    BY DEF Left
  <1>2. PICK t \in 1 .. n : q \in {t} \X DOMAIN qs[t]
    BY <1>1 DEF Spots, AreIterators
  <1>3. PICK i \in 1 .. Len(qs[t]) : q = <<t, i>>
    BY <1>2 DEF AreIterators
  <1>4. q[1] = t /\ q[2] = i
    BY <1>3
  <1>. QED
    BY <1>1, <1>3, <1>4

LEMMA LeftThere ==
  ASSUME NEW n \in Nat, NEW qs, AreIterators(qs, n), NEW p
  PROVE  \A t \in 1 .. n : \A i \in 1 .. Len(qs[t]) : qs[t][i] = p => <<t, i>> \in Left(qs, p)
  <1> SUFFICES ASSUME NEW t \in 1 .. n, NEW i \in 1 .. Len(qs[t]), qs[t][i] = p
               PROVE  <<t, i>> \in Left(qs, p)
    OBVIOUS
  <1>1. <<t, i>> \in {t} \X DOMAIN qs[t]
    BY DEF AreIterators
  <1>2. <<t, i>> \in Spots(qs)
    BY <1>1 DEF Spots, AreIterators
  <1>3. qs[<<t, i>>[1]][<<t, i>>[2]] = p
    OBVIOUS
  <1>. QED
    BY <1>2, <1>3 DEF Left

\* the iterators when the first element of one is taken
Taken(qs, t) == [qs EXCEPT ![t] = Tail(@)]

\* The first element of an iterator is left at one spot less when it is taken.
LEMMA HeadTaken ==
  ASSUME NEW n \in Nat, NEW qs \in [1 .. n -> Seq(Point)], NEW t \in 1 .. n, qs[t] # <<>>, NEW p
  PROVE  /\ IsFiniteSet(Left(qs, p))
         /\ Cardinality(Left(qs, p)) = Cardinality(Left(Taken(qs, t), p))
                                       + (IF p = Head(qs[t]) THEN 1 ELSE 0)
  <1>1. PICK rs : rs = Taken(qs, t)
    OBVIOUS
  <1>2. \A u \in 1 .. n : qs[u] \in Seq(Point)
    OBVIOUS
  <1>3. \A u \in 1 .. n : Len(qs[u]) \in Nat /\ DOMAIN qs[u] = 1 .. Len(qs[u])
    BY <1>2, LenProperties
  <1>4. /\ Head(qs[t]) = qs[t][1] /\ Len(qs[t]) >= 1
        /\ Tail(qs[t]) \in Seq(Point) /\ Len(Tail(qs[t])) = Len(qs[t]) - 1
        /\ \A i \in 1 .. Len(Tail(qs[t])) : Tail(qs[t])[i] = qs[t][i + 1]
    BY <1>2, HeadTailProperties, EmptySeq
  <1>5. /\ DOMAIN rs = 1 .. n /\ DOMAIN qs = 1 .. n
        /\ rs[t] = Tail(qs[t]) /\ \A u \in 1 .. n : u # t => rs[u] = qs[u]
    BY <1>1 DEF Taken
  <1>6. PICK A : A = Left(qs, p)
    OBVIOUS
  <1>7. PICK B : B = Left(rs, p)
    OBVIOUS
  <1>8. IsFiniteSet(A)
    <2>1. IsFiniteSet(Spots(qs))
      BY <1>3, <1>5, SpotsFinite
    <2>2. A \in SUBSET Spots(qs)
      BY <1>6 DEF Left
    <2>. QED
      BY <2>1, <2>2, FS_Subset
  <1>9. /\ \A q \in A : /\ q = <<q[1], q[2]>> /\ q[1] \in 1 .. n
                       /\ q[2] \in 1 .. Len(qs[q[1]]) /\ qs[q[1]][q[2]] = p
        /\ \A u \in 1 .. n : \A i \in 1 .. Len(qs[u]) : qs[u][i] = p => <<u, i>> \in A
    <2>1. AreIterators(qs, n)
      BY <1>3, <1>5 DEF AreIterators
    <2>2. \A q \in Left(qs, p) : /\ q = <<q[1], q[2]>> /\ q[1] \in 1 .. n
                                 /\ q[2] \in 1 .. Len(qs[q[1]]) /\ qs[q[1]][q[2]] = p
      BY <2>1, LeftAt
    <2>3. \A u \in 1 .. n : \A i \in 1 .. Len(qs[u]) : qs[u][i] = p => <<u, i>> \in Left(qs, p)
      BY <2>1, LeftThere
    <2>. QED
      BY <1>6, <2>2, <2>3
  <1>10. \A u \in 1 .. n : DOMAIN rs[u] = 1 .. Len(rs[u]) /\ Len(rs[u]) \in Nat
    BY <1>3, <1>4, <1>5, LenProperties
  <1>11. /\ \A q \in B : /\ q = <<q[1], q[2]>> /\ q[1] \in 1 .. n
                       /\ q[2] \in 1 .. Len(rs[q[1]]) /\ rs[q[1]][q[2]] = p
        /\ \A u \in 1 .. n : \A i \in 1 .. Len(rs[u]) : rs[u][i] = p => <<u, i>> \in B
    <2>1. AreIterators(rs, n)
      BY <1>5, <1>10 DEF AreIterators
    <2>2. \A q \in Left(rs, p) : /\ q = <<q[1], q[2]>> /\ q[1] \in 1 .. n
                                 /\ q[2] \in 1 .. Len(rs[q[1]]) /\ rs[q[1]][q[2]] = p
      BY <2>1, LeftAt
    <2>3. \A u \in 1 .. n : \A i \in 1 .. Len(rs[u]) : rs[u][i] = p => <<u, i>> \in Left(rs, p)
      BY <2>1, LeftThere
    <2>. QED
      BY <1>7, <2>2, <2>3
  <1>12. \A i \in Nat : /\ i + 1 \in 1 .. Len(qs[t]) <=> i \in 0 .. Len(rs[t])
                        /\ i \in 1 .. Len(rs[t]) => rs[t][i] = qs[t][i + 1]
    BY <1>3, <1>4, <1>5
  <1>13. PICK x : x = <<t, 1>>
    OBVIOUS
  <1>14. PICK f : f = [q \in B |-> IF q[1] = t THEN <<t, q[2] + 1>> ELSE q]
    OBVIOUS
  <1>15. ASSUME NEW q \in B
         PROVE  f[q] \in A \ {x}
    <2>1. PICK u \in 1 .. n : u = q[1]
      BY <1>11
    <2>2. PICK i \in 1 .. Len(rs[u]) : i = q[2]
      BY <1>11, <2>1
    <2>3. q = <<u, i>> /\ rs[u][i] = p
      BY <1>11, <2>1, <2>2
    <2>4. CASE u = t
      <3>1. f[q] = <<t, i + 1>> /\ i \in Nat
        BY <1>10, <1>14, <2>3, <2>4
      <3>2. i \in 1 .. Len(rs[t]) /\ i \in 0 .. Len(rs[t]) /\ rs[t][i] = p
        BY <1>10, <2>4, <2>3
      <3>3. i + 1 \in 1 .. Len(qs[t]) /\ qs[t][i + 1] = p
        BY <1>12, <3>1, <3>2
      <3>. QED
        BY <1>9, <1>13, <2>1, <3>1, <3>3
    <2>5. CASE u # t
      <3>1. f[q] = <<u, i>> /\ rs[u] = qs[u]
        BY <1>5, <1>14, <2>3, <2>5
      <3>. QED
        BY <1>9, <1>13, <2>3, <2>5, <3>1
    <2>. QED
      BY <2>4, <2>5
  <1>16. ASSUME NEW q \in B, NEW r \in B, f[q] = f[r]
         PROVE  q = r
    <2>1. PICK u \in 1 .. n, i \in Nat : q = <<u, i>>
      BY <1>10, <1>11
    <2>2. PICK v \in 1 .. n, j \in Nat : r = <<v, j>>
      BY <1>10, <1>11
    <2>3. f[q] = IF u = t THEN <<t, i + 1>> ELSE <<u, i>>
      BY <1>14, <2>1
    <2>4. f[r] = IF v = t THEN <<t, j + 1>> ELSE <<v, j>>
      BY <1>14, <2>2
    <2>. QED
      BY <1>16, <2>1, <2>2, <2>3, <2>4
  <1>17. ASSUME NEW a \in A \ {x}
         PROVE  \E q \in B : f[q] = a
    <2>1. PICK u \in 1 .. n : u = a[1]
      BY <1>9
    <2>2. PICK i \in 1 .. Len(qs[u]) : i = a[2]
      BY <1>9, <2>1
    <2>3. a = <<u, i>> /\ qs[u][i] = p
      BY <1>9, <2>1, <2>2
    <2>4. CASE u = t
      <3>1. i # 1 /\ i \in Nat
        BY <1>3, <1>13, <1>17, <2>3, <2>4
      <3>2. PICK k : k = i - 1
        OBVIOUS
      <3>3. k \in Nat /\ k >= 1 /\ k + 1 = i
        BY <2>3, <3>1, <3>2
      <3>4. k + 1 \in 1 .. Len(qs[t]) /\ qs[t][k + 1] = p
        BY <2>4, <2>3, <3>3
      <3>5. k \in 0 .. Len(rs[t]) /\ Len(rs[t]) \in Nat
        BY <1>10, <1>12, <3>3, <3>4
      <3>6. k \in 1 .. Len(rs[t])
        BY <3>3, <3>5
      <3>7. k \in 1 .. Len(rs[t]) /\ rs[t][k] = p
        BY <1>12, <3>3, <3>4, <3>6
      <3>8. <<t, k>> \in B
        BY <1>11, <3>7
      <3>9. f[<<t, k>>] = <<t, k + 1>>
        BY <1>14, <3>8
      <3>. QED
        BY <2>3, <2>4, <3>3, <3>8, <3>9
    <2>5. CASE u # t
      <3>1. a \in B
        BY <1>5, <1>11, <2>3, <2>5
      <3>2. f[a] = a
        BY <1>14, <2>3, <2>5, <3>1
      <3>. QED
        BY <3>1, <3>2
    <2>. QED
      BY <2>4, <2>5
  <1>18. f \in Bijection(B, A \ {x})
    <2>1. f \in [B -> A \ {x}]
      BY <1>14, <1>15
    <2>. QED
      BY <1>16, <1>17, <2>1 DEF Bijection, Injection, Surjection, IsInjective
  <1>19. Cardinality(B) = Cardinality(A \ {x})
    <2>1. IsFiniteSet(A \ {x})
      BY <1>8, FS_RemoveElement
    <2>2. ExistsBijection(B, A \ {x})
      BY <1>18 DEF ExistsBijection
    <2>3. IsFiniteSet(B)
      BY <1>18, <2>1, FS_Injection DEF Bijection
    <2>. QED
      BY <2>2, <2>3, FS_Bijection
  <1>20. x \in A <=> p = Head(qs[t])
    BY <1>4, <1>9, <1>13
  <1>21. Cardinality(A) \in Nat /\ Cardinality(A \ {x}) = IF x \in A THEN Cardinality(A) - 1 ELSE Cardinality(A)
    BY <1>8, FS_RemoveElement, FS_CardinalityType
  <1>22. Cardinality(A) = Cardinality(B) + (IF p = Head(qs[t]) THEN 1 ELSE 0)
    BY <1>19, <1>20, <1>21
  <1>. QED
    BY <1>1, <1>6, <1>7, <1>8, <1>22

\* A sequence has a point once more when it is appended.
LEMMA TimesAppended ==
  ASSUME NEW os \in Seq(Point), NEW o \in Point, NEW p
  PROVE  /\ TimesIn(os, p) \in Nat
         /\ TimesIn(Append(os, o), p) = TimesIn(os, p) + (IF p = o THEN 1 ELSE 0)
  <1>1. PICK n : n = Len(os)
    OBVIOUS
  <1>2. PICK new : new = Append(os, o)
    OBVIOUS
  <1>3. /\ n \in Nat /\ DOMAIN os = 1 .. n /\ DOMAIN new = 1 .. n + 1
        /\ new[n + 1] = o /\ \A i \in 1 .. n : new[i] = os[i]
    BY <1>1, <1>2, LenProperties, AppendProperties
  <1>4. PICK S : S = {i \in DOMAIN os : os[i] = p}
    OBVIOUS
  <1>5. IsFiniteSet(S) /\ n + 1 \notin S /\ Cardinality(S) \in Nat
    <2>1. S \in SUBSET (1 .. n) /\ n + 1 \notin S
      BY <1>3, <1>4
    <2>2. IsFiniteSet(1 .. n)
      BY <1>3, FS_Interval
    <2>3. IsFiniteSet(S)
      BY <2>1, <2>2, FS_Subset
    <2>. QED
      BY <2>1, <2>3, FS_CardinalityType
  <1>6. {i \in DOMAIN new : new[i] = p} = IF p = o THEN S \cup {n + 1} ELSE S
    BY <1>3, <1>4
  <1>7. Cardinality(S \cup {n + 1}) = Cardinality(S) + 1
    BY <1>5, FS_AddElement
  <1>8. TimesIn(os, p) = Cardinality(S)
    BY <1>4 DEF TimesIn
  <1>9. TimesIn(new, p) = IF p = o THEN Cardinality(S \cup {n + 1}) ELSE Cardinality(S)
    BY <1>6 DEF TimesIn
  <1>. QED
    BY <1>2, <1>5, <1>7, <1>8, <1>9

LEMMA TimesNone == \A p : TimesIn(<<>>, p) = 0
  <1>1. \A p : {i \in DOMAIN <<>> : <<>>[i] = p} = {}
    OBVIOUS
  <1>. QED
    BY <1>1, FS_EmptySet DEF TimesIn

LEMMA NoneLeft ==
  ASSUME NEW qs, \A t \in DOMAIN qs : qs[t] = <<>>
  PROVE  \A p : Cardinality(Left(qs, p)) = 0
  <1>1. Spots(qs) = {}
    BY DEF Spots
  <1>2. \A p : Left(qs, p) = {}
    BY <1>1 DEF Left
  <1>. QED
    BY <1>2, FS_EmptySet

-----------------------------------------------------------------------------
(***************************************************************************)
(* Part 9.  The events of root frames.                                     *)
(***************************************************************************)

\* what root frames bring
RootEvents == \A t \in Traces : "events" \in DOMAIN parents[t] => HasEvents(parents[t])

MergedEvent == [id : Nat \cup {LostFrameId}, occurences : Seq(Point)]

\* events looked at before the current one
Passed(t, i) == t < at[1] \/ (t = at[1] /\ i < at[2])

\* all occurrences are in a merged event
IsMerged(id) ==
  \E k \in 1 .. Len(merged) :
    /\ merged[k].id = id
    /\ \A p : TimesIn(merged[k].occurences, p) = TimesScaled(id, p)

AllScaleOf(id) == \A t \in Traces : CanScaleAll(parents[t], id)

\* an event that has been looked at has been merged or is being zipped
Reached ==
  /\ at \in [1 .. 2 -> Nat \ {0}]
  /\ merged \in Seq(MergedEvent)
  /\ \A t \in Traces : \A i \in DOMAIN parents[t].events :
       Passed(t, i) => parents[t].events[i].id \in seenIds
  /\ 0 \notin seenIds
  /\ \A id \in seenIds : id # zipping => IsMerged(id) /\ AllScaleOf(id)

\* what has been taken is sorted, and so is what comes after it in each iterator
Queued ==
  /\ queues \in [Traces -> Seq(Point)] /\ occurences \in Seq(Point)
  /\ Sorted(occurences)
  /\ \A t \in Traces : Sorted(queues[t])
  /\ \A t \in Traces : \A i \in DOMAIN occurences, j \in DOMAIN queues[t] :
       occurences[i].ts <= queues[t][j].ts

\* every occurrence has been taken or is left
Counted ==
  \A p : TimesIn(occurences, p) + Cardinality(Left(queues, p)) = TimesScaled(zipping, p)

Zipping ==
  zipping # 0 =>
    /\ at[1] \in Traces /\ at[2] \in DOMAIN parents[at[1]].events
    /\ zipping = CurrentId /\ zipping \in seenIds /\ AllScaleOf(zipping)
    /\ Queued /\ Counted

\* lost frames have become an event
Reported ==
  lost # <<>> => \E k \in 1 .. Len(merged) : merged[k] = Event(LostFrameId, SortedLost)

EventsInv ==
  /\ RootEvents
  /\ phase \in {"index", "common", "last"} =>
       /\ at = <<1, 1>> /\ seenIds = {} /\ zipping = 0 /\ occurences = <<>> /\ merged = <<>>
  /\ phase = "events" => /\ AreRoots /\ Reached /\ Zipping
                         /\ zipping = 0 => occurences = <<>>
  /\ phase = "done" /\ AreRoots => Reached /\ zipping = 0 /\ at[1] > Len(parents) /\ Reported

LEMMA InitEvents == Init => EventsInv
  <1> SUFFICES ASSUME Init
               PROVE  EventsInv
    OBVIOUS
  <1>1. PICK input \in Inputs : parents = input.parents
    BY DEF Init, MergeInit
  <1>2. AreOriginals(parents)
    BY InitOrder DEF OrderInv, Known
  <1>3. RootEvents
    BY <1>1, <1>2, EventsAssumption, OriginalFields DEF RootEvents, Traces
  <1>. QED
    BY <1>3 DEF Init, MergeInit, EventsInv

LEMMA RootsHave ==
  ASSUME OrderInv, EventsInv, AreRoots
  PROVE  /\ Len(parents) \in Nat /\ DOMAIN parents = Traces
         /\ \A t \in Traces :
              /\ t \in Nat /\ t >= 1 /\ HasEvents(parents[t])
              /\ parents[t].start \in Point /\ parents[t].end \in Point
              /\ \A i \in DOMAIN parents[t].events : i \in Nat /\ i >= 1
  <1>1. AreOriginals(parents)
    BY DEF OrderInv, Known
  <1>2. Len(parents) \in Nat /\ DOMAIN parents = Traces
    BY <1>1, OriginalFields DEF Traces
  <1>3. \A t \in Traces : parents[t].start \in Point /\ parents[t].end \in Point
    BY <1>1, <1>2, OriginalFields
  <1>4. \A t \in Traces : HasEvents(parents[t])
    BY DEF EventsInv, RootEvents, AreRoots
  <1>5. \A t \in Traces : \A i \in DOMAIN parents[t].events : i \in Nat /\ i >= 1
    BY <1>4 DEF HasEvents
  <1>6. \A t \in Traces : t \in Nat /\ t >= 1
    BY <1>2 DEF Traces
  <1>. QED
    BY <1>2, <1>3, <1>4, <1>5, <1>6

\* Merging frames does not touch the events, and ends before the first.
LEMMA EventsMerging ==
  ASSUME OrderInv, MergedInv, EventsInv, MergeNext, UNCHANGED eventVars
  PROVE  EventsInv'
  <1>1. UNCHANGED <<at, seenIds, zipping, queues, occurences, merged>>
    BY DEF eventVars
  <1>2. parents' = parents /\ phase \in {"index", "common", "last"}
    BY DEF MergeNext, Index, NextCommon, LastSection, EndSection, SplitSection, AddAveragedChild,
           Return, NextWork
  <1>3. RootEvents'
    BY <1>2 DEF EventsInv, RootEvents, Traces
  <1>4. at = <<1, 1>> /\ seenIds = {} /\ zipping = 0 /\ occurences = <<>> /\ merged = <<>>
    BY <1>2 DEF EventsInv
  <1>5. CASE Return
    <2>1. phase' = IF AreRoots THEN "events" ELSE "done"
      BY <1>5 DEF Return
    <2>2. AreRoots' <=> AreRoots
      BY <1>2 DEF AreRoots, Traces
    <2>3. CASE ~AreRoots
      BY <1>3, <2>1, <2>2, <2>3 DEF EventsInv
    <2>4. CASE AreRoots
      <3>1. at' = <<1, 1>> /\ seenIds' = {} /\ zipping' = 0 /\ occurences' = <<>> /\ merged' = <<>>
        BY <1>1, <1>4
      <3>2. <<1, 1>> \in [1 .. 2 -> Nat \ {0}] /\ <<>> \in Seq(MergedEvent)
        OBVIOUS
      <3>3. \A t \in Traces : \A i \in DOMAIN parents[t].events : ~(t < 1 \/ (t = 1 /\ i < 1))
        BY <2>4, RootsHave
      <3>4. \A t \in Traces' : \A i \in DOMAIN parents'[t].events : ~Passed(t, i)'
        BY <1>2, <3>1, <3>3 DEF Passed, Traces
      <3>5. Reached'
        BY <3>1, <3>2, <3>4 DEF Reached
      <3>6. Zipping'
        BY <3>1 DEF Zipping
      <3>. QED
        BY <1>3, <2>1, <2>2, <2>4, <3>1, <3>5, <3>6 DEF EventsInv
    <2>. QED
      BY <2>3, <2>4
  <1>6. CASE ~Return
    <2>1. phase' \in {"index", "common", "last", "panicked"}
      BY <1>2, <1>6 DEF MergeNext, Index, NextCommon, LastSection, EndSection, SplitSection,
                        AddAveragedChild
    <2>. QED
      BY <1>1, <1>3, <1>4, <2>1 DEF EventsInv
  <1>. QED
    BY <1>5, <1>6

\* The root frames and the range of the new one are what occurrences are scaled by.
LEMMA EventsSame ==
  ASSUME UNCHANGED <<parents, newParent>>
  PROVE  /\ Traces' = Traces /\ (AreRoots' <=> AreRoots) /\ (RootEvents' <=> RootEvents)
         /\ \A id, p : TimesScaled(id, p)' = TimesScaled(id, p)
         /\ \A id : AllScaleOf(id)' <=> AllScaleOf(id)
  <1>1. \A o, trace : Scaled(o, trace)' = Scaled(o, trace)
    BY DEF Scaled
  <1>2. \A trace, id : ScaledIn(trace, id)' = ScaledIn(trace, id)
    BY <1>1 DEF ScaledIn
  <1>3. Traces' = Traces
    BY DEF Traces
  <1>4. \A t, id : ScaledIn(parents[t], id)' = ScaledIn(parents[t], id)
    BY <1>2
  <1>5. ASSUME NEW id, NEW p
        PROVE  TimesScaled(id, p)' = TimesScaled(id, p)
    <2> DEFINE Spot == UNION {{t} \X DOMAIN ScaledIn(parents[t], id) : t \in Traces}
               There == {q \in Spot : ScaledIn(parents[q[1]], id)[q[2]] = p}
    <2>1. Spot' = Spot
      BY <1>3, <1>4
    <2>2. There' = There
      <3> HIDE DEF Spot
      <3>. QED
        BY <1>4, <2>1
    <2>3. TimesScaled(id, p) = Cardinality(There)
      BY DEF TimesScaled
    <2>4. TimesScaled(id, p)' = Cardinality(There')
      BY DEF TimesScaled
    <2>. QED
      BY <2>2, <2>3, <2>4
  <1>. QED
    BY <1>3, <1>5 DEF AreRoots, RootEvents, AllScaleOf, Traces

LEMMA EventsNextTrace ==
  ASSUME OrderInv, MergedInv, EventsInv, NextTrace
  PROVE  EventsInv'
  <1>1. /\ phase = "events" /\ zipping = 0 /\ at[1] <= Len(parents)
        /\ at[2] > Len(parents[at[1]].events) /\ at' = <<at[1] + 1, 1>>
        /\ UNCHANGED <<parents, newParent, phase, lost, seenIds, zipping, queues, occurences, merged>>
    BY DEF NextTrace, Searching, mergeVars
  <1>2. AreRoots /\ Reached /\ RootEvents /\ occurences = <<>>
    BY <1>1 DEF EventsInv
  <1>3. at \in [1 .. 2 -> Nat \ {0}] /\ Len(parents) \in Nat
    BY <1>2, RootsHave DEF Reached
  <1>4. at' \in [1 .. 2 -> Nat \ {0}] /\ at'[1] = at[1] + 1 /\ at'[2] = 1
    BY <1>1, <1>3
  <1>5. ASSUME NEW t \in Traces, NEW i \in DOMAIN parents[t].events,
               t < at[1] + 1 \/ (t = at[1] + 1 /\ i < 1)
        PROVE  Passed(t, i)
    <2>1. t \in Nat /\ i \in Nat /\ i >= 1 /\ i \in 1 .. Len(parents[t].events)
      BY <1>2, RootsHave DEF HasEvents
    <2>2. Len(parents[t].events) \in Nat
      BY <1>2, RootsHave DEF HasEvents
    <2>3. CASE t = at[1]
      BY <1>1, <1>3, <2>1, <2>2, <2>3 DEF Passed
    <2>4. CASE t # at[1]
      BY <1>3, <1>5, <2>1, <2>4 DEF Passed
    <2>. QED
      BY <2>3, <2>4
  <1>6. \A t \in Traces : \A i \in DOMAIN parents[t].events :
          Passed(t, i)' => parents[t].events[i].id \in seenIds
    BY <1>2, <1>4, <1>5 DEF Passed, Reached
  <1>7. Reached'
    BY <1>1, <1>2, <1>4, <1>6, EventsSame DEF Reached, IsMerged
  <1>8. Zipping'
    BY <1>1 DEF Zipping
  <1>. QED
    BY <1>1, <1>2, <1>7, <1>8, EventsSame DEF EventsInv

LEMMA EventsSkipEvent ==
  ASSUME OrderInv, MergedInv, EventsInv, SkipEvent
  PROVE  EventsInv'
  <1>1. /\ phase = "events" /\ zipping = 0
        /\ CurrentId \in seenIds /\ at' = [at EXCEPT ![2] = @ + 1]
        /\ UNCHANGED <<parents, newParent, phase, lost, seenIds, zipping, queues, occurences, merged>>
    BY DEF SkipEvent, Searching, mergeVars
  <1>2. AreRoots /\ Reached /\ RootEvents /\ occurences = <<>>
    BY <1>1 DEF EventsInv
  <1>3. at \in [1 .. 2 -> Nat \ {0}]
    BY <1>2 DEF Reached
  <1>4. at' \in [1 .. 2 -> Nat \ {0}] /\ at'[1] = at[1] /\ at'[2] = at[2] + 1
    BY <1>1, <1>3
  <1>5. ASSUME NEW t \in Traces, NEW i \in DOMAIN parents[t].events,
               t < at[1] \/ (t = at[1] /\ i < at[2] + 1)
        PROVE  parents[t].events[i].id \in seenIds
    <2>1. i \in Nat /\ at[2] \in Nat
      BY <1>2, <1>3, RootsHave
    <2>2. Passed(t, i) \/ (t = at[1] /\ i = at[2])
      BY <1>5, <2>1 DEF Passed
    <2>. QED
      BY <1>1, <1>2, <2>2 DEF Reached, CurrentId
  <1>6. \A t \in Traces : \A i \in DOMAIN parents[t].events :
          Passed(t, i)' => parents[t].events[i].id \in seenIds
    BY <1>4, <1>5 DEF Passed
  <1>7. Reached'
    BY <1>1, <1>2, <1>4, <1>6, EventsSame DEF Reached, IsMerged
  <1>8. Zipping'
    BY <1>1 DEF Zipping
  <1>. QED
    BY <1>1, <1>2, <1>7, <1>8, EventsSame DEF EventsInv

\* Before zipping, everything is left.
LEMMA AllLeft ==
  ASSUME NEW id, NEW qs, qs = [t \in Traces |-> ScaledIn(parents[t], id)]
  PROVE  \A p : TimesScaled(id, p) = Cardinality(Left(qs, p))
  <1>1. DOMAIN qs = Traces /\ \A t \in Traces : qs[t] = ScaledIn(parents[t], id)
    OBVIOUS
  <1>2. PICK S : S = UNION {{t} \X DOMAIN ScaledIn(parents[t], id) : t \in Traces}
    OBVIOUS
  <1>3. S = Spots(qs)
    BY <1>1, <1>2 DEF Spots
  <1>4. ASSUME NEW q \in S
        PROVE  ScaledIn(parents[q[1]], id) = qs[q[1]]
    <2>1. PICK t \in Traces : q \in {t} \X DOMAIN ScaledIn(parents[t], id)
      BY <1>2
    <2>2. q[1] = t
      BY <2>1
    <2>. QED
      BY <1>1, <2>2
  <1>5. ASSUME NEW p
        PROVE  {q \in S : ScaledIn(parents[q[1]], id)[q[2]] = p} = Left(qs, p)
    BY <1>3, <1>4 DEF Left
  <1>. QED
    BY <1>2, <1>5 DEF TimesScaled

LEMMA EventsNewEvent ==
  ASSUME OrderInv, MergedInv, EventsInv, NewEvent
  PROVE  /\ EventsInv'
         /\ phase' = "panicked" => ~AllScaleOf(CurrentId)
  <1>1. PICK id : id = CurrentId
    OBVIOUS
  <1>2. /\ phase = "events" /\ zipping = 0 /\ at[1] <= Len(parents)
        /\ at[2] <= Len(parents[at[1]].events) /\ id \notin seenIds
        /\ seenIds' = seenIds \cup {id} /\ zipping' = id
        /\ queues' = [t \in Traces |-> ScaledIn(parents[t], id)]
        /\ phase' = IF AllScaleOf(id) THEN phase ELSE "panicked"
        /\ UNCHANGED <<parents, newParent, lost, at, occurences, merged>>
    BY <1>1 DEF NewEvent, Searching, KeepMerging, AllScaleOf, CanScaleAll
  <1>3. AreRoots /\ Reached /\ RootEvents /\ occurences = <<>>
    BY <1>2 DEF EventsInv
  <1>4. phase' = "panicked" => ~AllScaleOf(id)
    BY <1>2
  <1>5. CASE ~AllScaleOf(id)
    <2>1. phase' = "panicked" /\ RootEvents'
      BY <1>2, <1>3, <1>5, EventsSame
    <2>. QED
      BY <1>4, <1>1, <2>1 DEF EventsInv
  <1>6. CASE AllScaleOf(id)
    <2>1. at[1] \in Traces /\ at[2] \in DOMAIN parents[at[1]].events /\ id # 0
      <3>1. at \in [1 .. 2 -> Nat \ {0}] /\ Len(parents) \in Nat
        BY <1>3, RootsHave DEF Reached
      <3>2. at[1] \in Traces
        BY <1>2, <3>1 DEF Traces
      <3>3. HasEvents(parents[at[1]])
        BY <1>3, <3>2, RootsHave
      <3>4. at[2] \in DOMAIN parents[at[1]].events
        BY <1>2, <3>1, <3>3 DEF HasEvents
      <3>. QED
        BY <1>1, <3>2, <3>3, <3>4 DEF HasEvents, CurrentId
    <2>2. CurrentId' = id
      BY <1>2, <1>1 DEF CurrentId
    <2>3. ASSUME NEW t \in Traces
          PROVE  ScaledIn(parents[t], id) \in Seq(Point) /\ Sorted(ScaledIn(parents[t], id))
      <3>1. /\ HasEvents(parents[t]) /\ CanScaleAll(parents[t], id)
            /\ parents[t].start \in Point /\ parents[t].end \in Point
        BY <1>3, <1>6, RootsHave DEF AllScaleOf
      <3>. QED
        BY <3>1, ScaledInAre
    <2>4. PICK qs : qs = [t \in Traces |-> ScaledIn(parents[t], id)]
      OBVIOUS
    <2>5. queues' = qs /\ qs \in [Traces -> Seq(Point)] /\ \A t \in Traces : Sorted(qs[t])
      BY <1>2, <2>3, <2>4
    <2>6. Queued'
      <3>1. <<>> \in Seq(Point) /\ Sorted(<<>>) /\ DOMAIN <<>> = {}
        BY DEF Sorted
      <3>2. occurences' = <<>> /\ Traces' = Traces
        BY <1>2, <1>3, EventsSame
      <3>. QED
        BY <2>5, <3>1, <3>2 DEF Queued
    <2>7. Counted'
      <3>1. ASSUME NEW p
            PROVE  TimesIn(<<>>, p) + Cardinality(Left(qs, p)) = TimesScaled(id, p)
        <4>1. TimesIn(<<>>, p) = 0 /\ TimesScaled(id, p) = Cardinality(Left(qs, p))
          BY <2>4, TimesNone, AllLeft
        <4>2. Cardinality(Left(qs, p)) \in Nat
          <5>1. \A t \in Traces : qs[t] \in Seq(Point)
            BY <2>5
          <5>2. \A t \in Traces : Len(qs[t]) \in Nat /\ DOMAIN qs[t] = 1 .. Len(qs[t])
            BY <5>1, LenProperties
          <5>3. Len(parents) \in Nat /\ DOMAIN qs = 1 .. Len(parents)
            BY <1>3, <2>5, RootsHave DEF Traces
          <5>4. IsFiniteSet(Spots(qs))
            BY <5>2, <5>3, SpotsFinite DEF Traces
          <5>5. Left(qs, p) \in SUBSET Spots(qs)
            BY DEF Left
          <5>. QED
            BY <5>4, <5>5, FS_Subset, FS_CardinalityType
        <4>. QED
          BY <4>1, <4>2
      <3>2. \A p : TimesScaled(id, p)' = TimesScaled(id, p)
        BY <1>2, EventsSame
      <3>3. occurences' = <<>> /\ zipping' = id /\ queues' = qs
        BY <1>2, <1>3, <2>5
      <3>. QED
        BY <3>1, <3>2, <3>3 DEF Counted
    <2>8. Zipping'
      BY <1>2, <1>6, <2>1, <2>2, <2>6, <2>7, EventsSame DEF Zipping
    <2>9. \A i \in seenIds : IsMerged(i)' /\ AllScaleOf(i)'
      <3>1. \A i \in seenIds : IsMerged(i) /\ AllScaleOf(i)
        BY <1>2, <1>3 DEF Reached
      <3>. QED
        BY <1>2, <3>1, EventsSame DEF IsMerged
    <2>10. Reached'
      <3>1. \A t \in Traces : \A i \in DOMAIN parents[t].events :
              Passed(t, i)' => parents[t].events[i].id \in seenIds'
        BY <1>2, <1>3 DEF Reached, Passed
      <3>2. 0 \notin seenIds' /\ \A i \in seenIds' : i # zipping' => i \in seenIds
        BY <1>2, <1>3, <2>1 DEF Reached
      <3>3. at' \in [1 .. 2 -> Nat \ {0}] /\ merged' \in Seq(MergedEvent) /\ parents' = parents /\ Traces' = Traces
        BY <1>2, <1>3, EventsSame DEF Reached
      <3>. QED
        BY <2>9, <3>1, <3>2, <3>3 DEF Reached
    <2>11. phase' = "events" /\ AreRoots' /\ RootEvents' /\ zipping' # 0
      BY <1>2, <1>3, <1>6, <2>1, EventsSame
    <2>. QED
      BY <1>4, <1>1, <2>8, <2>10, <2>11 DEF EventsInv
  <1>. QED
    BY <1>5, <1>6

\* The earliest of the next elements comes before all that is left.
LEMMA ZippedInOrder ==
  ASSUME OrderInv, MergedInv, EventsInv, ZipNext
  PROVE  Queued' /\ Counted' /\ Zipping'
  <1>1. /\ phase = "events" /\ zipping # 0
        /\ UNCHANGED <<parents, newParent, at, seenIds, zipping>>
    BY DEF ZipNext, mergeVars
  <1>2. AreRoots /\ Queued /\ Counted /\ Zipping
    BY <1>1 DEF EventsInv, Zipping
  <1>3. PICK qs, os : qs = queues /\ os = occurences
    OBVIOUS
  <1>4. /\ qs \in [Traces -> Seq(Point)] /\ os \in Seq(Point) /\ Sorted(os)
        /\ \A u \in Traces : Sorted(qs[u])
        /\ \A u \in Traces : \A i \in DOMAIN os, j \in DOMAIN qs[u] : os[i].ts <= qs[u][j].ts
    BY <1>2, <1>3 DEF Queued
  <1>5. PICK t \in Traces :
          /\ qs[t] # <<>>
          /\ \A u \in Traces : qs[u] # <<>> =>
               IF u < t THEN Head(qs[t]).ts < Head(qs[u]).ts ELSE Head(qs[t]).ts <= Head(qs[u]).ts
          /\ occurences' = Append(os, Head(qs[t]))
          /\ queues' = [qs EXCEPT ![t] = Tail(@)]
    BY <1>3, <1>4 DEF ZipNext
  <1>6. PICK h : h = Head(qs[t])
    OBVIOUS
  <1>7. PICK rs : rs = [qs EXCEPT ![t] = Tail(@)]
    OBVIOUS
  <1>8. PICK new : new = Append(os, h)
    OBVIOUS
  <1>9. \A u \in Traces : qs[u] \in Seq(Point)
    BY <1>4
  <1>10. \A u \in Traces : /\ Len(qs[u]) \in Nat /\ DOMAIN qs[u] = 1 .. Len(qs[u])
                           /\ \A j \in 1 .. Len(qs[u]) : qs[u][j] \in Point
    BY <1>9, LenProperties, ElementOfSeq
  <1>11. /\ h \in Point /\ h = qs[t][1] /\ Len(qs[t]) >= 1
         /\ Tail(qs[t]) \in Seq(Point) /\ Len(Tail(qs[t])) = Len(qs[t]) - 1
         /\ DOMAIN Tail(qs[t]) = 1 .. Len(qs[t]) - 1
         /\ \A j \in 1 .. Len(qs[t]) - 1 : Tail(qs[t])[j] = qs[t][j + 1]
    BY <1>5, <1>6, <1>9, HeadTailProperties, EmptySeq, LenProperties
  <1>12. /\ rs \in [Traces -> Seq(Point)] /\ rs[t] = Tail(qs[t])
         /\ \A u \in Traces : u # t => rs[u] = qs[u]
    BY <1>4, <1>7, <1>11
  <1>13. PICK n : n = Len(os)
    OBVIOUS
  <1>14. /\ n \in Nat /\ DOMAIN os = 1 .. n /\ new \in Seq(Point) /\ DOMAIN new = 1 .. n + 1
         /\ new[n + 1] = h /\ \A i \in 1 .. n : new[i] = os[i]
    BY <1>4, <1>8, <1>11, <1>13, AppendProperties, LenProperties
  <1>15. \A i \in 1 .. n : os[i] \in Point
    BY <1>4, <1>13, ElementOfSeq
  \* what is left in an iterator was left in it before
  <1>16. ASSUME NEW u \in Traces, NEW j \in DOMAIN rs[u]
         PROVE  /\ \E k \in DOMAIN qs[u] : rs[u][j] = qs[u][k]
                /\ h.ts <= rs[u][j].ts
    <2>1. CASE u = t
      <3>1. j \in 1 .. Len(qs[t]) - 1 /\ Len(qs[t]) \in Nat
        BY <1>10, <1>11, <1>12, <2>1
      <3>2. j + 1 \in DOMAIN qs[t] /\ 1 \in DOMAIN qs[t] /\ 1 < j + 1 /\ rs[t][j] = qs[t][j + 1]
        BY <1>10, <1>11, <1>12, <3>1
      <3>3. qs[t][1].ts <= qs[t][j + 1].ts
        BY <1>4, <3>2 DEF Sorted
      <3>. QED
        BY <1>11, <2>1, <3>2, <3>3
    <2>2. CASE u # t
      <3>1. rs[u] = qs[u]
        BY <1>12, <2>2
      <3>2. j \in 1 .. Len(qs[u]) /\ Len(qs[u]) \in Nat /\ qs[u] # <<>>
        BY <1>10, <3>1
      <3>3. Head(qs[u]) = qs[u][1] /\ 1 \in 1 .. Len(qs[u])
        BY <1>9, <3>2, HeadTailProperties
      <3>4. h.ts \in Nat /\ qs[u][1].ts \in Nat /\ qs[u][j].ts \in Nat
        BY <1>10, <1>11, <3>2, <3>3 DEF Point
      <3>5. h.ts <= qs[u][1].ts
        BY <1>5, <1>6, <3>2, <3>3, <3>4
      <3>6. qs[u][1].ts <= qs[u][j].ts
        <4>1. CASE j = 1
          BY <3>4, <4>1
        <4>2. CASE j # 1
          <5>1. 1 < j /\ 1 \in DOMAIN qs[u] /\ j \in DOMAIN qs[u]
            BY <1>10, <3>2, <4>2
          <5>. QED
            BY <1>4, <5>1 DEF Sorted
        <4>. QED
          BY <4>1, <4>2
      <3>. QED
        BY <3>1, <3>4, <3>5, <3>6
    <2>. QED
      BY <2>1, <2>2
  <1>17. ASSUME NEW i \in 1 .. n
         PROVE  os[i].ts <= h.ts
    <2>1. 1 \in DOMAIN qs[t]
      BY <1>10, <1>11
    <2>. QED
      BY <1>4, <1>11, <1>14, <2>1
  <1>18. Sorted(new)
    <2>1. SUFFICES ASSUME NEW i \in 1 .. n + 1, NEW j \in 1 .. n + 1, i < j
                   PROVE  new[i].ts <= new[j].ts
      BY <1>14 DEF Sorted
    <2>2. i \in 1 .. n /\ new[i] = os[i]
      BY <1>14, <2>1
    <2>3. CASE j = n + 1
      BY <1>14, <1>17, <2>2, <2>3
    <2>4. CASE j # n + 1
      <3>1. j \in 1 .. n /\ new[j] = os[j]
        BY <1>14, <2>4
      <3>. QED
        BY <1>4, <1>14, <2>1, <2>2, <3>1 DEF Sorted
    <2>. QED
      BY <2>3, <2>4
  <1>19. ASSUME NEW u \in Traces
         PROVE  Sorted(rs[u])
    <2>1. CASE u = t
      <3>1. SUFFICES ASSUME NEW i \in 1 .. Len(qs[t]) - 1, NEW j \in 1 .. Len(qs[t]) - 1, i < j
                     PROVE  rs[t][i].ts <= rs[t][j].ts
        BY <1>11, <1>12, <2>1 DEF Sorted
      <3>2. /\ rs[t][i] = qs[t][i + 1] /\ rs[t][j] = qs[t][j + 1]
            /\ i + 1 \in DOMAIN qs[t] /\ j + 1 \in DOMAIN qs[t] /\ i + 1 < j + 1
        BY <1>10, <1>11, <1>12, <3>1
      <3>. QED
        BY <1>4, <3>2 DEF Sorted
    <2>2. CASE u # t
      BY <1>4, <1>12, <2>2
    <2>. QED
      BY <2>1, <2>2
  <1>20. ASSUME NEW u \in Traces, NEW i \in 1 .. n + 1, NEW j \in DOMAIN rs[u]
         PROVE  new[i].ts <= rs[u][j].ts
    <2>1. CASE i = n + 1
      BY <1>14, <1>16, <2>1
    <2>2. CASE i # n + 1
      <3>1. i \in 1 .. n /\ new[i] = os[i]
        BY <1>14, <2>2
      <3>2. PICK k \in DOMAIN qs[u] : rs[u][j] = qs[u][k]
        BY <1>16
      <3>. QED
        BY <1>4, <1>14, <3>1, <3>2
    <2>. QED
      BY <2>1, <2>2
  <1>21. occurences' = new /\ queues' = rs /\ Traces' = Traces
    BY <1>1, <1>5, <1>6, <1>7, <1>8, EventsSame
  <1>22. Queued'
    BY <1>12, <1>14, <1>18, <1>19, <1>20, <1>21 DEF Queued
  <1>23. Counted'
    <2>1. Len(parents) \in Nat /\ qs \in [1 .. Len(parents) -> Seq(Point)] /\ t \in 1 .. Len(parents)
      BY <1>2, <1>4, RootsHave DEF Traces
    <2>2. PICK m \in Nat : m = Len(parents)
      BY <2>1
    <2>3. ASSUME NEW p
          PROVE  TimesIn(new, p) + Cardinality(Left(rs, p)) = TimesScaled(zipping, p)
      <3>1. qs \in [1 .. m -> Seq(Point)] /\ t \in 1 .. m
        BY <2>1, <2>2
      <3>2. /\ IsFiniteSet(Left(qs, p))
            /\ Cardinality(Left(qs, p)) = Cardinality(Left(rs, p)) + (IF p = h THEN 1 ELSE 0)
        <4>1. qs[t] # <<>>
          BY <1>5
        <4>2. rs = Taken(qs, t)
          BY <1>7 DEF Taken
        <4>. QED
          BY <1>6, <3>1, <4>1, <4>2, HeadTaken
      <3>3. IsFiniteSet(Left(rs, p))
        <4>1. \A u \in 1 .. m : Len(rs[u]) \in Nat /\ DOMAIN rs[u] = 1 .. Len(rs[u])
          BY <1>12, <2>2, LenProperties DEF Traces
        <4>2. DOMAIN rs = 1 .. m
          BY <1>12, <2>2 DEF Traces
        <4>3. IsFiniteSet(Spots(rs))
          BY <4>1, <4>2, SpotsFinite
        <4>4. Left(rs, p) \in SUBSET Spots(rs)
          BY DEF Left
        <4>. QED
          BY <4>3, <4>4, FS_Subset
      <3>4. Cardinality(Left(rs, p)) \in Nat
        BY <3>3, FS_CardinalityType
      <3>5. TimesIn(os, p) \in Nat /\ TimesIn(new, p) = TimesIn(os, p) + (IF p = h THEN 1 ELSE 0)
        BY <1>4, <1>8, <1>11, TimesAppended
      <3>6. TimesIn(os, p) + Cardinality(Left(qs, p)) = TimesScaled(zipping, p)
        BY <1>2, <1>3 DEF Counted
      <3>. QED
        BY <3>2, <3>4, <3>5, <3>6
    <2>4. \A p : TimesScaled(zipping, p)' = TimesScaled(zipping, p)
      <3>1. PICK id : id = zipping
        OBVIOUS
      <3>2. \A p : TimesScaled(id, p)' = TimesScaled(id, p)
        BY <1>1, EventsSame
      <3>3. zipping' = id
        BY <1>1, <3>1
      <3>. QED
        BY <3>1, <3>2, <3>3
    <2>. QED
      BY <1>21, <2>3, <2>4 DEF Counted
  <1>24. Zipping'
    <2>1. AllScaleOf(zipping)' <=> AllScaleOf(zipping)
      <3>1. PICK id : id = zipping
        OBVIOUS
      <3>2. AllScaleOf(id)' <=> AllScaleOf(id)
        BY <1>1, EventsSame
      <3>3. zipping' = id
        BY <1>1, <3>1
      <3>. QED
        BY <3>1, <3>2, <3>3
    <2>. QED
      BY <1>1, <1>2, <1>21, <1>22, <1>23, <2>1 DEF Zipping, CurrentId
  <1>. QED
    BY <1>22, <1>23, <1>24

LEMMA EventsZipNext ==
  ASSUME OrderInv, MergedInv, EventsInv, ZipNext
  PROVE  EventsInv'
  <1>1. /\ phase = "events" /\ zipping # 0
        /\ UNCHANGED <<parents, newParent, phase, at, seenIds, zipping, merged>>
    BY DEF ZipNext, mergeVars
  <1>2. AreRoots /\ Reached /\ RootEvents
    BY <1>1 DEF EventsInv
  <1>3. Reached'
    <2>1. \A id \in seenIds : id # zipping => IsMerged(id)' /\ AllScaleOf(id)'
      BY <1>1, <1>2, EventsSame DEF Reached, IsMerged
    <2>2. \A t \in Traces : \A i \in DOMAIN parents[t].events :
            Passed(t, i)' => parents[t].events[i].id \in seenIds
      BY <1>1, <1>2 DEF Reached, Passed
    <2>. QED
      BY <1>1, <1>2, <2>1, <2>2, EventsSame DEF Reached
  <1>. QED
    BY <1>1, <1>2, <1>3, ZippedInOrder, EventsSame DEF EventsInv

\* Another merged event leaves the earlier ones.
LEMMA MoreMerged ==
  ASSUME merged \in Seq(MergedEvent), NEW e \in MergedEvent, merged' = Append(merged, e),
         UNCHANGED <<parents, newParent>>
  PROVE  /\ merged' \in Seq(MergedEvent)
         /\ Len(merged') \in Nat /\ Len(merged') \in 1 .. Len(merged') /\ merged'[Len(merged')] = e
         /\ \A id : IsMerged(id) => IsMerged(id)'
  <1>1. PICK n : n = Len(merged)
    OBVIOUS
  <1>2. /\ n \in Nat /\ merged' \in Seq(MergedEvent) /\ Len(merged') = n + 1
        /\ merged'[n + 1] = e /\ \A i \in 1 .. n : merged'[i] = merged[i]
    BY <1>1, LenProperties, AppendProperties
  <1>3. ASSUME NEW id, IsMerged(id)
        PROVE  IsMerged(id)'
    <2>1. PICK k \in 1 .. n : /\ merged[k].id = id
                              /\ \A p : TimesIn(merged[k].occurences, p) = TimesScaled(id, p)
      BY <1>1, <1>3 DEF IsMerged
    <2>2. k \in 1 .. Len(merged') /\ merged'[k] = merged[k]
      BY <1>2
    <2>3. \A p : TimesScaled(id, p)' = TimesScaled(id, p)
      BY EventsSame
    <2>. QED
      BY <2>1, <2>2, <2>3 DEF IsMerged
  <1>. QED
    BY <1>2, <1>3

\* Zipping ends with all occurrences in order.
LEMMA EventsEndZip ==
  ASSUME OrderInv, MergedInv, EventsInv, EndZip
  PROVE  EventsInv' /\ phase' = phase
  <1>1. PICK id, os : id = zipping /\ os = occurences
    OBVIOUS
  <1>2. PICK e : e = Event(id, os)
    OBVIOUS
  <1>3. /\ phase = "events" /\ id # 0 /\ \A t \in DOMAIN queues : queues[t] = <<>>
        /\ merged' = Append(merged, e)
        /\ phase' = IF Sorted(os) THEN phase ELSE "panicked"
        /\ zipping' = 0 /\ occurences' = <<>> /\ at' = [at EXCEPT ![2] = @ + 1]
        /\ UNCHANGED <<parents, newParent, seenIds>>
    BY <1>1, <1>2 DEF EndZip, KeepMerging
  <1>4. AreRoots /\ Reached /\ RootEvents /\ Zipping
    BY <1>3 DEF EventsInv
  <1>5. /\ at[1] \in Traces /\ at[2] \in DOMAIN parents[at[1]].events
        /\ parents[at[1]].events[at[2]].id = id /\ id \in seenIds /\ AllScaleOf(id)
        /\ os \in Seq(Point) /\ Sorted(os)
        /\ \A p : TimesIn(os, p) + Cardinality(Left(queues, p)) = TimesScaled(id, p)
    BY <1>1, <1>3, <1>4 DEF Zipping, CurrentId, Queued, Counted
  <1>6. at \in [1 .. 2 -> Nat \ {0}] /\ merged \in Seq(MergedEvent)
    BY <1>4 DEF Reached
  <1>7. at' \in [1 .. 2 -> Nat \ {0}] /\ at'[1] = at[1] /\ at'[2] = at[2] + 1
    BY <1>3, <1>6
  <1>8. e \in MergedEvent /\ e.id = id /\ e.occurences = os
    <2>1. id \in Nat
      BY <1>4, <1>5, RootsHave DEF HasEvents
    <2>. QED
      BY <1>2, <1>5, <2>1 DEF Event, MergedEvent
  <1>9. /\ merged' \in Seq(MergedEvent)
        /\ Len(merged') \in 1 .. Len(merged') /\ merged'[Len(merged')] = e
        /\ \A i : IsMerged(i) => IsMerged(i)'
    BY <1>3, <1>6, <1>8, MoreMerged
  <1>10. IsMerged(id)'
    <2>1. \A p : Cardinality(Left(queues, p)) = 0
      <3>1. PICK qs : qs = queues
        OBVIOUS
      <3>2. \A t \in DOMAIN qs : qs[t] = <<>>
        BY <1>3, <3>1
      <3>. QED
        BY <3>1, <3>2, NoneLeft
    <2>2. \A p : TimesIn(os, p) \in Nat
      <3>1. PICK o : o = [ts |-> 0, cycles |-> 0, insn_count |-> 0]
        OBVIOUS
      <3>2. o \in Point
        BY <3>1 DEF Point
      <3>. QED
        BY <1>5, <3>2, TimesAppended
    <2>3. \A p : TimesIn(os, p) = TimesScaled(id, p)
      BY <1>5, <2>1, <2>2
    <2>4. \A p : TimesScaled(id, p)' = TimesScaled(id, p)
      BY <1>3, EventsSame
    <2>. QED
      BY <1>8, <1>9, <2>3, <2>4 DEF IsMerged
  <1>11. \A i \in seenIds : IsMerged(i)' /\ AllScaleOf(i)'
    <2>1. \A i \in seenIds : i # id => IsMerged(i) /\ AllScaleOf(i)
      BY <1>1, <1>4 DEF Reached
    <2>2. \A i : AllScaleOf(i)' <=> AllScaleOf(i)
      BY <1>3, EventsSame
    <2>. QED
      BY <1>5, <1>9, <1>10, <2>1, <2>2
  <1>12. ASSUME NEW t \in Traces, NEW i \in DOMAIN parents[t].events,
                t < at[1] \/ (t = at[1] /\ i < at[2] + 1)
         PROVE  parents[t].events[i].id \in seenIds
    <2>1. i \in Nat /\ at[2] \in Nat
      BY <1>4, <1>6, RootsHave
    <2>2. Passed(t, i) \/ (t = at[1] /\ i = at[2])
      BY <1>12, <2>1 DEF Passed
    <2>. QED
      BY <1>4, <1>5, <2>2 DEF Reached
  <1>13. \A t \in Traces : \A i \in DOMAIN parents[t].events :
           Passed(t, i)' => parents[t].events[i].id \in seenIds
    BY <1>7, <1>12 DEF Passed
  <1>14. Reached'
    BY <1>3, <1>4, <1>7, <1>9, <1>11, <1>13, EventsSame DEF Reached
  <1>15. Zipping'
    BY <1>3 DEF Zipping
  <1>. QED
    BY <1>3, <1>4, <1>5, <1>14, <1>15, EventsSame DEF EventsInv

\* The event of lost frames is made of sorted occurrences.
LEMMA EventsFinish ==
  ASSUME OrderInv, MergedInv, EventsInv, Finish
  PROVE  EventsInv' /\ phase' = "done"
  <1>1. PICK e, s : e = Event(LostFrameId, s) /\ s = SortedLost
    OBVIOUS
  <1>2. /\ phase = "events" /\ at[1] > Len(parents)
        /\ merged' = IF lost = <<>> THEN merged ELSE Append(merged, e)
        /\ phase' = IF Sorted(s) THEN "done" ELSE "panicked"
        /\ UNCHANGED <<parents, newParent, lost, at, seenIds, zipping, occurences>>
    BY <1>1 DEF Finish, KeepMerging
  <1>3. AreRoots /\ Reached /\ RootEvents /\ Zipping /\ (zipping = 0 => occurences = <<>>)
    BY <1>2 DEF EventsInv
  <1>4. s \in Seq(Point) /\ Sorted(s)
    BY <1>1, SortedLostIs DEF MergedInv
  <1>5. zipping = 0
    <2>1. at[1] \in Nat /\ Len(parents) \in Nat
      BY <1>3, RootsHave DEF Reached
    <2>. QED
      BY <1>2, <1>3, <2>1 DEF Zipping, Traces
  <1>6. e \in MergedEvent
    BY <1>1, <1>4 DEF Event, MergedEvent
  <1>7. /\ merged' \in Seq(MergedEvent)
        /\ \A i : IsMerged(i) => IsMerged(i)'
        /\ lost # <<>> => Len(merged') \in 1 .. Len(merged') /\ merged'[Len(merged')] = e
    <2>1. CASE lost = <<>>
      <3>1. merged' = merged
        BY <1>2, <2>1
      <3>. QED
        BY <1>2, <1>3, <2>1, <3>1, EventsSame DEF Reached, IsMerged
    <2>2. CASE lost # <<>>
      <3>1. merged' = Append(merged, e) /\ merged \in Seq(MergedEvent)
        BY <1>2, <1>3, <2>2 DEF Reached
      <3>. QED
        BY <1>2, <1>6, <3>1, MoreMerged
    <2>. QED
      BY <2>1, <2>2
  <1>8. Reported'
    <2>1. Event(LostFrameId, SortedLost)' = e
      BY <1>1, <1>2 DEF Event, SortedLost
    <2>. QED
      BY <1>2, <1>7, <2>1 DEF Reported
  <1>9. Reached'
    <2>1. \A id \in seenIds : id # zipping => IsMerged(id)' /\ AllScaleOf(id)'
      BY <1>2, <1>3, <1>7, EventsSame DEF Reached
    <2>2. \A t \in Traces : \A i \in DOMAIN parents[t].events :
            Passed(t, i)' => parents[t].events[i].id \in seenIds
      BY <1>2, <1>3 DEF Reached, Passed
    <2>. QED
      BY <1>2, <1>3, <1>7, <2>1, <2>2, EventsSame DEF Reached
  <1>. QED
    BY <1>2, <1>3, <1>4, <1>5, <1>8, <1>9, EventsSame DEF EventsInv

LEMMA EventsStep ==
  ASSUME OrderInv, MergedInv, EventsInv, [Next]_vars
  PROVE  EventsInv'
  <1>1. CASE MergeNext /\ UNCHANGED eventVars
    BY <1>1, EventsMerging
  <1>2. CASE NextTrace \/ SkipEvent \/ NewEvent
    BY <1>2, EventsNextTrace, EventsSkipEvent, EventsNewEvent
  <1>3. CASE ZipNext \/ EndZip \/ Finish
    BY <1>3, EventsZipNext, EventsEndZip, EventsFinish
  <1>4. CASE UNCHANGED vars
    <2>1. UNCHANGED <<parents, newParent, lost, phase, at, seenIds, zipping, queues, occurences, merged>>
      BY <1>4 DEF vars, mergeVars, eventVars
    <2>2. \A id : (IsMerged(id)' <=> IsMerged(id)) /\ (AllScaleOf(id)' <=> AllScaleOf(id))
      BY <2>1, EventsSame DEF IsMerged
    <2>3. Reached' <=> Reached
      BY <2>1, <2>2, EventsSame DEF Reached, Passed
    <2>4. Zipping' <=> Zipping
      <3>1. PICK id : id = zipping
        OBVIOUS
      <3>2. zipping' = id
        BY <2>1, <3>1
      <3>3. \A p : TimesScaled(zipping, p)' = TimesScaled(zipping, p)
        <4>1. \A p : TimesScaled(id, p)' = TimesScaled(id, p)
          BY <2>1, EventsSame
        <4>. QED
          BY <3>1, <3>2, <4>1
      <3>4. Counted' <=> Counted
        BY <2>1, <3>3 DEF Counted
      <3>5. Queued' <=> Queued
        BY <2>1, EventsSame DEF Queued
      <3>6. AllScaleOf(zipping)' <=> AllScaleOf(zipping)
        BY <2>2, <3>1, <3>2
      <3>. QED
        BY <2>1, <3>4, <3>5, <3>6, EventsSame DEF Zipping, CurrentId
    <2>5. Reported' <=> Reported
      <3>1. SortedLost' = SortedLost
        BY <2>1 DEF SortedLost
      <3>. QED
        BY <2>1, <3>1 DEF Reported, Event
    <2>. QED
      BY <2>1, <2>3, <2>4, <2>5, EventsSame DEF EventsInv
  <1>. QED
    BY <1>1, <1>2, <1>3, <1>4 DEF Next, Over

THEOREM EventsInvariant == Spec => []EventsInv
  <1>1. Init => OrderInv /\ MergedInv /\ EventsInv
    BY InitOrder, InitMerged, InitEvents
  <1>2. OrderInv /\ MergedInv /\ EventsInv /\ [Next]_vars => (OrderInv /\ MergedInv /\ EventsInv)'
    BY OrderStep, MergedStep, EventsStep
  <1>. QED
    BY <1>1, <1>2, PTL DEF Spec

-----------------------------------------------------------------------------
(***************************************************************************)
(* Part 10.  Merging does not panic, and loses no occurrence of an event.  *)
(***************************************************************************)

LEMMA InitNeverPanics == Init => MergeNeverPanics
  BY DEF Init, MergeInit, MergeNeverPanics

LEMMA NeverPanicsStep ==
  ASSUME OrderInv, MergedInv, EventsInv, MergeNeverPanics, [Next]_vars
  PROVE  MergeNeverPanics'
  <1>1. SUFFICES ASSUME phase' = "panicked", AllScale'
                 PROVE  FALSE
    BY DEF MergeNeverPanics
  <1>2. parents' = parents /\ (newParent' = newParent \/ phase \in {"common", "last"})
    BY DEF Next, MergeNext, Index, NextCommon, LastSection, EndSection, SplitSection, NextWork,
           AddAveragedChild, Return, NextTrace, SkipEvent, NewEvent, ZipNext, EndZip, Finish,
           KeepMerging, Over, vars, mergeVars
  <1>3. AllScale' <=> AllScale
    BY <1>2 DEF AllScale, AreRoots, Traces, CanScale
  <1>4. phase # "panicked"
    BY <1>1, <1>3 DEF MergeNeverPanics
  <1>5. CASE AddAveragedChild
    BY <1>1, <1>4, <1>5, MergedAddAveragedChild
  <1>6. CASE Index \/ NextCommon \/ LastSection \/ EndSection \/ SplitSection \/ Return
    BY <1>1, <1>4, <1>6 DEF Index, NextCommon, LastSection, EndSection, SplitSection, Return
  <1>7. CASE NextTrace \/ SkipEvent \/ ZipNext \/ UNCHANGED vars
    BY <1>1, <1>4, <1>7 DEF NextTrace, SkipEvent, ZipNext, vars, mergeVars
  <1>8. CASE EndZip \/ Finish
    BY <1>1, <1>4, <1>8, EventsEndZip, EventsFinish
  <1>9. CASE NewEvent
    <2>1. phase = "events" /\ AreRoots
      BY <1>9 DEF NewEvent, Searching, EventsInv
    <2>2. PICK id : id = CurrentId
      OBVIOUS
    <2>3. PICK t \in Traces : ~CanScaleAll(parents[t], id)
      BY <1>1, <1>9, <2>2, EventsNewEvent DEF AllScaleOf
    <2>4. PICK o \in ToSet(OccurencesIn(parents[t], id)) : ~CanScale(o, parents[t])
      BY <2>3 DEF CanScaleAll
    <2>5. HasEvents(parents[t])
      BY <2>1, RootsHave
    <2>6. PICK i \in DOMAIN parents[t].events : OccurencesIn(parents[t], id) = parents[t].events[i].occurences
      <3>1. OccurencesIn(parents[t], id) # <<>>
        BY <2>4 DEF ToSet
      <3>. QED
        BY <2>5, <3>1, OccurencesAre
    <2>7. parents[t].events[i] \in ToSet(parents[t].events)
      BY DEF ToSet
    <2>. QED
      BY <1>1, <1>3, <2>1, <2>4, <2>6, <2>7 DEF AllScale
  <1>. QED
    BY <1>5, <1>6, <1>7, <1>8, <1>9 DEF Next, MergeNext, Over

\* Unless an occurrence cannot be scaled, merging does not panic: the new frame
\* accepts every chunk that has been cut to fit, and the occurrences of an event
\* are in order when they have been zipped, as are those of lost frames.
THEOREM AlwaysNeverPanics == Spec => []MergeNeverPanics
  <1>1. Init => OrderInv /\ MergedInv /\ EventsInv /\ MergeNeverPanics
    BY InitOrder, InitMerged, InitEvents, InitNeverPanics
  <1>2. OrderInv /\ MergedInv /\ EventsInv /\ MergeNeverPanics /\ [Next]_vars
          => (OrderInv /\ MergedInv /\ EventsInv /\ MergeNeverPanics)'
    BY OrderStep, MergedStep, EventsStep, NeverPanicsStep
  <1>. QED
    BY <1>1, <1>2, PTL DEF Spec

\* What was zipped lies in the range of the new frame.
LEMMA ZippedInRange ==
  ASSUME OrderInv, MergedInv, EventsInv, AreRoots, NEW id, AllScaleOf(id),
         NEW os \in Seq(Point), \A p : TimesIn(os, p) = TimesScaled(id, p),
         \A t \in Traces : \A o \in ToSet(OccurencesIn(parents[t], id)) : Leq(o, parents[t].end),
         NEW o \in ToSet(os)
  PROVE  Leq(newParent.start, o) /\ Leq(o, newParent.end)
  <1>1. DOMAIN os = 1 .. Len(os) /\ Len(os) \in Nat
    BY LenProperties
  <1>2. PICK n : n = Len(os)
    OBVIOUS
  <1>3. PICK k \in 1 .. n : os[k] = o
    BY <1>1, <1>2 DEF ToSet
  <1>4. PICK S : S = {i \in DOMAIN os : os[i] = o}
    OBVIOUS
  <1>5. Cardinality(S) # 0
    <2>1. S \in SUBSET (1 .. n) /\ k \in S
      BY <1>1, <1>2, <1>3, <1>4
    <2>2. IsFiniteSet(1 .. n)
      BY <1>1, <1>2, FS_Interval
    <2>3. IsFiniteSet(S)
      BY <2>1, <2>2, FS_Subset
    <2>. QED
      BY <2>1, <2>3, FS_EmptySet
  <1>6. TimesIn(os, o) = Cardinality(S)
    BY <1>4 DEF TimesIn
  <1>7. PICK spots : spots = UNION {{t} \X DOMAIN ScaledIn(parents[t], id) : t \in Traces}
    OBVIOUS
  <1>8. PICK T : T = {q \in spots : ScaledIn(parents[q[1]], id)[q[2]] = o}
    OBVIOUS
  <1>9. TimesScaled(id, o) = Cardinality(T)
    BY <1>7, <1>8 DEF TimesScaled
  <1>10. T # {}
    BY <1>5, <1>6, <1>9, FS_EmptySet
  <1>11. PICK q \in spots : ScaledIn(parents[q[1]], id)[q[2]] = o
    BY <1>8, <1>10
  <1>12. PICK t \in Traces : q \in {t} \X DOMAIN ScaledIn(parents[t], id)
    BY <1>7, <1>11
  <1>13. PICK i \in DOMAIN ScaledIn(parents[t], id) : q = <<t, i>>
    BY <1>12
  <1>14. o = ScaledIn(parents[t], id)[i]
    BY <1>11, <1>13
  <1>15. /\ HasEvents(parents[t]) /\ CanScaleAll(parents[t], id)
         /\ parents[t].start \in Point /\ parents[t].end \in Point
    BY RootsHave DEF AllScaleOf
  <1>16. \A p \in ToSet(OccurencesIn(parents[t], id)) : Leq(p, parents[t].end)
    OBVIOUS
  <1>. QED
    BY <1>14, <1>15, <1>16, ScaledInAre

LEMMA EventsAreMerged == OrderInv /\ MergedInv /\ EventsInv => NothingLost
  <1> SUFFICES ASSUME OrderInv, MergedInv, EventsInv, phase = "done", AreRoots
               PROVE  /\ \A t \in Traces : \A e \in ToSet(parents[t].events) :
                           \E i \in DOMAIN merged :
                             /\ merged[i].id = e.id
                             /\ \A p \in ToSet(merged[i].occurences)
                                         \cup UNION {ToSet(ScaledIn(parents[u], e.id)) : u \in Traces} :
                                  TimesIn(merged[i].occurences, p) = TimesScaled(e.id, p)
                             /\ (\A u \in Traces : \A o \in ToSet(OccurencesIn(parents[u], e.id)) :
                                   Leq(o, parents[u].end))
                                => \A o \in ToSet(merged[i].occurences) :
                                     Leq(newParent.start, o) /\ Leq(o, newParent.end)
                      /\ Len(newParent.chunks) < Len(called) =>
                           \E i \in DOMAIN merged :
                             /\ merged[i].id = LostFrameId
                             /\ Len(merged[i].occurences) + Len(newParent.chunks) = Len(called)
    BY DEF NothingLost
  <1>1. Reached /\ zipping = 0 /\ at[1] > Len(parents) /\ Reported
    BY DEF EventsInv
  <1>2. merged \in Seq(MergedEvent) /\ at[1] \in Nat /\ Len(parents) \in Nat
    BY <1>1, RootsHave DEF Reached
  <1>3. DOMAIN merged = 1 .. Len(merged)
    BY <1>2, LenProperties
  <1>4. ASSUME NEW t \in Traces, NEW e \in ToSet(parents[t].events)
        PROVE  \E i \in DOMAIN merged :
                 /\ merged[i].id = e.id
                 /\ \A p \in ToSet(merged[i].occurences)
                             \cup UNION {ToSet(ScaledIn(parents[u], e.id)) : u \in Traces} :
                      TimesIn(merged[i].occurences, p) = TimesScaled(e.id, p)
                 /\ (\A u \in Traces : \A o \in ToSet(OccurencesIn(parents[u], e.id)) :
                       Leq(o, parents[u].end))
                    => \A o \in ToSet(merged[i].occurences) :
                         Leq(newParent.start, o) /\ Leq(o, newParent.end)
    <2>1. PICK j \in DOMAIN parents[t].events : parents[t].events[j] = e
      BY DEF ToSet
    <2>2. t \in 1 .. Len(parents)
      BY DEF Traces
    <2>3. Passed(t, j)
      BY <1>1, <1>2, <2>2 DEF Passed
    <2>4. PICK id : id = e.id
      OBVIOUS
    <2>5. id \in seenIds /\ id # 0
      BY <1>1, <2>1, <2>3, <2>4 DEF Reached
    <2>6. IsMerged(id) /\ AllScaleOf(id)
      BY <1>1, <2>5 DEF Reached
    <2>7. PICK i \in 1 .. Len(merged) : /\ merged[i].id = id
                                        /\ \A p : TimesIn(merged[i].occurences, p) = TimesScaled(id, p)
      BY <2>6 DEF IsMerged
    <2>8. PICK os : os = merged[i].occurences
      OBVIOUS
    <2>9. os \in Seq(Point)
      <3>1. merged[i] \in MergedEvent
        BY <1>2, ElementOfSeq
      <3>. QED
        BY <2>8, <3>1 DEF MergedEvent
    <2>10. \A p : TimesIn(os, p) = TimesScaled(id, p)
      BY <2>7, <2>8
    <2>11. ASSUME \A u \in Traces : \A o \in ToSet(OccurencesIn(parents[u], id)) : Leq(o, parents[u].end)
           PROVE  \A o \in ToSet(os) : Leq(newParent.start, o) /\ Leq(o, newParent.end)
      BY <2>6, <2>9, <2>10, <2>11, ZippedInRange
    <2>12. i \in DOMAIN merged
      BY <1>3
    <2>. QED
      BY <2>4, <2>7, <2>8, <2>10, <2>11, <2>12
  <1>5. ASSUME Len(newParent.chunks) < Len(called)
        PROVE  \E i \in DOMAIN merged :
                 /\ merged[i].id = LostFrameId
                 /\ Len(merged[i].occurences) + Len(newParent.chunks) = Len(called)
    <2>1. /\ lost \in Seq(Point) /\ newParent.chunks \in Seq(Chunk)
          /\ Len(newParent.chunks) = Cardinality(AddedIn(called, Len(called)))
          /\ Len(lost) = Len(called) - Cardinality(AddedIn(called, Len(called)))
      BY DEF MergedInv, NewFrame, Holds
    <2>2. Len(newParent.chunks) \in Nat /\ Len(called) \in Nat
      <3>1. called \in Seq(Call(parents))
        BY DEF OrderInv, Known
      <3>. QED
        BY <2>1, <3>1, LenProperties
    <2>3. Len(lost) + Len(newParent.chunks) = Len(called) /\ Len(lost) # 0
      BY <1>5, <2>1, <2>2
    <2>4. lost # <<>>
      BY <2>3, EmptySeq
    <2>5. PICK k \in 1 .. Len(merged) : merged[k] = Event(LostFrameId, SortedLost)
      BY <1>1, <2>4 DEF Reported
    <2>6. merged[k].id = LostFrameId /\ merged[k].occurences = SortedLost
      BY <2>5 DEF Event
    <2>7. Len(SortedLost) = Len(lost)
      BY <2>1, SortedLostIs
    <2>. QED
      BY <1>3, <2>3, <2>6, <2>7
  <1>. QED
    BY <1>4, <1>5

\* However the occurrences of the traces interleave, also when several are at
\* the same point, each is in the merged event as often as in all traces.  If
\* those of a trace are within it, so are the merged ones, and every chunk that
\* is missing from the merged frame is an occurrence of the event of lost frames.
THEOREM AlwaysNothingLost == Spec => []NothingLost
  <1>1. Spec => [](OrderInv /\ MergedInv /\ EventsInv)
    BY OrderInvariant, MergedInvariant, EventsInvariant, PTL
  <1>. QED
    BY <1>1, EventsAreMerged, PTL

=============================================================================
