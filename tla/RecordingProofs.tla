---------------------------- MODULE RecordingProofs ----------------------------
(***************************************************************************)
(* Proofs about the address spaces and the data that are put together from *)
(* a recording, for any records in any order and any number of threads and *)
(* mappings.                                                               *)
(*                                                                         *)
(* Part 1: every list of mappings is fit for bisection.  Part 2: a thread  *)
(* is decoded with its own mappings, its process's and the kernel's.       *)
(* Part 3: it is decoded with its own data, all of it and in order.        *)
(* Part 4: what the decoder is answered is what a plain address space      *)
(* would answer.                                                           *)
(***************************************************************************)
EXTENDS Recording, FramesProofs, FiniteSetTheorems

IsImage(maps) == maps \in Seq(Mapping) /\ SortedDisjoint(maps)

\* An entry of tid_auxtrace has these fields; only the image matters here.
IsEntry(aux) ==
  /\ aux = [data |-> aux.data, cur_index |-> aux.cur_index, cur_offset |-> aux.cur_offset,
            image |-> aux.image]
  /\ IsImage(aux.image)

\* The inductive invariant: every list of mappings there is, and the list that
\* is being copied.
IInv ==
  /\ IsImage(mappings)
  /\ IsImage(kernel_image)
  /\ tid_auxtrace = [t \in DOMAIN tid_auxtrace |-> tid_auxtrace[t]]
  /\ \A t \in DOMAIN tid_auxtrace : IsEntry(tid_auxtrace[t])
  /\ copying = [to |-> copying.to, from |-> copying.from]
  /\ copying.from \in Seq(Mapping)

-----------------------------------------------------------------------------
(***************************************************************************)
(* Lists of mappings.                                                      *)
(***************************************************************************)

LEMMA MappingType ==
  ASSUME NEW m \in Mapping
  PROVE  m.vaddr \in Nat /\ m.size \in Nat \ {0} /\ VaddrEnd(m) \in Nat /\ m.vaddr < VaddrEnd(m)
  BY DEF Mapping, VaddrEnd

LEMMA EmptyIsImage == IsImage(<<>>)
  BY DEF IsImage, SortedDisjoint

\* What partition_point finds in a sorted list: the mappings that start before
\* m are those up to the position.
LEMMA PositionSplits ==
  ASSUME NEW maps, IsImage(maps), NEW m \in Mapping
  PROVE  /\ Position(maps, m) \in 0 .. Len(maps)
         /\ \A i \in 1 .. Len(maps) : i <= Position(maps, m) <=> maps[i].vaddr < m.vaddr
  <1> DEFINE n == Len(maps)
             before == {i \in 1 .. n : maps[i].vaddr < m.vaddr}
             Splits(p) == \A i \in 1 .. n : i <= p <=> maps[i].vaddr < m.vaddr
  <1>1. /\ n \in Nat /\ DOMAIN maps = 1 .. n /\ m.vaddr \in Nat
        /\ \A i \in 1 .. n : maps[i] \in Mapping
    BY MappingType, ElementOfSeq DEF IsImage
  <1>2. \A i \in 1 .. n : maps[i].vaddr \in Nat
    BY <1>1, MappingType
  <1>3. \A i, j \in 1 .. n : i < j => maps[i].vaddr < maps[j].vaddr
    <2> SUFFICES ASSUME NEW i \in 1 .. n, NEW j \in 1 .. n, i < j
                 PROVE  maps[i].vaddr < maps[j].vaddr
      OBVIOUS
    <2>1. VaddrEnd(maps[i]) <= maps[j].vaddr
      BY <1>1 DEF IsImage, SortedDisjoint
    <2>2. maps[i].vaddr < VaddrEnd(maps[i]) /\ VaddrEnd(maps[i]) \in Nat
      BY <1>1, MappingType
    <2>. QED
      BY <1>2, <2>1, <2>2
  <1>4. \E p \in 0 .. n : Splits(p)
    <2>1. CASE before = {}
      <3>1. Splits(0)
        BY <1>1, <2>1
      <3>. QED
        BY <1>1, <3>1
    <2>2. CASE before # {}
      <3>1. before \in SUBSET (0 .. n)
        BY <1>1
      <3>2. PICK p \in before : \A j \in before : j <= p
        <4> HIDE DEF before
        <4>. QED
          BY <1>1, <2>2, <3>1, LargestExists
      <3>3. Splits(p)
        BY <1>1, <1>2, <1>3, <3>2
      <3>. QED
        BY <3>1, <3>2, <3>3
    <2>. QED
      BY <2>1, <2>2
  <1> HIDE DEF n
  <1>5. Position(maps, m) = CHOOSE p \in 0 .. n : Splits(p)
    BY <1>1 DEF Position, n
  <1>6. Position(maps, m) \in 0 .. n /\ Splits(Position(maps, m))
    <2> HIDE DEF Splits
    <2>. QED
      BY <1>4, <1>5
  <1>. QED
    BY <1>6 DEF n

\* A mapping that fits lies on one side of each of the others.
LEMMA FitsBetween ==
  ASSUME NEW k \in Mapping, NEW m \in Mapping, ~Overlaps(k, m)
  PROVE  IF k.vaddr < m.vaddr THEN VaddrEnd(k) <= m.vaddr ELSE VaddrEnd(m) <= k.vaddr
  BY MappingType DEF Overlaps

\* add_mapping keeps a list sorted and disjoint.
LEMMA InsertedIsImage ==
  ASSUME NEW maps, IsImage(maps), NEW m \in Mapping, Fits(maps, m)
  PROVE  IsImage(Inserted(maps, m))
  <1> DEFINE n == Len(maps)
             p == Position(maps, m)
             new == Inserted(maps, m)
  <1>1. /\ n \in Nat /\ DOMAIN maps = 1 .. n /\ maps \in Seq(Mapping)
        /\ \A i \in 1 .. n : maps[i] \in Mapping
    BY ElementOfSeq DEF IsImage
  <1>2. p \in 0 .. n /\ \A i \in 1 .. n : i <= p <=> maps[i].vaddr < m.vaddr
    BY PositionSplits
  <1>3. new \in Seq(Mapping) /\ Inserts(new, maps, p + 1, m)
    <2>1. p + 1 \in 1 .. Len(maps) + 1
      BY <1>1, <1>2
    <2> HIDE DEF p
    <2>2. new = InsertAt(maps, p + 1, m)
      BY DEF Inserted, p
    <2>. QED
      BY <1>1, <2>1, <2>2, InsertAtIsSeq
  <1>4. \A i \in 1 .. n : IF i <= p THEN VaddrEnd(maps[i]) <= m.vaddr ELSE VaddrEnd(m) <= maps[i].vaddr
    <2> SUFFICES ASSUME NEW i \in 1 .. n
                 PROVE  IF i <= p THEN VaddrEnd(maps[i]) <= m.vaddr ELSE VaddrEnd(m) <= maps[i].vaddr
      OBVIOUS
    <2>1. ~Overlaps(maps[i], m)
      BY <1>1 DEF Fits
    <2>. QED
      BY <1>1, <1>2, <2>1, FitsBetween
  <1>5. \A i, j \in 1 .. n : i < j => VaddrEnd(maps[i]) <= maps[j].vaddr
    BY <1>1 DEF IsImage, SortedDisjoint
  <1> HIDE DEF n, p, new
  <1>6. /\ DOMAIN new = 1 .. n + 1
        /\ \A j \in 1 .. n + 1 : new[j] = IF j < p + 1 THEN maps[j]
                                          ELSE IF j = p + 1 THEN m ELSE maps[j - 1]
    BY <1>1, <1>3 DEF Inserts, n
  <1>7. ASSUME NEW i \in 1 .. n + 1, NEW j \in 1 .. n + 1, i < j
        PROVE  VaddrEnd(new[i]) <= new[j].vaddr
    <2>1. CASE j < p + 1
      BY <1>1, <1>2, <1>5, <1>6, <1>7, <2>1
    <2>2. CASE j = p + 1
      <3>1. i \in 1 .. n /\ i <= p /\ new[i] = maps[i] /\ new[j] = m
        BY <1>1, <1>2, <1>6, <1>7, <2>2
      <3>. QED
        BY <1>4, <3>1
    <2>3. CASE j > p + 1 /\ i < p + 1
      <3>1. i \in 1 .. n /\ j - 1 \in 1 .. n /\ i < j - 1 /\ new[i] = maps[i] /\ new[j] = maps[j - 1]
        BY <1>1, <1>2, <1>6, <1>7, <2>3
      <3>. QED
        BY <1>5, <3>1
    <2>4. CASE j > p + 1 /\ i = p + 1
      <3>1. j - 1 \in 1 .. n /\ ~(j - 1 <= p) /\ new[i] = m /\ new[j] = maps[j - 1]
        BY <1>1, <1>2, <1>6, <1>7, <2>4
      <3>. QED
        BY <1>4, <3>1
    <2>5. CASE j > p + 1 /\ i > p + 1
      <3>1. i - 1 \in 1 .. n /\ j - 1 \in 1 .. n /\ i - 1 < j - 1
            /\ new[i] = maps[i - 1] /\ new[j] = maps[j - 1]
        BY <1>1, <1>2, <1>6, <1>7, <2>5
      <3>. QED
        BY <1>5, <3>1
    <2>. QED
      BY <1>1, <1>2, <2>1, <2>2, <2>3, <2>4, <2>5
  <1>8. IsImage(new)
    BY <1>3, <1>6, <1>7 DEF IsImage, SortedDisjoint
  <1>. QED
    BY <1>8 DEF new

\* Nor does copying a mapping that may not fit do harm.
LEMMA WithMappingIsImage ==
  ASSUME NEW maps, IsImage(maps), NEW m \in Mapping
  PROVE  IsImage(WithMapping(maps, m))
  BY InsertedIsImage DEF WithMapping

\* Bisecting a sorted list without overlaps finds the mapping that covers an
\* address, and nothing if none does.
LEMMA ImageIsExact ==
  ASSUME NEW maps, IsImage(maps), NEW a \in Nat
  PROVE  ExactAt(maps, a)
  <1> DEFINE n == Len(maps)
  <1>1. /\ n \in Nat /\ DOMAIN maps = 1 .. n
        /\ \A i \in 1 .. n : maps[i] \in Mapping
    BY ElementOfSeq DEF IsImage
  <1>2. \A i \in 1 .. n : /\ maps[i].vaddr \in Nat /\ VaddrEnd(maps[i]) \in Nat
                          /\ maps[i].vaddr < VaddrEnd(maps[i])
    BY <1>1, MappingType
  <1>3. \A i, j \in 1 .. n : i < j => VaddrEnd(maps[i]) <= maps[j].vaddr
    BY <1>1 DEF IsImage, SortedDisjoint
  <1> HIDE DEF n
  <1>4. OrderedAround(maps, a)
    <2> SUFFICES ASSUME NEW i \in 1 .. n, NEW j \in 1 .. n, i < j
                 PROVE  Side(maps[i], a) <= Side(maps[j], a)
      BY <1>1 DEF OrderedAround
    <2>. QED
      BY <1>2, <1>3 DEF Side
  <1>5. \A i \in 1 .. n : Side(maps[i], a) = 0 <=> Covers(maps[i], a)
    BY <1>2 DEF Side, Covers
  <1>6. At(maps, a) = {maps[i] : i \in {j \in 1 .. n : Covers(maps[j], a)}}
    BY <1>1, <1>5 DEF At
  <1>7. {m \in ToSet(maps) : Covers(m, a)} = At(maps, a)
    BY <1>1, <1>6 DEF ToSet
  <1>8. \A i, j \in 1 .. n : Covers(maps[i], a) /\ Covers(maps[j], a) => i = j
    BY <1>1, <1>2, <1>3 DEF Covers
  <1>9. \A m, k \in At(maps, a) : m = k
    BY <1>6, <1>8
  <1>10. FindMapping(maps, a) = {At(maps, a)}
    <2>1. CASE At(maps, a) = {}
      BY <1>4, <2>1 DEF FindMapping
    <2>2. CASE At(maps, a) # {}
      <3>1. PICK m \in At(maps, a) : TRUE
        BY <2>2
      <3>2. At(maps, a) = {m}
        BY <1>9, <3>1
      <3>. QED
        BY <1>4, <3>2 DEF FindMapping
    <2>. QED
      BY <2>1, <2>2
  <1>. QED
    BY <1>7, <1>10 DEF ExactAt

-----------------------------------------------------------------------------
(***************************************************************************)
(* The invariant.                                                          *)
(***************************************************************************)

LEMMA InitEstablishes == Init => IInv
  <1> SUFFICES ASSUME Init PROVE IInv
    OBVIOUS
  <1>1. mappings = <<>> /\ kernel_image = <<>> /\ tid_auxtrace = <<>> /\ copying = NothingToCopy
    BY DEF Init, ParseInit, ImageInit
  <1>2. DOMAIN tid_auxtrace = {} /\ tid_auxtrace = [t \in DOMAIN tid_auxtrace |-> tid_auxtrace[t]]
    BY <1>1
  <1>. QED
    BY <1>1, <1>2, EmptyIsImage DEF IInv, NothingToCopy

\* An entry that is new has an empty image.
LEMMA EntryType ==
  ASSUME IInv, NEW t
  PROVE  IsEntry(Entry(t))
  <1>1. IsEntry(IncompleteAuxtrace)
    BY EmptyIsImage DEF IsEntry, IncompleteAuxtrace
  <1>. QED
    BY <1>1 DEF IInv, Entry

\* An entry is added or replaced, and nothing else changes.
LEMMA WithEntryKeeps ==
  ASSUME IInv, NEW t, NEW aux, IsEntry(aux), tid_auxtrace' = WithEntry(t, aux)
  PROVE  /\ tid_auxtrace' = [u \in DOMAIN tid_auxtrace' |-> tid_auxtrace'[u]]
         /\ \A u \in DOMAIN tid_auxtrace' : IsEntry(tid_auxtrace'[u])
  BY DEF IInv, WithEntry

\* A part of the processor trace leaves the image alone.
LEMMA AuxtraceKeeps ==
  ASSUME IInv, NEW r \in Records, ReadAuxtrace(r)
  PROVE  /\ UNCHANGED kernel_image
         /\ tid_auxtrace' = [u \in DOMAIN tid_auxtrace' |-> tid_auxtrace'[u]]
         /\ \A u \in DOMAIN tid_auxtrace' : IsEntry(tid_auxtrace'[u])
  <1> DEFINE aux == Entry(r.tid)
  <1>1. IsEntry(aux)
    BY EntryType
  <1> HIDE DEF aux
  <1>2. IsEntry(AddPart(aux, r))
    <2> DEFINE index == r.index
               data == Append(aux.data, r)
               offset == Expected(aux, r.index) + r.len
    <2>1. AddPart(aux, r) = [aux EXCEPT !.cur_index = index, !.data = data, !.cur_offset = offset]
      BY DEF AddPart
    <2> HIDE DEF index, data, offset
    <2>2. AddPart(aux, r) = [data |-> data, cur_index |-> index, cur_offset |-> offset,
                             image |-> aux.image]
      BY <1>1, <2>1 DEF IsEntry
    <2>. QED
      BY <1>1, <2>2 DEF IsEntry
  <1>3. \/ UNCHANGED tid_auxtrace
        \/ tid_auxtrace' = WithEntry(r.tid, AddPart(aux, r))
    BY DEF ReadAuxtrace, aux
  <1>4. UNCHANGED kernel_image
    BY DEF ReadAuxtrace
  <1>. QED
    BY <1>2, <1>3, <1>4, WithEntryKeeps DEF IInv

\* A mapping that is recorded goes into one image, and only if it fits.
LEMMA Mmap2Keeps ==
  ASSUME IInv, NEW r \in Records, ReadMmap2(r)
  PROVE  /\ IsImage(kernel_image')
         /\ tid_auxtrace' = [u \in DOMAIN tid_auxtrace' |-> tid_auxtrace'[u]]
         /\ \A u \in DOMAIN tid_auxtrace' : IsEntry(tid_auxtrace'[u])
  <1> DEFINE aux == Entry(r.tid)
             new == [aux EXCEPT !.image = Inserted(aux.image, r.mapping)]
  <1>1. r.mapping \in Mapping
    BY RecordsAssumption DEF ReadMmap2
  <1>2. CASE UNCHANGED <<tid_auxtrace, kernel_image>>
    BY <1>2 DEF IInv
  <1>3. CASE /\ r.pid > 0 /\ Fits(aux.image, r.mapping)
             /\ tid_auxtrace' = WithEntry(r.tid, new) /\ UNCHANGED kernel_image
    <2>1. IsEntry(aux)
      BY EntryType
    <2> HIDE DEF aux
    <2>2. IsImage(Inserted(aux.image, r.mapping))
      BY <1>1, <1>3, <2>1, InsertedIsImage DEF IsEntry
    <2>3. IsEntry(new)
      BY <2>1, <2>2 DEF IsEntry
    <2> HIDE DEF new
    <2>. QED
      BY <1>3, <2>3, WithEntryKeeps DEF IInv
  <1>4. CASE /\ ~(r.pid > 0) /\ Fits(kernel_image, r.mapping)
             /\ kernel_image' = Inserted(kernel_image, r.mapping) /\ UNCHANGED tid_auxtrace
    BY <1>1, <1>4, InsertedIsImage DEF IInv
  <1>. QED
    BY <1>2, <1>3, <1>4 DEF ReadMmap2

\* A mapping is copied to one image, or ignored.
LEMMA CopyKeeps ==
  ASSUME IInv, CopyMapping, UNCHANGED mappings
  PROVE  IInv'
  <1>1. /\ copying.from \in Seq(Mapping) /\ copying.from # <<>>
        /\ Head(copying.from) \in Mapping /\ Tail(copying.from) \in Seq(Mapping)
    BY DEF IInv, CopyMapping, NotCopying
  <1>2. copying' = [to |-> copying'.to, from |-> copying'.from] /\ copying'.from \in Seq(Mapping)
    BY <1>1 DEF IInv, CopyMapping, NothingToCopy
  <1> DEFINE t == copying.to
             old == tid_auxtrace[t]
             new == [old EXCEPT !.image = WithMapping(old.image, Head(copying.from))]
  <1>3. tid_auxtrace' = [tid_auxtrace EXCEPT ![t] = new]
    BY DEF CopyMapping
  <1>4. t \in DOMAIN tid_auxtrace => IsEntry(new)
    <2> SUFFICES ASSUME t \in DOMAIN tid_auxtrace
                 PROVE  IsEntry(new)
      OBVIOUS
    <2>1. IsEntry(old)
      BY DEF IInv
    <2> HIDE DEF old
    <2>2. IsImage(WithMapping(old.image, Head(copying.from)))
      BY <1>1, <2>1, WithMappingIsImage DEF IsEntry
    <2>. QED
      BY <2>1, <2>2 DEF IsEntry
  <1> HIDE DEF t, new
  <1>5. /\ tid_auxtrace' = [u \in DOMAIN tid_auxtrace' |-> tid_auxtrace'[u]]
        /\ \A u \in DOMAIN tid_auxtrace' : IsEntry(tid_auxtrace'[u])
    BY <1>3, <1>4 DEF IInv
  <1>6. UNCHANGED <<kernel_image>>
    BY DEF CopyMapping
  <1>. QED
    BY <1>2, <1>5, <1>6 DEF IInv

\* A record of any type, or the end of the file.
LEMMA RecordKeeps ==
  ASSUME IInv, ReadRecord, UNCHANGED mappings
  PROVE  IInv'
  <1>1. PICK r \in Records : ReadAuxtrace(r) \/ ReadAuxtraceInfo(r) \/ ReadMmap2(r) \/ ReadComm(r)
    BY DEF ReadRecord
  <1>2. UNCHANGED copying
    BY DEF ReadRecord
  <1>3. CASE ReadAuxtrace(r)
    BY <1>2, <1>3, AuxtraceKeeps DEF IInv
  <1>4. CASE ReadMmap2(r)
    BY <1>2, <1>4, Mmap2Keeps DEF IInv
  <1>5. CASE ReadAuxtraceInfo(r) \/ ReadComm(r)
    <2>1. UNCHANGED <<tid_auxtrace, kernel_image>>
      BY <1>5 DEF ReadAuxtraceInfo, ReadComm
    <2>. QED
      BY <1>2, <2>1 DEF IInv
  <1>. QED
    BY <1>1, <1>3, <1>4, <1>5

\* The loops over the threads choose what to copy; it is a list of mappings.
LEMMA InheritKeeps ==
  ASSUME IInv, NEW t, InheritNext(t) \/ KernelNext(t), UNCHANGED mappings
  PROVE  IInv'
  <1>1. UNCHANGED <<tid_auxtrace, kernel_image>>
    BY DEF InheritNext, KernelNext
  <1>2. \/ UNCHANGED copying
        \/ copying' = [to |-> t, from |-> kernel_image]
        \/ /\ tid_to_parent[t] \in DOMAIN tid_auxtrace
           /\ copying' = [to |-> t, from |-> tid_auxtrace[tid_to_parent[t]].image]
    BY DEF InheritNext, KernelNext, Inheritance
  <1>3. \A u \in DOMAIN tid_auxtrace : tid_auxtrace[u].image \in Seq(Mapping)
    BY DEF IInv, IsEntry, IsImage
  <1>4. kernel_image \in Seq(Mapping)
    BY DEF IInv, IsImage
  <1>5. copying' = [to |-> copying'.to, from |-> copying'.from] /\ copying'.from \in Seq(Mapping)
    BY <1>2, <1>3, <1>4 DEF IInv
  <1>. QED
    BY <1>1, <1>5 DEF IInv

\* The image that is decoded with is one of those that were put together.
LEMMA StartKeeps ==
  ASSUME IInv, NEW t \in Tid, StartDecoding(t)
  PROVE  IInv'
  <1>1. /\ mappings' = tid_auxtrace[t].image /\ t \in DOMAIN tid_auxtrace
        /\ tid_auxtrace' = <<>> /\ kernel_image' = <<>> /\ copying' = NothingToCopy
    BY DEF StartDecoding, Traced
  <1>2. DOMAIN tid_auxtrace' = {} /\ tid_auxtrace' = [u \in DOMAIN tid_auxtrace' |-> tid_auxtrace'[u]]
    BY <1>1
  <1>3. copying' = [to |-> copying'.to, from |-> copying'.from] /\ copying'.from \in Seq(Mapping)
    BY <1>1 DEF NothingToCopy
  <1>4. IsImage(mappings')
    BY <1>1 DEF IInv, IsEntry
  <1>. QED
    BY <1>1, <1>2, <1>3, <1>4, EmptyIsImage DEF IInv

\* Decoding only looks mappings up.
LEMMA DecodeKeeps ==
  ASSUME IInv, Decode
  PROVE  IInv'
  <1>1. UNCHANGED <<tid_auxtrace, kernel_image, copying>>
    BY DEF Decode, parseVars
  <1>2. UNCHANGED mappings
    BY DEF Decode, ImageNext, BeginRead, ResolveFromCache, ResolveFresh, ResolveFails,
           ReadMapping, EndRead
  <1>. QED
    BY <1>1, <1>2 DEF IInv

LEMMA NextKeeps == IInv /\ [Next]_vars => IInv'
  <1> SUFFICES ASSUME IInv, [Next]_vars PROVE IInv'
    OBVIOUS
  <1>1. CASE ParseNext /\ UNCHANGED imageVars
    <2>1. UNCHANGED mappings
      BY <1>1 DEF imageVars
    <2>2. CASE ReadRecord
      BY <2>1, <2>2, RecordKeeps
    <2>3. CASE \E t \in Tid : InheritNext(t) \/ KernelNext(t)
      BY <2>1, <2>3, InheritKeeps
    <2>4. CASE CopyMapping
      BY <2>1, <2>4, CopyKeeps
    <2>5. CASE ReadHeader \/ ReadRecordFails \/ EndOfFile \/ EndInherit \/ EndParse
      <3>1. UNCHANGED <<tid_auxtrace, kernel_image, copying>>
        BY <2>5 DEF ReadHeader, ReadRecordFails, EndOfFile, EndInherit, EndParse
      <3>. QED
        BY <2>1, <3>1 DEF IInv
    <2>. QED
      BY <1>1, <2>2, <2>3, <2>4, <2>5 DEF ParseNext
  <1>2. CASE \E t \in Tid : StartDecoding(t)
    BY <1>2, StartKeeps
  <1>3. CASE Decode
    BY <1>3, DecodeKeeps
  <1>4. CASE UNCHANGED vars
    BY <1>4 DEF vars, parseVars, imageVars, IInv
  <1>. QED
    BY <1>1, <1>2, <1>3, <1>4 DEF Next

LEMMA Invariance == Spec => []IInv
  BY InitEstablishes, NextKeeps, PTL DEF Spec

\* Every list of mappings, of any recording, is fit for bisection at any time:
\* a look-up finds the mapping that covers the address, if there is one.
THEOREM ImagesAlwaysExact == Spec => []ImagesExact
  <1>1. IInv => ImagesExact
    BY ImageIsExact, AddressAssumption DEF IInv, IsEntry, ImagesExact
  <1>. QED
    BY <1>1, Invariance, PTL
-----------------------------------------------------------------------------
(***************************************************************************)
(* Part 2.  What is in an image, while records are read, while threads     *)
(* inherit from their processes and while the kernel is added.             *)
(***************************************************************************)

Image(t) == ToSet(Entry(t).image)

\* a mapping that is still to be copied to t
Pending(t, m) == copying.to = t /\ m \in ToSet(copying.from)

\* the thread has the mapping, or has something of its own in its place
Served(t, m, own) == m \in Image(t) \/ Displaced(m, own)

ThreadsKnown ==
  /\ DOMAIN tid_auxtrace \subseteq Tid
  /\ tid_to_parent \in [Tid -> Tid \cup {0}]
  /\ \A t \in Tid : tid_to_parent[t] # t
  /\ log \in Seq(Records)

\* while records are read, each image has what was recorded for it
WhileReading ==
  stage \in {"header", "records"} =>
    /\ NotCopying
    /\ ToSet(kernel_image) = KernelMappings
    /\ \A t \in Tid : Image(t) = OwnMappings(t)

\* from then on it keeps that
AfterReading ==
  stage \in {"inherit", "kernel", "parsed"} =>
    /\ ToSet(kernel_image) = KernelMappings
    /\ \A t \in Tid : OwnMappings(t) \subseteq Image(t)

\* a thread that was not visited has inherited nothing; one that was, all but what
\* was displaced or is on its way, which is what the image of its process has
WhileInheriting ==
  stage = "inherit" =>
    /\ todo \subseteq DOMAIN tid_auxtrace
    /\ \A t \in todo : Image(t) = OwnMappings(t)
    /\ \A t \in Tid : \A family \in Family(t) :
         Image(t) \subseteq UNION {OwnMappings(u) : u \in family}
    /\ \A t \in DOMAIN tid_auxtrace \ todo : \A m \in ProcessMappings(t) :
         Served(t, m, OwnMappings(t)) \/ Pending(t, m)
    /\ ~NotCopying =>
         \E t \in DOMAIN tid_auxtrace \ todo, p \in DOMAIN tid_auxtrace :
           /\ copying.to = t /\ tid_to_parent[t] = p
           /\ ToSet(copying.from) \subseteq Image(p)
           /\ Image(t) \subseteq OwnMappings(t) \cup Image(p)

WhileAddingKernel ==
  stage \in {"kernel", "parsed"} =>
    /\ todo \subseteq Traced
    /\ \A t \in Tid : \A family \in Family(t) :
         Image(t) \subseteq KernelMappings \cup UNION {OwnMappings(u) : u \in family}
    /\ \A t \in DOMAIN tid_auxtrace : \A m \in ProcessMappings(t) :
         Served(t, m, OwnMappings(t))
    /\ \A t \in Traced \ todo : \A m \in KernelMappings :
         Served(t, m, Image(t) \ KernelMappings) \/ Pending(t, m)
    /\ ~NotCopying => /\ copying.to \in Traced \ todo
                      /\ ToSet(copying.from) \subseteq KernelMappings
    /\ stage = "parsed" => NotCopying /\ todo = {}

SInv == ThreadsKnown /\ WhileReading /\ AfterReading /\ WhileInheriting /\ WhileAddingKernel

-----------------------------------------------------------------------------
(***************************************************************************)
(* Lists as sets.                                                          *)
(***************************************************************************)

LEMMA EmptySet == ToSet(<<>>) = {}
  BY DEF ToSet

\* Appending adds an element.
LEMMA AppendSet ==
  ASSUME NEW S, NEW s \in Seq(S), NEW c \in S
  PROVE  ToSet(Append(s, c)) = ToSet(s) \cup {c}
  <1>1. /\ DOMAIN s = 1 .. Len(s) /\ Len(s) \in Nat
        /\ DOMAIN Append(s, c) = 1 .. Len(s) + 1
        /\ \A i \in 1 .. Len(s) : Append(s, c)[i] = s[i]
        /\ Append(s, c)[Len(s) + 1] = c
    OBVIOUS
  <1>2. \A i : i \in 1 .. Len(s) + 1 <=> i \in 1 .. Len(s) \/ i = Len(s) + 1
    BY <1>1
  <1>. QED
    BY <1>1, <1>2 DEF ToSet

\* A list is its head and its tail.
LEMMA HeadTailSet ==
  ASSUME NEW S, NEW s \in Seq(S), s # <<>>
  PROVE  ToSet(s) = {Head(s)} \cup ToSet(Tail(s))
  <1>1. /\ DOMAIN s = 1 .. Len(s) /\ Len(s) \in Nat /\ Len(s) >= 1
        /\ DOMAIN Tail(s) = 1 .. Len(s) - 1
        /\ \A i \in 1 .. Len(s) - 1 : Tail(s)[i] = s[i + 1]
        /\ Head(s) = s[1]
    BY HeadTailProperties
  <1>2. /\ \A i \in 1 .. Len(s) : i = 1 \/ (i - 1 \in 1 .. Len(s) - 1 /\ i - 1 + 1 = i)
        /\ \A i \in 1 .. Len(s) - 1 : i + 1 \in 1 .. Len(s)
        /\ 1 \in 1 .. Len(s)
    BY <1>1
  <1>3. ASSUME NEW m \in ToSet(s) PROVE m = Head(s) \/ m \in ToSet(Tail(s))
    <2>1. PICK i \in 1 .. Len(s) : m = s[i]
      BY <1>1 DEF ToSet
    <2>2. CASE i # 1
      <3> DEFINE j == i - 1
      <3>1. j \in 1 .. Len(s) - 1 /\ j + 1 = i
        BY <1>2, <2>2
      <3> HIDE DEF j
      <3>2. Tail(s)[j] = m
        BY <1>1, <2>1, <3>1
      <3>. QED
        BY <1>1, <3>1, <3>2 DEF ToSet
    <2>. QED
      BY <1>1, <2>1, <2>2
  <1>4. ASSUME NEW m \in ToSet(Tail(s)) PROVE m \in ToSet(s)
    <2>1. PICK i \in 1 .. Len(s) - 1 : m = Tail(s)[i]
      BY <1>1 DEF ToSet
    <2>. QED
      BY <1>1, <1>2, <2>1 DEF ToSet
  <1>5. Head(s) \in ToSet(s)
    BY <1>1, <1>2 DEF ToSet
  <1>. QED
    BY <1>3, <1>4, <1>5

\* add_mapping adds a mapping and keeps the others.
LEMMA InsertedSet ==
  ASSUME NEW maps, IsImage(maps), NEW m \in Mapping
  PROVE  ToSet(Inserted(maps, m)) = ToSet(maps) \cup {m}
  <1> DEFINE n == Len(maps)
             p == Position(maps, m)
             new == Inserted(maps, m)
  <1>1. n \in Nat /\ DOMAIN maps = 1 .. n /\ maps \in Seq(Mapping)
    BY DEF IsImage
  <1>2. p \in 0 .. n
    BY PositionSplits
  <1>3. new \in Seq(Mapping) /\ Inserts(new, maps, p + 1, m)
    <2>1. p + 1 \in 1 .. Len(maps) + 1
      BY <1>1, <1>2
    <2> HIDE DEF p
    <2>2. new = InsertAt(maps, p + 1, m)
      BY DEF Inserted, p
    <2>. QED
      BY <1>1, <2>1, <2>2, InsertAtIsSeq
  <1> HIDE DEF n, p, new
  <1>4. /\ DOMAIN new = 1 .. n + 1
        /\ \A j \in 1 .. n + 1 : new[j] = IF j < p + 1 THEN maps[j]
                                          ELSE IF j = p + 1 THEN m ELSE maps[j - 1]
    BY <1>1, <1>3 DEF Inserts, n
  <1>5. ASSUME NEW k \in ToSet(new)
        PROVE  k \in ToSet(maps) \cup {m}
    <2>1. PICK j \in 1 .. n + 1 : k = new[j]
      BY <1>4 DEF ToSet
    <2>2. j < p + 1 => j \in 1 .. n
      BY <1>1, <1>2
    <2>3. ~(j < p + 1) /\ j # p + 1 => j - 1 \in 1 .. n
      BY <1>1, <1>2
    <2>. QED
      BY <1>1, <1>4, <2>1, <2>2, <2>3 DEF ToSet
  <1>6. ASSUME NEW k \in ToSet(maps)
        PROVE  k \in ToSet(new)
    <2>1. PICK i \in 1 .. n : k = maps[i]
      BY <1>1 DEF ToSet
    <2>2. CASE i < p + 1
      <3>1. i \in 1 .. n + 1 /\ new[i] = maps[i]
        BY <1>1, <1>4, <2>2
      <3>. QED
        BY <1>4, <2>1, <3>1 DEF ToSet
    <2>3. CASE ~(i < p + 1)
      <3>1. i + 1 \in 1 .. n + 1 /\ new[i + 1] = maps[i]
        <4>1. i + 1 \in 1 .. n + 1 /\ ~(i + 1 < p + 1) /\ i + 1 # p + 1 /\ i + 1 - 1 = i
          BY <1>1, <1>2, <2>3
        <4>. QED
          BY <1>4, <4>1
      <3>. QED
        BY <1>4, <2>1, <3>1 DEF ToSet
    <2>. QED
      BY <2>2, <2>3
  <1>7. m \in ToSet(new)
    <2>1. p + 1 \in 1 .. n + 1 /\ ~(p + 1 < p + 1)
      BY <1>1, <1>2
    <2>. QED
      BY <1>4, <2>1 DEF ToSet
  <1>8. ToSet(new) = ToSet(maps) \cup {m}
    BY <1>5, <1>6, <1>7
  <1>. QED
    BY <1>8 DEF new

\* Mappings of one image do not overlap.
LEMMA ImageDisjoint ==
  ASSUME NEW maps, IsImage(maps), NEW m \in ToSet(maps), NEW n \in ToSet(maps), Overlaps(m, n)
  PROVE  m = n
  <1>1. PICK i, j \in 1 .. Len(maps) : m = maps[i] /\ n = maps[j]
    BY DEF ToSet, IsImage
  <1>2. /\ DOMAIN maps = 1 .. Len(maps) /\ m \in Mapping /\ n \in Mapping
    BY <1>1, ElementOfSeq DEF IsImage
  <1>3. i < j => VaddrEnd(m) <= n.vaddr
    BY <1>1, <1>2 DEF IsImage, SortedDisjoint
  <1>4. j < i => VaddrEnd(n) <= m.vaddr
    BY <1>1, <1>2 DEF IsImage, SortedDisjoint
  <1>5. i = j
    BY <1>2, <1>3, <1>4, MappingType DEF Overlaps
  <1>. QED
    BY <1>1, <1>5

\* copy_mappings adds a mapping unless one that is there overlaps it.
LEMMA WithMappingSet ==
  ASSUME NEW maps, IsImage(maps), NEW m \in Mapping
  PROVE  /\ ToSet(maps) \subseteq ToSet(WithMapping(maps, m))
         /\ ToSet(WithMapping(maps, m)) \subseteq ToSet(maps) \cup {m}
         /\ m \in ToSet(WithMapping(maps, m)) \/ \E n \in ToSet(maps) : Overlaps(m, n)
  <1>1. CASE Fits(maps, m)
    BY <1>1, InsertedSet DEF WithMapping
  <1>2. CASE ~Fits(maps, m)
    <2>1. PICK i \in DOMAIN maps : Overlaps(maps[i], m)
      BY <1>2 DEF Fits
    <2>2. Overlaps(m, maps[i]) /\ maps[i] \in ToSet(maps)
      BY <2>1 DEF Overlaps, ToSet
    <2>. QED
      BY <1>2, <2>2 DEF WithMapping
  <1>. QED
    BY <1>1, <1>2
-----------------------------------------------------------------------------
(***************************************************************************)
(* Reading records.                                                        *)
(***************************************************************************)

\* The entries of threads after one was added or replaced.
LEMMA EntryAfter ==
  ASSUME NEW t, NEW aux, tid_auxtrace' = WithEntry(t, aux)
  PROVE  /\ DOMAIN tid_auxtrace' = DOMAIN tid_auxtrace \cup {t}
         /\ \A u : Entry(u)' = IF u = t THEN aux ELSE Entry(u)
  BY DEF WithEntry, Entry

\* What a record adds to the mappings of a thread or of the kernel.
LEMMA RecordedAfter ==
  ASSUME log \in Seq(Records), NEW r \in Records, log' = Append(log, r)
  PROVE  /\ \A t : OwnMappings(t)' =
               IF r.type = "mmap2" /\ r.pid > 0 /\ r.tid = t
               THEN OwnMappings(t) \cup {r.mapping} ELSE OwnMappings(t)
         /\ KernelMappings' = IF r.type = "mmap2" /\ ~(r.pid > 0)
                              THEN KernelMappings \cup {r.mapping} ELSE KernelMappings
  <1>1. ToSet(log)' = ToSet(log) \cup {r}
    BY AppendSet
  <1> DEFINE all == ToSet(log)
             Own(q, t) == q.type = "mmap2" /\ q.pid > 0 /\ q.tid = t
             Global(q) == q.type = "mmap2" /\ ~(q.pid > 0)
  <1>2. \A t : OwnMappings(t) = {q.mapping : q \in {x \in all : Own(x, t)}}
    BY DEF OwnMappings
  <1>3. \A t : OwnMappings(t)' = {q.mapping : q \in {x \in all \cup {r} : Own(x, t)}}
    BY <1>1 DEF OwnMappings
  <1>4. KernelMappings = {q.mapping : q \in {x \in all : Global(x)}}
    BY DEF KernelMappings
  <1>5. KernelMappings' = {q.mapping : q \in {x \in all \cup {r} : Global(x)}}
    BY <1>1 DEF KernelMappings
  <1> HIDE DEF all, Own, Global
  <1>6. \A t : OwnMappings(t)' = IF Own(r, t) THEN OwnMappings(t) \cup {r.mapping}
                                 ELSE OwnMappings(t)
    BY <1>2, <1>3
  <1>7. KernelMappings' = IF Global(r) THEN KernelMappings \cup {r.mapping} ELSE KernelMappings
    BY <1>4, <1>5
  <1>. QED
    BY <1>6, <1>7 DEF Own, Global

\* A part of the data leaves every image alone.
LEMMA AuxtraceServes ==
  ASSUME IInv, SInv, stage = "records", NEW r \in Records, ReadAuxtrace(r), log' = Append(log, r),
         stage' # "failed"
  PROVE  /\ DOMAIN tid_auxtrace' \subseteq Tid
         /\ ToSet(kernel_image)' = KernelMappings'
         /\ \A t \in Tid : Image(t)' = OwnMappings(t)'
  <1>1. /\ r.type = "auxtrace" /\ UNCHANGED kernel_image
        /\ tid_auxtrace' = WithEntry(r.tid, AddPart(Entry(r.tid), r))
    BY DEF ReadAuxtrace, Fail
  <1>2. r.tid \in Tid
    BY <1>1, RecordsAssumption
  <1>3. AddPart(Entry(r.tid), r).image = Entry(r.tid).image
    <2> DEFINE aux == Entry(r.tid)
               index == r.index
               data == Append(aux.data, r)
               offset == Expected(aux, r.index) + r.len
    <2>1. IsEntry(aux)
      BY EntryType
    <2>2. AddPart(aux, r) = [aux EXCEPT !.cur_index = index, !.data = data, !.cur_offset = offset]
      BY DEF AddPart
    <2> HIDE DEF aux, index, data, offset
    <2>3. AddPart(aux, r).image = aux.image
      BY <2>1, <2>2 DEF IsEntry
    <2>. QED
      BY <2>3 DEF aux
  <1>4. \A t : Entry(t)'.image = Entry(t).image
    BY <1>1, <1>3, EntryAfter
  <1>5. /\ \A t : OwnMappings(t)' = OwnMappings(t)
        /\ KernelMappings' = KernelMappings
    BY <1>1, RecordedAfter DEF SInv, ThreadsKnown
  <1>6. DOMAIN tid_auxtrace' \subseteq Tid
    <2>1. DOMAIN tid_auxtrace' = DOMAIN tid_auxtrace \cup {r.tid}
      BY <1>1, EntryAfter
    <2>. QED
      BY <1>2, <2>1 DEF SInv, ThreadsKnown
  <1>. QED
    BY <1>1, <1>4, <1>5, <1>6 DEF SInv, WhileReading, Image

\* A mapping goes to the image it was recorded for.
LEMMA Mmap2Serves ==
  ASSUME IInv, SInv, stage = "records", NEW r \in Records, ReadMmap2(r), log' = Append(log, r),
         stage' # "failed"
  PROVE  /\ DOMAIN tid_auxtrace' \subseteq Tid
         /\ ToSet(kernel_image)' = KernelMappings'
         /\ \A t \in Tid : Image(t)' = OwnMappings(t)'
  <1>1. r.type = "mmap2" /\ r.mapping \in Mapping /\ (r.pid > 0 => r.tid \in Tid)
    BY RecordsAssumption DEF ReadMmap2
  <1>2. /\ \A t : OwnMappings(t)' = IF r.pid > 0 /\ r.tid = t
                                    THEN OwnMappings(t) \cup {r.mapping} ELSE OwnMappings(t)
        /\ KernelMappings' = IF ~(r.pid > 0) THEN KernelMappings \cup {r.mapping}
                             ELSE KernelMappings
    BY <1>1, RecordedAfter DEF SInv, ThreadsKnown
  <1>3. /\ ToSet(kernel_image) = KernelMappings
        /\ \A t \in Tid : Image(t) = OwnMappings(t)
        /\ DOMAIN tid_auxtrace \subseteq Tid
    BY DEF SInv, WhileReading, ThreadsKnown
  <1>4. CASE r.pid > 0
    <2> DEFINE aux == Entry(r.tid)
               new == [aux EXCEPT !.image = Inserted(aux.image, r.mapping)]
    <2>1. tid_auxtrace' = WithEntry(r.tid, new) /\ UNCHANGED kernel_image
      BY <1>4 DEF ReadMmap2, Fail
    <2>2. IsEntry(aux)
      BY EntryType
    <2> HIDE DEF aux
    <2>3. new.image = Inserted(aux.image, r.mapping)
      BY <2>2 DEF IsEntry
    <2>4. ToSet(new.image) = ToSet(aux.image) \cup {r.mapping}
      BY <1>1, <2>2, <2>3, InsertedSet DEF IsEntry
    <2> HIDE DEF new
    <2>5. \A t : Image(t)' = IF t = r.tid THEN Image(t) \cup {r.mapping} ELSE Image(t)
      BY <2>1, <2>4, EntryAfter DEF Image, aux
    <2>6. DOMAIN tid_auxtrace' \subseteq Tid
      BY <1>1, <1>3, <1>4, <2>1, EntryAfter
    <2>. QED
      BY <1>2, <1>3, <1>4, <2>1, <2>5, <2>6
  <1>5. CASE ~(r.pid > 0)
    <2>1. kernel_image' = Inserted(kernel_image, r.mapping) /\ UNCHANGED tid_auxtrace
      BY <1>5 DEF ReadMmap2, Fail
    <2>2. ToSet(kernel_image') = ToSet(kernel_image) \cup {r.mapping}
      BY <1>1, <2>1, InsertedSet DEF IInv
    <2>3. \A t : Image(t)' = Image(t)
      BY <2>1 DEF Image, Entry
    <2>. QED
      BY <1>2, <1>3, <1>5, <2>1, <2>2, <2>3
  <1>. QED
    BY <1>4, <1>5

\* A record of any type.
LEMMA RecordServes ==
  ASSUME IInv, SInv, ReadRecord
  PROVE  SInv'
  <1>1. PICK r \in Records : /\ log' = Append(log, r)
                             /\ ReadAuxtrace(r) \/ ReadAuxtraceInfo(r) \/ ReadMmap2(r) \/ ReadComm(r)
    BY DEF ReadRecord
  <1>2. stage = "records" /\ UNCHANGED copying
    BY DEF ReadRecord
  <1>3. stage' \in {"records", "failed"}
    BY <1>1, <1>2 DEF ReadAuxtrace, ReadAuxtraceInfo, ReadMmap2, ReadComm, Fail
  <1>4. log' \in Seq(Records)
    BY <1>1 DEF SInv, ThreadsKnown
  <1>5. /\ tid_to_parent' \in [Tid -> Tid \cup {0}]
        /\ \A t \in Tid : tid_to_parent'[t] # t
    <2>1. tid_to_parent \in [Tid -> Tid \cup {0}] /\ \A t \in Tid : tid_to_parent[t] # t
      BY DEF SInv, ThreadsKnown
    <2>2. CASE UNCHANGED tid_to_parent
      BY <2>1, <2>2
    <2>3. CASE /\ r.type = "comm" /\ r.pid > 0 /\ r.tid > 0 /\ r.pid # r.tid
               /\ tid_to_parent' = [tid_to_parent EXCEPT ![r.tid] = r.pid]
      BY <2>1, <2>3, RecordsAssumption
    <2>. QED
      BY <1>1, <2>2, <2>3 DEF ReadAuxtrace, ReadAuxtraceInfo, ReadMmap2, ReadComm
  <1>6. /\ DOMAIN tid_auxtrace' \subseteq Tid
        /\ stage' # "failed" =>
             /\ ToSet(kernel_image)' = KernelMappings'
             /\ \A t \in Tid : Image(t)' = OwnMappings(t)'
    <2>1. CASE stage' = "failed"
      <3>1. UNCHANGED tid_auxtrace
        BY <1>1, <1>2, <2>1 DEF ReadAuxtrace, ReadAuxtraceInfo, ReadMmap2, ReadComm
      <3>. QED
        BY <2>1, <3>1 DEF SInv, ThreadsKnown
    <2>2. CASE stage' # "failed" /\ ReadAuxtrace(r)
      BY <1>1, <1>2, <2>2, AuxtraceServes
    <2>3. CASE stage' # "failed" /\ ReadMmap2(r)
      BY <1>1, <1>2, <2>3, Mmap2Serves
    <2>4. CASE stage' # "failed" /\ (ReadAuxtraceInfo(r) \/ ReadComm(r))
      <3>1. /\ UNCHANGED <<tid_auxtrace, kernel_image>> /\ r.type \in {"info", "comm"}
        BY <2>4 DEF ReadAuxtraceInfo, ReadComm
      <3>2. /\ \A t : OwnMappings(t)' = OwnMappings(t)
            /\ KernelMappings' = KernelMappings
        BY <1>1, <3>1, RecordedAfter DEF SInv, ThreadsKnown
      <3>3. \A t : Image(t)' = Image(t)
        BY <3>1 DEF Image, Entry
      <3>. QED
        BY <1>2, <3>1, <3>2, <3>3 DEF SInv, WhileReading, ThreadsKnown
    <2>. QED
      BY <1>1, <2>1, <2>2, <2>3, <2>4
  <1>7. NotCopying'
    BY <1>2 DEF SInv, WhileReading, NotCopying
  <1>8. ThreadsKnown'
    BY <1>4, <1>5, <1>6 DEF ThreadsKnown
  <1>9. WhileReading'
    BY <1>3, <1>6, <1>7 DEF WhileReading
  <1>. QED
    BY <1>3, <1>8, <1>9 DEF SInv, AfterReading, WhileInheriting, WhileAddingKernel

-----------------------------------------------------------------------------
(***************************************************************************)
(* The two loops.                                                          *)
(***************************************************************************)

\* What was recorded, and who is whose process, does not change any more.
LEMMA SameRecording ==
  ASSUME UNCHANGED <<log, tid_to_parent>>
  PROVE  /\ KernelMappings' = KernelMappings
         /\ \A t : /\ OwnMappings(t)' = OwnMappings(t)
                  /\ ProcessMappings(t)' = ProcessMappings(t)
                  /\ Family(t)' = Family(t)
  BY DEF KernelMappings, OwnMappings, ProcessMappings, Family

LEMMA SameImages ==
  ASSUME UNCHANGED tid_auxtrace
  PROVE  Traced' = Traced /\ \A t : Image(t)' = Image(t)
  BY DEF Traced, Image, Entry

\* When nothing is copied nothing is on its way.
LEMMA NothingPending ==
  ASSUME NotCopying, NEW t, NEW m
  PROVE  ~Pending(t, m)
  BY EmptySet DEF NotCopying, Pending

\* A thread that was not met has no mappings.
LEMMA UnknownIsEmpty ==
  ASSUME NEW t, t \notin DOMAIN tid_auxtrace
  PROVE  Image(t) = {}
  BY EmptySet DEF Image, Entry, IncompleteAuxtrace

LEMMA EndOfFileServes ==
  ASSUME SInv, EndOfFile
  PROVE  SInv'
  <1>1. /\ stage = "records" /\ stage' \in {"inherit", "failed"}
        /\ stage' = "inherit" => todo' = DOMAIN tid_auxtrace
        /\ UNCHANGED <<log, tid_auxtrace, kernel_image, tid_to_parent, copying>>
    BY DEF EndOfFile, Fail
  <1>2. /\ KernelMappings' = KernelMappings
        /\ \A t : /\ OwnMappings(t)' = OwnMappings(t)
                 /\ Family(t)' = Family(t)
                 /\ Image(t)' = Image(t)
    BY <1>1, SameRecording, SameImages
  <1>3. /\ NotCopying /\ NotCopying'
        /\ ToSet(kernel_image) = KernelMappings
        /\ \A t \in Tid : Image(t) = OwnMappings(t)
    BY <1>1 DEF SInv, WhileReading, NotCopying
  <1>4. ThreadsKnown'
    BY <1>1 DEF SInv, ThreadsKnown
  <1>5. AfterReading'
    BY <1>1, <1>2, <1>3 DEF AfterReading
  <1>6. \A t \in Tid : \A family \in Family(t) :
          Image(t) \subseteq UNION {OwnMappings(u) : u \in family}
    BY <1>3 DEF Family
  <1>7. WhileInheriting'
    <2>1. DOMAIN tid_auxtrace' \subseteq Tid
      BY <1>4 DEF ThreadsKnown
    <2>. QED
      BY <1>1, <1>2, <1>3, <1>6, <2>1 DEF WhileInheriting
  <1>. QED
    BY <1>1, <1>4, <1>5, <1>7 DEF SInv, WhileReading, WhileAddingKernel

\* The mappings of a thread's process are on their way to it.
LEMMA InheritServes ==
  ASSUME IInv, SInv, NEW u \in Tid, InheritNext(u)
  PROVE  SInv'
  <1> PICK p : p = tid_to_parent[u]
    OBVIOUS
  <1>1. /\ stage = "inherit" /\ NotCopying /\ u \in todo /\ todo' = todo \ {u}
        /\ UNCHANGED <<stage, log, tid_auxtrace, kernel_image, tid_to_parent>>
        /\ p \notin DOMAIN tid_auxtrace => UNCHANGED copying
        /\ p \in DOMAIN tid_auxtrace => copying' = Inheritance(u, p)
    BY DEF InheritNext
  <1>2. /\ KernelMappings' = KernelMappings
        /\ \A t : /\ OwnMappings(t)' = OwnMappings(t)
                 /\ ProcessMappings(t)' = ProcessMappings(t)
                 /\ Family(t)' = Family(t)
                 /\ Image(t)' = Image(t)
    BY <1>1, SameRecording, SameImages
  <1>3. ThreadsKnown /\ ThreadsKnown'
    BY <1>1 DEF SInv, ThreadsKnown
  <1>4. AfterReading /\ AfterReading'
    BY <1>1, <1>2 DEF SInv, AfterReading
  <1>5. WhileInheriting
    BY DEF SInv
  <1>6. p \in DOMAIN tid_auxtrace =>
          /\ copying'.to = u
          /\ ToSet(copying'.from) = Image(p)
    BY <1>1 DEF Inheritance, Image, Entry
  <1>7. \A m \in ProcessMappings(u) : Pending(u, m)'
    <2>1. SUFFICES ASSUME NEW m \in ProcessMappings(u)
                   PROVE  Pending(u, m)'
      OBVIOUS
    <2>2. p \in Tid /\ m \in OwnMappings(p)
      BY <1>3, <2>1 DEF ProcessMappings, ThreadsKnown
    <2>3. m \in Image(p)
      BY <1>1, <1>4, <2>2 DEF AfterReading
    <2>4. p \in DOMAIN tid_auxtrace
      BY <2>3, UnknownIsEmpty
    <2>. QED
      BY <1>6, <2>3, <2>4 DEF Pending
  <1>8. \A t \in DOMAIN tid_auxtrace \ todo : \A m \in ProcessMappings(t) :
          Served(t, m, OwnMappings(t))
    BY <1>1, <1>5, NothingPending DEF WhileInheriting
  <1>9. \A t \in DOMAIN tid_auxtrace \ todo : \A m \in ProcessMappings(t) :
          Served(t, m, OwnMappings(t))'
    BY <1>2, <1>8 DEF Served
  <1>10. ~NotCopying' => p \in DOMAIN tid_auxtrace
    BY <1>1 DEF NotCopying
  <1>11. u \in DOMAIN tid_auxtrace /\ Image(u) = OwnMappings(u)
    BY <1>1, <1>5 DEF WhileInheriting
  <1>12. WhileInheriting'
    <2>1. /\ todo' \subseteq DOMAIN tid_auxtrace'
          /\ \A t \in todo' : Image(t)' = OwnMappings(t)'
          /\ \A t \in Tid : \A family \in Family(t)' :
               Image(t)' \subseteq UNION {OwnMappings(v)' : v \in family}
      BY <1>1, <1>2, <1>5 DEF WhileInheriting
    <2>2. \A t \in DOMAIN tid_auxtrace' \ todo' : \A m \in ProcessMappings(t)' :
            Served(t, m, OwnMappings(t))' \/ Pending(t, m)'
      <3>1. \A t \in DOMAIN tid_auxtrace' \ todo' :
              t = u \/ t \in DOMAIN tid_auxtrace \ todo
        BY <1>1
      <3>. QED
        BY <1>2, <1>7, <1>9, <3>1
    <2>3. ~NotCopying' =>
            \E t \in DOMAIN tid_auxtrace' \ todo', q \in DOMAIN tid_auxtrace' :
              /\ copying'.to = t /\ tid_to_parent'[t] = q
              /\ ToSet(copying'.from) \subseteq Image(q)'
              /\ Image(t)' \subseteq OwnMappings(t)' \cup Image(q)'
      <3> SUFFICES ASSUME ~NotCopying'
                   PROVE  /\ u \in DOMAIN tid_auxtrace' \ todo' /\ p \in DOMAIN tid_auxtrace'
                          /\ copying'.to = u /\ tid_to_parent'[u] = p
                          /\ ToSet(copying'.from) \subseteq Image(p)'
                          /\ Image(u)' \subseteq OwnMappings(u)' \cup Image(p)'
        OBVIOUS
      <3>. QED
        BY <1>1, <1>2, <1>6, <1>10, <1>11
    <2>. QED
      BY <2>1, <2>2, <2>3 DEF WhileInheriting
  <1>. QED
    BY <1>1, <1>3, <1>4, <1>12 DEF SInv, WhileReading, WhileAddingKernel

\* One mapping m, the next of those on their way to t, is added to its image unless
\* a mapping that is there overlaps it.
LEMMA CopyStep ==
  ASSUME IInv, CopyMapping, NEW t \in DOMAIN tid_auxtrace, copying.to = t
  PROVE  \E m \in ToSet(copying.from) :
           /\ \A u : u # t => Image(u)' = Image(u)
           /\ Image(t) \subseteq Image(t)'
           /\ Image(t)' \subseteq Image(t) \cup {m}
           /\ m \in Image(t)' \/ \E n \in Image(t) : Overlaps(m, n)
           /\ \A u, x : Pending(u, x) => Pending(u, x)' \/ (u = t /\ x = m)
           /\ ~NotCopying' => /\ copying'.to = t
                              /\ ToSet(copying'.from) \subseteq ToSet(copying.from)
           /\ DOMAIN tid_auxtrace' = DOMAIN tid_auxtrace
           /\ Traced' = Traced
  <1> PICK m : m = Head(copying.from)
    OBVIOUS
  <1> PICK rest : rest = Tail(copying.from)
    OBVIOUS
  <1> PICK old : old = tid_auxtrace[t]
    OBVIOUS
  <1> PICK image : image = WithMapping(old.image, m)
    OBVIOUS
  <1> DEFINE new == [old EXCEPT !.image = image]
  <1>1. /\ copying.from \in Seq(Mapping) /\ copying.from # <<>>
        /\ m \in Mapping /\ rest \in Seq(Mapping)
        /\ copying = [to |-> t, from |-> copying.from]
    BY DEF IInv, CopyMapping, NotCopying
  <1>2. ToSet(copying.from) = {m} \cup ToSet(rest)
    BY <1>1, HeadTailSet
  <1>3. IsEntry(old) /\ IsImage(old.image)
    BY DEF IInv, IsEntry
  <1>4. new.image = image /\ new.data = old.data
    BY <1>3 DEF IsEntry
  <1>5. tid_auxtrace' = [tid_auxtrace EXCEPT ![t] = new]
    BY DEF CopyMapping
  <1> HIDE DEF new
  <1>6. /\ DOMAIN tid_auxtrace' = DOMAIN tid_auxtrace
        /\ tid_auxtrace'[t] = new
        /\ \A u \in DOMAIN tid_auxtrace : u # t => tid_auxtrace'[u] = tid_auxtrace[u]
    BY <1>5 DEF IInv
  <1>7. Image(t) = ToSet(old.image) /\ Image(t)' = ToSet(image)
    BY <1>4, <1>6 DEF Image, Entry
  <1>8. \A u : u # t => Image(u)' = Image(u)
    BY <1>6 DEF Image, Entry
  <1>9. /\ Image(t) \subseteq Image(t)'
        /\ Image(t)' \subseteq Image(t) \cup {m}
        /\ m \in Image(t)' \/ \E n \in Image(t) : Overlaps(m, n)
    BY <1>1, <1>3, <1>7, WithMappingSet
  <1>10. Traced' = Traced
    <2>1. \A u \in DOMAIN tid_auxtrace : tid_auxtrace'[u].data = tid_auxtrace[u].data
      BY <1>4, <1>6
    <2>. QED
      BY <1>6, <2>1 DEF Traced
  <1>11. /\ ~NotCopying' => copying'.to = t /\ copying'.from = rest
         /\ NotCopying' => rest = <<>>
    <2>1. CASE Len(copying.from) = 1
      <3>1. rest = <<>>
        BY <1>1, <2>1, HeadTailProperties
      <3>. QED
        BY <2>1, <3>1 DEF CopyMapping, NothingToCopy, NotCopying
    <2>2. CASE Len(copying.from) # 1
      <3>1. copying' = [copying EXCEPT !.from = rest]
        BY <2>2 DEF CopyMapping
      <3>2. copying'.to = t /\ copying'.from = rest
        BY <1>1, <3>1
      <3>. QED
        BY <3>2 DEF NotCopying
    <2>. QED
      BY <2>1, <2>2
  <1>12. \A u, x : Pending(u, x) => Pending(u, x)' \/ (u = t /\ x = m)
    <2>1. NotCopying' => ToSet(rest) = {}
      BY <1>11, EmptySet
    <2>. QED
      BY <1>2, <1>11, <2>1 DEF Pending
  <1>13. m \in ToSet(copying.from) /\ ToSet(rest) \subseteq ToSet(copying.from)
    BY <1>2
  <1>. QED
    BY <1>6, <1>8, <1>9, <1>10, <1>11, <1>12, <1>13

\* A mapping that is copied to a thread from its process: it is added, or something of
\* the thread's own is in the way; what it has from its process is not.
LEMMA CopyInheritServes ==
  ASSUME IInv, SInv, CopyMapping, stage = "inherit"
  PROVE  SInv'
  <1>1. /\ stage = "inherit" /\ ~NotCopying
        /\ UNCHANGED <<stage, log, kernel_image, tid_to_parent, todo>>
    BY DEF CopyMapping
  <1>2. ThreadsKnown /\ AfterReading /\ WhileInheriting
    BY DEF SInv
  <1>3. PICK t \in DOMAIN tid_auxtrace \ todo, p \in DOMAIN tid_auxtrace :
          /\ copying.to = t /\ tid_to_parent[t] = p
          /\ ToSet(copying.from) \subseteq Image(p)
          /\ Image(t) \subseteq OwnMappings(t) \cup Image(p)
    BY <1>1, <1>2 DEF WhileInheriting
  <1>4. PICK m \in ToSet(copying.from) :
           /\ \A u : u # t => Image(u)' = Image(u)
           /\ Image(t) \subseteq Image(t)'
           /\ Image(t)' \subseteq Image(t) \cup {m}
           /\ m \in Image(t)' \/ \E n \in Image(t) : Overlaps(m, n)
           /\ \A u, x : Pending(u, x) => Pending(u, x)' \/ (u = t /\ x = m)
           /\ ~NotCopying' => /\ copying'.to = t
                              /\ ToSet(copying'.from) \subseteq ToSet(copying.from)
           /\ DOMAIN tid_auxtrace' = DOMAIN tid_auxtrace
           /\ Traced' = Traced
    BY <1>3, CopyStep
  <1>5. /\ KernelMappings' = KernelMappings
        /\ \A u : /\ OwnMappings(u)' = OwnMappings(u)
                 /\ ProcessMappings(u)' = ProcessMappings(u)
                 /\ Family(u)' = Family(u)
    BY <1>1, SameRecording
  <1>6. t \in Tid /\ p \in Tid /\ p # t /\ p # 0
    BY <1>2, <1>3, TidAssumption DEF ThreadsKnown
  <1>7. ThreadsKnown'
    BY <1>1, <1>2, <1>4 DEF ThreadsKnown
  <1>8. AfterReading'
    BY <1>1, <1>2, <1>4, <1>5 DEF AfterReading
  <1>9. m \in Image(p)
    BY <1>3, <1>4
  <1>10. \A u \in Tid : \A family \in Family(u) :
           Image(u)' \subseteq UNION {OwnMappings(v) : v \in family}
    <2> SUFFICES ASSUME NEW u \in Tid, NEW family \in Family(u), NEW x \in Image(u)'
                 PROVE  x \in UNION {OwnMappings(v) : v \in family}
      OBVIOUS
    <2>1. CASE x \in Image(u)
      BY <1>1, <1>2, <2>1 DEF WhileInheriting
    <2>2. CASE u = t /\ x = m
      <3>1. family \in Family(p)
        BY <1>3, <1>6, <2>2 DEF Family
      <3>. QED
        BY <1>1, <1>2, <1>6, <1>9, <2>2, <3>1 DEF WhileInheriting
    <2>. QED
      BY <1>4, <2>1, <2>2
  <1>11. \A u \in DOMAIN tid_auxtrace \ todo : \A x \in ProcessMappings(u) :
           Served(u, x, OwnMappings(u))' \/ Pending(u, x)'
    <2> SUFFICES ASSUME NEW u \in DOMAIN tid_auxtrace \ todo, NEW x \in ProcessMappings(u)
                 PROVE  Served(u, x, OwnMappings(u))' \/ Pending(u, x)'
      OBVIOUS
    <2>1. CASE x \in Image(u)
      BY <1>4, <2>1 DEF Served
    <2>2. CASE Displaced(x, OwnMappings(u))
      BY <1>5, <2>2 DEF Served, Displaced
    <2>3. CASE u = t /\ x = m
      <3>1. CASE \E n \in OwnMappings(t) : Overlaps(m, n)
        BY <1>5, <2>3, <3>1 DEF Served, Displaced
      <3>2. CASE \E n \in Image(t) : Overlaps(m, n) /\ n \in Image(p)
        <4>1. PICK n \in Image(t) : Overlaps(m, n) /\ n \in Image(p)
          BY <3>2
        <4>2. IsImage(Entry(p).image)
          BY <1>3 DEF IInv, IsEntry, Entry
        <4>3. m = n
          BY <1>9, <4>1, <4>2, ImageDisjoint DEF Image
        <4>. QED
          BY <1>4, <2>3, <4>1, <4>3 DEF Served
      <3>. QED
        BY <1>3, <1>4, <2>3, <3>1, <3>2 DEF Served
    <2>. QED
      BY <1>1, <1>2, <1>4, <2>1, <2>2, <2>3 DEF WhileInheriting, Served
  <1>12. ~NotCopying' => /\ copying'.to = t /\ ToSet(copying'.from) \subseteq Image(p)'
                         /\ Image(t)' \subseteq OwnMappings(t)' \cup Image(p)'
    BY <1>3, <1>4, <1>5, <1>6, <1>9
  <1>13. WhileInheriting'
    <2>1. \A u \in todo : Image(u)' = OwnMappings(u)'
      BY <1>1, <1>2, <1>3, <1>4, <1>5 DEF WhileInheriting
    <2>2. todo \subseteq DOMAIN tid_auxtrace
      BY <1>1, <1>2 DEF WhileInheriting
    <2>. QED
      BY <1>1, <1>3, <1>4, <1>5, <1>10, <1>11, <1>12, <2>1, <2>2 DEF WhileInheriting
  <1>. QED
    BY <1>1, <1>7, <1>8, <1>13 DEF SInv, WhileReading, WhileAddingKernel

\* A mapping of the kernel that is copied: it is added, or something else is in the way;
\* another mapping of the kernel is not.
LEMMA CopyKernelServes ==
  ASSUME IInv, SInv, CopyMapping, stage \in {"kernel", "parsed"}
  PROVE  SInv'
  <1>1. /\ stage \in {"kernel", "parsed"} /\ ~NotCopying
        /\ UNCHANGED <<stage, log, kernel_image, tid_to_parent, todo>>
    BY DEF CopyMapping
  <1>2. ThreadsKnown /\ AfterReading /\ WhileAddingKernel
    BY DEF SInv
  <1>3. PICK t \in Traced \ todo :
          copying.to = t /\ ToSet(copying.from) \subseteq KernelMappings
    BY <1>1, <1>2 DEF WhileAddingKernel
  <1>4. t \in DOMAIN tid_auxtrace
    BY DEF Traced
  <1>5. PICK m \in ToSet(copying.from) :
           /\ \A u : u # t => Image(u)' = Image(u)
           /\ Image(t) \subseteq Image(t)'
           /\ Image(t)' \subseteq Image(t) \cup {m}
           /\ m \in Image(t)' \/ \E n \in Image(t) : Overlaps(m, n)
           /\ \A u, x : Pending(u, x) => Pending(u, x)' \/ (u = t /\ x = m)
           /\ ~NotCopying' => /\ copying'.to = t
                              /\ ToSet(copying'.from) \subseteq ToSet(copying.from)
           /\ DOMAIN tid_auxtrace' = DOMAIN tid_auxtrace
           /\ Traced' = Traced
    BY <1>3, <1>4, CopyStep
  <1>6. /\ KernelMappings' = KernelMappings
        /\ \A u : /\ OwnMappings(u)' = OwnMappings(u)
                 /\ ProcessMappings(u)' = ProcessMappings(u)
                 /\ Family(u)' = Family(u)
    BY <1>1, SameRecording
  <1>7. ThreadsKnown'
    BY <1>1, <1>2, <1>5 DEF ThreadsKnown
  <1>8. AfterReading'
    BY <1>1, <1>2, <1>5, <1>6 DEF AfterReading
  <1>9. m \in KernelMappings /\ ToSet(kernel_image) = KernelMappings
    BY <1>1, <1>2, <1>3, <1>5 DEF AfterReading
  <1>10. \A u \in Tid : \A family \in Family(u) :
           Image(u)' \subseteq KernelMappings \cup UNION {OwnMappings(v) : v \in family}
    BY <1>1, <1>2, <1>5, <1>9 DEF WhileAddingKernel
  <1>11. \A u \in DOMAIN tid_auxtrace : \A x \in ProcessMappings(u) :
           Served(u, x, OwnMappings(u))'
    <2> SUFFICES ASSUME NEW u \in DOMAIN tid_auxtrace, NEW x \in ProcessMappings(u)
                 PROVE  Served(u, x, OwnMappings(u))'
      OBVIOUS
    <2>1. Served(u, x, OwnMappings(u))
      BY <1>1, <1>2 DEF WhileAddingKernel
    <2>. QED
      BY <1>5, <1>6, <2>1 DEF Served
  <1>12. \A u \in Traced \ todo : \A x \in KernelMappings :
           Served(u, x, Image(u) \ KernelMappings)' \/ Pending(u, x)'
    <2> SUFFICES ASSUME NEW u \in Traced \ todo, NEW x \in KernelMappings
                 PROVE  Served(u, x, Image(u) \ KernelMappings)' \/ Pending(u, x)'
      OBVIOUS
    <2>1. CASE x \in Image(u)
      BY <1>5, <2>1 DEF Served
    <2>2. CASE \E n \in Image(u) : Overlaps(x, n) /\ n \notin KernelMappings
      BY <1>5, <1>6, <2>2 DEF Served, Displaced
    <2>3. CASE u = t /\ x = m /\ \E n \in Image(u) : Overlaps(x, n) /\ n \in KernelMappings
      <3>1. PICK n \in Image(u) : Overlaps(m, n) /\ n \in KernelMappings
        BY <2>3
      <3>2. m = n
        BY <1>9, <3>1, ImageDisjoint DEF IInv
      <3>. QED
        BY <1>5, <2>3, <3>1, <3>2 DEF Served
    <2>4. CASE u = t /\ x = m /\ m \in Image(t)'
      BY <2>4 DEF Served
    <2>5. Served(u, x, Image(u) \ KernelMappings) \/ Pending(u, x)
      BY <1>1, <1>2 DEF WhileAddingKernel
    <2>. QED
      BY <1>5, <2>1, <2>2, <2>3, <2>4, <2>5 DEF Served, Displaced
  <1>13. WhileAddingKernel'
    BY <1>1, <1>2, <1>3, <1>5, <1>6, <1>10, <1>11, <1>12 DEF WhileAddingKernel
  <1>. QED
    BY <1>1, <1>7, <1>8, <1>13 DEF SInv, WhileReading, WhileInheriting

\* Every thread was visited: what it was to inherit it has, if nothing is in the way.
LEMMA EndInheritServes ==
  ASSUME SInv, EndInherit
  PROVE  SInv'
  <1>1. /\ stage = "inherit" /\ stage' = "kernel" /\ NotCopying /\ NotCopying'
        /\ todo = {} /\ todo' = Traced
        /\ UNCHANGED <<log, tid_auxtrace, kernel_image, tid_to_parent, copying>>
    BY DEF EndInherit, NotCopying
  <1>2. /\ KernelMappings' = KernelMappings /\ Traced' = Traced
        /\ \A u : /\ OwnMappings(u)' = OwnMappings(u)
                 /\ ProcessMappings(u)' = ProcessMappings(u)
                 /\ Family(u)' = Family(u)
                 /\ Image(u)' = Image(u)
    BY <1>1, SameRecording, SameImages
  <1>3. ThreadsKnown' /\ AfterReading'
    BY <1>1, <1>2 DEF SInv, ThreadsKnown, AfterReading
  <1>4. \A u \in DOMAIN tid_auxtrace : \A m \in ProcessMappings(u) :
          Served(u, m, OwnMappings(u))'
    <2>1. \A u \in DOMAIN tid_auxtrace : \A m \in ProcessMappings(u) :
            Served(u, m, OwnMappings(u))
      BY <1>1, NothingPending DEF SInv, WhileInheriting
    <2>. QED
      BY <1>2, <2>1 DEF Served
  <1>5. \A u \in Tid : \A family \in Family(u) :
          Image(u) \subseteq UNION {OwnMappings(v) : v \in family}
    BY <1>1 DEF SInv, WhileInheriting
  <1>6. WhileAddingKernel'
    BY <1>1, <1>2, <1>4, <1>5 DEF WhileAddingKernel
  <1>. QED
    BY <1>1, <1>3, <1>6 DEF SInv, WhileReading, WhileInheriting

\* The kernel's mappings are on their way to a thread.
LEMMA KernelServes ==
  ASSUME SInv, NEW u \in Tid, KernelNext(u)
  PROVE  SInv'
  <1>1. /\ stage = "kernel" /\ NotCopying /\ u \in todo /\ todo' = todo \ {u}
        /\ copying'.to = u /\ copying'.from = kernel_image
        /\ UNCHANGED <<stage, log, tid_auxtrace, kernel_image, tid_to_parent>>
    BY DEF KernelNext
  <1>2. /\ KernelMappings' = KernelMappings /\ Traced' = Traced
        /\ \A t : /\ OwnMappings(t)' = OwnMappings(t)
                 /\ ProcessMappings(t)' = ProcessMappings(t)
                 /\ Family(t)' = Family(t)
                 /\ Image(t)' = Image(t)
    BY <1>1, SameRecording, SameImages
  <1>3. ThreadsKnown' /\ AfterReading'
    BY <1>1, <1>2 DEF SInv, ThreadsKnown, AfterReading
  <1>4. WhileAddingKernel /\ ToSet(kernel_image) = KernelMappings
    BY <1>1 DEF SInv, AfterReading
  <1>5. \A t \in DOMAIN tid_auxtrace : \A m \in ProcessMappings(t) :
          Served(t, m, OwnMappings(t))'
    BY <1>1, <1>2, <1>4 DEF WhileAddingKernel, Served
  <1>6. \A t \in Traced \ todo' : \A m \in KernelMappings :
          Served(t, m, Image(t) \ KernelMappings)' \/ Pending(t, m)'
    <2>1. \A t \in Traced \ todo : \A m \in KernelMappings :
            Served(t, m, Image(t) \ KernelMappings)
      BY <1>1, <1>4, NothingPending DEF WhileAddingKernel
    <2>2. \A m \in KernelMappings : Pending(u, m)'
      BY <1>1, <1>4 DEF Pending
    <2>. QED
      BY <1>1, <1>2, <2>1, <2>2 DEF Served
  <1>7. WhileAddingKernel'
    BY <1>1, <1>2, <1>4, <1>5, <1>6 DEF WhileAddingKernel
  <1>. QED
    BY <1>1, <1>3, <1>7 DEF SInv, WhileReading, WhileInheriting

LEMMA EndParseServes ==
  ASSUME SInv, EndParse
  PROVE  SInv'
  <1>1. /\ stage = "kernel" /\ stage' = "parsed" /\ NotCopying /\ NotCopying' /\ todo = {}
        /\ UNCHANGED <<log, tid_auxtrace, kernel_image, tid_to_parent, todo, copying>>
    BY DEF EndParse, NotCopying
  <1>2. /\ KernelMappings' = KernelMappings /\ Traced' = Traced
        /\ \A t : /\ OwnMappings(t)' = OwnMappings(t)
                 /\ ProcessMappings(t)' = ProcessMappings(t)
                 /\ Family(t)' = Family(t)
                 /\ Image(t)' = Image(t)
    BY <1>1, SameRecording, SameImages
  <1>3. ThreadsKnown' /\ AfterReading'
    BY <1>1, <1>2 DEF SInv, ThreadsKnown, AfterReading
  <1>4. WhileAddingKernel'
    BY <1>1, <1>2 DEF SInv, WhileAddingKernel, Served, Pending
  <1>. QED
    BY <1>1, <1>3, <1>4 DEF SInv, WhileReading, WhileInheriting

\* The remaining steps: nothing that matters changes, or nothing is promised any more.
LEMMA OtherServes ==
  ASSUME SInv,
         \/ ReadHeader \/ ReadRecordFails
         \/ \E t \in Tid : StartDecoding(t)
         \/ Decode \/ UNCHANGED vars
  PROVE  SInv'
  <1>1. CASE (\E t \in Tid : StartDecoding(t)) \/ Decode
    <2>1. stage' = "decoding"
      BY <1>1 DEF StartDecoding, Decode, parseVars
    <2>2. ThreadsKnown'
      <3>1. CASE \E t \in Tid : StartDecoding(t)
        BY <3>1, TidAssumption DEF StartDecoding, ThreadsKnown
      <3>2. CASE Decode
        BY <3>2 DEF Decode, parseVars, SInv, ThreadsKnown
      <3>. QED
        BY <1>1, <3>1, <3>2
    <2>. QED
      BY <2>1, <2>2 DEF SInv, WhileReading, AfterReading, WhileInheriting, WhileAddingKernel
  <1>2. CASE ReadHeader \/ ReadRecordFails \/ UNCHANGED vars
    <2>1. UNCHANGED <<log, tid_auxtrace, kernel_image, tid_to_parent, todo, copying>>
      BY <1>2 DEF ReadHeader, ReadRecordFails, vars, parseVars
    <2>2. \/ stage' = stage \/ stage' = "failed"
          \/ stage = "header" /\ stage' = "records"
      BY <1>2 DEF ReadHeader, ReadRecordFails, Fail, vars, parseVars
    <2>3. /\ KernelMappings' = KernelMappings /\ Traced' = Traced
          /\ \A t : /\ OwnMappings(t)' = OwnMappings(t)
                   /\ ProcessMappings(t)' = ProcessMappings(t)
                   /\ Family(t)' = Family(t)
                   /\ Image(t)' = Image(t)
      BY <2>1, SameRecording, SameImages
    <2>4. ThreadsKnown'
      BY <2>1 DEF SInv, ThreadsKnown
    <2>5. WhileReading'
      BY <2>1, <2>2, <2>3 DEF SInv, WhileReading, NotCopying
    <2>6. AfterReading'
      BY <2>1, <2>2, <2>3 DEF SInv, AfterReading
    <2>7. WhileInheriting'
      BY <2>1, <2>2, <2>3 DEF SInv, WhileInheriting, NotCopying, Served, Pending
    <2>8. WhileAddingKernel'
      BY <2>1, <2>2, <2>3 DEF SInv, WhileAddingKernel, NotCopying, Served, Pending
    <2>. QED
      BY <2>4, <2>5, <2>6, <2>7, <2>8 DEF SInv
  <1>. QED
    BY <1>1, <1>2

LEMMA InitServes == Init => SInv
  <1> SUFFICES ASSUME Init PROVE SInv
    OBVIOUS
  <1>1. /\ stage = "header" /\ log = <<>> /\ tid_auxtrace = <<>> /\ kernel_image = <<>>
        /\ tid_to_parent = [t \in Tid |-> 0] /\ copying = NothingToCopy
    BY DEF Init, ParseInit
  <1>2. ThreadsKnown
    BY <1>1, TidAssumption DEF ThreadsKnown
  <1>3. KernelMappings = {} /\ \A t : OwnMappings(t) = {}
    BY <1>1, EmptySet DEF KernelMappings, OwnMappings
  <1>4. \A t : Image(t) = {}
    BY <1>1, UnknownIsEmpty
  <1>5. WhileReading
    BY <1>1, <1>3, <1>4, EmptySet DEF WhileReading, NotCopying, NothingToCopy
  <1>. QED
    BY <1>1, <1>2, <1>5 DEF SInv, AfterReading, WhileInheriting, WhileAddingKernel

LEMMA NextServes == IInv /\ SInv /\ [Next]_vars => SInv'
  <1> SUFFICES ASSUME IInv, SInv, [Next]_vars
               PROVE  SInv'
    OBVIOUS
  <1>1. CASE ReadRecord
    BY <1>1, RecordServes
  <1>2. CASE EndOfFile
    BY <1>2, EndOfFileServes
  <1>3. ASSUME NEW t \in Tid, InheritNext(t) PROVE SInv'
    BY <1>3, InheritServes
  <1>4. CASE CopyMapping
    <2>1. ~NotCopying
      BY <1>4 DEF CopyMapping
    <2>2. CASE stage \in {"inherit", "kernel", "parsed"}
      BY <1>4, <2>2, CopyInheritServes, CopyKernelServes
    <2>3. CASE stage \notin {"inherit", "kernel", "parsed"}
      <3>1. UNCHANGED <<stage, log, tid_to_parent>>
        BY <1>4 DEF CopyMapping
      <3>2. stage \notin {"header", "records"}
        BY <2>1 DEF SInv, WhileReading
      <3>3. DOMAIN tid_auxtrace' = DOMAIN tid_auxtrace
        BY <1>4 DEF CopyMapping
      <3>4. ThreadsKnown'
        BY <3>1, <3>3 DEF SInv, ThreadsKnown
      <3>. QED
        BY <2>3, <3>1, <3>2, <3>4
           DEF SInv, WhileReading, AfterReading, WhileInheriting, WhileAddingKernel
    <2>. QED
      BY <2>2, <2>3
  <1>5. CASE EndInherit
    BY <1>5, EndInheritServes
  <1>6. ASSUME NEW t \in Tid, KernelNext(t) PROVE SInv'
    BY <1>6, KernelServes
  <1>7. CASE EndParse
    BY <1>7, EndParseServes
  <1>8. CASE \/ ReadHeader \/ ReadRecordFails
             \/ \E t \in Tid : StartDecoding(t)
             \/ Decode \/ UNCHANGED vars
    BY <1>8, OtherServes
  <1>. QED
    BY <1>1, <1>2, <1>3, <1>4, <1>5, <1>6, <1>7, <1>8 DEF Next, ParseNext

LEMMA ServesInvariance == Spec => []SInv
  <1>. QED
    BY InitServes, Invariance, NextServes, PTL DEF Spec

\* Whatever is recorded, in whatever order, and in whatever order the threads are
\* visited: the image of a thread that was traced has its own mappings, its process's
\* and the kernel's, except for those that one of the thread's own, or of the
\* others, is in the way of, and none but theirs.
THEOREM ThreadsAlwaysServed == Spec => []OwnThenProcessThenKernel
  <1>1. SInv => OwnThenProcessThenKernel
    <2> SUFFICES ASSUME SInv, stage = "parsed", NEW t \in Traced
                 PROVE  /\ OwnMappings(t) \subseteq Image(t)
                        /\ \A m \in ProcessMappings(t) \ Image(t) : Displaced(m, OwnMappings(t))
                        /\ \A m \in KernelMappings \ Image(t) :
                             Displaced(m, Image(t) \ KernelMappings)
                        /\ \A family \in Family(t) :
                             Image(t) \subseteq KernelMappings
                                          \cup UNION {OwnMappings(u) : u \in family}
      BY DEF OwnThenProcessThenKernel, Image, Entry, Traced
    <2>1. t \in DOMAIN tid_auxtrace /\ t \in Tid
      BY DEF Traced, SInv, ThreadsKnown
    <2>2. NotCopying /\ todo = {} /\ WhileAddingKernel /\ AfterReading
      BY DEF SInv, WhileAddingKernel
    <2>3. OwnMappings(t) \subseteq Image(t)
      BY <2>1, <2>2 DEF AfterReading
    <2>4. \A m \in ProcessMappings(t) : Served(t, m, OwnMappings(t))
      BY <2>1, <2>2 DEF WhileAddingKernel
    <2>5. \A m \in KernelMappings : Served(t, m, Image(t) \ KernelMappings)
      BY <2>2, NothingPending DEF WhileAddingKernel
    <2>6. \A family \in Family(t) :
            Image(t) \subseteq KernelMappings \cup UNION {OwnMappings(u) : u \in family}
      BY <2>1, <2>2 DEF WhileAddingKernel
    <2>. QED
      BY <2>3, <2>4, <2>5, <2>6 DEF Served
  <1>. QED
    BY <1>1, ServesInvariance, PTL

-----------------------------------------------------------------------------
(***************************************************************************)
(* Part 3.  The data of a thread: what was recorded, in that order, and    *)
(* without gaps.                                                           *)
(***************************************************************************)

Part == {r \in Records : r.type = "auxtrace"}

IsData(aux) == aux.data \in Seq(Part) /\ aux.cur_offset \in Nat

\* cur_index and cur_offset tell where the next part has to start; and if no part
\* repeats what another holds, each starts where it has to.
Gapless(aux) ==
  /\ aux.cur_index = IF aux.data = <<>> THEN NoIndex ELSE aux.data[Len(aux.data)].index
  /\ (\A i \in 1 .. Len(aux.data) : aux.data[i].offset >= EndBefore(aux.data, i)) =>
       /\ \A i \in 1 .. Len(aux.data) : aux.data[i].offset = EndBefore(aux.data, i)
       /\ aux.cur_offset = IF aux.data = <<>> THEN 0
                           ELSE aux.data[Len(aux.data)].offset + aux.data[Len(aux.data)].len

Complete(data, t) ==
  /\ Len(data) = Cardinality(PartsUpTo(t, Len(log)))
  /\ \A i \in PartsUpTo(t, Len(log)) : data[Cardinality(PartsUpTo(t, i))] = log[i]
  /\ \A i \in 1 .. Len(data) : \E j \in PartsUpTo(t, Len(log)) : data[i] = log[j]

DataKept ==
  stage \notin {"failed", "decoding"} =>
    \A t \in Tid : IsData(Entry(t)) /\ Gapless(Entry(t)) /\ Complete(Entry(t).data, t)

\* The entry of a thread, its image aside.
SameData(t) ==
  /\ Entry(t)'.data = Entry(t).data
  /\ Entry(t)'.cur_index = Entry(t).cur_index
  /\ Entry(t)'.cur_offset = Entry(t).cur_offset

-----------------------------------------------------------------------------
LEMMA PartType ==
  ASSUME NEW r \in Part
  PROVE  r.offset \in Nat /\ r.len \in Nat /\ r.index # NoIndex /\ r.tid \in Tid
  BY RecordsAssumption DEF Part

\* The parts recorded until record i of n are some of those recorded until n.
LEMMA PartsCount ==
  ASSUME NEW t, NEW n \in Nat
  PROVE  /\ IsFiniteSet(PartsUpTo(t, n)) /\ n + 1 \notin PartsUpTo(t, n)
         /\ Cardinality(PartsUpTo(t, n)) \in Nat
         /\ \A i \in PartsUpTo(t, n) :
              Cardinality(PartsUpTo(t, i)) \in 1 .. Cardinality(PartsUpTo(t, n))
  <1>1. \A k \in Nat : IsFiniteSet(PartsUpTo(t, k))
    <2> SUFFICES ASSUME NEW k \in Nat PROVE IsFiniteSet(PartsUpTo(t, k))
      OBVIOUS
    <2>1. IsFiniteSet(1 .. k)
      BY FS_Interval
    <2>2. PartsUpTo(t, k) \subseteq 1 .. k
      BY DEF PartsUpTo
    <2>. QED
      BY <2>1, <2>2, FS_Subset
  <1>2. ASSUME NEW i \in PartsUpTo(t, n)
        PROVE  Cardinality(PartsUpTo(t, i)) \in 1 .. Cardinality(PartsUpTo(t, n))
    <2>1. i \in Nat /\ i \in PartsUpTo(t, i) /\ PartsUpTo(t, i) \subseteq PartsUpTo(t, n)
      BY DEF PartsUpTo
    <2>2. /\ Cardinality(PartsUpTo(t, i)) <= Cardinality(PartsUpTo(t, n))
          /\ Cardinality(PartsUpTo(t, i)) \in Nat /\ Cardinality(PartsUpTo(t, n)) \in Nat
      BY <1>1, <2>1, FS_Subset, FS_CardinalityType
    <2>3. Cardinality(PartsUpTo(t, i)) # 0
      BY <1>1, <2>1, FS_EmptySet
    <2>. QED
      BY <2>2, <2>3
  <1>. QED
    BY <1>1, <1>2, FS_CardinalityType DEF PartsUpTo

\* What a record adds to the parts of a thread.
LEMMA PartsAfter ==
  ASSUME log \in Seq(Records), NEW r \in Records, log' = Append(log, r),
         NEW n, n = Len(log), NEW t
  PROVE  /\ Len(log') = n + 1 /\ log'[n + 1] = r
         /\ \A i \in 1 .. n : log'[i] = log[i] /\ PartsUpTo(t, i)' = PartsUpTo(t, i)
         /\ r.type = "auxtrace" /\ r.tid = t => PartsUpTo(t, n + 1)' = PartsUpTo(t, n) \cup {n + 1}
         /\ r.type # "auxtrace" \/ r.tid # t => PartsUpTo(t, n + 1)' = PartsUpTo(t, n)
  <1>1. /\ n \in Nat /\ Len(log') = n + 1 /\ log'[n + 1] = r
        /\ \A i \in 1 .. n : log'[i] = log[i]
    OBVIOUS
  <1>2. \A k \in 0 .. n : \A j : j \in 1 .. k => j \in 1 .. n
    BY <1>1
  <1>3. \A i \in 1 .. n : PartsUpTo(t, i)' = PartsUpTo(t, i)
    BY <1>1, <1>2 DEF PartsUpTo
  <1>4. \A j : j \in 1 .. n + 1 <=> j \in 1 .. n \/ j = n + 1
    BY <1>1
  <1>5. r.type = "auxtrace" /\ r.tid = t => PartsUpTo(t, n + 1)' = PartsUpTo(t, n) \cup {n + 1}
    BY <1>1, <1>4 DEF PartsUpTo
  <1>6. r.type # "auxtrace" \/ r.tid # t => PartsUpTo(t, n + 1)' = PartsUpTo(t, n)
    BY <1>1, <1>4 DEF PartsUpTo
  <1>. QED
    BY <1>1, <1>3, <1>5, <1>6

\* A part is the next of its thread's data ...
LEMMA PartCompletes ==
  ASSUME log \in Seq(Records), NEW r \in Records, log' = Append(log, r), r.type = "auxtrace",
         NEW data \in Seq(Part), Complete(data, r.tid)
  PROVE  Complete(Append(data, r), r.tid)'
  <1> PICK t : t = r.tid
    OBVIOUS
  <1> PICK n \in Nat : n = Len(log)
    OBVIOUS
  <1> DEFINE parts == PartsUpTo(t, n)
             new == Append(data, r)
  <1>1. /\ Len(log') = n + 1 /\ log'[n + 1] = r
        /\ \A i \in 1 .. n : log'[i] = log[i] /\ PartsUpTo(t, i)' = PartsUpTo(t, i)
        /\ PartsUpTo(t, n + 1)' = parts \cup {n + 1}
    <2>1. PartsUpTo(t, n + 1)' = PartsUpTo(t, n) \cup {n + 1}
      BY ZenonT(60), PartsAfter
    <2>2. Len(log') = n + 1 /\ log'[n + 1] = r /\ \A i \in 1 .. n : log'[i] = log[i]
      OBVIOUS
    <2>3. \A i \in 1 .. n : PartsUpTo(t, i)' = PartsUpTo(t, i)
      <3>1. \A i \in 1 .. n : \A j \in 1 .. i : log'[j] = log[j]
        BY <2>2
      <3>. QED
        BY <3>1 DEF PartsUpTo
    <2>. QED
      BY <2>1, <2>2, <2>3
  <1>2. /\ IsFiniteSet(parts) /\ n + 1 \notin parts /\ Cardinality(parts) \in Nat
        /\ \A i \in parts : Cardinality(PartsUpTo(t, i)) \in 1 .. Cardinality(parts)
    BY PartsCount
  <1>3. Cardinality(parts \cup {n + 1}) = Cardinality(parts) + 1
    BY <1>2, FS_AddElement
  <1>4. /\ Len(data) = Cardinality(parts)
        /\ \A i \in parts : data[Cardinality(PartsUpTo(t, i))] = log[i]
        /\ \A i \in 1 .. Len(data) : \E j \in parts : data[i] = log[j]
    BY DEF Complete
  <1>5. \A i \in parts : i \in 1 .. n
    BY DEF PartsUpTo
  <1>6. /\ Len(new) = Len(data) + 1 /\ new[Len(data) + 1] = r
        /\ \A i \in 1 .. Len(data) : new[i] = data[i]
        /\ \A i \in 1 .. Len(new) : i \in 1 .. Len(data) \/ i = Len(data) + 1
    OBVIOUS
  <1> HIDE DEF parts, new
  <1>7. Len(new) = Cardinality(PartsUpTo(t, n + 1)')
    BY <1>1, <1>3, <1>4, <1>6
  <1>8. \A i \in PartsUpTo(t, n + 1)' : new[Cardinality(PartsUpTo(t, i)')] = log'[i]
    <2> SUFFICES ASSUME NEW i \in PartsUpTo(t, n + 1)'
                 PROVE  new[Cardinality(PartsUpTo(t, i)')] = log'[i]
      OBVIOUS
    <2>1. CASE i \in parts
      BY <1>1, <1>2, <1>4, <1>5, <1>6, <2>1
    <2>2. CASE i = n + 1
      BY <1>1, <1>3, <1>4, <1>6, <2>2
    <2>. QED
      BY <1>1, <2>1, <2>2
  <1>9. \A i \in 1 .. Len(new) : \E j \in PartsUpTo(t, n + 1)' : new[i] = log'[j]
    <2> SUFFICES ASSUME NEW i \in 1 .. Len(new)
                 PROVE  \E j \in PartsUpTo(t, n + 1)' : new[i] = log'[j]
      OBVIOUS
    <2>1. CASE i \in 1 .. Len(data)
      BY <1>1, <1>4, <1>5, <1>6, <2>1
    <2>2. CASE i = Len(data) + 1
      BY <1>1, <1>6, <2>2
    <2>. QED
      BY <1>6, <2>1, <2>2
  <1>10. PartsUpTo(t, Len(log))' = PartsUpTo(t, n + 1)'
    BY <1>1 DEF PartsUpTo
  <1>. QED
    BY <1>7, <1>8, <1>9, <1>10 DEF Complete, new

\* ... and no other record, nor another thread's part, concerns them.
LEMMA OtherRecordCompletes ==
  ASSUME log \in Seq(Records), NEW r \in Records, log' = Append(log, r),
         NEW t, ~(r.type = "auxtrace" /\ r.tid = t), NEW data, Complete(data, t)
  PROVE  Complete(data, t)'
  <1> PICK n \in Nat : n = Len(log)
    OBVIOUS
  <1>1. /\ Len(log') = n + 1
        /\ \A i \in 1 .. n : log'[i] = log[i] /\ PartsUpTo(t, i)' = PartsUpTo(t, i)
        /\ PartsUpTo(t, n + 1)' = PartsUpTo(t, n)
    BY PartsAfter
  <1>2. PartsUpTo(t, Len(log))' = PartsUpTo(t, n)
    <2>1. PartsUpTo(t, Len(log))' = PartsUpTo(t, n + 1)'
      BY <1>1 DEF PartsUpTo
    <2>. QED
      BY <1>1, <2>1
  <1>3. \A i \in PartsUpTo(t, n) : i \in 1 .. n
    BY DEF PartsUpTo
  <1>. QED
    BY <1>1, <1>2, <1>3 DEF Complete

\* add_part keeps the data gapless.
LEMMA AddPartGapless ==
  ASSUME NEW aux, IsEntry(aux), IsData(aux), Gapless(aux), NEW r \in Part,
         r.offset <= Expected(aux, r.index)
  PROVE  /\ IsData(AddPart(aux, r)) /\ Gapless(AddPart(aux, r))
         /\ AddPart(aux, r).data = Append(aux.data, r)
  <1> PICK data : data = aux.data
    OBVIOUS
  <1> PICK at : at = Expected(aux, r.index)
    OBVIOUS
  <1> PICK n : n = Len(data)
    OBVIOUS
  <1> PICK new : new = Append(data, r)
    OBVIOUS
  <1> DEFINE index == r.index
             offset == at + r.len
             res == [aux EXCEPT !.cur_index = index, !.data = new, !.cur_offset = offset]
  <1>1. AddPart(aux, r) = res
    BY DEF AddPart
  <1>2. res.data = new /\ res.cur_index = r.index /\ res.cur_offset = at + r.len
    <2> HIDE DEF index, offset
    <2>1. res.data = new /\ res.cur_index = index /\ res.cur_offset = offset
      BY DEF IsEntry
    <2>. QED
      BY <2>1 DEF index, offset
  <1> HIDE DEF res
  <1>3. /\ data \in Seq(Part) /\ aux.cur_offset \in Nat /\ n \in Nat /\ at \in Nat
        /\ r.offset \in Nat /\ r.len \in Nat /\ r.index # NoIndex
    BY PartType DEF IsData, Expected
  <1>4. /\ new \in Seq(Part) /\ Len(new) = n + 1 /\ new[n + 1] = r /\ new # <<>>
        /\ \A i \in 1 .. n : new[i] = data[i] /\ data[i] \in Part
    BY <1>3
  <1>5. data = <<>> <=> n = 0
    BY <1>3
  <1>6. \A i \in 1 .. n : EndBefore(new, i) = EndBefore(data, i)
    <2> SUFFICES ASSUME NEW i \in 1 .. n PROVE EndBefore(new, i) = EndBefore(data, i)
      OBVIOUS
    <2>1. i > 1 => i - 1 \in 1 .. n
      BY <1>3
    <2>. QED
      BY <1>4, <2>1 DEF EndBefore
  <1>7. EndBefore(new, n + 1) = IF n > 0 /\ data[n].index = r.index
                                THEN data[n].offset + data[n].len ELSE 0
    <2>1. /\ n > 0 => n \in 1 .. n
          /\ n + 1 - 1 = n
          /\ n + 1 > 1 <=> n > 0
      BY <1>3
    <2>. QED
      BY <1>4, <2>1 DEF EndBefore
  <1>8. ASSUME \A i \in 1 .. n + 1 : new[i].offset >= EndBefore(new, i)
        PROVE  /\ \A i \in 1 .. n + 1 : new[i].offset = EndBefore(new, i)
               /\ at + r.len = r.offset + r.len
    <2>1. \A i \in 1 .. n : i \in 1 .. n + 1
      BY <1>3
    <2>2. /\ \A i \in 1 .. n : data[i].offset = EndBefore(data, i)
          /\ aux.cur_offset = IF n = 0 THEN 0 ELSE data[n].offset + data[n].len
      BY <1>4, <1>5, <1>6, <1>8, <2>1 DEF Gapless
    <2>3. n > 0 => data[n].index # NoIndex /\ data[n].offset \in Nat /\ data[n].len \in Nat
      BY <1>3, <1>4, PartType
    <2>4. at = EndBefore(new, n + 1)
      BY <1>3, <1>5, <1>7, <2>2, <2>3 DEF Expected, Gapless
    <2>5. n + 1 \in 1 .. n + 1
      BY <1>3
    <2>6. r.offset >= at
      BY <1>4, <1>8, <2>4, <2>5
    <2>7. r.offset = at
      BY <1>3, <2>6
    <2>8. \A i \in 1 .. n + 1 : i \in 1 .. n \/ i = n + 1
      BY <1>3
    <2>. QED
      BY <1>4, <1>6, <2>2, <2>4, <2>7, <2>8
  <1>9. Gapless(res)
    <2>1. res.cur_index = IF res.data = <<>> THEN NoIndex ELSE res.data[Len(res.data)].index
      BY <1>2, <1>4
    <2>. QED
      BY <1>2, <1>4, <1>8, <2>1 DEF Gapless
  <1>10. IsData(res)
    BY <1>2, <1>3, <1>4 DEF IsData
  <1>. QED
    BY <1>1, <1>2, <1>9, <1>10

-----------------------------------------------------------------------------
\* A record: a part is added to the data of its thread if it fits, and nothing else
\* touches any.
LEMMA RecordKeepsData ==
  ASSUME IInv, ThreadsKnown, DataKept, ReadRecord
  PROVE  DataKept'
  <1>1. PICK r \in Records : /\ log' = Append(log, r)
                             /\ ReadAuxtrace(r) \/ ReadAuxtraceInfo(r) \/ ReadMmap2(r) \/ ReadComm(r)
    BY DEF ReadRecord
  <1>2. stage = "records" /\ log \in Seq(Records)
    BY DEF ReadRecord, ThreadsKnown
  <1>3. \A t \in Tid : IsData(Entry(t)) /\ Gapless(Entry(t)) /\ Complete(Entry(t).data, t)
    BY <1>2 DEF DataKept
  <1> SUFFICES ASSUME stage' # "failed", NEW t \in Tid
               PROVE  IsData(Entry(t))' /\ Gapless(Entry(t))' /\ Complete(Entry(t).data, t)'
    BY DEF DataKept
  <1> PICK aux : aux = Entry(t)
    OBVIOUS
  <1> PICK new : new = Entry(t)'
    OBVIOUS
  <1>4. IsEntry(aux) /\ IsData(aux) /\ Gapless(aux) /\ Complete(aux.data, t)
    BY <1>3, EntryType
  <1>5. CASE ReadAuxtrace(r) /\ r.tid = t
    <2>1. /\ r \in Part /\ r.offset <= Expected(aux, r.index)
          /\ tid_auxtrace' = WithEntry(t, AddPart(aux, r))
      BY <1>5 DEF ReadAuxtrace, Fail, Part
    <2>2. new = AddPart(aux, r)
      BY <2>1, EntryAfter
    <2>3. IsData(new) /\ Gapless(new) /\ new.data = Append(aux.data, r)
      BY <1>4, <2>1, <2>2, AddPartGapless
    <2>4. Complete(Append(aux.data, r), r.tid)'
      BY <1>1, <1>2, <1>4, <1>5, <2>1, PartCompletes DEF Part, IsData
    <2>5. Complete(new.data, t)'
      BY <1>5, <2>3, <2>4
    <2>. QED
      BY <2>3, <2>5 DEF IsData, Gapless, Complete
  <1>6. CASE ~(ReadAuxtrace(r) /\ r.tid = t)
    <2>1. new.data = aux.data /\ new.cur_index = aux.cur_index /\ new.cur_offset = aux.cur_offset
      <3>1. CASE ReadAuxtrace(r) /\ r.tid # t
        <4>1. tid_auxtrace' = WithEntry(r.tid, AddPart(Entry(r.tid), r))
          BY <3>1 DEF ReadAuxtrace, Fail
        <4>. QED
          BY <3>1, <4>1, EntryAfter
      <3>2. CASE ReadMmap2(r)
        <4> PICK other : other = Entry(r.tid)
          OBVIOUS
        <4> PICK image : image = Inserted(other.image, r.mapping)
          OBVIOUS
        <4>1. \/ UNCHANGED tid_auxtrace
              \/ tid_auxtrace' = WithEntry(r.tid, [other EXCEPT !.image = image])
          BY <3>2 DEF ReadMmap2
        <4>2. IsEntry(other)
          BY EntryType
        <4>3. /\ [other EXCEPT !.image = image].data = other.data
              /\ [other EXCEPT !.image = image].cur_index = other.cur_index
              /\ [other EXCEPT !.image = image].cur_offset = other.cur_offset
          BY <4>2 DEF IsEntry
        <4>4. CASE UNCHANGED tid_auxtrace
          BY <4>4 DEF Entry
        <4>5. CASE tid_auxtrace' = WithEntry(r.tid, [other EXCEPT !.image = image])
          BY ZenonT(60), <4>3, <4>5, EntryAfter
        <4>. QED
          BY <4>1, <4>4, <4>5
      <3>3. CASE ReadAuxtraceInfo(r) \/ ReadComm(r)
        BY <3>3 DEF ReadAuxtraceInfo, ReadComm, Entry
      <3>. QED
        BY <1>1, <1>6, <3>1, <3>2, <3>3
    <2>2. ~(r.type = "auxtrace" /\ r.tid = t)
      BY <1>1, <1>6 DEF ReadAuxtrace, ReadAuxtraceInfo, ReadMmap2, ReadComm
    <2>3. Complete(aux.data, t)'
      BY <1>1, <1>2, <1>4, <2>2, OtherRecordCompletes
    <2>. QED
      BY <1>4, <2>1, <2>3 DEF IsData, Gapless, Complete
  <1>. QED
    BY <1>5, <1>6

\* Copying a mapping leaves the data alone.
LEMMA CopyKeepsData ==
  ASSUME IInv, CopyMapping, NEW u
  PROVE  SameData(u)
  <1> PICK t : t = copying.to
    OBVIOUS
  <1> PICK old : old = tid_auxtrace[t]
    OBVIOUS
  <1> PICK image : image = WithMapping(old.image, Head(copying.from))
    OBVIOUS
  <1>1. tid_auxtrace' = [tid_auxtrace EXCEPT ![t] = [old EXCEPT !.image = image]]
    BY DEF CopyMapping
  <1>2. CASE u = t /\ t \in DOMAIN tid_auxtrace
    <2>1. IsEntry(old)
      BY <1>2 DEF IInv
    <2>2. /\ [old EXCEPT !.image = image].data = old.data
          /\ [old EXCEPT !.image = image].cur_index = old.cur_index
          /\ [old EXCEPT !.image = image].cur_offset = old.cur_offset
      BY <2>1 DEF IsEntry
    <2>3. Entry(u) = old /\ Entry(u)' = [old EXCEPT !.image = image]
      BY <1>1, <1>2 DEF Entry, IInv
    <2>. QED
      BY <2>2, <2>3 DEF SameData
  <1>3. CASE ~(u = t /\ t \in DOMAIN tid_auxtrace)
    BY <1>1, <1>3 DEF SameData, Entry, IInv
  <1>. QED
    BY <1>2, <1>3

LEMMA InitKeepsData == Init => DataKept
  <1> SUFFICES ASSUME Init, NEW t \in Tid
               PROVE  IsData(Entry(t)) /\ Gapless(Entry(t)) /\ Complete(Entry(t).data, t)
    BY DEF DataKept
  <1>1. Entry(t) = IncompleteAuxtrace /\ log = <<>>
    BY DEF Init, ParseInit, Entry
  <1>2. PartsUpTo(t, Len(log)) = {}
    BY <1>1 DEF PartsUpTo
  <1>3. Cardinality({}) = 0
    BY FS_EmptySet
  <1> PICK aux : aux = Entry(t)
    OBVIOUS
  <1>4. /\ aux.data = <<>> /\ aux.cur_index = NoIndex /\ aux.cur_offset = 0
        /\ Len(aux.data) = 0 /\ 1 .. 0 = {} /\ aux.data \in Seq(Part)
    BY <1>1 DEF IncompleteAuxtrace
  <1>5. IsData(aux) /\ Gapless(aux)
    BY <1>4 DEF IsData, Gapless
  <1>6. Complete(aux.data, t)
    BY <1>2, <1>3, <1>4 DEF Complete
  <1>. QED
    BY <1>5, <1>6

LEMMA NextKeepsData == IInv /\ ThreadsKnown /\ DataKept /\ [Next]_vars => DataKept'
  <1> SUFFICES ASSUME IInv, ThreadsKnown, DataKept, [Next]_vars
               PROVE  DataKept'
    OBVIOUS
  <1>1. CASE ReadRecord
    BY <1>1, RecordKeepsData
  <1>2. CASE (\E t \in Tid : StartDecoding(t)) \/ Decode
    BY <1>2 DEF StartDecoding, Decode, parseVars, DataKept
  <1>3. CASE \/ ReadHeader \/ ReadRecordFails \/ EndOfFile \/ CopyMapping
             \/ \E t \in Tid : InheritNext(t) \/ KernelNext(t)
             \/ EndInherit \/ EndParse \/ UNCHANGED vars
    <2>1. CASE stage' = "failed"
      BY <2>1 DEF DataKept
    <2>2. CASE stage' # "failed"
      <3>1. UNCHANGED log /\ (stage \in {"failed", "decoding"} => stage' = stage)
        BY <1>3 DEF ReadHeader, ReadRecordFails, EndOfFile, CopyMapping, InheritNext, KernelNext,
                    EndInherit, EndParse, vars, parseVars
      <3>2. \A t : SameData(t)
        <4>1. CASE CopyMapping
          BY <4>1, CopyKeepsData
        <4>2. CASE UNCHANGED tid_auxtrace
          BY <4>2 DEF SameData, Entry
        <4>. QED
          BY <1>3, <4>1, <4>2 DEF ReadHeader, ReadRecordFails, EndOfFile, InheritNext, KernelNext,
                                  EndInherit, EndParse, vars, parseVars
      <3> SUFFICES ASSUME stage \notin {"failed", "decoding"}, NEW t \in Tid
                   PROVE  IsData(Entry(t))' /\ Gapless(Entry(t))' /\ Complete(Entry(t).data, t)'
        BY <3>1 DEF DataKept
      <3>3. IsData(Entry(t)) /\ Gapless(Entry(t)) /\ Complete(Entry(t).data, t)
        BY DEF DataKept
      <3>4. PartsUpTo(t, Len(log))' = PartsUpTo(t, Len(log))
            /\ \A i : PartsUpTo(t, i)' = PartsUpTo(t, i)
        BY <3>1 DEF PartsUpTo
      <3>. QED
        BY <3>1, <3>2, <3>3, <3>4 DEF SameData, IsData, Gapless, Complete
    <2>. QED
      BY <2>1, <2>2
  <1>. QED
    BY <1>1, <1>2, <1>3 DEF Next, ParseNext

LEMMA DataInvariance == Spec => []DataKept
  <1>1. SInv => ThreadsKnown
    BY DEF SInv
  <1>. QED
    BY <1>1, InitKeepsData, Invariance, ServesInvariance, NextKeepsData, PTL DEF Spec

\* Whatever is recorded: a thread is decoded if some of its parts hold data, and then with
\* all of them, the k-th recorded as the k-th decoded; and if no part repeats what
\* another holds, each starts where the one before it ended, or at the start of
\* another buffer.
THEOREM DataAlwaysFollows == Spec => []DataFollowsRecording
  <1>1. DataKept => DataFollowsRecording
    <2> SUFFICES ASSUME DataKept, stage = "parsed", NEW t \in Tid,
                        NEW data, data = Entry(t).data, NEW parts, parts = PartsUpTo(t, Len(log))
                 PROVE  /\ t \in Traced <=> \E i \in parts : log[i].len > 0
                        /\ Len(data) = Cardinality(parts)
                        /\ \A i \in parts : data[Cardinality(PartsUpTo(t, i))] = log[i]
                        /\ (\A i \in 1 .. Len(data) : data[i].offset >= EndBefore(data, i)) =>
                             \A i \in 1 .. Len(data) : data[i].offset = EndBefore(data, i)
      BY DEF DataFollowsRecording
    <2>1. IsData(Entry(t)) /\ Gapless(Entry(t)) /\ Complete(data, t)
      BY DEF DataKept
    <2>2. Len(data) \in Nat /\ DOMAIN data = 1 .. Len(data)
      BY <2>1 DEF IsData
    <2>3. t \in Traced <=> \E i \in 1 .. Len(data) : data[i].len > 0
      <3>1. CASE t \in DOMAIN tid_auxtrace
        BY <2>2, <3>1 DEF Traced, Entry
      <3>2. CASE t \notin DOMAIN tid_auxtrace
        <4>1. data = <<>>
          BY <3>2 DEF Entry, IncompleteAuxtrace
        <4>. QED
          BY <3>2, <4>1 DEF Traced
      <3>. QED
        BY <3>1, <3>2
    <2>4. \A i \in parts : Cardinality(PartsUpTo(t, i)) \in 1 .. Len(data)
      <3>1. \A i \in parts : Cardinality(PartsUpTo(t, i)) \in 1 .. Cardinality(parts)
        <4>1. CASE Len(log) \in Nat
          BY <4>1, PartsCount
        <4>. QED
          BY <4>1 DEF PartsUpTo
      <3>. QED
        BY <2>1, <3>1 DEF Complete
    <2>5. t \in Traced <=> \E i \in parts : log[i].len > 0
      BY <2>1, <2>3, <2>4 DEF Complete
    <2>. QED
      BY <2>1, <2>5 DEF Complete, Gapless
  <1>. QED
    BY <1>1, DataInvariance, PTL

-----------------------------------------------------------------------------
(***************************************************************************)
(* Part 4: the image implements the plain address space.                   *)
(*                                                                         *)
(* Seen from outside, the image is the set of its mappings, the verdict on *)
(* each file and the request under way; the symbol cache and bisection are *)
(* hidden.  ImageKept says what they must hold for that to be true.        *)
(***************************************************************************)
Named == [p \in Path |-> Symbols[p] \cup Stubs(p)]

Space == ToSet(mappings)

\* The operators of the abstract address space are those of the image.
LEMMA SameOperators ==
  ASSUME NEW m, NEW n, NEW a
  PROVE  /\ AS!Covers(m, a) <=> Covers(m, a)
         /\ AS!Overlaps(m, n) <=> Overlaps(m, n)
         /\ AS!OffsetOf(m, a) = OffsetOf(m, a)
         /\ AS!InsideFile(m) <=> InsideFile(m)
         /\ AS!FixFileOffset(m) = FixFileOffset(m)
  BY DEF AS!Covers, Covers, AS!Overlaps, Overlaps, AS!VaddrEnd, VaddrEnd,
         AS!OffsetOf, OffsetOf, AS!InsideFile, InsideFile, AS!FixFileOffset, FixFileOffset

LEMMA SameCardinality ==
  ASSUME NEW S
  PROVE  AS!Cardinality(S) = Cardinality(S)
  BY DEF AS!Cardinality, Cardinality

LEMMA HomeFound ==
  ASSUME IsImage(mappings), NEW m \in ToSet(mappings), NEW a \in Nat, Covers(m, a)
  PROVE  AS!Mapped(a) /\ AS!Home(a) = m
  <1>1. \A n \in ToSet(mappings) : AS!Covers(n, a) => n = m
    <2> SUFFICES ASSUME NEW n \in ToSet(mappings), Covers(n, a)
                 PROVE  n = m
      BY SameOperators
    <2>1. m \in Mapping /\ n \in Mapping
      BY ElementOfSeq DEF IsImage, ToSet
    <2>2. Overlaps(m, n)
      BY <2>1, MappingType DEF Covers, Overlaps
    <2>. QED
      BY <2>2, ImageDisjoint
  <1>2. AS!Covers(m, a)
    BY SameOperators
  <1>. QED
    BY <1>1, <1>2 DEF AS!Mapped, AS!Home

-----------------------------------------------------------------------------
\* A byte that can be read.
Readable(b) == \E m \in Space : Covers(m, b) /\ elf_cache[m.path] = "open" /\ InsideFile(m)

InMemory(a, n) == [i \in 1 .. n |-> AS!Memory(a + i - 1)]

\* What was read so far is what is in memory, all of it up to the next address.
ReadKept ==
  request # NoRequest =>
    \E a \in Address, want \in 1 .. MaxWant : \E n \in 0 .. want :
      /\ \A b \in a .. a + n - 1 : Readable(b)
      /\ request = [addr |-> a, want |-> want, bytes |-> InMemory(a, n)]

WithinMapping(m, s) ==
  /\ FixFileOffset(m) <= s.offset /\ s.offset + s.reach <= FixFileOffset(m) + m.size
  /\ s.size \in {0, s.reach}

\* A symbol that was found is one of a file that is mapped, and ends where the file says.
Genuine(symbol) ==
  \E m \in Space : \E s \in Named[m.path] :
    elf_cache[m.path] = "open" /\ symbol = AS!Placed(m, s) /\ WithinMapping(m, s)

CacheKept == \A symbol \in symbol_cache : Genuine(symbol)

Verdicts == {"unknown", "open", "failed"}

ImageKept ==
  /\ elf_cache \in [Path -> Verdicts]
  /\ Space \subseteq Mappings
  /\ stage # "decoding" => mappings = <<>> /\ request = NoRequest /\ symbol_cache = {}
  /\ ReadKept
  /\ CacheKept

-----------------------------------------------------------------------------
LEMMA SpaceType ==
  ASSUME IInv, NEW m \in Space
  PROVE  m \in Mapping /\ m.path \in Path /\ FixFileOffset(m) \in Nat
  <1>1. m \in Mapping
    BY ElementOfSeq DEF IInv, IsImage, Space, ToSet
  <1>. QED
    BY <1>1, SymbolsAssumption DEF Mapping, FixFileOffset

LEMMA NamedType ==
  ASSUME NEW p \in Path, NEW s \in Named[p]
  PROVE  s.offset \in Nat /\ s.size \in Nat /\ s.reach \in Nat
  <1>1. CASE s \in Symbols[p]
    BY <1>1, SymbolsAssumption
  <1>2. CASE s \in Stubs(p)
    <2>1. PICK i \in DOMAIN Plt[p].entries :
            s = [name |-> Plt[p].entries[i], offset |-> Plt[p].base + i * StubSize,
                 size |-> StubSize, reach |-> StubSize]
      BY <1>2 DEF Stubs
    <2>2. i \in Nat /\ StubSize \in Nat /\ Plt[p].base \in Nat
      BY SymbolsAssumption
    <2>3. Plt[p].base + i * StubSize \in Nat
      BY <2>2
    <2>. QED
      BY <2>1, <2>2, <2>3
  <1>. QED
    BY <1>1, <1>2 DEF Named

\* A look-up finds the mapping that covers the address, or nothing.
LEMMA Found ==
  ASSUME IInv, NEW a \in Nat, NEW found \in FindMapping(mappings, a)
  PROVE  /\ \A m \in found : m \in Space /\ Covers(m, a) /\ AS!Mapped(a) /\ AS!Home(a) = m
         /\ found = {} => ~AS!Mapped(a)
  <1>1. found = {m \in ToSet(mappings) : Covers(m, a)}
    BY ImageIsExact DEF IInv, ExactAt
  <1>2. \A m \in found : AS!Mapped(a) /\ AS!Home(a) = m
    BY <1>1, HomeFound DEF IInv
  <1>3. \A m \in ToSet(mappings) : AS!Covers(m, a) <=> Covers(m, a)
    BY SameOperators
  <1>4. found = {} => ~AS!Mapped(a)
    BY <1>1, <1>3 DEF AS!Mapped
  <1>. QED
    BY <1>1, <1>2, <1>4 DEF Space

\* A verdict that is passed stays.
LEMMA OpenJudges ==
  ASSUME elf_cache \in [Path -> Verdicts], NEW m, m.path \in Path, Open(m)
  PROVE  /\ elf_cache' \in [Path -> Verdicts] /\ elf_cache' \in AS!Judged
         /\ \A p \in Path : elf_cache[p] = "open" => elf_cache'[p] = "open"
  <1> PICK p : p = m.path
    OBVIOUS
  <1>1. PICK r \in Verdicts : /\ elf_cache' = [elf_cache EXCEPT ![p] = r]
                              /\ elf_cache[p] # "unknown" => r = elf_cache[p]
    BY DEF Open, Verdicts
  <1>2. elf_cache' \in [Path -> Verdicts]
    BY <1>1
  <1>3. \A q \in Path : elf_cache[q] # "unknown" => elf_cache'[q] = elf_cache[q]
    BY <1>1
  <1>. QED
    BY <1>2, <1>3 DEF AS!Judged, Verdicts

LEMMA SameVerdicts ==
  ASSUME elf_cache \in [Path -> Verdicts]
  PROVE  elf_cache \in AS!Judged
  BY DEF AS!Judged, Verdicts

\* Judgements neither take back what can be read nor what is cached.
LEMMA JudgedKeeps ==
  ASSUME IInv, UNCHANGED mappings,
         \A p \in Path : elf_cache[p] = "open" => elf_cache'[p] = "open"
  PROVE  /\ \A b : Readable(b) => Readable(b)'
         /\ \A symbol : Genuine(symbol) => Genuine(symbol)'
         /\ UNCHANGED symbol_cache /\ CacheKept => CacheKept'
         /\ Space' = Space
         /\ \A b : AS!Memory(b)' = AS!Memory(b)
  <1>1. Space' = Space /\ \A m \in Space : m.path \in Path
    BY SpaceType DEF Space
  <1>2. \A b : Readable(b) => Readable(b)'
    BY <1>1 DEF Readable
  <1>3. \A symbol : Genuine(symbol) => Genuine(symbol)'
    <2>1. \A m, t : AS!Placed(m, t)' = AS!Placed(m, t)
      BY DEF AS!Placed
    <2>. QED
      BY <1>1, <2>1 DEF Genuine
  <1>4. \A b : AS!Memory(b)' = AS!Memory(b)
    BY DEF AS!Memory, AS!Home
  <1>. QED
    BY <1>1, <1>2, <1>3, <1>4 DEF CacheKept

-----------------------------------------------------------------------------
(* Reading. *)

LEMMA BeginReadRefines ==
  ASSUME IInv, ImageKept, stage = "decoding", stage' = stage,
         NEW a \in Address, NEW n \in 1 .. MaxWant, BeginRead(a, n)
  PROVE  ImageKept' /\ UNCHANGED AS!vars
  <1>1. /\ request' = [addr |-> a, want |-> n, bytes |-> <<>>]
        /\ UNCHANGED <<mappings, elf_cache, symbol_cache, answer>>
    BY DEF BeginRead
  <1>2. a \in Nat /\ MaxWant \in Nat
    BY AddressAssumption
  <1>3. ReadKept'
    <2>1. 0 \in 0 .. n /\ a .. a + 0 - 1 = {}
      BY <1>2
    <2>2. InMemory(a, 0)' = <<>>
      BY DEF InMemory
    <2>. QED
      BY <1>1, <2>1, <2>2 DEF ReadKept
  <1>4. CacheKept'
    BY <1>1, JudgedKeeps DEF ImageKept
  <1>. QED
    BY <1>1, <1>3, <1>4 DEF ImageKept, Space, AS!vars

\* The next address of a read that has n bytes.
LEMMA NextAddressIs ==
  ASSUME NEW a \in Nat, NEW want, NEW n \in Nat,
         request = [addr |-> a, want |-> want, bytes |-> InMemory(a, n)]
  PROVE  Len(request.bytes) = n /\ NextAddress = a + n /\ request.bytes = InMemory(a, n)
         /\ request.addr = a /\ request.want = want
  BY DEF InMemory, NextAddress

\* All addresses up to the next are mapped.
LEMMA ReadableMapped ==
  ASSUME IInv, NEW b \in Nat, Readable(b)
  PROVE  /\ AS!Mapped(b) /\ elf_cache[AS!Home(b).path] = "open" /\ InsideFile(AS!Home(b))
  BY HomeFound DEF Readable, IInv, Space

LEMMA InMemoryAppend ==
  ASSUME IInv, NEW a \in Nat, NEW n \in Nat, NEW m \in Space, Covers(m, a + n),
         NEW limit \in Nat \ {0}
  PROVE  \E k \in 1 .. limit :
           /\ InMemory(a, n) \o BytesOf(m, a + n, limit) = InMemory(a, n + k)
           /\ \A b \in a + n .. a + n + k - 1 : Covers(m, b)
  <1> DEFINE k == Smaller(limit, VaddrEnd(m) - (a + n))
             Byte(i) == <<m.path, OffsetOf(m, a + n + i - 1)>>
  <1>1. /\ m \in Mapping /\ m.vaddr \in Nat /\ VaddrEnd(m) \in Nat
        /\ FixFileOffset(m) \in Nat /\ m.path \in Path
    BY SpaceType, MappingType
  <1>2. k \in 1 .. limit /\ k <= VaddrEnd(m) - (a + n)
    BY <1>1 DEF Smaller, Covers
  <1>3. BytesOf(m, a + n, limit) = [i \in 1 .. k |-> Byte(i)]
    BY DEF BytesOf
  <1> HIDE DEF k
  <1>4. \A b \in a + n .. a + n + k - 1 : Covers(m, b) /\ b \in Nat
    BY <1>1, <1>2 DEF Covers
  <1>5. \A b \in a + n .. a + n + k - 1 : AS!Memory(b) = <<m.path, OffsetOf(m, b)>>
    BY <1>4, HomeFound, SameOperators DEF AS!Memory, IInv, Space
  <1>6. \A i \in 1 .. k : Byte(i) = AS!Memory(a + n + i - 1)
    <2>1. \A i \in 1 .. k : a + n + i - 1 \in a + n .. a + n + k - 1
      BY <1>2
    <2>. QED
      BY <1>5, <2>1
  <1> HIDE DEF Byte
  <1> DEFINE S == {AS!Memory(b) : b \in Nat}
             x == InMemory(a, n)
             y == [i \in 1 .. k |-> Byte(i)]
             z == InMemory(a, n + k)
  <1>7. x \in Seq(S) /\ Len(x) = n /\ \A i \in 1 .. n : x[i] = AS!Memory(a + i - 1)
    BY DEF InMemory
  <1>8. y \in Seq(S) /\ Len(y) = k /\ \A i \in 1 .. k : y[i] = AS!Memory(a + n + i - 1)
    BY <1>2, <1>6
  <1>9. /\ z \in Seq(S) /\ Len(z) = n + k
        /\ \A i \in 1 .. n + k : z[i] = AS!Memory(a + i - 1)
    BY <1>2 DEF InMemory
  <1> HIDE DEF S, x, y, z
  <1>10. x \o y = z
    <2>1. \A i \in 1 .. n + k : (x \o y)[i] = IF i <= n THEN x[i] ELSE y[i - n]
      BY <1>2, <1>7, <1>8, ConcatProperties
    <2>2. x \o y \in Seq(S) /\ Len(x \o y) = n + k
      BY <1>2, <1>7, <1>8, ConcatProperties
    <2>3. ASSUME NEW i \in 1 .. n + k PROVE (x \o y)[i] = z[i]
      <3>1. CASE i <= n
        BY <1>2, <1>7, <1>9, <2>1, <3>1
      <3>2. CASE ~(i <= n)
        <4>1. i - n \in 1 .. k /\ a + n + (i - n) - 1 = a + i - 1
          BY <1>2, <3>2
        <4>. QED
          BY <1>8, <1>9, <2>1, <3>2, <4>1
      <3>. QED
        BY <3>1, <3>2
    <2>. QED
      BY <1>9, <2>2, <2>3, SeqEqual
  <1>. QED
    BY <1>2, <1>3, <1>4, <1>10 DEF x, y, z

\* What the mapping at the next address has is added.
LEMMA ReadSomeRefines ==
  ASSUME IInv, ImageKept, stage = "decoding", stage' = stage, request # NoRequest,
         Len(request.bytes) < request.want,
         NEW found \in FindMapping(mappings, NextAddress), NEW m \in found, Open(m),
         elf_cache'[m.path] = "open", InsideFile(m),
         request' = [request EXCEPT
                       !.bytes = @ \o BytesOf(m, NextAddress, request.want - Len(@))],
         UNCHANGED <<mappings, symbol_cache, answer>>
  PROVE  ImageKept' /\ AS!Judge
  <1>1. PICK a \in Address, want \in 1 .. MaxWant : \E n \in 0 .. want :
          /\ request = [addr |-> a, want |-> want, bytes |-> InMemory(a, n)]
          /\ \A b \in a .. a + n - 1 : Readable(b)
    BY DEF ImageKept, ReadKept
  <1>2. PICK n \in 0 .. want :
          /\ request = [addr |-> a, want |-> want, bytes |-> InMemory(a, n)]
          /\ \A b \in a .. a + n - 1 : Readable(b)
    BY <1>1
  <1>3. a \in Nat /\ want \in Nat /\ n \in Nat
    BY AddressAssumption
  <1>4. Len(request.bytes) = n /\ NextAddress = a + n /\ request.bytes = InMemory(a, n)
        /\ request.addr = a /\ request.want = want
    BY <1>2, <1>3, NextAddressIs
  <1>5. a + n \in Nat /\ want - n \in Nat \ {0}
    BY <1>3, <1>4
  <1>6. m \in Space /\ Covers(m, a + n) /\ m.path \in Path
    BY <1>4, <1>5, Found, SpaceType
  <1>7. PICK k \in 1 .. want - n :
          /\ InMemory(a, n) \o BytesOf(m, a + n, want - n) = InMemory(a, n + k)
          /\ \A b \in a + n .. a + n + k - 1 : Covers(m, b)
    BY <1>3, <1>5, <1>6, InMemoryAppend
  <1>8. /\ elf_cache' \in [Path -> Verdicts] /\ elf_cache' \in AS!Judged
        /\ \A p \in Path : elf_cache[p] = "open" => elf_cache'[p] = "open"
    BY <1>6, OpenJudges DEF ImageKept
  <1>9. /\ \A b : Readable(b) => Readable(b)'
        /\ CacheKept'
        /\ Space' = Space
        /\ \A b : AS!Memory(b)' = AS!Memory(b)
    BY <1>8, JudgedKeeps DEF ImageKept
  <1>10. InMemory(a, n + k)' = InMemory(a, n + k)
    BY <1>9 DEF InMemory
  <1> PICK bytes : bytes = InMemory(a, n) \o BytesOf(m, a + n, want - n)
    OBVIOUS
  <1>11. request' = [request EXCEPT !.bytes = bytes]
    BY <1>4
  <1>12. request' = [addr |-> a, want |-> want, bytes |-> InMemory(a, n + k)']
    BY <1>2, <1>7, <1>10, <1>11
  <1>13. \A b \in a .. a + (n + k) - 1 : Readable(b)'
    <2>1. \A b \in a + n .. a + n + k - 1 : Readable(b)'
      BY <1>6, <1>7, <1>9 DEF Readable
    <2>2. \A b \in a .. a + (n + k) - 1 : b \in a .. a + n - 1 \/ b \in a + n .. a + n + k - 1
      BY <1>3, <1>7
    <2>. QED
      BY <1>2, <1>9, <2>1, <2>2
  <1>14. n + k \in 0 .. want
    BY <1>3, <1>7
  <1>15. ReadKept'
    BY <1>12, <1>13, <1>14 DEF ReadKept
  <1>16. ImageKept'
    BY <1>8, <1>9, <1>15 DEF ImageKept
  <1>17. AS!Judge
    BY <1>8, <1>9 DEF AS!Judge, Space
  <1>. QED
    BY <1>16, <1>17

\* The mapping at the next address cannot be read.
LEMMA ReadFailsRefines ==
  ASSUME IInv, ImageKept, stage = "decoding", stage' = stage, request # NoRequest,
         Len(request.bytes) < request.want,
         NEW found \in FindMapping(mappings, NextAddress), NEW m \in found, Open(m),
         ~(elf_cache'[m.path] = "open" /\ InsideFile(m)), Reply(<<>>),
         UNCHANGED <<mappings, symbol_cache>>
  PROVE  ImageKept' /\ AS!Next
  <1>1. PICK a \in Address, want \in 1 .. MaxWant : \E n \in 0 .. want :
          /\ request = [addr |-> a, want |-> want, bytes |-> InMemory(a, n)]
          /\ \A b \in a .. a + n - 1 : Readable(b)
    BY DEF ImageKept, ReadKept
  <1>2. PICK n \in 0 .. want :
          /\ request = [addr |-> a, want |-> want, bytes |-> InMemory(a, n)]
          /\ \A b \in a .. a + n - 1 : Readable(b)
    BY <1>1
  <1>3. a \in Nat /\ want \in Nat /\ n \in Nat
    BY AddressAssumption
  <1>4. Len(request.bytes) = n /\ NextAddress = a + n /\ request.addr = a /\ request.want = want
    BY <1>2, <1>3, NextAddressIs
  <1>5. a + n \in Nat /\ n < want
    BY <1>3, <1>4
  <1>6. /\ m \in Space /\ m.path \in Path
        /\ AS!Mapped(a + n) /\ AS!Home(a + n) = m
    BY <1>4, <1>5, Found, SpaceType
  <1>7. /\ elf_cache' \in [Path -> Verdicts] /\ elf_cache' \in AS!Judged
        /\ \A p \in Path : elf_cache[p] = "open" => elf_cache'[p] = "open"
    BY <1>6, OpenJudges DEF ImageKept
  <1>8. CacheKept' /\ Space' = Space
    BY <1>7, JudgedKeeps DEF ImageKept
  <1>9. ImageKept'
    BY <1>7, <1>8 DEF ImageKept, ReadKept, Reply
  <1>10. \A b \in a .. a + n : AS!Mapped(b)
    <2>1. \A b \in a .. a + n - 1 : AS!Mapped(b)
      BY <1>2, <1>3, ReadableMapped
    <2>2. \A b \in a .. a + n : b \in a .. a + n - 1 \/ b = a + n
      BY <1>3
    <2>. QED
      BY <1>6, <2>1, <2>2
  <1>11. a + n \in AS!Run(a, want)
    BY <1>3, <1>5, <1>10 DEF AS!Run
  <1>12. ~AS!Usable(AS!Home(a + n))
    BY <1>6, SameOperators DEF AS!Usable
  <1>13. answer' = [addr |-> a, want |-> want, symbol |-> {}, bytes |-> <<>>]
    BY <1>4 DEF Reply
  <1>14. AS!Read(a, want)
    BY <1>7, <1>8, <1>11, <1>12, <1>13 DEF AS!Read, Space
  <1>. QED
    BY <1>9, <1>14 DEF AS!Next

\* The read ends at an address that is not mapped, or when it has all bytes.
LEMMA EndReadRefines ==
  ASSUME IInv, ImageKept, stage = "decoding", stage' = stage, EndRead
  PROVE  ImageKept' /\ AS!Next
  <1>1. PICK a \in Address, want \in 1 .. MaxWant : \E n \in 0 .. want :
          /\ request = [addr |-> a, want |-> want, bytes |-> InMemory(a, n)]
          /\ \A b \in a .. a + n - 1 : Readable(b)
    BY DEF ImageKept, ReadKept, EndRead
  <1>2. PICK n \in 0 .. want :
          /\ request = [addr |-> a, want |-> want, bytes |-> InMemory(a, n)]
          /\ \A b \in a .. a + n - 1 : Readable(b)
    BY <1>1
  <1>3. a \in Nat /\ want \in Nat /\ n \in Nat
    BY AddressAssumption
  <1>4. Len(request.bytes) = n /\ NextAddress = a + n /\ request.bytes = InMemory(a, n)
        /\ request.addr = a /\ request.want = want
    BY <1>2, <1>3, NextAddressIs
  <1>5. UNCHANGED <<mappings, elf_cache, symbol_cache>> /\ Reply(request.bytes)
    BY DEF EndRead
  <1>6. CacheKept' /\ Space' = Space
    BY <1>5, JudgedKeeps DEF ImageKept
  <1>7. ImageKept'
    BY <1>5, <1>6 DEF ImageKept, ReadKept, Reply
  <1>8. n = want \/ ~AS!Mapped(a + n)
    BY <1>3, <1>4, Found DEF EndRead
  <1>9. /\ AS!Run(a, want) = a .. a + n - 1
        /\ \A b \in a .. a + n - 1 : AS!Usable(AS!Home(b))
    <2>1. \A b \in a .. a + n - 1 : /\ b \in Nat /\ AS!Mapped(b)
                                    /\ elf_cache[AS!Home(b).path] = "open"
                                    /\ InsideFile(AS!Home(b))
      BY <1>2, <1>3, ReadableMapped
    <2>2. \A b \in a .. a + n - 1 : AS!Usable(AS!Home(b))
      BY <1>5, <2>1, SameOperators DEF AS!Usable
    <2>3. \A b \in a .. a + want - 1 :
            (\A c \in a .. b : AS!Mapped(c)) <=> b \in a .. a + n - 1
      <3> SUFFICES ASSUME NEW b \in a .. a + want - 1
                   PROVE  (\A c \in a .. b : AS!Mapped(c)) <=> b \in a .. a + n - 1
        OBVIOUS
      <3>1. CASE b <= a + n - 1
        <4>1. b \in a .. a + n - 1 /\ \A c \in a .. b : c \in a .. a + n - 1
          BY <1>3, <3>1
        <4>. QED
          BY <2>1, <4>1
      <3>2. CASE ~(b <= a + n - 1)
        <4>1. n # want /\ a + n \in a .. b /\ b \notin a .. a + n - 1
          BY <1>3, <3>2
        <4>. QED
          BY <1>8, <4>1
      <3>. QED
        BY <3>1, <3>2
    <2>4. \A b \in a .. a + n - 1 : b \in a .. a + want - 1
      BY <1>3
    <2>5. AS!Run(a, want) = a .. a + n - 1
      BY <2>3, <2>4 DEF AS!Run
    <2>. QED
      BY <2>2, <2>5
  <1>10. Cardinality(AS!Run(a, want)) = n
    <2>1. a \in Int /\ a + n - 1 \in Int
      BY <1>3
    <2>2. Cardinality(a .. a + n - 1) = IF a > a + n - 1 THEN 0 ELSE a + n - 1 - a + 1
      BY <2>1, FS_Interval
    <2>3. (IF a > a + n - 1 THEN 0 ELSE a + n - 1 - a + 1) = n
      BY <1>3
    <2>. QED
      BY <1>9, <2>2, <2>3
  <1>11. answer' = [addr |-> a, want |-> want, symbol |-> {}, bytes |-> InMemory(a, n)]
    BY <1>4, <1>5 DEF Reply
  <1>12. elf_cache' \in AS!Judged
    BY <1>5, SameVerdicts DEF ImageKept
  <1>13. AS!Read(a, want)
    <2> PICK run : run = AS!Run(a, want)
      OBVIOUS
    <2>1. Cardinality(run) = n /\ \A b \in run : AS!Usable(AS!Home(b))
      BY <1>9, <1>10
    <2>2. [i \in 1 .. Cardinality(run) |-> AS!Memory(a + i - 1)] = InMemory(a, n)
      BY <2>1 DEF InMemory
    <2>3. answer' = [addr |-> a, want |-> want, symbol |-> {},
                     bytes |-> IF \A b \in AS!Run(a, want) : AS!Usable(AS!Home(b))
                               THEN [i \in 1 .. AS!Cardinality(AS!Run(a, want)) |->
                                       AS!Memory(a + i - 1)]
                               ELSE <<>>]
      BY <1>11, <2>1, <2>2, SameCardinality
    <2>. QED
      BY <1>6, <1>12, <2>3 DEF AS!Read, Space
  <1>. QED
    BY <1>7, <1>13 DEF AS!Next

LEMMA ReadMappingRefines ==
  ASSUME IInv, ImageKept, stage = "decoding", stage' = stage, ReadMapping
  PROVE  ImageKept' /\ AS!Next
  <1>1. /\ request # NoRequest /\ Len(request.bytes) < request.want
        /\ UNCHANGED <<mappings, symbol_cache>>
    BY DEF ReadMapping
  <1>2. PICK found \in FindMapping(mappings, NextAddress) : \E m \in found :
          /\ Open(m)
          /\ IF elf_cache'[m.path] = "open" /\ InsideFile(m)
             THEN /\ request' = [request EXCEPT
                       !.bytes = @ \o BytesOf(m, NextAddress, request.want - Len(@))]
                  /\ UNCHANGED answer
             ELSE Reply(<<>>)
    BY DEF ReadMapping
  <1>3. PICK m \in found :
          /\ Open(m)
          /\ IF elf_cache'[m.path] = "open" /\ InsideFile(m)
             THEN /\ request' = [request EXCEPT
                       !.bytes = @ \o BytesOf(m, NextAddress, request.want - Len(@))]
                  /\ UNCHANGED answer
             ELSE Reply(<<>>)
    BY <1>2
  <1>4. CASE elf_cache'[m.path] = "open" /\ InsideFile(m)
    <2>1. ImageKept' /\ AS!Judge
      BY <1>1, <1>3, <1>4, ReadSomeRefines
    <2>. QED
      BY <2>1 DEF AS!Next
  <1>5. CASE ~(elf_cache'[m.path] = "open" /\ InsideFile(m))
    BY <1>1, <1>3, <1>5, ReadFailsRefines
  <1>. QED
    BY <1>4, <1>5

-----------------------------------------------------------------------------
(* Symbols. *)

\* An address that lies within a stub that is aligned lies behind its start by its
\* remainder.
LEMMA StubAligned ==
  ASSUME NEW a \in Int, NEW d \in Nat \ {0}, NEW q \in Int, d * q <= a, a < d * q + d
  PROVE  a - (a % d) = d * q
  <1>1. /\ a \div d \in Int /\ a % d \in Int
        /\ a = d * (a \div d) + (a % d) /\ 0 <= a % d /\ a % d < d
    OBVIOUS
  <1> PICK p \in Int : p = a \div d
    BY <1>1
  <1> PICK r \in Int : r = a % d
    BY <1>1
  <1>2. a = d * p + r /\ 0 <= r /\ r < d
    BY <1>1
  <1> PICK k : k = p - q
    OBVIOUS
  <1>3. k \in Int /\ d * p = d * k + d * q
    OBVIOUS
  <1>4. d * k < d /\ d * k > -d
    BY <1>2, <1>3
  <1>5. k >= 1 => d * k >= d
    BY <1>3
  <1>6. k <= -1 => d * k <= -d
    BY <1>3
  <1>7. k = 0
    BY <1>3, <1>4, <1>5, <1>6
  <1>. QED
    BY <1>2, <1>7

LEMMA Multiple ==
  ASSUME NEW n \in Int, NEW d \in Nat \ {0}, n % d = 0
  PROVE  \E q \in Int : n = d * q
  <1> DEFINE q == n \div d
  <1>1. q \in Int /\ n = d * q
    OBVIOUS
  <1> HIDE DEF q
  <1>. QED
    BY <1>1

-----------------------------------------------------------------------------
\* Where an address is in the file, and where a stretch of the file is in memory.
LEMMA PlacedAt ==
  ASSUME IInv, NEW m \in Space, NEW a \in Nat, NEW s \in Named[m.path]
  PROVE  /\ OffsetOf(m, a) = FixFileOffset(m) + (a - m.vaddr)
         /\ AS!Placed(m, s) = [name |-> s.name, vaddr_start |-> m.vaddr + s.offset - FixFileOffset(m),
                               size |-> s.size]
         /\ m.vaddr \in Nat /\ m.size \in Nat /\ FixFileOffset(m) \in Nat
         /\ s.offset \in Nat /\ s.size \in Nat /\ s.reach \in Nat
         /\ Covers(m, a) <=> m.vaddr <= a /\ a < m.vaddr + m.size
         /\ AS!Reaches(s, OffsetOf(m, a)) <=> Reached(s, OffsetOf(m, a))
  <1>1. m \in Mapping /\ m.path \in Path /\ FixFileOffset(m) \in Nat
    BY SpaceType
  <1>2. AS!FixFileOffset(m) = FixFileOffset(m)
    BY SameOperators
  <1>3. AS!Placed(m, s) = [name |-> s.name, vaddr_start |-> m.vaddr + s.offset - FixFileOffset(m),
                           size |-> s.size]
    BY <1>2 DEF AS!Placed
  <1>4. s.offset \in Nat /\ s.size \in Nat /\ s.reach \in Nat
    BY <1>1, NamedType
  <1>5. m.vaddr \in Nat /\ m.size \in Nat
    BY <1>1, MappingType
  <1>. QED
    BY <1>1, <1>3, <1>4, <1>5 DEF OffsetOf, Covers, VaddrEnd, AS!Reaches, Reached

\* A stub of a mapping lies at a multiple of the size of a stub.
LEMMA StubPlaced ==
  ASSUME IInv, Space \subseteq Mappings, NEW m \in Space, NEW s \in Stubs(m.path)
  PROVE  \E q \in Int : m.vaddr + s.offset - FixFileOffset(m) = StubSize * q
  <1> PICK d : d = StubSize
    OBVIOUS
  <1>1. PICK i \in DOMAIN Plt[m.path].entries :
          s = [name |-> Plt[m.path].entries[i], offset |-> Plt[m.path].base + i * StubSize,
               size |-> StubSize, reach |-> StubSize]
    BY DEF Stubs
  <1>2. m \in Mapping /\ m.path \in Path /\ FixFileOffset(m) \in Nat /\ m \in Mappings
    BY SpaceType
  <1>3. /\ d \in Nat \ {0} /\ Plt[m.path].base \in Nat /\ i \in Nat /\ m.vaddr \in Nat
    BY <1>1, <1>2, MappingType, SymbolsAssumption
  <1>4. Plt[m.path].entries # <<>>
    BY <1>1
  <1>5. m.vaddr % d = 0 /\ FixFileOffset(m) % d = 0 /\ Plt[m.path].base % d = 0
    BY <1>2, <1>4, LinkAssumption
  <1> DEFINE Times(n) == \E q \in Int : n = d * q
  <1>6. \A n \in Int : n % d = 0 => Times(n)
    BY <1>3, Multiple
  <1>7. m.vaddr \in Int /\ FixFileOffset(m) \in Int /\ Plt[m.path].base \in Int
    BY <1>2, <1>3
  <1> HIDE DEF Times
  <1>8. Times(m.vaddr) /\ Times(FixFileOffset(m)) /\ Times(Plt[m.path].base)
    BY <1>5, <1>6, <1>7
  <1>9. PICK x, y, z \in Int :
          m.vaddr = d * x /\ FixFileOffset(m) = d * y /\ Plt[m.path].base = d * z
    BY <1>8 DEF Times
  <1>10. s.offset = Plt[m.path].base + i * d
    BY <1>1
  <1> PICK q : q = x + z + i - y
    OBVIOUS
  <1>11. q \in Int /\ d * x + (d * z + i * d) - d * y = d * q
    BY <1>3
  <1>. QED
    BY <1>9, <1>10, <1>11

\* What lies at an address of a mapping lies within the mapping.
LEMMA ReachedWithin ==
  ASSUME IInv, Space \subseteq Mappings, NEW m \in Space, NEW a \in Nat, Covers(m, a),
         NEW s \in Named[m.path], Reached(s, OffsetOf(m, a))
  PROVE  WithinMapping(m, s)
  <1>1. s \in Symbols[m.path] \cup Stubs(m.path)
    BY SpaceType DEF Named
  <1>2. \/ s.offset + s.reach <= FixFileOffset(m) \/ FixFileOffset(m) + m.size <= s.offset
        \/ /\ FixFileOffset(m) <= s.offset
           /\ s.offset + s.reach <= FixFileOffset(m) + m.size
           /\ s.size \in {0, s.reach}
    BY <1>1, LinkAssumption
  <1>. QED
    BY <1>2, PlacedAt DEF WithinMapping, Reached

\* A symbol that is looked up in a file is one that is named there.
LEMMA FreshIsNamed ==
  ASSUME IInv, Space \subseteq Mappings, NEW m \in Space, NEW a \in Nat, Covers(m, a),
         NEW symbol \in FreshSymbols(m, a)
  PROVE  \E s \in Named[m.path] : symbol = AS!Placed(m, s) /\ Reached(s, OffsetOf(m, a))
  <1> PICK o : o = OffsetOf(m, a)
    OBVIOUS
  <1>1. m.path \in Path
    BY SpaceType
  <1>2. CASE \E s \in Stubs(m.path) :
               Reached(s, o) /\ symbol = Symbol(s.name, a - (a % StubSize), StubSize)
    <2>1. PICK s \in Stubs(m.path) :
            Reached(s, o) /\ symbol = Symbol(s.name, a - (a % StubSize), StubSize)
      BY <1>2
    <2>2. s \in Named[m.path]
      BY <1>1 DEF Named
    <2>3. s.size = StubSize /\ s.reach = StubSize /\ StubSize \in Nat \ {0}
      BY SymbolsAssumption DEF Stubs
    <2>4. PICK q \in Int : m.vaddr + s.offset - FixFileOffset(m) = StubSize * q
      BY StubPlaced
    <2>5. StubSize * q \in Int /\ StubSize * q <= a /\ a < StubSize * q + StubSize
      BY <2>1, <2>2, <2>3, <2>4, PlacedAt DEF Reached
    <2>6. a - (a % StubSize) = StubSize * q
      <3> PICK d : d = StubSize
        OBVIOUS
      <3>1. a \in Int /\ d \in Nat \ {0} /\ d * q <= a /\ a < d * q + d
        BY <2>3, <2>5
      <3>2. a - (a % d) = d * q
        BY <3>1, StubAligned
      <3>. QED
        BY <3>2
    <2>7. symbol = AS!Placed(m, s)
      BY <2>1, <2>2, <2>3, <2>4, <2>6, PlacedAt DEF Symbol
    <2>. QED
      BY <2>1, <2>2, <2>7
  <1>3. CASE \E s \in Symbols[m.path] :
               Reached(s, o) /\ symbol = Symbol(s.name, a - (o - s.offset), s.size)
    <2>1. PICK s \in Symbols[m.path] :
            Reached(s, o) /\ symbol = Symbol(s.name, a - (o - s.offset), s.size)
      BY <1>3
    <2>2. s \in Named[m.path]
      BY <1>1 DEF Named
    <2>3. a - (o - s.offset) = m.vaddr + s.offset - FixFileOffset(m)
      BY <2>2, PlacedAt
    <2>4. symbol = AS!Placed(m, s)
      BY <2>1, <2>2, <2>3, PlacedAt DEF Symbol
    <2>. QED
      BY <2>1, <2>2, <2>4
  <1>. QED
    BY <1>2, <1>3 DEF FreshSymbols

\* If nothing is found in the file, nothing is named there.
LEMMA NoneIsNamed ==
  ASSUME NEW m, NEW a, FreshSymbols(m, a) = {}, m.path \in Path
  PROVE  \A s \in Named[m.path] : ~Reached(s, OffsetOf(m, a))
  <1> PICK o : o = OffsetOf(m, a)
    OBVIOUS
  <1> PICK stubs : stubs = {s \in Stubs(m.path) : Reached(s, o)}
    OBVIOUS
  <1> PICK symbols : symbols = {t \in Symbols[m.path] : Reached(t, o)}
    OBVIOUS
  <1>1. FreshSymbols(m, a) = IF stubs # {}
                             THEN {Symbol(s.name, a - (a % StubSize), StubSize) : s \in stubs}
                             ELSE {Symbol(s.name, a - (o - s.offset), s.size) : s \in symbols}
    BY DEF FreshSymbols
  <1>2. stubs = {}
    BY <1>1
  <1>3. symbols = {}
    BY <1>1, <1>2
  <1>. QED
    BY <1>2, <1>3 DEF Named

\* A cached symbol that contains the address is the mapping's that covers it.
LEMMA CachedIsNamed ==
  ASSUME IInv, NEW a \in Nat, NEW symbol \in Cached(a), Genuine(symbol)
  PROVE  \E m \in Space : \E s \in Named[m.path] :
           /\ elf_cache[m.path] = "open" /\ Covers(m, a)
           /\ symbol = AS!Placed(m, s) /\ Reached(s, OffsetOf(m, a))
  <1>1. PICK m \in Space : \E s \in Named[m.path] :
          elf_cache[m.path] = "open" /\ symbol = AS!Placed(m, s) /\ WithinMapping(m, s)
    BY DEF Genuine
  <1>2. PICK s \in Named[m.path] :
          elf_cache[m.path] = "open" /\ symbol = AS!Placed(m, s) /\ WithinMapping(m, s)
    BY <1>1
  <1>3. symbol.vaddr_start <= a /\ a < symbol.vaddr_start + symbol.size
    BY DEF Cached, LastBefore
  <1>4. symbol.vaddr_start = m.vaddr + s.offset - FixFileOffset(m) /\ symbol.size = s.size
    BY <1>2, PlacedAt
  <1>5. Covers(m, a) /\ Reached(s, OffsetOf(m, a))
    BY <1>2, <1>3, <1>4, PlacedAt DEF WithinMapping, Reached
  <1>. QED
    BY <1>2, <1>5

\* A symbol that the file at the address names is an answer ...
LEMMA Resolves ==
  ASSUME IInv, NEW a \in Address, a \in Nat, NEW m \in Space, Covers(m, a),
         NEW s \in Named[m.path], Reached(s, OffsetOf(m, a)),
         elf_cache' \in AS!Judged, elf_cache'[m.path] = "open",
         AnswerSymbol(a, {AS!Placed(m, s)}), UNCHANGED mappings
  PROVE  AS!Resolve(a)
  <1>1. AS!Mapped(a) /\ AS!Home(a) = m
    BY HomeFound DEF IInv, Space
  <1>2. AS!Reaches(s, AS!OffsetOf(m, a))
    BY PlacedAt, SameOperators
  <1>3. answer' = [addr |-> a, want |-> 0, bytes |-> <<>>, symbol |-> {AS!Placed(m, s)}]
    BY DEF AnswerSymbol
  <1> PICK found : found = {AS!Placed(m, t) : t \in {u \in Named[m.path] :
                                                     AS!Reaches(u, AS!OffsetOf(m, a))}}
    OBVIOUS
  <1>4. AS!Placed(m, s) \in found
    BY <1>2
  <1>5. \E symbol \in (IF found = {} THEN {{}} ELSE {{t} : t \in found}) :
          answer' = [addr |-> a, want |-> 0, bytes |-> <<>>, symbol |-> symbol]
    BY <1>3, <1>4
  <1>6. found = IF AS!Mapped(a) /\ elf_cache'[AS!Home(a).path] = "open"
                THEN {AS!Placed(AS!Home(a), t) : t \in {u \in Named[AS!Home(a).path] :
                        AS!Reaches(u, AS!OffsetOf(AS!Home(a), a))}}
                ELSE {}
    BY <1>1
  <1>. QED
    BY <1>5, <1>6 DEF AS!Resolve, Named

\* ... and none if there is none.
LEMMA ResolvesNone ==
  ASSUME NEW a \in Address, elf_cache' \in AS!Judged,
         AS!Mapped(a) /\ elf_cache'[AS!Home(a).path] = "open" =>
           \A u \in Named[AS!Home(a).path] : ~AS!Reaches(u, AS!OffsetOf(AS!Home(a), a)),
         AnswerSymbol(a, {}), UNCHANGED mappings
  PROVE  AS!Resolve(a)
  <1> PICK found :
        found = IF AS!Mapped(a) /\ elf_cache'[AS!Home(a).path] = "open"
                THEN {AS!Placed(AS!Home(a), t) : t \in {u \in Named[AS!Home(a).path] :
                        AS!Reaches(u, AS!OffsetOf(AS!Home(a), a))}}
                ELSE {}
    OBVIOUS
  <1>1. found = {}
    OBVIOUS
  <1>2. answer' = [addr |-> a, want |-> 0, bytes |-> <<>>, symbol |-> {}]
    BY DEF AnswerSymbol
  <1>3. \E symbol \in (IF found = {} THEN {{}} ELSE {{t} : t \in found}) :
          answer' = [addr |-> a, want |-> 0, bytes |-> <<>>, symbol |-> symbol]
    BY <1>1, <1>2
  <1>. QED
    BY <1>3 DEF AS!Resolve, Named

LEMMA ResolveFromCacheRefines ==
  ASSUME IInv, ImageKept, stage = "decoding", stage' = stage,
         NEW a \in Address, ResolveFromCache(a)
  PROVE  ImageKept' /\ AS!Next
  <1>1. a \in Nat
    BY AddressAssumption
  <1>2. UNCHANGED <<mappings, elf_cache, symbol_cache, request>>
    BY DEF ResolveFromCache
  <1>3. PICK symbol \in Cached(a) : AnswerSymbol(a, {symbol})
    BY DEF ResolveFromCache
  <1>4. Genuine(symbol)
    BY DEF ImageKept, CacheKept, Cached, LastBefore
  <1>5. PICK m \in Space : \E s \in Named[m.path] :
           /\ elf_cache[m.path] = "open" /\ Covers(m, a)
           /\ symbol = AS!Placed(m, s) /\ Reached(s, OffsetOf(m, a))
    BY <1>1, <1>4, CachedIsNamed
  <1>6. elf_cache' \in AS!Judged
    BY <1>2, SameVerdicts DEF ImageKept
  <1>7. AS!Resolve(a)
    BY <1>1, <1>2, <1>3, <1>5, <1>6, Resolves
  <1>8. /\ \A b : Readable(b)' <=> Readable(b)
        /\ \A b, n : InMemory(b, n)' = InMemory(b, n)
        /\ CacheKept' /\ Space' = Space
    BY <1>2 DEF ImageKept, Readable, InMemory, AS!Memory, AS!Home, CacheKept, Genuine, Space,
                AS!Placed
  <1>9. ReadKept'
    BY <1>2, <1>8 DEF ImageKept, ReadKept
  <1>10. ImageKept'
    BY <1>2, <1>8, <1>9 DEF ImageKept
  <1>. QED
    BY <1>7, <1>10 DEF AS!Next

LEMMA ResolveFreshRefines ==
  ASSUME IInv, ImageKept, stage = "decoding", stage' = stage,
         NEW a \in Address, ResolveFresh(a)
  PROVE  ImageKept' /\ AS!Next
  <1>1. a \in Nat /\ UNCHANGED <<mappings, request>> /\ request = NoRequest
    BY AddressAssumption DEF ResolveFresh
  <1>2. PICK found \in FindMapping(mappings, a) : \E m \in found :
          /\ Open(m) /\ elf_cache'[m.path] = "open"
          /\ \E symbol \in FreshSymbols(m, a) :
               AnswerSymbol(a, {symbol}) /\ symbol_cache' = CacheWith(symbol)
    BY DEF ResolveFresh
  <1>3. PICK m \in found :
          /\ Open(m) /\ elf_cache'[m.path] = "open"
          /\ \E symbol \in FreshSymbols(m, a) :
               AnswerSymbol(a, {symbol}) /\ symbol_cache' = CacheWith(symbol)
    BY <1>2
  <1>4. PICK symbol \in FreshSymbols(m, a) :
          AnswerSymbol(a, {symbol}) /\ symbol_cache' = CacheWith(symbol)
    BY <1>3
  <1>5. m \in Space /\ Covers(m, a) /\ m.path \in Path /\ Space \subseteq Mappings
    BY <1>1, Found, SpaceType DEF ImageKept
  <1>6. /\ elf_cache' \in [Path -> Verdicts] /\ elf_cache' \in AS!Judged
        /\ \A p \in Path : elf_cache[p] = "open" => elf_cache'[p] = "open"
    BY <1>3, <1>5, OpenJudges DEF ImageKept
  <1>7. PICK s \in Named[m.path] : symbol = AS!Placed(m, s) /\ Reached(s, OffsetOf(m, a))
    BY <1>1, <1>5, FreshIsNamed
  <1>8. AS!Resolve(a)
    BY <1>1, <1>3, <1>4, <1>5, <1>6, <1>7, Resolves
  <1>9. /\ \A x : Genuine(x) => Genuine(x)'
        /\ Space' = Space
    BY <1>1, <1>6, JudgedKeeps
  <1>10. Genuine(symbol)'
    <2>1. WithinMapping(m, s)
      BY <1>1, <1>5, <1>7, ReachedWithin
    <2>2. AS!Placed(m, s)' = AS!Placed(m, s)
      BY DEF AS!Placed
    <2>. QED
      BY <1>3, <1>5, <1>7, <1>9, <2>1, <2>2 DEF Genuine
  <1>11. CacheKept'
    BY <1>4, <1>9, <1>10 DEF ImageKept, CacheKept, CacheWith
  <1>12. ImageKept'
    BY <1>1, <1>6, <1>9, <1>11 DEF ImageKept, ReadKept
  <1>. QED
    BY <1>8, <1>12 DEF AS!Next

LEMMA ResolveFailsRefines ==
  ASSUME IInv, ImageKept, stage = "decoding", stage' = stage,
         NEW a \in Address, ResolveFails(a)
  PROVE  ImageKept' /\ AS!Next
  <1>1. /\ a \in Nat /\ UNCHANGED <<mappings, symbol_cache, request>> /\ request = NoRequest
        /\ AnswerSymbol(a, {})
    BY AddressAssumption DEF ResolveFails
  <1>2. PICK found \in FindMapping(mappings, a) :
          \/ found = {} /\ UNCHANGED elf_cache
          \/ \E m \in found : Open(m) /\ (elf_cache'[m.path] = "open" => FreshSymbols(m, a) = {})
    BY DEF ResolveFails
  <1>3. /\ elf_cache' \in [Path -> Verdicts] /\ elf_cache' \in AS!Judged
        /\ \A p \in Path : elf_cache[p] = "open" => elf_cache'[p] = "open"
        /\ AS!Mapped(a) /\ elf_cache'[AS!Home(a).path] = "open" =>
             \A u \in Named[AS!Home(a).path] : ~AS!Reaches(u, AS!OffsetOf(AS!Home(a), a))
    <2>1. CASE found = {} /\ UNCHANGED elf_cache
      BY <1>1, <2>1, Found, SameVerdicts DEF ImageKept
    <2>2. CASE \E m \in found : /\ Open(m)
                                /\ elf_cache'[m.path] = "open" => FreshSymbols(m, a) = {}
      <3>1. PICK m \in found : /\ Open(m)
                               /\ elf_cache'[m.path] = "open" => FreshSymbols(m, a) = {}
        BY <2>2
      <3>2. m \in Space /\ AS!Home(a) = m /\ m.path \in Path
        BY <1>1, Found, SpaceType
      <3>3. elf_cache'[m.path] = "open" => \A u \in Named[m.path] : ~Reached(u, OffsetOf(m, a))
        BY <3>1, <3>2, NoneIsNamed
      <3>4. \A u \in Named[m.path] : AS!Reaches(u, AS!OffsetOf(m, a)) => Reached(u, OffsetOf(m, a))
        BY <1>1, <3>2, PlacedAt, SameOperators
      <3>. QED
        BY <3>1, <3>2, <3>3, <3>4, OpenJudges DEF ImageKept
    <2>. QED
      BY <1>2, <2>1, <2>2
  <1>4. AS!Resolve(a)
    BY <1>1, <1>3, ResolvesNone
  <1>5. CacheKept' /\ Space' = Space
    BY <1>1, <1>3, JudgedKeeps DEF ImageKept
  <1>6. ImageKept'
    BY <1>1, <1>3, <1>5 DEF ImageKept, ReadKept
  <1>. QED
    BY <1>4, <1>6 DEF AS!Next

-----------------------------------------------------------------------------
\* The mappings of a traced thread are mappings of the recording, without overlaps.
LEMMA StartRefines ==
  ASSUME IInv, SInv, ImageKept, NEW t \in Tid, StartDecoding(t)
  PROVE  ImageKept' /\ AS!Next
  <1> PICK image : image = tid_auxtrace[t].image
    OBVIOUS
  <1>1. /\ stage = "parsed" /\ stage' = "decoding" /\ t \in Traced /\ mappings' = image
        /\ UNCHANGED <<elf_cache, symbol_cache, request, answer>>
    BY DEF StartDecoding
  <1>2. mappings = <<>> /\ request = NoRequest /\ symbol_cache = {}
    BY <1>1 DEF ImageKept
  <1>3. IsImage(image) /\ image = Entry(t).image
    BY <1>1 DEF Traced, IInv, IsEntry, Entry
  <1>4. ToSet(image) \subseteq Mappings
    <2>1. ThreadsKnown /\ WhileAddingKernel
      BY DEF SInv
    <2>2. Tid \in Family(t)
      BY <2>1 DEF ThreadsKnown, Family
    <2>3. ToSet(image) \subseteq KernelMappings \cup UNION {OwnMappings(u) : u \in Tid}
      BY <1>1, <1>3, <2>1, <2>2 DEF WhileAddingKernel, Image
    <2>4. \A r \in ToSet(log) : r \in Records
      BY <2>1, ElementOfSeq DEF ThreadsKnown, ToSet
    <2>5. KernelMappings \subseteq Mappings /\ \A u \in Tid : OwnMappings(u) \subseteq Mappings
      BY <2>4, MappingsAssumption DEF KernelMappings, OwnMappings
    <2>. QED
      BY <2>3, <2>5
  <1>5. ImageKept'
    BY <1>1, <1>2, <1>4 DEF ImageKept, ReadKept, CacheKept, Space
  <1>6. AS!Map
    <2>1. ToSet(mappings) = {}
      BY <1>2, EmptySet
    <2>2. ToSet(mappings)' = ToSet(image)
      BY <1>1
    <2>3. \A m, n \in ToSet(image) : m # n => ~AS!Overlaps(m, n)
      BY <1>3, ImageDisjoint, SameOperators
    <2>. QED
      BY <1>1, <2>1, <2>2, <2>3 DEF AS!Map
  <1>. QED
    BY <1>5, <1>6 DEF AS!Next

LEMMA DecodeRefines ==
  ASSUME IInv, ImageKept, Decode
  PROVE  ImageKept' /\ [AS!Next]_AS!vars
  <1>1. stage = "decoding" /\ stage' = stage /\ ImageNext
    BY DEF Decode, parseVars
  <1>2. ASSUME NEW a \in Address, NEW n \in 1 .. MaxWant, BeginRead(a, n)
        PROVE  ImageKept' /\ [AS!Next]_AS!vars
    BY <1>1, <1>2, BeginReadRefines
  <1>3. ASSUME NEW a \in Address, ResolveFromCache(a) \/ ResolveFresh(a) \/ ResolveFails(a)
        PROVE  ImageKept' /\ [AS!Next]_AS!vars
    BY <1>1, <1>3, ResolveFromCacheRefines, ResolveFreshRefines, ResolveFailsRefines
  <1>4. CASE ReadMapping \/ EndRead
    BY <1>1, <1>4, ReadMappingRefines, EndReadRefines
  <1>. QED
    BY <1>1, <1>2, <1>3, <1>4 DEF ImageNext

LEMMA InitRefines == Init => ImageKept /\ AS!Init
  <1> SUFFICES ASSUME Init PROVE ImageKept /\ AS!Init
    OBVIOUS
  <1>1. /\ mappings = <<>> /\ elf_cache = [p \in Path |-> "unknown"] /\ symbol_cache = {}
        /\ request = NoRequest /\ answer = NoAnswer
    BY DEF Init, ImageInit
  <1>2. ToSet(mappings) = {}
    BY <1>1, EmptySet
  <1>3. ImageKept
    BY <1>1, <1>2 DEF ImageKept, ReadKept, CacheKept, Verdicts, Space
  <1>4. AS!Init
    BY <1>1, <1>2 DEF AS!Init, NoAnswer, AS!NoAnswer
  <1>. QED
    BY <1>3, <1>4

LEMMA NextRefines ==
  IInv /\ SInv /\ ImageKept /\ [Next]_vars => ImageKept' /\ [AS!Next]_AS!vars
  <1> SUFFICES ASSUME IInv, SInv, ImageKept, [Next]_vars
               PROVE  ImageKept' /\ [AS!Next]_AS!vars
    OBVIOUS
  <1>1. CASE (ParseNext /\ UNCHANGED imageVars) \/ UNCHANGED vars
    <2>1. UNCHANGED <<mappings, elf_cache, symbol_cache, request, answer>>
      BY <1>1 DEF vars, imageVars
    <2>2. stage = "decoding" => stage' = "decoding"
      BY <1>1 DEF vars, parseVars, ParseNext, ReadHeader, ReadRecord, ReadAuxtrace,
                  ReadAuxtraceInfo, ReadMmap2, ReadComm, Fail, ReadRecordFails, EndOfFile,
                  InheritNext, KernelNext, CopyMapping, EndInherit, EndParse
    <2>3. /\ \A b : Readable(b)' <=> Readable(b)
          /\ \A b, n : InMemory(b, n)' = InMemory(b, n)
          /\ CacheKept' /\ Space' = Space
      BY <2>1 DEF ImageKept, Readable, InMemory, AS!Memory, AS!Home, CacheKept, Genuine, Space,
                  AS!Placed
    <2>4. ReadKept'
      BY <2>1, <2>3 DEF ImageKept, ReadKept
    <2>5. ImageKept'
      BY <2>1, <2>2, <2>3, <2>4 DEF ImageKept
    <2>6. UNCHANGED AS!vars
      BY <2>1 DEF AS!vars
    <2>. QED
      BY <2>5, <2>6
  <1>2. CASE \E t \in Tid : StartDecoding(t)
    BY <1>2, StartRefines
  <1>3. CASE Decode
    BY <1>3, DecodeRefines
  <1>. QED
    BY <1>1, <1>2, <1>3 DEF Next

\* Reading mapping by mapping, with bisection and the caches, answers like the plain
\* address space, whatever is mapped and whatever is asked in whatever order.
THEOREM ImageImplementsAddressSpace == Spec => ImplementsAddressSpace
  <1>1. Spec => []IInv /\ []SInv
    BY Invariance, ServesInvariance, PTL
  <1>2. IInv /\ SInv /\ ImageKept /\ [Next]_vars => ImageKept' /\ [AS!Next]_AS!vars
    BY NextRefines
  <1>. QED
    BY <1>1, <1>2, InitRefines, PTL DEF Spec, ImplementsAddressSpace, AS!Spec
=============================================================================
