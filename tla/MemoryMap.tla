------------------------------- MODULE MemoryMap -------------------------------
(***************************************************************************)
(* The file mappings of an address space (Mapping, ElfImage::add_mapping   *)
(* and find_mapping in process-trace/src/elf_image.rs).                    *)
(*                                                                         *)
(* A list of mappings is kept sorted by address.  It is searched by        *)
(* bisection, which is right only for a list that is sorted and whose      *)
(* mappings are disjoint and not empty; nothing but add_mapping sees to    *)
(* that.  Files are known by their path, which stands for the build id     *)
(* that perf recorded with it too.                                         *)
(***************************************************************************)
EXTENDS Integers, SequencesExt

CONSTANTS Path,        \* the files that are mapped
          Kernel,      \* the path that stands for the kernel (DsoKey::Kernel)
          FileSize,    \* [Path -> Nat]
          TextOffset,  \* [Path -> Nat \cup {NoText}], where .text starts in the file
          NoText

Mapping == [vaddr : Nat, file_offset : Nat, size : Nat \ {0}, path : Path]

VaddrEnd(m) == m.vaddr + m.size

Covers(m, a) == m.vaddr <= a /\ a < VaddrEnd(m)

Overlaps(m, n) == m.vaddr < VaddrEnd(n) /\ n.vaddr < VaddrEnd(m)

\* The file offset recorded for a kernel mapping is really an address.
FixFileOffset(m) ==
  IF /\ m.path = Kernel
     /\ TextOffset[m.path] # NoText
     /\ m.file_offset + m.size > FileSize[m.path]
  THEN TextOffset[m.path]
  ELSE m.file_offset

\* where the byte at address a is in the file of the mapping m
OffsetOf(m, a) == FixFileOffset(m) + (a - m.vaddr)

\* A mapping is read only if the whole of it lies in the file.
InsideFile(m) == FixFileOffset(m) + m.size <= FileSize[m.path]

-----------------------------------------------------------------------------
\* add_mapping refuses a mapping that overlaps one that is there.
Fits(maps, m) == \A i \in DOMAIN maps : ~Overlaps(maps[i], m)

\* partition_point: how many mappings, all at the front, start before m
Position(maps, m) ==
  CHOOSE p \in 0 .. Len(maps) :
    \A i \in DOMAIN maps : (i <= p) <=> (maps[i].vaddr < m.vaddr)

\* mutated form: appends
InsertedLast(maps, m) == Append(maps, m)

Inserted(maps, m) == InsertAt(maps, Position(maps, m) + 1, m)

\* copy_mappings adds the mappings of another image and ignores what does not fit.
WithMapping(maps, m) == IF Fits(maps, m) THEN Inserted(maps, m) ELSE maps

-----------------------------------------------------------------------------
(***************************************************************************)
(* find_mapping bisects the list with a comparison that puts a mapping     *)
(* before, at or after the address.  What binary_search_by promises: if    *)
(* the list is ordered by the comparison, the result is a mapping at the   *)
(* address, or none if there is none; if not, either may come out.         *)
(* FindMapping is the set of possible results, each a set of at most one   *)
(* mapping.                                                                *)
(***************************************************************************)
Side(m, a) == IF m.vaddr > a THEN 1 ELSE IF VaddrEnd(m) <= a THEN -1 ELSE 0

OrderedAround(maps, a) ==
  \A i, j \in DOMAIN maps : i < j => Side(maps[i], a) <= Side(maps[j], a)

At(maps, a) == {maps[i] : i \in {j \in DOMAIN maps : Side(maps[j], a) = 0}}

FindMapping(maps, a) ==
  {{m} : m \in At(maps, a)}
    \cup (IF At(maps, a) = {} \/ ~OrderedAround(maps, a) THEN {{}} ELSE {})

\* What every list of mappings has to be: sorted, and without overlaps.
SortedDisjoint(maps) ==
  \A i, j \in DOMAIN maps : i < j => VaddrEnd(maps[i]) <= maps[j].vaddr

\* a look-up at a finds the one mapping that covers a, if there is one
ExactAt(maps, a) == FindMapping(maps, a) = {{m \in ToSet(maps) : Covers(m, a)}}
=============================================================================
