------------------------------- MODULE Recording -------------------------------
(***************************************************************************)
(* From a perf.data file to the answers a decoder gets (the first half of  *)
(* main in process-trace/src/main.rs): PerfData builds the address spaces, *)
(* and the trace of one thread is decoded with its image.  The threads are *)
(* decoded one after the other with images that share nothing, so only one *)
(* is kept, any of them.                                                   *)
(***************************************************************************)
EXTENDS PerfData, ElfImage

ASSUME MappingsAssumption ==
  \A r \in Records : r.type = "mmap2" => r.mapping \in Mappings

vars == <<parseVars, imageVars>>

Init == ParseInit /\ ImageInit

\* main takes one of the raw traces; what parse_perf_data knew is gone
StartDecoding(t) ==
  /\ stage = "parsed"
  /\ t \in Traced
  /\ mappings' = tid_auxtrace[t].image
  /\ UNCHANGED <<elf_cache, symbol_cache, request, answer>>
  /\ stage' = "decoding"
  /\ log' = <<>> /\ tid_auxtrace' = <<>> /\ kernel_image' = <<>>
  /\ tid_to_parent' = [u \in Tid |-> 0] /\ info' = {} /\ todo' = {} /\ copying' = NothingToCopy

Decode == stage = "decoding" /\ ImageNext /\ UNCHANGED parseVars

Next == \/ ParseNext /\ UNCHANGED imageVars
        \/ \E t \in Tid : StartDecoding(t)
        \/ Decode

Spec == Init /\ [][Next]_vars

-----------------------------------------------------------------------------
(* What the properties compare the images and the data with. *)

OwnMappings(t) ==
  {r.mapping : r \in {q \in ToSet(log) : q.type = "mmap2" /\ q.pid > 0 /\ q.tid = t}}

KernelMappings ==
  {r.mapping : r \in {q \in ToSet(log) : q.type = "mmap2" /\ ~(q.pid > 0)}}

\* the mappings of the process that t is a thread of, if any were recorded
ProcessMappings(t) == IF tid_to_parent[t] = 0 THEN {} ELSE OwnMappings(tid_to_parent[t])

\* t, its process, the process of that process, and so on, or more
Family(t) == {family \in SUBSET Tid :
                /\ t \in family
                /\ \A u \in family : tid_to_parent[u] # 0 => tid_to_parent[u] \in family}

\* where, in the first n records, the parts of t's data are
PartsUpTo(t, n) == {i \in 1 .. n : log[i].type = "auxtrace" /\ log[i].tid = t}

Displaced(m, by) == \E n \in by : Overlaps(m, n)

-----------------------------------------------------------------------------
\* The lists of mappings are put together from records and copies in any
\* order, and are bisected without a check: a look-up has to find the one
\* mapping that covers the address in every list at any time.
ImagesExact ==
  \A a \in Address :
    /\ ExactAt(mappings, a) /\ ExactAt(kernel_image, a)
    /\ \A t \in DOMAIN tid_auxtrace : ExactAt(tid_auxtrace[t].image, a)

\* The address space a thread is decoded with: its own mappings, all of them;
\* those of its process, unless one of its own is in the way; the kernel's
\* ("pid=-1 means the mapping applied to all threads"), unless one of the
\* others is; and none from anywhere else, in whatever order the threads are
\* visited.
OwnThenProcessThenKernel ==
  stage = "parsed" =>
    \A t \in Traced :
      LET image == ToSet(tid_auxtrace[t].image) IN
      /\ OwnMappings(t) \subseteq image
      /\ \A m \in ProcessMappings(t) \ image : Displaced(m, OwnMappings(t))
      /\ \A m \in KernelMappings \ image : Displaced(m, image \ KernelMappings)
      /\ \A family \in Family(t) :
           image \subseteq KernelMappings \cup UNION {OwnMappings(u) : u \in family}

\* where part i of the data has to start: at the end of the part before it, or
\* anew in another buffer
EndBefore(data, i) ==
  IF i > 1 /\ data[i - 1].index = data[i].index THEN data[i - 1].offset + data[i - 1].len ELSE 0

\* A trace that is decoded has all that was recorded of the thread, in the
\* order it was recorded, across moves to other CPUs: the k-th part that was
\* recorded is the k-th that is decoded.  As long as no part repeats what
\* another holds, the data has no gaps either.
DataFollowsRecording ==
  stage = "parsed" =>
    \A t \in Tid :
      LET data  == Entry(t).data
          parts == PartsUpTo(t, Len(log))
      IN  /\ t \in Traced <=> \E i \in parts : log[i].len > 0
          /\ Len(data) = Cardinality(parts)
          /\ \A i \in parts : data[Cardinality(PartsUpTo(t, i))] = log[i]
          /\ (\A i \in 1 .. Len(data) : data[i].offset >= EndBefore(data, i)) =>
               \A i \in 1 .. Len(data) : data[i].offset = EndBefore(data, i)

-----------------------------------------------------------------------------
AS == INSTANCE AddressSpace WITH
        space   <- ToSet(mappings),
        verdict <- elf_cache,
        Named   <- [p \in Path |-> Symbols[p] \cup Stubs(p)]

\* Reading mapping by mapping from a sorted list, with files prepared once and
\* symbols cached by where they start, the image answers like the plain
\* address space: with what is in memory up to the first hole, and with a
\* symbol that is there.
ImplementsAddressSpace == AS!Spec
=============================================================================
