------------------------------- MODULE PerfData -------------------------------
(***************************************************************************)
(* Reading a perf.data file (parse_perf_data in                            *)
(* process-trace/src/perf_data.rs): the processor trace of each thread is  *)
(* put together from the parts perf recorded, and so is its address space, *)
(* from its own mappings, its process's and the kernel's.                  *)
(*                                                                         *)
(* The records of the file are the input.  The two loops that copy         *)
(* mappings are modelled one add_mapping at a time, and visit the threads  *)
(* in any order (they iterate over a HashMap).  log holds the records read *)
(* so far; only the properties refer to it.                                *)
(***************************************************************************)
EXTENDS MemoryMap

CONSTANTS Tid,         \* thread ids; the id of a process is that of its main thread
          Records,     \* the records the file may contain
          MaxRecords,  \* bound on the length of the file
          NoIndex

ASSUME TidAssumption == Tid \subseteq Nat \ {0}

\* Threads are those of Tid, a mapping that is recorded is not empty, and a part of
\* the data, which may be, is in a buffer.
ASSUME RecordsAssumption ==
  \A r \in Records :
    /\ r.type = "mmap2" => r.mapping \in Mapping /\ (r.pid > 0 => r.tid \in Tid)
    /\ r.type = "comm" /\ r.pid > 0 /\ r.tid > 0 => r.pid \in Tid /\ r.tid \in Tid
    /\ r.type = "auxtrace" => /\ r.tid \in Tid /\ r.index # NoIndex
                              /\ r.offset \in Nat /\ r.len \in Nat

VARIABLES stage,          \* "header", "records", "inherit", "kernel", "parsed" or "failed"
          log,
          tid_auxtrace,   \* [tid -> data, cur_index, cur_offset and image], of the threads met
          kernel_image,
          tid_to_parent,  \* [Tid -> Tid], 0 where there is no entry
          info,           \* which of "frequency" and "tsc" are known
          todo,           \* the threads the current loop has yet to visit
          copying         \* the mappings that remain to be copied, and the thread they go to

parseVars == <<stage, log, tid_auxtrace, kernel_image, tid_to_parent, info, todo, copying>>

IncompleteAuxtrace == [data |-> <<>>, cur_index |-> NoIndex, cur_offset |-> 0, image |-> <<>>]

NothingToCopy == [to |-> 0, from |-> <<>>]

ParseInit ==
  /\ stage = "header"
  /\ log = <<>>
  /\ tid_auxtrace = <<>>
  /\ kernel_image = <<>>
  /\ tid_to_parent = [t \in Tid |-> 0]
  /\ info = {}
  /\ todo = {}
  /\ copying = NothingToCopy

\* any error ends the program
Fail == stage' = "failed"

\* the CPU id is there and has four parts that can be parsed, or not
ReadHeader ==
  /\ stage = "header"
  /\ stage' \in {"records", "failed"}
  /\ UNCHANGED <<log, tid_auxtrace, kernel_image, tid_to_parent, info, todo, copying>>

-----------------------------------------------------------------------------
\* tid_auxtrace.entry(t).or_insert_with(IncompleteAuxtrace::new)
Entry(t) == IF t \in DOMAIN tid_auxtrace THEN tid_auxtrace[t] ELSE IncompleteAuxtrace

WithEntry(t, aux) == [u \in DOMAIN tid_auxtrace \cup {t} |-> IF u = t THEN aux ELSE tid_auxtrace[u]]

\* where the next part of buffer i may start: a thread on a new CPU has a new buffer
Expected(aux, i) == IF aux.cur_index \in {NoIndex, i} THEN aux.cur_offset ELSE 0

\* mutated form of AddPart: what was recorded on the earlier CPU is dropped
AddPartAfresh(aux, r) ==
  [aux EXCEPT !.cur_index = r.index,
              !.data = IF aux.cur_index = r.index THEN Append(@, r) ELSE <<r>>,
              !.cur_offset = Expected(aux, r.index) + r.len]

\* add_part: a part may repeat what is there (padding), and is then kept whole
AddPart(aux, r) ==
  [aux EXCEPT !.cur_index = r.index,
              !.data = Append(@, r),
              !.cur_offset = Expected(aux, r.index) + r.len]

\* PERF_RECORD_AUXTRACE
ReadAuxtrace(r) ==
  /\ r.type = "auxtrace"
  /\ LET aux == Entry(r.tid) IN
     IF r.offset <= Expected(aux, r.index)
     THEN tid_auxtrace' = WithEntry(r.tid, AddPart(aux, r)) /\ UNCHANGED stage
     ELSE Fail /\ UNCHANGED tid_auxtrace
  /\ UNCHANGED <<kernel_image, tid_to_parent, info>>

\* PERF_RECORD_AUXTRACE_INFO of Intel PT; matches: an event attribute has its PMU type
ReadAuxtraceInfo(r) ==
  /\ r.type = "info"
  /\ IF r.matches /\ ~r.complete
     THEN Fail /\ UNCHANGED info
     ELSE /\ info' = info \cup {"tsc"} \cup (IF r.matches THEN {"frequency"} ELSE {})
          /\ UNCHANGED stage
  /\ UNCHANGED <<tid_auxtrace, kernel_image, tid_to_parent>>

\* PERF_RECORD_MMAP2 of a file; pid = -1 means that the mapping is in all threads
ReadMmap2(r) ==
  /\ r.type = "mmap2"
  /\ LET image == IF r.pid > 0 THEN Entry(r.tid).image ELSE kernel_image IN
     IF ~Fits(image, r.mapping)
     THEN Fail /\ UNCHANGED <<tid_auxtrace, kernel_image>>
     ELSE /\ UNCHANGED stage
          /\ IF r.pid > 0
             THEN /\ tid_auxtrace' = WithEntry(r.tid,
                        [Entry(r.tid) EXCEPT !.image = Inserted(image, r.mapping)])
                  /\ UNCHANGED kernel_image
             ELSE /\ kernel_image' = Inserted(image, r.mapping)
                  /\ UNCHANGED tid_auxtrace
  /\ UNCHANGED <<tid_to_parent, info>>

\* PERF_RECORD_COMM: tells which process a thread belongs to
ReadComm(r) ==
  /\ r.type = "comm"
  /\ tid_to_parent' = IF r.pid > 0 /\ r.tid > 0 /\ r.pid # r.tid
                      THEN [tid_to_parent EXCEPT ![r.tid] = r.pid]
                      ELSE tid_to_parent
  /\ UNCHANGED <<stage, tid_auxtrace, kernel_image, info>>

ReadRecord ==
  /\ stage = "records"
  /\ Len(log) < MaxRecords
  /\ \E r \in Records :
       /\ log' = Append(log, r)
       /\ ReadAuxtrace(r) \/ ReadAuxtraceInfo(r) \/ ReadMmap2(r) \/ ReadComm(r)
  /\ UNCHANGED <<todo, copying>>

ReadRecordFails ==
  /\ stage = "records"
  /\ Fail
  /\ UNCHANGED <<log, tid_auxtrace, kernel_image, tid_to_parent, info, todo, copying>>

EndOfFile ==
  /\ stage = "records"
  /\ IF info = {"tsc", "frequency"}
     THEN stage' = "inherit" /\ todo' = DOMAIN tid_auxtrace
     ELSE Fail /\ UNCHANGED todo
  /\ UNCHANGED <<log, tid_auxtrace, kernel_image, tid_to_parent, info, copying>>

-----------------------------------------------------------------------------
NotCopying == copying.from = <<>>

\* mutated form: the mappings of the thread go to its process
CopyTask(t, p) == [to |-> p, from |-> tid_auxtrace[t].image]

\* child.copy_mappings(&parent.image), with the image the parent has by now
Inheritance(t, p) == [to |-> t, from |-> tid_auxtrace[p].image]

InheritNext(t) ==
  /\ stage = "inherit" /\ NotCopying /\ t \in todo
  /\ todo' = todo \ {t}
  /\ copying' = IF tid_to_parent[t] \in DOMAIN tid_auxtrace
                THEN Inheritance(t, tid_to_parent[t])
                ELSE copying
  /\ UNCHANGED <<stage, log, tid_auxtrace, kernel_image, tid_to_parent, info>>

\* copy_mappings, one mapping
CopyMapping ==
  /\ ~NotCopying
  /\ tid_auxtrace' = [tid_auxtrace EXCEPT ![copying.to].image = WithMapping(@, Head(copying.from))]
  /\ copying' = IF Len(copying.from) = 1 THEN NothingToCopy
                ELSE [copying EXCEPT !.from = Tail(@)]
  /\ UNCHANGED <<stage, log, kernel_image, tid_to_parent, info, todo>>

\* the threads with data, for which a RawTrace is returned
Traced == {t \in DOMAIN tid_auxtrace :
             \E i \in DOMAIN tid_auxtrace[t].data : tid_auxtrace[t].data[i].len > 0}

EndInherit ==
  /\ stage = "inherit" /\ NotCopying /\ todo = {}
  /\ stage' = "kernel"
  /\ todo' = Traced
  /\ UNCHANGED <<log, tid_auxtrace, kernel_image, tid_to_parent, info, copying>>

\* image.copy_mappings(&kernel_image), for threads that were traced
KernelNext(t) ==
  /\ stage = "kernel" /\ NotCopying /\ t \in todo
  /\ todo' = todo \ {t}
  /\ copying' = [to |-> t, from |-> kernel_image]
  /\ UNCHANGED <<stage, log, tid_auxtrace, kernel_image, tid_to_parent, info>>

EndParse ==
  /\ stage = "kernel" /\ NotCopying /\ todo = {}
  /\ stage' = "parsed"
  /\ UNCHANGED <<log, tid_auxtrace, kernel_image, tid_to_parent, info, todo, copying>>

ParseNext ==
  \/ ReadHeader \/ ReadRecord \/ ReadRecordFails \/ EndOfFile
  \/ \E t \in Tid : InheritNext(t) \/ KernelNext(t)
  \/ CopyMapping \/ EndInherit \/ EndParse

=============================================================================
