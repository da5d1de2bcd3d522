# A TLA+ model of pt-fuser

pt-fuser turns an Intel PT recording (`perf.data`) into *traces*: trees of stack frames,
one per call of a function of interest, with the time, cycles and instructions each call
took.  `process-trace` decodes the recording and guesses the call tree from the blocks
the decoder yields; the `pt-fuser` library holds the data structure and the tools that
merge, analyse and export traces.

This directory contains TLA+ modules for the whole of that pipeline, the TLC runs that
check them on small instances, and proofs for every instance of what can be proved.
Paths below are relative to the repository.

## 1. The system

### Components, state and operations

| Component | Source | State | Operations |
|---|---|---|---|
| Transformer | `process-trace/src/intel_pt.rs` | decoder state, reason of the last branch, current metrics, traces left, an optional builder (in progress or paused) | `next`, `produce_trace` (read block, read event, resync, sync forward), `process_block`, `process_event` |
| TraceBuilder, PausedTraceBuilder | `pt-fuser/src/trace/builder.rs` | last metrics, current frame, call stack, events, symbol cache; start of the pause | `new`, `push_frame`, `complete_frame`, `event_occured`, `pause`, `resume` |
| Frame | `pt-fuser/src/trace/frame.rs` | range, symbol, stored chunks | `add_child`, `add_pause`, `chunks`, `check_invariant`, serialization |
| Metrics, MetricsRange | `pt-fuser/src/trace/metrics.rs` | three counters; start and packed difference | arithmetic, order, inclusion |
| Trace, Event, annotations | `pt-fuser/src/trace/mod.rs`, `trace_error.rs`, `trace_annotation.rs` | symbols, root, events with sorted occurrences | `add_occurence`, `from_occurences`, file format |
| Merge | `pt-fuser/src/merge/` | merged tree under construction, lost frames | `merge_traces`, `find_lcs`, `find_frequent_children`, `merge_children`, `merge_events`, statistics |
| Perfetto | `pt-fuser/src/perfetto/` | bounded channel, stop flag, writer thread | `process_frame`, `start`, the writer's loop, Ctrl-C |
| Analysis | `pt-fuser/src/analysis/`, `merge/stats.rs`, `bin/histogram.rs`, `bin/merge.rs` | stack of finders, bitmap, index of the next occurrence, datapoints, names by position | frame finder, `run_filter`, `filter_traces`, `add_histogram_datapoint`, `Stats`, `Bins`, raw latencies and noise |
| PerfData | `process-trace/src/perf_data.rs` | per-thread auxtrace parts and images, kernel image, parents | record loop, `add_part`, inheritance of mappings |
| ElfImage, SymbolCache | `process-trace/src/elf_image.rs`, `symbol_cache.rs` | mappings, lookup caches | `add_mapping`, `copy_mappings`, `read_chunk`, `resolve_symbol` |
| DataRateHistogram | `process-trace/src/data_rate.rs` | ring of bins | `update`, `rate` |
| process-trace main | `process-trace/src/main.rs` | thread pool of export jobs | decode, export, join |
| Tools, progress | `pt-fuser/src/bin/`, `process-trace/src/progress.rs` | - | argument parsing, output |

### How they interact

`parse_perf_data` puts the trace of every thread together and builds, for each, the list of
files mapped into it.  `main` pulls traces out of a `Transformer` (an iterator) for each
thread and hands every trace to a thread pool that writes it to disk.  The Transformer asks
the libipt block decoder for blocks and events; the decoder reads code through the thread's
`ElfImage`, and the Transformer resolves symbols through it and tells the data-rate
histogram how far it is.  It drives one `TraceBuilder` at a time: it calls `push_frame` and
`complete_frame` when it thinks a call or a return happened, `pause` and `resume` when
tracing is switched off and on.  The builder turns an unfinished frame into a `Frame` by
adding its children to it one by one with `insert_chunk`, which checks that they fit.  The
merge tool, the analyses and the Perfetto converter read finished frames; the tools find and
filter traces with the frame finder before they merge or count.

The decoder is outside the repository.  Data flows one way; the only threads are the export
pool and Perfetto's writer.

### What is hard

* Calls and returns are *guessed* from jumps, with code whose symbols are unknown, lost
  data, interrupts, and recursion in between; the guesses have to keep the stack sane
  over arbitrarily long sequences of blocks and errors.
* Three clocks advance together but may each stand still; comparisons are partial-order
  comparisons, ties are common, and several assertions panic on the wrong answer.
* A builder consumes itself on every step and is lost when a step fails half-way.
* Times come from three places (block times, event times, resync times) with different
  checks.
* State carried over from one iteration of the decoding loop to the next (branch reason,
  continue_resync, the paused builder) must be dropped at each discontinuity.
* The loop has many error paths, and none may spin.
* Lists of mappings come from records in any order and from copies in the order of a
  HashMap, and are bisected without a check.
* Caches decide once: whether a file is usable, and which symbol starts last before an
  address.
* Quotients are rounded at every boundary (data rate), in every average (merge) and in every
  bin (histogram).
* Indices and positions connect separate lists: filtered names and traces, an event's
  occurrences and the frames that are looked at in turn.

`PROJECT.json` lists these one by one under `hazards`, at the line where each bites, with
the property that covers it or a note where none does.

## 2. The modules

```
Metrics <- Packing                          (how a range is stored)
Metrics <- Frames <- FrameChunks            <- MCFrameChunks     (also on Packing)
              ^           ^
              |           FrameChunksProofs (also on FramesProofs)
              |- FramesProofs
              |
              +- TraceBuilder               <- MCTraceBuilder
              |      ^
              |      |
              |      +- Transformer         <- MCTransformer, TransformerProofs
              |                                (TransformerProofs also on FramesProofs)
              |
              +- Merge <- MergeEvents       <- MCMerge, MergeProofs
                                               (MergeProofs also on FramesProofs)

MemoryMap <- PerfData  --+
          <- ElfImage  --+- Recording       <- MCRecording, RecordingProofs
          <- AddressSpace  (Recording: INSTANCE AddressSpace WITH ...;
                                              RecordingProofs also on FramesProofs)

Histogram <- Analysis                       <- MCAnalysis
DataRate                                    <- DataRateProofs
Perfetto                                    <- MCPerfetto, PerfettoProofs
Export                                      <- ExportProofs
```

Definitions commented *mutated form* are not the code's: each is a plausible bug that a
property is known to find.

**Metrics** - points (three counters), ranges of points and their comparison.  A range that
would fail the assertions of `MetricsRange::new` is one for which `IsRange` is false; the
caller decides what a failed assertion does (it panics).

**Packing** - how `MetricsRange` stores the end of a range: three differences in one word, or
the address of a copy.  Shifts and masks are products and remainders; `FieldSize` is 2^21 in
the code.

**Frames** - a completed frame as a record with a sequence of chunks, and `insert_chunk` as
operators on it.  The code's loop from the last gap to the first is written as a set,
`Slots`: gap *i* is a slot if it includes the chunk and no gap visited up to it makes the
loop give up; the code takes the largest one.

**FrameChunks** - the state machine of one frame of the public API: chunks are added in
any order, and between additions `check_invariant` walks it, one step per
`ChunkIterator::next`.

**TraceBuilder** - the builder.  `mode` says whether its owner holds a `TraceBuilder`, a
`PausedTraceBuilder` or neither, and how calls ended.  The code's `callstack` and
`current_frame` are one sequence `stack` whose last element is the current frame.  Rust
moves a completed frame into its parent; here completed frames are kept in `done`, and a
chunk names a frame by its position there, so that a property of every frame of the tree
quantifies over a sequence.  `complete_frame` takes one step to pop the frame
(`CompleteFrame`), one for each child it adds (`AddNextChild`), which is where it can fail,
and one to hand the frame over (`EndFrame`); nothing else runs in between, because the
caller owns the builder.  Two owners are specified: `BuilderSpec`, which makes any call
with any point, and `MonotoneSpec`, whose points never decrease.  `MonotoneSpec` is the
abstract specification of a careful owner; what follows from it is proved for every
instance (section 4), so no run checks it alone, and the runs of Transformer check that
Transformer is such an owner.

**Transformer** - the decoding loop.  `EXTENDS TraceBuilder` and drives its actions.  One
iteration of `produce_trace` is one step, with each call the iteration makes to the
builder beyond the first deferred to a step of its own (`job`): the levels still to
return, the call that follows, the pause after an interrupt event.  `Looping` holds off
the next iteration until they have been made.  Every result of the decoder is a choice.

| Model | Code |
|---|---|
| `decoderState` | `DecoderState`; `ReadEventResync` is `ReadEvent { continue_resync: true }` |
| `branchReason` | `branch_reason`; classes other than call and return are one value, because the code compares with nothing else |
| `curMetrics`, `tracesLeft` | `cur_metrics`, `traces_left` |
| `mode`, `stack`, ... | `builder: Option<BuilderState>` and what is in it |
| `iter`, `errorCode` | the caller: between calls of `next`, inside one, after `None`, after `Err` |
| `job` | the rest of the current iteration |
| `inputLeft`, `lastIp`, `jumped` | bound and history variables; no code |
| `Resolve`, `Covers`, `Target` | `resolve_symbol` (with its fallback), `SymbolInfo::contains`, the target regex |
| `Type = "Other"` in `ReadEvent` | every event the code does not look at, including status updates |

`errorCode` stands for the cases of `PtErrorCode` that the properties tell apart.

**Merge** - one call of `merge_children`, on top of `Frames`.  `Index` gives ids to chunks
and computes the longest common subsequence; `find_lcs`'s table is a recursive function.
The loop over common chunks and the recursion of `find_frequent_children` are a stack
`work` of sections to search and groups to add, taken from the front: a section that is
split becomes its first half, the group and its second half.  The average index of a chunk
is an exact fraction, and the rounded break point may fall to either side of a tie, since
the code sums 32-bit floats.  Sections and groups are functions of the traces that have something
in them.

**MergeEvents** - `merge_traces`: `Merge` on the root frames and then, in the range of the
root it made, `merge_events` with `zip_events` and the event of the lost frames.  One step
per event looked at and per occurrence zipped.  `zipping` is the id that is being zipped, and 0
while none is: ids of events are positive.  The stable sort of the lost frames is modelled by
where each of them ends up (`Rank`).  The frames may also be ones inside a trace,
cut short by their merged parent (`AreRoots` is false): then there are no events.  A child
that is added is merged by the same code from the children of its originals; that run is
another behaviour of `Merge`, on frames of its own, and is not nested here.

**MemoryMap** - lists of mappings, shared by the two modules that keep them: `add_mapping`,
`copy_mappings` and `find_mapping`.  The bisection is modelled by what `binary_search_by`
promises: in a list that is not ordered around the address the result is a nondeterministic
choice, so that a list that is wrong shows up as a look-up that may be.

**PerfData** - `parse_perf_data`, a step per record and, in the two loops that copy mappings,
a step per mapping.

| Model | Code |
|---|---|
| `stage` | where `parse_perf_data` is; `failed` is its `Err` |
| `tid_auxtrace`, `tid_to_parent`, `kernel_image` | the same |
| `info` | which of `frequency` and `tsc_conversion` are `Some` |
| `todo` | what the iterator over the HashMap has yet to yield, in any order |
| `copying` | the loop in `copy_mappings` and the image it reads |
| `log` | history variable: the records read |

**ElfImage** - reading and symbols of one image.  A request is answered before the next
one; a read takes a step per mapping it crosses.  `elf_cache` says of each file whether
it has been opened, and what came of it is a choice when it is first needed.  `symbol_cache`
is the `BTreeMap`.  `Symbols` and `Plt` are what the ELF parser and the symbolizer yield;
where symbols overlap, which one the symbolizer gives is a choice.

**AddressSpace** - the abstract specification of an image: a *set* of disjoint mappings, a
read that returns what is in memory from the address to the first hole or nothing at all if a
file is unusable, and a symbol that is really at the address.  No caches and no order.

**Recording** - `PerfData`, and then one thread's image in use.  It implements `AddressSpace`
(`ImplementsAddressSpace`, refinement mapping: the set of the list, and the file cache as the
verdict).

**DataRate** - `update`, with a step per boundary between bins.  `walk` holds the loop's
locals; `points` is a history variable.  A bin counts modulo `BinLimit` (2^32: the additions
wrap in a release build).

**Histogram** - quartiles and bins as operators on a sequence of numbers.

**Analysis** - the loops of the `histogram` and `merge` tools over files, filters and frames.
The finder inside the finder inside the finder is a stack `finder`, the innermost first; the
index into an event's occurrences is part of `tally`.  The statistics of a merged frame are
one step, `RecordStats`, for any choice of one frame of the same name in each of some traces:
which frames end up in a merged one is `Merge`'s business.

**Perfetto** - three processes: the converter, the writer and the handler of Ctrl-C.  The
recursion of `process_frame` is the sequence `walk`.  What the converter does between two
looks at shared state is one step that fills `outbox`; each `send` is a step.  A packet has
the iids it defines and the iids it uses, together with the string that was meant, so that
`NamesKnown` can compare what is meant with what a reader of the file finds.  The value of the
data-rate counter that a slice may carry goes to the track its sequence has named last.

**Export** - the main thread of `process-trace`, the pool and its workers, and the files.
A trace is a thread and an index.  The pool is the `threadpool` crate and modelled from its
use: a job that panics is counted before `join` takes it to be over.  That is what the
documentation of version 1.8.1 (`Cargo.lock`) promises of `panic_count` after `join`.  Its worker
gives up its place in the count of active jobs just before it counts the panic, though, so a
`join` that looks between the two would return too early; `JobPanics` does both in one step and
leaves that window out, and what is checked and proved of Export holds up to it.

## 3. The runs

`tlc -config X.cfg M`, in this directory.  The passing runs check for deadlock, except
those of programs that come to an end: `MCTraceBuilderAny` (a panic ends the thread),
`MCRecording` (a failed parse), `MCDataRate` (no more updates) and `MCAnalysis` (the tool is
done).

| Run | Module, cfg | Question | Bounds |
|---|---|---|---|
| frame_chunks | MCFrameChunks | is a frame well-formed, are refusals justified, does the walk end with the right sums, does every range end where it should | 3 chunks; a 3x2 grid of points (three instants, two instruction counts), so that some are incomparable, and zero-width ranges; a field of 2, so that some differences just fit and others just do not |
| builder_any | MCTraceBuilder, Any | what holds of completed frames and events for any owner | 3 frames, 1 pause per frame, 2 occurrences, 4 frames and occurrences together; 3 points, one ahead in one counter only; a PLT stub and its function |
| transformer_flow | MCTransformer, Flow | do guessed calls and returns keep the stack sane, and does `next` come back | 7 decoder results; a target, a stub, a function, a symbol of size 0 and unknown code; time stands still |
| transformer_time | MCTransformer, Time | is the builder called at points it accepts, and only as `MonotoneSpec` allows | 5 results; 3 time stamps; event times not behind `cur_metrics` |
| transformer_backwards | MCTransformer, Backwards | (finding) event times in any order | 6 results |
| perfetto | MCPerfetto | can what is sent be read at any moment, does Perfetto read back the trace, and does the program end knowing what it wrote | a root with two chunks, a pause at either of two depths, 2 kinds of events; channel of 2 |
| merge | MCMerge | are chunks found, kept, ordered and fitted, and are events and lost frames accounted for | 4 frames, each of 7 shapes with up to 3 chunks and up to 2 events; whole traces, and frames whose merged one is cut short |
| recording | MCRecording | does the decoder see the memory of the thread it decodes, and nothing but its trace | 5 records out of 12; a process and a thread; 7 addresses, 4 mappings (adjacent, overlapping, of a file that is too short, of the kernel); reads of up to 3 bytes, PLT stubs of 2 |
| data_rate | DataRate, MCDataRate | is every byte in the bin of its time | 3 bins of 2 and a remainder, times up to 7, up to 4 bytes, 4 updates; bins count modulo 4 |
| analysis | MCAnalysis | are the files left, the numbers and the names the right ones | 3 files, up to 3 inputs with repeats, up to 2 of 4 filters, 2 patterns; a unit of 2 and 3 datapoints for statistics (1000 and 10 in the code), bins 1 to 3 wide |
| export | Export, MCExport | does the exit code say what is on disk | 2 threads, 2 traces each, 2 workers |
| export_limit | Export, MCExportLimit | (finding) `--max-traces` over several threads | the same, a limit of 1 |

Why the bounds are enough to be interesting.  Three chunks are the smallest number with
which a chunk can go between two others while a third makes the loop give up.  Three frames
are a root with two children, or a chain of three: enough for siblings that share an
instant, and for a stub below a caller.  Seven decoder results are enough to sync, start a
trace, call, enter unknown code, leave it by a return of two levels followed by a call, and
meet the root again or lose synchronisation at any of these points.  Errors use up no input
and are therefore not limited by `MaxInput`.  Control flow and time are explored by separate
runs because their product is too large and the code's control-flow decisions do not look
at time.

Four frames are the smallest number with which 70% differs from all: a chunk may be missing
from one, so that sections are cut at break points too.  Two chunks under a root, one of which
may contain a pause, put a pause at both depths and let the channel (of two) fill up
in the middle of the packets of one pause.  Two workers and two threads are what it takes for
two files to be written at the same time under names that differ in the thread only.

A recording that is decoded takes two records at least (the conversion data, a part of a
trace), which leaves three for mappings, a COMM or further parts: enough for a
thread that inherits a list it partly overlaps, for kernel mappings that a process is in
the way of, and for a trace of parts from two buffers.  Reads of three bytes
cross two mappings.  Three bins and times up to seven allow updates within a bin, on a
boundary, across one or two bins and across the whole window.  Three files and two filters
leave any subset of the files, in more than one round.

`MaxFrames`, `MaxPauses`, `MaxOccurrences` and `MaxTogether` bound the *owner* of a builder and belong to
`MCTraceBuilder`: `BoundedBuilderSpec` is `BuilderSpec` with steps that would pass a bound left
out.  The Transformer runs have no such bounds; they are bounded by `MaxInput`, the number of
decoder results that use up input.

### The properties

* `FrameWellFormed`, `CompletedWellFormed`: chunks inside the frame, disjoint and
  chronological, in all three counters.  The second also covers frames that took over
  the time of a PLT stub.
* `RefusesOnlyWithoutGap`: the early exit of `insert_chunk` never refuses what fits.
  `TiesKeepArrivalOrder`: what ends where among chunks that share an instant.
* `CheckInvariantHolds`, `WalkTerminates`: the INVARIANT of `check_invariant`, and that
  iteration ends.  `RangesSurvive`: no difference spills into its neighbour in the word.
* `ChunksMatchFrames`, `EachFrameHeldOnce`: completed frames form a tree, and parents'
  views of them stay true.  `OccurrencesSorted`: the INVARIANT of `Event::occurences`.
* `NeverLost`: no assertion, and not the `expect` on `complete_frame` either, fails as long
  as time is fed in order.
* `UnknownOnlyOnTop`: the INVARIANT in `process_block`.  `RootCalledOnce`,
  `TopFrameFollowsBlocks`, `JumpForgetsBranch`: the stack against the blocks seen, the
  reason of a jump against discontinuities.  `NextReturns`: every call of `next` ends.
* `MonotoneSpec` as a property of the Transformer: refinement of the careful owner.
* `LongestCommonMerged`: what `find_lcs` finds is a longest common subsequence, and all of
  it is merged (the INVARIANT in `merge_children`).  `CalledInOriginalOrder`: the promise of
  `find_frequent_children`, also for traces that are cut at a rounded average.
  `MergedInCallOrder`, `MergeNeverPanics`: averaged chunks fit into the new frame, in order,
  and the four `expect`s hold; only an occurrence that cannot be scaled (`AllScale`) panics.
  `NothingLost`: every occurrence is in the merged event, as often as in the traces, and the
  frames reported as lost add up.
* `ImagesExact`: bisecting any list of mappings, at any time, finds the one mapping that
  covers an address.  `OwnThenProcessThenKernel`: whose mappings a thread is decoded with, in
  whatever order the threads are visited.  `DataFollowsRecording`: the parts of a trace.
  `ImplementsAddressSpace`: the image with its caches against the plain address space.
* `BinsHoldTheirBytes`, `UpdateEnds`: every byte is in the bin of its time, in spite of
  rounding; and the walk ends.  (`AllAssigned`, that an update hands out all its bytes, follows
  from the first where the bins hold them all; it is a theorem and has no run.)
* `FiltersExact`, `DatapointsExact`: the search and the running index against what the
  code means by a filter and a datapoint: every matching frame judged by its latency, the events
  of all of them counted together, once each (the documentation counts otherwise, see section 5).
  `StatsOfOwnFiles`: latencies under the right names, and neither of the two unsigned
  differences negative, of a frame and its children and of a trace and a frame.
  `EveryDatapointInABin`, `QuartilesHoldHalf`: bins and quartiles.
* `SequencesReadable`: no slice is ended that is not open, a conversion that ends leaves none
  open, and no sequence goes back in time, whenever Ctrl-C comes.  `NamesKnown`: nor is a name
  used that was not defined.  `SlicesMatchTrace`: unless it was stopped, a reader of the packets
  finds the frames, the pauses and the data rate of the trace and no others.
  `SuccessMeansComplete`, `Completes`: a writer that fails is noticed, and nobody waits for ever.
* `SuccessMeansExported`, `Exits`: the exit code against the files.

### Fairness

`FrameChunks` assumes weak fairness of the iterator's steps, and `DataRate` of the steps of an
update that has been called: each is one loop on one thread.  `Transformer` assumes weak fairness of `CallNext` (main calls
`next` until it gets `None` or an error) and of `Loop` (the loop of `produce_trace` does not
block: libipt works on memory).  Both are plain sequential progress; nothing is assumed
about which result the decoder returns, except that it runs out of input: results that
advance it are bounded by `MaxInput`.  Errors are not bounded, so `NextReturns` does say
that no error path spins.  `Perfetto` assumes weak fairness of the converting and of the writing
thread, each as a whole: the operating system runs both.  Ctrl-C need never come, and which of
a write's outcomes happens is left open.  `Export` assumes it of the main thread and of each
worker; that the decoder comes back is `NextReturns`.

## 4. What is proved

`tlapm` checks the proofs of `FramesProofs`, `FrameChunksProofs`, `TransformerProofs`,
`MergeProofs`, `RecordingProofs`, `DataRateProofs`, `PerfettoProofs` and `ExportProofs`
for every value of the constants that satisfies the modules' assumptions: any set of points,
any symbols, any number of frames, pauses, chunks and occurrences, any program and any number of
decoder results, any number of traces to merge and any threshold, any records, mappings and
threads, any window, any trace and capacity.

**FramesProofs** has the lemmas about sequences that the others share (what inserting does to the
elements, what `partition_point` finds) and about `insert_chunk` as a pure function.  The slot
the code takes exists and is the largest one (`SlotIsLast`, by a largest element of a finite set
of naturals); inserting there keeps a frame well-formed (`InsertKeepsWellFormed`); in a
well-formed frame the gaps' ends ascend, so if a gap includes a chunk then none of the later
ones makes the loop give up (`GapEndsAscend`, `RoomyGapIsSlot`); and chunks behind the slot
had not ended when the new chunk starts (`SlotKeepsArrivalOrder`).

**FrameChunksProofs**.  `TypeOK` and `FrameWellFormed` are inductive together; with them go
facts about the iterator: its position is the start of the frame or the end of the last
chunk it yielded or the start of the next, and its totals are what has elapsed up to its
position.  At the end of the walk that is the whole frame (`CheckInvariantHolds`), and a
well-formed frame's chunks are comparable with every such position, so that no assertion
fails (`WalkNeverPanics`).  `RefusesOnlyWithoutGap` and `TiesKeepArrivalOrder` follow from
well-formedness with the lemmas above.
`RangesAlwaysSurvive` is about the packed word for any field size: the three differences are the
digits of a number to the base `FieldSize`, and taking a digit out of a number that was put
together from digits gives it back (`LowestDigit`, `UnpackedIsPacked`, `RangeSurvives`).

**TransformerProofs**, Parts 1 to 3: three inductive invariants of the builder.

* `IInv`, for any owner: types; completed frames and the one under way are well-formed; a
  builder in use has a current frame; starts ascend along the stack and no frame starts
  after `lastMetrics`; every frame chunk names a completed frame; no completed
  frame ends after `lastMetrics`; and the frame being completed ended just now.  The last
  ones are what lets a PLT stub's child be stretched: the new range contains the old one
  because the stub started earlier and ends no earlier.  It gives `TypeCorrect`,
  `CompletedAlwaysWellFormed` and, with a lemma on `partition_point`,
  `OccurrencesAlwaysSorted`.
* `MInv`, for an owner that never moves back: nothing is lost; children are chronological;
  a pause starts no earlier than the last call; the children of a frame end
  before the frame above it starts (`StackNested`); and the children still to be added to
  a frame under completion fit behind those already there (`RestFits`).  `RestFits` is what
  makes `AddNextChild` succeed, and append.  It gives `CarefulOwnerNeverLosesBuilder`,
  `ChildrenAlwaysChronological`, `AlwaysStoredInCallOrder`.
* `Tree`, for any owner again.  Chunks that stand for frames are in four kinds of lists: of
  completed frames, of frames on the stack, of the frame being completed, and of the children it
  has yet to get.  Over all of them together, a chunk has the range of the frame it names
  (`Known`), no two name the same frame (`Unshared`), and every completed frame but the root is
  named (`Placed`).  It gives `ChunksAlwaysMatchFrames` and `FramesAlwaysHeldOnce`; the case that
  takes work is the stub that is removed, whose child changes lists and range at once.

**TransformerProofs**, Parts 4 and 5: the decoding loop.  `DInv` goes with the builder's `IInv` and is about the stack between and
during the iterations of the loop.  To prove `UnknownOnlyOnTop` and `TopFrameFollowsBlocks` one
has to know them half-way: while levels of a return are left, the frame that will be on top is
known already and covers the block (`ReturnsToBlock`); a call that is still to be made is the
block's own symbol, and finds a stack without unknown frames by then (`CallFollowsBlock`).
`BranchForgotten` says that once control flow is lost the last branch is forgotten, or the loop is
in a state that leads there; hence `JumpsAlwaysForgetBranch`.  None of this assumes anything about
times, and `TracesAlwaysTrees` and `TracesAlwaysWellFormed` carry the builder's own invariants
over to it: the Transformer is an owner, any one.

If the decoder's events are in order (`EventsInOrder`; section 5 is about what happens when
they are not), `ClockUpToDate`, that the latest call to the builder was no later than
`curMetrics`, is an invariant too, and every step of the Transformer is one of the careful owner or
leaves the builder alone (`DriverIsCareful`).  `MonotoneSpec` takes its points from `Points`, so the
theorem asks for `Clocked \subseteq Points`, where `Clocked` is every point whose time is that of
a time stamp: `Points` is used by nothing else in the Transformer.  `BuilderNeverLost` follows
without that hypothesis.

**MergeProofs**, ten parts: five on `merge_children`, five on the events of root frames.

1. Ids.  Two chunks of a frame never have the same key (`KeysDiffer`: a symbol and how many
   earlier chunks share it), so an id names at most one chunk of each trace.
2. `find_lcs`.  What it returns is in every sequence, in this order: each chunk of the list is
   still to be found behind the one before (`LeftIn`).
3. `OrderInv`: in every trace, what has been called comes before what is on the stack `work`, in
   the order of the stack, and that before what has not been cut off yet.  Splitting a section at
   a chunk that only some traces have keeps it wherever the break points of the others fall
   (`SectionSplits`), which is why the rounding of the averages does not matter.
   `AlwaysCalledInOriginalOrder`.
4. `MergedInv`: the new frame is well-formed, all its chunks have ended at `minMetrics`, and they
   are the called ones that were not lost.  The average of points is a point (`SumIsPoint`, for the
   fold over the traces), and a range cut by `constrain_metrics` starts at `minMetrics` or
   later and ends inside the parent; hence it goes into the last gap, and is accepted.
   `AlwaysMergedInCallOrder`, `MergedChildAccepted`.
5. The table of `find_lcs` is optimal: no common selection that ends with the k-th chunk of the
   first sequence is longer than the k-th entry (`NoneEndingIsLarger`).  A smallest k at which that
   failed would have a selection whose last but one chunk is at an earlier k.  `LcsInv`: every
   chunk of the list that has been passed is on the stack as a group of all traces, or
   has been called.  `AlwaysLongestCommonMerged`.
6. Scaling.  The quotient keeps points points, keeps their order and stays in the range of the
   new frame (`ScaledInAre`).
7. The sort.  Ranks are a permutation (`RankOfSome`: an injection of a finite set into itself), so
   the sorted list of lost frames exists, is as long and is sorted (`SortedLostIs`).
8. Counting.  Taking the head of an iterator takes one spot from where its point is left
   and no other (`HeadTaken`, by a bijection).
9. `EventsInv`: what has been zipped is sorted and not after anything left in the iterators
   (`Queued`); each point is among what has been zipped and what is left as often as among all
   traces after scaling (`Counted`); and every event that has been looked at has been merged,
   or is being zipped (`Reached`).  Several traces may have the same id and a trace may have it twice;
   the counts are by id, for the first event of a trace with it.
10. `AlwaysNeverPanics` and `AlwaysNothingLost`.

Assumed: frames to merge are well-formed with chunks that are ranges (`InputsAssumption`, what
`CompletedAlwaysWellFormed` says of built traces and `MergedInv` of merged ones), occurrences are
sorted and ids positive (`EventsAssumption`: `OccurrencesAlwaysSorted`, and `from_occurences`
refuses others), and the threshold is a fraction up to 1.  `MergeNeverPanics` has the
hypothesis `AllScale`: nothing happens before its trace starts and every counter of a trace
moves, without which `ScaleCounter` would divide by zero.

**RecordingProofs**, four parts.

1. The inductive invariant says of every list there is - of each thread, of the kernel, the one
   that is being copied from, and the image that is decoded with - that it is a list of
   mappings, and of all but the list being copied from that it is sorted and disjoint.
   `PositionSplits` is what `partition_point` finds; with it, inserting a mapping that overlaps
   none keeps the order (`InsertedIsImage`).  A sorted and disjoint list is ordered by the
   comparison of the bisection around *every* address, and has at most one mapping at it
   (`ImageIsExact`); so `ImagesAlwaysExact`.
2. `SInv` says stage by stage what is in an image: what was recorded for the thread; from the loop
   over parents on also what its process has, unless something of its own is in the way; then
   the kernel's on the same terms.  A thread that was visited before its parent copies what
   the parent has then, so what comes from a grandparent depends on the order of the HashMap: the
   upper bound is the union over the thread's `Family`, any set closed under parents.  An
   earlier version of the property allowed two generations only and failed in the proof:
   with chains of three (which TLC's two threads do not have) mappings travel further.
   `ThreadsAlwaysServed`.
3. `DataKept`: the parts of a thread are those recorded for it, counted through the log, and each
   starts where `cur_index` and `cur_offset` say.  `DataAlwaysFollows`.
4. `ImageKept`: what has been read so far is what is in memory up to the next address
   (`ReadKept`), and a cached symbol is one of a mapped file, in full within its mapping
   (`CacheKept`).  With Part 1 every step of the image is one of `AddressSpace` or stutters
   (`ImageImplementsAddressSpace`).  A symbol that is cached answers for other addresses
   too; that the answer is right there is where `LinkAssumption` is needed.

Assumed: recorded mappings are not empty and are naturals, records name threads of `Tid`, parts
with data are in a buffer (`RecordsAssumption`, `MappingsAssumption`); offsets and sizes of symbols
are naturals (`SymbolsAssumption`); a function or stub lies in one mapping or outside it, no
function reaches into a stub, and stubs are aligned in memory as in the file
(`LinkAssumption`, as linkers lay out files).

**DataRateProofs**, two parts.

1. `WalkInPlace`: while an update runs, its cursor is between the time of the last update and its
   own, and what has been handed out is the rounded share of the time up to the cursor.
   At the end the share is the whole: a product divided by one of its factors
   (`ExactQuotient`), however it was rounded on the way.  This gives `AlwaysAllAssigned`.
2. `BinsAlwaysHoldTheirBytes`.  Its specification, `ProducedBefore`, interpolates between the
   points that were accepted.  `BinsInv` counts the point of an update that runs as accepted
   already (`Upcoming`): with it, what was produced before a boundary is what was handed out when
   the cursor crossed it.  The points are in the order of their times (`Chronicle`), so there is
   exactly one `Cut` for every time, which is what the CHOOSE in the specification picks.
   The bin at the head holds what was handed out since the last boundary, each other bin what was
   produced between two, modulo `BinLimit` (`Filled`); crossing a boundary rotates them.

The solver does not simplify quotients of products by itself; `Quotient` and `ExactQuotient` say
what it needs.

**PerfettoProofs**, five parts.

1. `Delivered` says that what was sent is what is in the file followed by what is in the channel
   as long as no write has failed, and that the writer ends only with an empty channel and no
   sender.  With the phases that go with it, it gives `SuccessMeansCompleteAlways`.
2. `Balanced` is about `Stream`, what was sent followed by what the current piece is about to
   send: on each sequence, every prefix has at least as many begins as ends, and the whole
   has as many more as there are frames on the walk.  Cutting every open frame at a pause is a
   piece that ends as many as are open and begins them again.  `SlicesAlwaysBalanced`.
3. `Timely`: a frame on the walk is *due* at the start of its next chunk, or at its end.  What was
   sent on the trace's sequence is not after the time at which the frame on top is due, and
   each frame has ended when its caller is due (`Nested`).  An event's sequence is empty
   when the event is reached, but for the track of the data rate (`Unreported`).
   `TimestampsAlwaysInOrder`, and with Part 2 `SequencesAlwaysReadable`.
4. `Named`: whatever is in the tables has been defined on the trace's sequence since its track
   packet, or is defined by the packet about to be sent; the names and annotations of all frames
   on the walk are in the tables, which is why they can resume after a pause without
   defining anything; and every use so far is of a definition before it.  A frame's annotations
   are interned by a fold (`InternAll`).  What it returns is proved without an induction theorem:
   the recursive function in the definition of `FoldLeft` exists (`InternFold`), since there
   cannot be a least size of sets up to which it does not.  `NamesAlwaysKnown`.
5. `Converted`: as long as nobody has stopped the conversion there are a set V of frames begun so
   far, a set P of pauses passed so far and, for every frame on the walk, the packet that began
   its open slice, such that
   * every chunk of a frame in V is in V or P, or is one that a frame on the walk has yet to
     reach (`Explored`);
   * all frames in V that are not on the walk, and all pauses in P, are over when the frame on top is
     due, while those on the walk have started and end one inside the other (`Elapsed`);
   * the slices that are closed, together with those the open ones will be, are the pieces of
     the frames in V, cut at the pauses in P or with P as slices of their own (`ReadTo`);
   * the values sent, together with those frames on the walk will send when they end, are the
     data rates of the frames in V (`SampledTo`).

   The step that matters is a pause shown as a gap (`GapCuts`, `ReadGap`): it has to cut exactly
   the frames on the walk, which holds because every other frame of V is over when it starts,
   and a frame begun later starts when it is over.  Part 3's `Timely` is needed for it up to
   the last frame, where events do not matter (`EarlyTimely`).  `Tracked` says that what is
   sent on the trace's sequence goes to the data rate's track.  When the walk is over, V is closed
   under chunks and so is all of the trace.  `SlicesAlwaysMatchTrace`.

Assumed of traces (`TracesAssumption`): chunks follow one another inside their frame, a chunk that
is a frame has that frame's range, names of annotations and events are sequences, and occurrences
are sorted.  That is what
`CompletedAlwaysWellFormed`, `ChunksAlwaysMatchFrames` and `OccurrencesAlwaysSorted` say of the
traces the builder makes, and `MergedInCallOrder` of merged ones.  Part 3 has the
hypothesis `EventsApart` too: no two events have one id, and what shares the data rate's
sequence does not happen before the trace starts.  A trace merged from traces that were
themselves merged violates it if frames were lost both times: `merge_traces`
(`pt-fuser/src/merge/mod.rs:132`) pushes a second event with the same id, and the two are
written to one sequence one after the other.  Part 5 does not need it, but has two others:
`FramesReachable`, that every frame is in the tree under the root, which holds in the code because a
frame owns its children (the model has a table of frames instead), and `PausesTakeTime`, that no
pause ends at the instant it starts.  The code treats an empty pause like any other, but
`SlicesMatchTrace` says by times alone which frames a pause is in, and that cannot tell an empty
pause inside a frame from one just before or after it.  TLC checks all three hypotheses on the
traces of the run (`SmallTracesAssumption`).

**ExportProofs**.  The invariant has five parts: types; traces are numbered
consecutively and no thread is decoded twice (`Numbered`); a trace is queued, or in the hands
of one worker, but never twice (`OneJobEach`); a file has the trace its name says
(`OneFileEach`), which is where the names have to be distinct; and as long as no job has
panicked every decoded trace is queued, being worked on or exported (`Accounted`).  At the exit with
success the pool is idle and nothing has panicked.

Other assumptions used: `Symbol` is not empty, `PltStubs` is a relation on symbols, `Points` are
points.  Nothing is assumed about the sizes of any of them.

### Only model-checked

Liveness (`WalkTerminates`, `NextReturns`, `UpdateEnds`, `Completes`, `Exits`): out of reach of
the prover.  What recursive functions compute takes induction over data, for which the library
has theorems the provers cannot use.  A table computed by recursion, as in `find_lcs`, and a
fold can be done by hand, by the least argument at which they would fail, as in Parts 4 and 5
of MergeProofs and Part 4 of PerfettoProofs.
Not proved, and why:

* The five properties of `Analysis`.  They compare loops with what a definition by cases says of the
  whole input.  `FiltersExact` and `DatapointsExact` need that the stack of finders visits the
  frames of a tree in the order of their numbers, each once, which is an induction over the
  tree; `EveryDatapointInABin` and `QuartilesHoldHalf` are about a fold and `SortSeq`.

## 5. Where code and comments disagree

* `transformer_backwards`.  Block times that go backwards are tolerated with a warning
  (`update_cur_metrics`), event times are not looked at: `process_event` uses them as they
  are, and `pause` does not check them either.  An event behind `cur_metrics` makes a
  pause overlap an earlier chunk, and the `expect` in `process_return_event` fails.
* `export_limit`.  `--max-traces` is documented as a limit on the traces produced.  Each
  thread of the recording has a limit of its own.

Three more are in the models, without a run of their own.

* Filters.  `run_filter` (`pt-fuser/src/analysis/filter.rs:131-164`) adds up the errors, and
  likewise the interrupts, of all frames that match and compares the sum with the range.  The
  documentation speaks of each function or frame: "exclude all traces with a function whose
  error count is outside of the provided range" (`src/README.md:84`), "Traces with frames
  violating a filter are ignored" (`filter.rs:27-30`).  File `a` of `MCAnalysis` with the
  target `f|g` tells the two apart.  Of at least one interrupt, no call of `f` has any and `g`
  has one; of at least one error, `f` has three and `g` none.  By the documentation the file is
  left out under either filter; the code keeps it.  With a maximum it is the other way
  round: functions that are within it each may exceed it together, and the code leaves the
  file out.  `FiltersExact` states what the code does.  With the events of each matching name
  judged by themselves in its place, TLC finds file `a` under both filters.
* `sync_forward` fails at the end of the stream too, which its comment
  (`process-trace/src/intel_pt.rs:452`) does not expect; the error reaches `main`, which panics.
* The documentation of `merge_traces` (`pt-fuser/src/merge/mod.rs:62`) keeps chunks that are in
  2 of 3 traces and calls that more than 70%; the code drops them.

## 6. Not modelled

* Generated code: `perfetto-rust/src/lib.rs` (five sixths of the lines of the
  repository) declares the protobuf types of Perfetto and has no logic of its own.
* Widths: counters are unbounded naturals, except the bins of the data rate.  A 64-bit TSC
  does not wrap in the lifetime of a machine; the truncation in `TscConversion::convert` is
  in the model (`Convert`, `TsWidth`) and excluded by `TimeAssumption`.  Products that might exceed 64
  bits (`byte_delta` times a time in `data_rate.rs`, occurrences that are scaled in
  `merge/mod.rs`) are exact in the models.
* Metrics: the ownership of the copy inside `InlineOrPtr` (clone and drop), which is inside one
  type and has no interleavings.
* Traces: the file format, (de)serialization, the interning of symbols and annotations.
* Transformer: the wiring of the decoder in `convert`, and the annotations with the data rate.
* PerfData and ElfImage: the decoding of CPU and frequency fields, parsing of ELF files,
  demangling and the choice of `vmlinux`, each reduced to what it yields or whether it
  works.  Mappings of size 0, which perf does not record and which the bisection cannot find.
  A path stands for its build id too: a second mapping of a path with another one is
  not compared with the file again, in the code either.
* DataRate: `rate`, a sum of the bins that changes nothing; windows smaller than the
  granularity, for which the code has no bins and panics.
* Merge: several levels at once, and 64-bit overflow when occurrences are scaled.  Of traces in
  which a counter stands still, or in which something happens before the start, the model says
  that merging panics (`CanScale`); the run takes traces without.
* Analysis: parsing of filter options, means and deviations, the graphical histogram.
* Perfetto: annotations other than strings, and the progress bar.  Export: nothing limits the
  pool's queue.
* Command-line arguments, file names, progress bars.

## 7. Plan

1. **Analysis proofs**: what the stack of finders has visited as an interval of frame numbers,
   with which `FiltersExact` and `DatapointsExact` come within reach.
2. **TraceFile**: the file format with symbol indices, and files that were cut off.
3. **Composition**: Transformer's iterator in place of Export's choice of traces, with the data
   rate; several levels of Merge.
