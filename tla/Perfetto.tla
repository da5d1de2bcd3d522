------------------------------- MODULE Perfetto -------------------------------
(***************************************************************************)
(* Conversion of a trace to Perfetto (pt-fuser/src/perfetto).              *)
(*                                                                         *)
(* The converter walks over the frames of a trace and sends packets        *)
(* through a bounded channel to a thread that writes them to a file, while *)
(* Ctrl-C may ask it to stop early.  Perfetto sees a slice for each Begin  *)
(* packet, up to the End packet that matches it on the same sequence, and  *)
(* strings as numbers (iids) that a packet of the sequence has defined.    *)
(*                                                                         *)
(* Every piece of the conversion that sends packets without looking at     *)
(* anything shared is one step, which leaves them in `outbox'; sending     *)
(* each of them is a step of its own.  Only the time of a point matters    *)
(* here.  What may be missing is a set of at most one element: the data    *)
(* rates a frame is annotated with, the counter value of a packet.         *)
(***************************************************************************)
EXTENDS Integers, Sequences, SequencesExt, FiniteSets

CONSTANTS
  Traces,       \* the traces that may be converted
  Capacity,     \* QUEUED_PACKETS
  PauseName     \* PAUSE_BLOCK_NAME

ASSUME CapacityAssumption == Capacity \in Nat \ {0}

\* A trace as its builder or merging makes it: the chunks of a frame follow one
\* another inside it, straight lines left out, and a chunk that is a frame has
\* its times.
Chunk == [kind : {"Frame", "Pause"}, id : Nat, start : Nat, end : Nat]

IsFrame(t, f) ==
  /\ f.start \in Nat /\ f.end \in Nat /\ f.start <= f.end
  /\ f.chunks \in Seq(Chunk)
  /\ f.keys \in Seq(ToSet(f.keys)) /\ f.values \in Seq(ToSet(f.values))
  /\ \A i \in 1 .. Len(f.chunks) :
       LET c == f.chunks[i] IN
       /\ f.start <= c.start /\ c.start <= c.end /\ c.end <= f.end
       /\ \A j \in 1 .. Len(f.chunks) : i < j => c.end <= f.chunks[j].start
       /\ c.kind = "Frame" => /\ c.id \in DOMAIN t.frames
                              /\ t.frames[c.id].start = c.start /\ t.frames[c.id].end = c.end

\* Event: its occurences are sorted.
IsEvent(e) ==
  /\ e.id \in Nat
  /\ e.occurences \in Seq(Nat)
  /\ \A i, j \in 1 .. Len(e.occurences) : i <= j => e.occurences[i] <= e.occurences[j]

ASSUME TracesAssumption ==
  \A tr \in Traces :
    /\ tr.root \in DOMAIN tr.frames
    /\ \A id \in DOMAIN tr.frames : IsFrame(tr, tr.frames[id])
    /\ tr.events \in Seq(ToSet(tr.events))
    /\ \A i \in 1 .. Len(tr.events) : IsEvent(tr.events[i])

VARIABLES
  trace,
  renderPauses,  \* PauseRenderOption
  stop,          \* the flag Ctrl-C sets
  phase,         \* what the converting thread is doing
  walk,          \* process_frame's recursion: frames with their next chunk
  nextEvent,     \* the next of the trace's events to report
  tables,        \* InternedStrings; an iid is a position
  outbox,        \* packets the current piece still has to send
  sender,        \* whether the sending end of the channel exists
  channel,
  writer,        \* the writing thread
  file,
  sent           \* history: packets sent

converterVars == <<walk, nextEvent, tables, outbox>>
writerVars    == <<channel, writer, file>>
vars == <<trace, renderPauses, stop, phase, converterVars, sender, writerVars, sent>>

\* GLOBAL_SEQUENCE_ID, TRACE_SEQUENCE_ID, DATA_RATE_SEQUENCE_ID and
\* ERROR_SEQUENCE_ID_BASE, which the first kind of event shares with the data rate
GlobalSequence == 1
TraceSequence == 2
DataRateSequence == 4
EventSequence(id) == 3 + id

\* DATA_RATE_TRACK_ID
DataRateTrack == 40

\* No sequence is used for two events, and what the data rate's is also used for
\* happens during the trace.  So it is if the decoder's events are in order and
\* no frames were lost when the trace was merged from traces merged before:
\* merge_traces then adds a second event for the lost frames.
EventsApart ==
  \A tr \in Traces : \A i \in 1 .. Len(tr.events) :
    /\ \A j \in 1 .. Len(tr.events) : tr.events[i].id = tr.events[j].id => i = j
    /\ EventSequence(tr.events[i].id) = DataRateSequence =>
         \A o \in 1 .. Len(tr.events[i].occurences) :
           tr.frames[tr.root].start <= tr.events[i].occurences[o]

\* Every frame is the root or a chunk of one that is reached from it.
ClosedUnderChunks(tr, ids) ==
  \A id \in ids : \A i \in 1 .. Len(tr.frames[id].chunks) :
    tr.frames[id].chunks[i].kind = "Frame" => tr.frames[id].chunks[i].id \in ids

FramesReachable ==
  \A tr \in Traces : \A ids \in SUBSET (DOMAIN tr.frames) :
    tr.root \in ids /\ ClosedUnderChunks(tr, ids) => ids = DOMAIN tr.frames

\* No pause ends at the instant it starts.  Whether such a pause is during a
\* frame that ends or starts at the same instant is not a matter of time.
PausesTakeTime ==
  \A tr \in Traces : \A id \in DOMAIN tr.frames : \A i \in 1 .. Len(tr.frames[id].chunks) :
    LET c == tr.frames[id].chunks[i] IN c.kind = "Pause" => c.start < c.end

\* what is left in the file when a write fails halfway
Torn == [kind |-> "Torn"]

Frame(id) == trace.frames[id]
Root == Frame(trace.root)

-----------------------------------------------------------------------------
(***************************************************************************)
(* Strings.                                                                *)
(***************************************************************************)

\* intern_string
Intern(table, s) == IF Contains(table, s) THEN table ELSE Append(table, s)

InternAll(table, strings) == FoldLeft(Intern, table, strings)

\* the packet's interned_data: what a table has gained
Gained(name, old, new) ==
  {[table |-> name, iid |-> i, means |-> new[i]] : i \in Len(old) + 1 .. Len(new)}

\* a reference to s
Reference(name, table, s) ==
  [table |-> name, iid |-> CHOOSE i \in DOMAIN table : table[i] = s, means |-> s]

References(name, table, strings) == {Reference(name, table, s) : s \in ToSet(strings)}

\* the tables after a frame's name and annotations have been interned
Interned(name, keys, values) ==
  [events |-> Intern(tables.events, name),
   keys   |-> InternAll(tables.keys, keys),
   values |-> InternAll(tables.values, values)]

-----------------------------------------------------------------------------
(***************************************************************************)
(* Packets.  `defines' is the interned data, `uses' the iids; every track  *)
(* packet clears what its sequence has defined before, and says to which   *)
(* counter the counter values of the sequence go, if any.                  *)
(***************************************************************************)
Packet(kind, seq, ts, defines, uses, value, counter) ==
  [kind |-> kind, seq |-> seq, ts |-> ts, defines |-> defines, uses |-> uses,
   value |-> value, counter |-> counter]

\* create_track
Track(seq, ts, defines, counter) == Packet("Track", seq, ts, defines, {}, {}, counter)

\* create_slice_begin
SliceBegin(seq, ts, defines, uses, value) == Packet("Begin", seq, ts, defines, uses, value, {})

\* create_slice_end
SliceEnd(seq, ts, value) == Packet("End", seq, ts, {}, {}, value, {})

\* create_event: the only string of the sequence is the event's description
Instant(event, ts) ==
  Packet("Instant", EventSequence(event.id), ts, {},
         {[table |-> "events", iid |-> 1, means |-> event.description]}, {}, {})

\* what the slice of a frame is called and annotated with
FrameStrings(f, tabs) ==
  References("events", tabs.events, <<f.name>>)
    \cup References("keys", tabs.keys, f.keys)
    \cup References("values", tabs.values, f.values)

-----------------------------------------------------------------------------
(***************************************************************************)
(* The converting thread.                                                  *)
(***************************************************************************)
Init ==
  /\ trace \in Traces
  /\ renderPauses \in {"Gap", "Block"}
  /\ stop = FALSE
  /\ phase = "setup"
  /\ walk = <<>>
  /\ nextEvent = 1
  /\ tables = [events |-> <<>>, keys |-> <<>>, values |-> <<>>]
  /\ outbox = <<>>
  /\ sender = "alive"
  /\ channel = <<>>
  /\ writer = "none"
  /\ file = <<>>
  /\ sent = <<>>

Unshared == UNCHANGED <<trace, renderPauses, stop, sender, writerVars, sent>>

\* convert_to_perfetto up to converter.start
CreateFile ==
  /\ phase = "setup"
  /\ phase' = "header"
  /\ writer' = "running"
  /\ UNCHANGED <<trace, renderPauses, stop, converterVars, sender, channel, file, sent>>

CreateFileFails ==
  /\ phase = "setup"
  /\ phase' = "panicked"
  /\ sender' = "dropped"
  /\ UNCHANGED <<trace, renderPauses, stop, converterVars, writerVars, sent>>

\* the converter goes on to its next piece
Ready == outbox = <<>>

\* start, up to the call of process_frame
Header ==
  /\ phase = "header"
  /\ phase' = "root"
  /\ outbox' = << Track(GlobalSequence, Root.start, {}, {}),
                  SliceBegin(GlobalSequence, Root.start, {}, {}, {}),
                  SliceEnd(GlobalSequence, Root.end, {}),
                  Track(DataRateSequence, Root.start, {}, {}),
                  Track(TraceSequence, Root.start, {}, {DataRateTrack}) >>
  /\ UNCHANGED <<walk, nextEvent, tables>>
  /\ Unshared

\* process_frame, up to the loop over chunks; `callers' is the walk it adds to
BeginFrame(id, callers) ==
  LET f == Frame(id)
      new == Interned(f.name, f.keys, f.values)
      defines == UNION {Gained(t, tables[t], new[t]) : t \in DOMAIN tables}
  IN
  /\ outbox' = << SliceBegin(TraceSequence, f.start, defines, FrameStrings(f, new), f.start_rate) >>
  /\ tables' = new
  /\ walk' = Append(callers, [frame |-> id, next |-> 1])

BeginRoot ==
  /\ phase = "root"
  /\ Ready
  /\ phase' = "frames"
  /\ BeginFrame(trace.root, walk)
  /\ UNCHANGED nextEvent
  /\ Unshared

\* the frame whose chunks are being looked at
Current == Last(walk)
CurrentFrame == Frame(Current.frame)
NextChunk == CurrentFrame.chunks[Current.next]

Advanced == [walk EXCEPT ![Len(walk)].next = @ + 1]

\* mutated form: the frames resume where the pause starts
GapPacketsEarly(pause) ==
  [i \in 1 .. Len(walk) |-> SliceEnd(TraceSequence, pause.start, {})]
    \o [i \in 1 .. Len(walk) |->
          SliceBegin(TraceSequence, pause.start, {},
                     FrameStrings(Frame(walk[i].frame), tables), {})]

\* render_gap with a current_stack: all frames end and, after the pause, resume
GapPackets(pause) ==
  [i \in 1 .. Len(walk) |-> SliceEnd(TraceSequence, pause.start, {})]
    \o [i \in 1 .. Len(walk) |->
          SliceBegin(TraceSequence, pause.end, {},
                     FrameStrings(Frame(walk[i].frame), tables), {})]

\* mutated form: the name of the pause is not defined
BlockPacketsUnnamed(pause, new) ==
  << SliceBegin(TraceSequence, pause.start, {}, References("events", new, <<PauseName>>), {}),
     SliceEnd(TraceSequence, pause.end, {}) >>

\* render_gap without one: the pause has a slice of its own
BlockPackets(pause, new) ==
  << SliceBegin(TraceSequence, pause.start, Gained("events", tables.events, new),
                References("events", new, <<PauseName>>), {}),
     SliceEnd(TraceSequence, pause.end, {}) >>

RenderGap(pause) ==
  /\ walk' = Advanced
  /\ \/ /\ renderPauses = "Gap"
        /\ outbox' = GapPackets(pause)
        /\ UNCHANGED tables
     \/ /\ renderPauses = "Block"
        /\ tables' = [tables EXCEPT !.events = Intern(@, PauseName)]
        /\ outbox' = BlockPackets(pause, tables'.events)

InFrame == phase = "frames" /\ Ready

\* one iteration of the loop over chunks; straight lines have no packets
ProcessChunk ==
  /\ InFrame
  /\ ~stop
  /\ Current.next <= Len(CurrentFrame.chunks)
  /\ \/ NextChunk.kind = "Frame" /\ BeginFrame(NextChunk.id, Advanced)
     \/ NextChunk.kind = "Pause" /\ RenderGap(NextChunk)
  /\ UNCHANGED <<phase, nextEvent>>
  /\ Unshared

\* mutated form: a stop returns at once
EndFrameReturns ==
  /\ InFrame
  /\ stop \/ Current.next > Len(CurrentFrame.chunks)
  /\ outbox' = IF stop THEN <<>>
               ELSE << SliceEnd(TraceSequence, CurrentFrame.end, CurrentFrame.end_rate) >>
  /\ walk' = Front(walk)
  /\ phase' = IF Len(walk) = 1 THEN "events" ELSE "frames"
  /\ UNCHANGED <<nextEvent, tables>>
  /\ Unshared

\* the loop is over, or left early because of a stop
EndFrame ==
  /\ InFrame
  /\ stop \/ Current.next > Len(CurrentFrame.chunks)
  /\ outbox' = << SliceEnd(TraceSequence, CurrentFrame.end, CurrentFrame.end_rate) >>
  /\ walk' = Front(walk)
  /\ phase' = IF Len(walk) = 1 THEN "events" ELSE "frames"
  /\ UNCHANGED <<nextEvent, tables>>
  /\ Unshared

\* one iteration of start's loop over events
EventPackets(event) ==
  IF event.occurences = <<>> THEN <<>>
  ELSE << Track(EventSequence(event.id), Head(event.occurences),
                {[table |-> "events", iid |-> 1, means |-> event.description]}, {}) >>
         \o [i \in 1 .. Len(event.occurences) |-> Instant(event, event.occurences[i])]

ReportEvent ==
  /\ phase = "events"
  /\ Ready
  /\ nextEvent <= Len(trace.events)
  /\ outbox' = EventPackets(trace.events[nextEvent])
  /\ nextEvent' = nextEvent + 1
  /\ UNCHANGED <<phase, walk, tables>>
  /\ Unshared

\* mutated form: the channel stays open
FinishConversionOpen ==
  /\ phase = "events"
  /\ Ready
  /\ nextEvent > Len(trace.events)
  /\ phase' = "joining"
  /\ UNCHANGED <<trace, renderPauses, stop, converterVars, sender, writerVars, sent>>

\* start returns and drops the sender it was given
FinishConversion ==
  /\ phase = "events"
  /\ Ready
  /\ nextEvent > Len(trace.events)
  /\ phase' = "joining"
  /\ sender' = "dropped"
  /\ UNCHANGED <<trace, renderPauses, stop, converterVars, writerVars, sent>>

\* completed_packets.send(..).unwrap(), which blocks while the channel is full
Send ==
  /\ outbox # <<>>
  /\ writer = "running"
  /\ Len(channel) < Capacity
  /\ channel' = Append(channel, Head(outbox))
  /\ sent' = Append(sent, Head(outbox))
  /\ outbox' = Tail(outbox)
  /\ UNCHANGED <<trace, renderPauses, stop, phase, walk, nextEvent, tables, sender,
                 writer, file>>

SendFails ==
  /\ outbox # <<>>
  /\ writer = "panicked"
  /\ phase' = "panicked"
  /\ outbox' = <<>>
  /\ sender' = "dropped"
  /\ UNCHANGED <<trace, renderPauses, stop, walk, nextEvent, tables, writerVars, sent>>

\* mutated form: how the writing thread ended does not matter
JoinAnyway ==
  /\ phase = "joining"
  /\ writer \in {"ended", "panicked"}
  /\ phase' = "succeeded"
  /\ UNCHANGED <<trace, renderPauses, stop, converterVars, sender, writerVars, sent>>

\* writer.join().expect(..)
Join ==
  /\ phase = "joining"
  /\ writer \in {"ended", "panicked"}
  /\ phase' = IF writer = "ended" THEN "succeeded" ELSE "panicked"
  /\ UNCHANGED <<trace, renderPauses, stop, converterVars, sender, writerVars, sent>>

Over == phase \in {"succeeded", "panicked"}

-----------------------------------------------------------------------------
(***************************************************************************)
(* The handler of Ctrl-C and the writing thread.                           *)
(***************************************************************************)
CtrlC ==
  /\ ~Over
  /\ stop' = TRUE
  /\ UNCHANGED <<trace, renderPauses, phase, converterVars, sender, writerVars, sent>>

Write ==
  /\ writer = "running"
  /\ channel # <<>>
  /\ file' = Append(file, Head(channel))
  /\ channel' = Tail(channel)
  /\ UNCHANGED <<trace, renderPauses, stop, phase, converterVars, sender, writer, sent>>

\* the panic drops the receiver, and what is in the channel with it
WriteFails ==
  /\ writer = "running"
  /\ channel # <<>>
  /\ file' \in {file, Append(file, Torn)}
  /\ channel' = <<>>
  /\ writer' = "panicked"
  /\ UNCHANGED <<trace, renderPauses, stop, phase, converterVars, sender, sent>>

\* the receiver's iterator ends when the channel is empty and the sender gone
WriterEnds ==
  /\ writer = "running"
  /\ channel = <<>>
  /\ sender = "dropped"
  /\ writer' = "ended"
  /\ UNCHANGED <<trace, renderPauses, stop, phase, converterVars, sender, channel,
                 file, sent>>

Terminated == Over /\ UNCHANGED vars

Convert ==
  \/ CreateFile \/ CreateFileFails
  \/ Header \/ BeginRoot \/ ProcessChunk \/ EndFrame \/ ReportEvent
  \/ FinishConversion \/ Send \/ SendFails \/ Join

Writer == Write \/ WriteFails \/ WriterEnds

Next == Convert \/ Writer \/ CtrlC \/ Terminated

\* both threads run; nobody has to press Ctrl-C
Spec == Init /\ [][Next]_vars /\ WF_vars(Convert) /\ WF_vars(Writer)

-----------------------------------------------------------------------------
(***************************************************************************)
(* Properties.                                                             *)
(***************************************************************************)

\* the packets of one kind among the first n sent on a sequence
CountSent(kind, seq, n) ==
  Cardinality({i \in 1 .. n : sent[i].kind = kind /\ sent[i].seq = seq})

Open(seq, n) == CountSent("Begin", seq, n) - CountSent("End", seq, n)

\* However early Ctrl-C comes, and however often frames are cut at pauses, no
\* slice is ended that is not open and none is left open in the end.
SlicesBalanced ==
  \A seq \in {GlobalSequence, TraceSequence} :
    /\ \A n \in 0 .. Len(sent) : Open(seq, n) >= 0
    /\ phase \in {"joining", "succeeded"} => Open(seq, Len(sent)) = 0

\* The slices Perfetto reads back from the trace sequence: each Begin runs up to
\* the first later End at which it is closed.
SliceName(i) == CHOOSE s \in {u.means : u \in {v \in sent[i].uses : v.table = "events"}} : TRUE

SliceEndOf(i) ==
  CHOOSE j \in i + 1 .. Len(sent) :
    /\ sent[j].kind = "End"
    /\ sent[j].seq = TraceSequence
    /\ Open(TraceSequence, j) < Open(TraceSequence, i)
    /\ \A k \in i .. j - 1 : Open(TraceSequence, k) >= Open(TraceSequence, i)

Slices ==
  {<<SliceName(i), sent[i].ts, sent[SliceEndOf(i)].ts>> :
     i \in {k \in 1 .. Len(sent) : sent[k].kind = "Begin" /\ sent[k].seq = TraceSequence}}

Pauses == {[start |-> c.start, end |-> c.end] :
             c \in {d \in UNION {ToSet(trace.frames[id].chunks) : id \in DOMAIN trace.frames} :
                      d.kind = "Pause"}}

During(f, pauses) == {p \in pauses : f.start <= p.start /\ p.end <= f.end}

\* The pieces into which pauses cut a frame: from its start or the end of a pause
\* to the start of a pause or its end, with no pause in between.
Pieces(f, pauses) ==
  LET ps     == During(f, pauses)
      starts == {f.start} \cup {p.end : p \in ps}
      ends   == {f.end} \cup {p.start : p \in ps}
  IN  {<<f.name, piece[1], piece[2]>> :
         piece \in {q \in starts \X ends :
                      /\ q[1] <= q[2]
                      /\ ~\E p \in ps : q[1] <= p.start /\ p.end <= q[2]}}

\* What Perfetto reads back on the data-rate track: the values of packets whose
\* sequence said last that they go there.
CounterOf(i) ==
  LET tracks == {j \in 1 .. i : sent[j].kind = "Track" /\ sent[j].seq = sent[i].seq}
  IN  sent[Max(tracks)].counter

Samples ==
  UNION {{<<sent[i].ts, v>> : v \in sent[i].value} :
           i \in {k \in 1 .. Len(sent) : DataRateTrack \in CounterOf(k)}}

RatesOf(f) == {<<f.start, v>> : v \in f.start_rate} \cup {<<f.end, v>> : v \in f.end_rate}

\* Perfetto is never sent back in time within a sequence, also when frames are
\* cut at a pause or closed early, if EventsApart.
TimestampsInOrder ==
  \A i, j \in 1 .. Len(sent) :
    (i < j /\ sent[i].seq = sent[j].seq) => sent[i].ts <= sent[j].ts

\* Whatever stops the conversion, and wherever, what it has sent up to then is
\* fit to be read: no slice is ended twice and no sequence goes back in time.
SequencesReadable == SlicesBalanced /\ TimestampsInOrder

\* Unless it is stopped the conversion loses and invents nothing: read back, the
\* slices are the frames, with the pauses either cut out of all frames that were
\* on the stack or shown as slices of their own; and the data rate is known at
\* the starts and ends of frames, and not at the pauses.
SlicesMatchTrace ==
  (phase = "succeeded" /\ ~stop) =>
    /\ Samples = UNION {RatesOf(trace.frames[id]) : id \in DOMAIN trace.frames}
    /\ Slices = IF renderPauses = "Gap"
                THEN UNION {Pieces(trace.frames[id], Pauses) : id \in DOMAIN trace.frames}
                ELSE (UNION {Pieces(trace.frames[id], {}) : id \in DOMAIN trace.frames})
                       \cup {<<PauseName, p.start, p.end>> : p \in Pauses}

\* Every iid a packet uses stands for the string that is meant: the packet or an
\* earlier one of its sequence has defined it, and no later track packet has
\* cleared the definition.
NamesKnown ==
  \A i \in 1 .. Len(sent) : \A use \in sent[i].uses :
    \E j \in 1 .. i :
      /\ sent[j].seq = sent[i].seq
      /\ use \in sent[j].defines
      /\ \A k \in j + 1 .. i : ~(sent[k].kind = "Track" /\ sent[k].seq = sent[i].seq)

\* When the program exits normally, everything the converter sent is in the
\* file: neither a failed write nor packets still queued at the end get lost
\* silently.
SuccessMeansComplete ==
  phase = "succeeded" => file = sent

\* The program always ends: the converter never blocks for good on a full
\* channel, nor the writer on an empty one, nor the main thread on the writer.
Completes == <>Over
=============================================================================
