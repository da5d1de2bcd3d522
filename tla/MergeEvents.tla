------------------------------ MODULE MergeEvents ------------------------------
(***************************************************************************)
(* merge_traces (pt-fuser/src/merge/mod.rs): merge_children on the root    *)
(* frames, then merge_events and zip_events.  The occurrences of an event  *)
(* in all traces are scaled into the range of the new root frame and       *)
(* zipped; frames that could not be added while merging become an event of *)
(* their own.                                                              *)
(***************************************************************************)
EXTENDS Merge

CONSTANT LostFrameId  \* LostFrameWhileMerging::ID

VARIABLES
  at,          \* the event looked at: a trace and one of its events
  seenIds,
  zipping,     \* the id being zipped, or 0
  queues,      \* what is left of its scaled occurrences in each trace
  occurences,  \* new_occurences
  merged       \* the merged events

eventVars == <<at, seenIds, zipping, queues, occurences, merged>>
vars == <<mergeVars, eventVars>>

Event(id, os) == [id |-> id, occurences |-> os]

\* from_occurences: points are compared by their times
Sorted(os) == \A i, j \in DOMAIN os : i < j => os[i].ts <= os[j].ts

\* what a root frame brings
HasEvents(trace) ==
  /\ Len(trace.events) \in Nat /\ DOMAIN trace.events = 1 .. Len(trace.events)
  /\ \A i \in DOMAIN trace.events :
       /\ trace.events[i].id \in Nat \ {0}
       /\ trace.events[i].occurences \in Seq(Point) /\ Sorted(trace.events[i].occurences)

ASSUME EventsAssumption ==
  \A input \in Inputs : \A t \in DOMAIN input.parents :
    "events" \in DOMAIN input.parents[t] => HasEvents(input.parents[t])

-----------------------------------------------------------------------------
(***************************************************************************)
(* Scaling.  Each counter is scaled by itself.                             *)
(***************************************************************************)
ScaleCounter(x, start, end, newStart, newEnd) ==
  ((newEnd - newStart) * (x - start)) \div (end - start) + newStart

Scaled(o, trace) ==
  [ts         |-> ScaleCounter(o.ts, trace.start.ts, trace.end.ts,
                               newParent.start.ts, newParent.end.ts),
   cycles     |-> ScaleCounter(o.cycles, trace.start.cycles, trace.end.cycles,
                               newParent.start.cycles, newParent.end.cycles),
   insn_count |-> ScaleCounter(o.insn_count, trace.start.insn_count, trace.end.insn_count,
                               newParent.start.insn_count, newParent.end.insn_count)]

\* the division panics otherwise, and the subtraction unless it wraps
CanScale(o, trace) ==
  /\ Leq(trace.start, o)
  /\ trace.start.ts < trace.end.ts
  /\ trace.start.cycles < trace.end.cycles
  /\ trace.start.insn_count < trace.end.insn_count

\* the first event of a trace with an id, as find_map takes it
OccurencesIn(trace, id) ==
  LET is == {i \in DOMAIN trace.events : trace.events[i].id = id}
  IN IF is = {} THEN <<>> ELSE trace.events[Min(is)].occurences

ScaledIn(trace, id) ==
  [i \in DOMAIN OccurencesIn(trace, id) |-> Scaled(OccurencesIn(trace, id)[i], trace)]

-----------------------------------------------------------------------------
Init ==
  /\ MergeInit
  /\ at = <<1, 1>>
  /\ seenIds = {}
  /\ zipping = 0
  /\ queues = <<>>
  /\ occurences = <<>>
  /\ merged = <<>>

KeepMerging == UNCHANGED <<parents, newParent, sequences, lcs, nextCommon, work, minMetrics,
                           lost, called>>

Searching == phase = "events" /\ zipping = 0 /\ at[1] <= Len(parents)

CurrentId == parents[at[1]].events[at[2]].id

NextTrace ==
  /\ Searching
  /\ at[2] > Len(parents[at[1]].events)
  /\ at' = <<at[1] + 1, 1>>
  /\ UNCHANGED <<mergeVars, seenIds, zipping, queues, occurences, merged>>

SkipEvent ==
  /\ Searching
  /\ at[2] <= Len(parents[at[1]].events)
  /\ CurrentId \in seenIds
  /\ at' = [at EXCEPT ![2] = @ + 1]
  /\ UNCHANGED <<mergeVars, seenIds, zipping, queues, occurences, merged>>

\* an event not seen before: its occurrences everywhere become iterators
NewEvent ==
  /\ Searching
  /\ at[2] <= Len(parents[at[1]].events)
  /\ CurrentId \notin seenIds
  /\ seenIds' = seenIds \cup {CurrentId}
  /\ zipping' = CurrentId
  /\ queues' = [t \in Traces |-> ScaledIn(parents[t], CurrentId)]
  /\ phase' = IF \A t \in Traces :
                   \A o \in ToSet(OccurencesIn(parents[t], CurrentId)) : CanScale(o, parents[t])
              THEN phase ELSE "panicked"
  /\ KeepMerging
  /\ UNCHANGED <<at, occurences, merged>>

\* mutated form: of several smallest heads each is dropped
ZipDropsEqual ==
  /\ phase = "events"
  /\ zipping # 0
  /\ \E t \in DOMAIN queues :
       /\ queues[t] # <<>>
       /\ \A u \in DOMAIN queues : queues[u] # <<>> => Head(queues[t]).ts <= Head(queues[u]).ts
       /\ occurences' = Append(occurences, Head(queues[t]))
       /\ queues' = [u \in DOMAIN queues |->
                       IF queues[u] # <<>> /\ Head(queues[u]).ts = Head(queues[t]).ts
                       THEN Tail(queues[u]) ELSE queues[u]]
  /\ UNCHANGED <<mergeVars, at, seenIds, zipping, merged>>

\* mutated form: the first iterator that has an element left
ZipFirst ==
  /\ phase = "events"
  /\ zipping # 0
  /\ \E t \in DOMAIN queues :
       /\ queues[t] # <<>>
       /\ \A u \in DOMAIN queues : queues[u] # <<>> => t <= u
       /\ occurences' = Append(occurences, Head(queues[t]))
       /\ queues' = [queues EXCEPT ![t] = Tail(@)]
  /\ UNCHANGED <<mergeVars, at, seenIds, zipping, merged>>

\* one iteration of zip_events: the first of the earliest next elements
ZipNext ==
  /\ phase = "events"
  /\ zipping # 0
  /\ \E t \in DOMAIN queues :
       /\ queues[t] # <<>>
       /\ \A u \in DOMAIN queues : queues[u] # <<>> =>
            IF u < t THEN Head(queues[t]).ts < Head(queues[u]).ts
            ELSE Head(queues[t]).ts <= Head(queues[u]).ts
       /\ occurences' = Append(occurences, Head(queues[t]))
       /\ queues' = [queues EXCEPT ![t] = Tail(@)]
  /\ UNCHANGED <<mergeVars, at, seenIds, zipping, merged>>

\* zip_events is done; "Failed to create merged Event" is the panic
EndZip ==
  /\ phase = "events"
  /\ zipping # 0
  /\ \A t \in DOMAIN queues : queues[t] = <<>>
  /\ merged' = Append(merged, Event(zipping, occurences))
  /\ phase' = IF Sorted(occurences) THEN phase ELSE "panicked"
  /\ zipping' = 0
  /\ occurences' = <<>>
  /\ at' = [at EXCEPT ![2] = @ + 1]
  /\ KeepMerging
  /\ UNCHANGED <<seenIds, queues>>

\* lost_frame_occurences.sort(): by time, and where times are equal as they were
Rank(os, i) ==
  Cardinality({j \in DOMAIN os : os[j].ts < os[i].ts \/ (os[j].ts = os[i].ts /\ j <= i)})

SortedLost == [k \in DOMAIN lost |-> lost[CHOOSE i \in DOMAIN lost : Rank(lost, i) = k]]

\* the end of merge_traces; "Failed to create lost frame event" is the panic
Finish ==
  /\ phase = "events"
  /\ at[1] > Len(parents)
  /\ merged' = IF lost = <<>> THEN merged ELSE Append(merged, Event(LostFrameId, SortedLost))
  /\ phase' = IF Sorted(SortedLost) THEN "done" ELSE "panicked"
  /\ KeepMerging
  /\ UNCHANGED <<at, seenIds, zipping, queues, occurences>>

Over == phase \in {"done", "panicked"} /\ UNCHANGED vars

Next == \/ MergeNext /\ UNCHANGED eventVars
        \/ NextTrace \/ SkipEvent \/ NewEvent \/ ZipNext \/ EndZip \/ Finish
        \/ Over

Spec == Init /\ [][Next]_vars

-----------------------------------------------------------------------------
(***************************************************************************)
(* Properties.                                                             *)
(***************************************************************************)

\* every occurrence can be scaled
AllScale ==
  AreRoots => \A t \in Traces : \A e \in ToSet(parents[t].events) :
                \A o \in ToSet(e.occurences) : CanScale(o, parents[t])

\* "Merged child frame should be valid", "Merged pause chunk should be valid",
\* "Failed to create merged Event" and "Failed to create lost frame event": the
\* new frame never refuses a chunk that has been cut to fit, and zipping sorts
\* however the occurrences of the traces interleave once they are scaled.  Only
\* an occurrence that cannot be scaled makes merging panic.
MergeNeverPanics == AllScale => phase # "panicked"

\* how often a point is in a sequence, and among what all traces say of an id
TimesIn(os, p) == Cardinality({i \in DOMAIN os : os[i] = p})

TimesScaled(id, p) ==
  Cardinality({q \in UNION {{t} \X DOMAIN ScaledIn(parents[t], id) : t \in Traces} :
                 ScaledIn(parents[q[1]], id)[q[2]] = p})

\* No occurrence of any event is lost, invented or counted twice, also when
\* several fall on one point; what happened before the traces ended happens
\* during the merged one; and chunks that are missing from the merged frame are
\* reported.
NothingLost ==
  phase = "done" /\ AreRoots =>
    /\ \A t \in Traces : \A e \in ToSet(parents[t].events) :
         \E i \in DOMAIN merged :
           /\ merged[i].id = e.id
           /\ \A p \in ToSet(merged[i].occurences)
                       \cup UNION {ToSet(ScaledIn(parents[u], e.id)) : u \in Traces} :
                TimesIn(merged[i].occurences, p) = TimesScaled(e.id, p)
           /\ (\A u \in Traces : \A o \in ToSet(OccurencesIn(parents[u], e.id)) :
                 Leq(o, parents[u].end))
              => \A o \in ToSet(merged[i].occurences) :
                   Leq(newParent.start, o) /\ Leq(o, newParent.end)
    /\ Len(newParent.chunks) < Len(called) =>
         \E i \in DOMAIN merged :
           /\ merged[i].id = LostFrameId
           /\ Len(merged[i].occurences) + Len(newParent.chunks) = Len(called)
=============================================================================
