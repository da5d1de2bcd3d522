------------------------------ MODULE Transformer ------------------------------
(***************************************************************************)
(* Transformer (process-trace/src/intel_pt.rs): the state machine that     *)
(* drives the block decoder over one thread's trace data, guesses calls    *)
(* and returns from the blocks it yields, and drives a TraceBuilder.       *)
(*                                                                         *)
(* The decoder (libipt) is external: every result its functions may return *)
(* is a choice, bounded by MaxInput results that use up input.  One loop   *)
(* iteration of produce_trace is one step, except that the calls it makes  *)
(* to the builder, several when frames are popped, are steps of their own  *)
(* that run before the next iteration (`job').                             *)
(***************************************************************************)
EXTENDS TraceBuilder

CONSTANTS
  Ip,              \* instruction pointers of blocks
  Unknown,         \* fallback_symbol, the only symbol at address 0
  Resolve,         \* resolve_symbol: the symbol of an ip, Unknown on an error
  Covers,          \* SymbolInfo::contains: the ips inside a symbol
  Target,          \* the symbols whose name matches target_symbol
  Tsc,             \* time stamps the decoder reports
  TimeMult,        \* TscConversion
  TimeShift,
  TsWidth,         \* bits of a converted time stamp (64 in the code)
  InsnCounts,      \* instructions of a block
  MaxTraces,       \* max_traces, or NoLimit
  MaxInput,        \* bound: decoder results that use up input
  NoIp, NoSymbol,  \* absent values
  EventsInOrder    \* whether event time stamps never fall behind cur_metrics

NoTsc == -1
NoLimit == -1

TraceInterrupted == 20
DataCollectionError == 1

\* TscConversion::convert
Convert(tsc) == ((tsc * TimeMult) \div 2 ^ TimeShift) % 2 ^ TsWidth

ASSUME SymbolAssumption ==
  /\ Unknown \in Symbol
  /\ Resolve \in [Ip -> Symbol]
  /\ Covers \in [Symbol -> SUBSET Ip]
  /\ Covers[Unknown] = {}
  /\ Target \subseteq Symbol
  /\ NoSymbol \notin Symbol
  /\ NoIp \notin Ip

ASSUME TimeAssumption ==
  /\ Tsc \subseteq Nat
  /\ \A t \in Tsc : Convert(t) \in Nat
  /\ \A t, u \in Tsc : t <= u => Convert(t) <= Convert(u)

ASSUME InputAssumption ==
  /\ InsnCounts \subseteq Nat
  /\ MaxTraces \in Nat \cup {NoLimit}
  /\ MaxInput \in Nat
  /\ EventsInOrder \in BOOLEAN
  /\ {TraceInterrupted, DataCollectionError} \subseteq EventId

VARIABLES
  decoderState,    \* DecoderState
  branchReason,    \* how control left the last block
  curMetrics,      \* cur_metrics
  tracesLeft,      \* traces_left
  iter,            \* the caller's side of the iterator
  errorCode,       \* the error the iterator returned
  job,             \* builder calls the current iteration still has to make
  inputLeft,       \* input the decoder has not used up
  lastIp,          \* history: the last block the builder has followed
  jumped           \* history: the decoder lost control flow since the last block

driverVars == <<decoderState, branchReason, curMetrics, tracesLeft, iter, errorCode,
                inputLeft, lastIp, jumped>>

vars == <<builderVars, driverVars, job>>

DecoderState == {"Finished", "ReadEvent", "ReadEventResync", "ReadBlock", "Resync", "SyncForward"}

\* "Unknown" stands for every class that is neither a call nor a return.
Class == {"Call", "Return", "Unknown"}

Status == {"eos", "event_pending", "more"}

EventType == {"AsyncDisabled", "Disabled", "Enabled", "AsyncBranch", "AsyncPaging",
              "Paging", "Overflow", "Other"}

NoJob == [levels |-> 0, call |-> NoSymbol, pause |-> FALSE]

IsUnknown(s) == s = Unknown

\* Transformer::new
Init == /\ BuilderInit
        /\ decoderState = "SyncForward"
        /\ branchReason = "Unknown"
        /\ curMetrics = Constant(0)
        /\ tracesLeft = MaxTraces
        /\ iter = "idle"
        /\ errorCode = "none"
        /\ job = NoJob
        /\ inputLeft = MaxInput
        /\ lastIp = NoIp
        /\ jumped = FALSE

-----------------------------------------------------------------------------
(***************************************************************************)
(* Iterator::next and its results.                                         *)
(***************************************************************************)

CallNext ==
  /\ iter = "idle"
  /\ iter' = "running"
  /\ decoderState' = IF tracesLeft = 0 THEN "Finished" ELSE decoderState
  /\ tracesLeft' = IF tracesLeft \in {0, NoLimit} THEN tracesLeft ELSE tracesLeft - 1
  /\ UNCHANGED <<builderVars, branchReason, curMetrics, errorCode, job,
                 inputLeft, lastIp, jumped>>

\* produce_trace is at the top of its loop
Looping == /\ iter = "running"
           /\ job = NoJob
           /\ mode \in {"none", "in_progress", "paused"}

Finished ==
  /\ Looping
  /\ decoderState = "Finished"
  /\ iter' = "ended"
  /\ UNCHANGED <<builderVars, decoderState, branchReason, curMetrics, tracesLeft,
                 errorCode, job, inputLeft, lastIp, jumped>>

ReturnTrace ==
  /\ iter = "running"
  /\ TakeTrace
  /\ iter' = "idle"
  /\ job' = NoJob
  /\ lastIp' = NoIp
  /\ UNCHANGED <<decoderState, branchReason, curMetrics, tracesLeft, errorCode,
                 inputLeft, jumped>>

\* return Err(err): the caller gives up
Fail(code) == iter' = "error" /\ errorCode' = code

NoFailure == UNCHANGED <<iter, errorCode>>

\* update_state
UpdateState(status) ==
  decoderState' = CASE status = "eos"           -> "Finished"
                    [] status = "event_pending" -> "ReadEvent"
                    [] OTHER                    -> "ReadBlock"

UseInput == inputLeft > 0 /\ inputLeft' = inputLeft - 1

\* mutated form: time is not checked
AdvanceUnchecked(tsc, insns) ==
  [ts |-> Convert(tsc), cycles |-> tsc, insn_count |-> curMetrics.insn_count + insns]

\* update_cur_metrics: instructions always count, time only forwards
Advance(tsc, insns) ==
  IF tsc >= curMetrics.cycles
  THEN [ts |-> Convert(tsc), cycles |-> tsc, insn_count |-> curMetrics.insn_count + insns]
  ELSE [curMetrics EXCEPT !.insn_count = @ + insns]

-----------------------------------------------------------------------------
(***************************************************************************)
(* Calls and returns.                                                      *)
(***************************************************************************)

\* process_return_event: the frames are completed by the steps that follow
ReturnEvent(levels, call) ==
  /\ job' = [levels |-> levels, call |-> call, pause |-> FALSE]
  /\ UNCHANGED builderVars

\* mutated form: the root function is called like any other
CallEventUnchecked(m, s) == PushFrame(m, s) /\ job' = NoJob

\* process_call_event: a call of the root function ends the trace
CallEvent(m, s) ==
  IF s = FrameSymbol(CallstackDepth - 1)
  THEN ReturnEvent(CallstackDepth, NoSymbol)
  ELSE PushFrame(m, s) /\ job' = NoJob

Stay == UNCHANGED <<builderVars, job>>

\* mutated form: one level short
ContainingLevelShort(ip) ==
  LET levels == {i \in 1 .. CallstackDepth - 1 : ip \in Covers[FrameSymbol(i)]} IN
  IF levels = {} THEN 0 ELSE Min(levels) - 1

\* contained_in_callstack, with 0 for None
ContainingLevel(ip) ==
  LET levels == {i \in 1 .. CallstackDepth - 1 : ip \in Covers[FrameSymbol(i)]} IN
  IF levels = {} THEN 0 ELSE Min(levels)

\* mutated form: a known function called from unknown code stays on top of it
LeaveUnknownByCall(ip) ==
  /\ IsUnknown(FrameSymbol(0))
  /\ IF IsUnknown(Resolve[ip]) THEN Stay
     ELSE IF ContainingLevel(ip) > 0 THEN ReturnEvent(ContainingLevel(ip), NoSymbol)
     ELSE CallEvent(curMetrics, Resolve[ip])

\* the current frame is unknown
LeaveUnknown(ip) ==
  /\ IsUnknown(FrameSymbol(0))
  /\ IF IsUnknown(Resolve[ip]) THEN Stay
     ELSE IF ContainingLevel(ip) > 0 THEN ReturnEvent(ContainingLevel(ip), NoSymbol)
     ELSE ReturnEvent(2, Resolve[ip])

\* the block is outside the current frame
LeaveFrame(ip, m) ==
  LET levels == IF ContainingLevel(ip) > 0 THEN ContainingLevel(ip)
                ELSE IF branchReason = "Return" /\ CallstackDepth = 1 THEN 1
                ELSE 0
  IN
  /\ ~IsUnknown(FrameSymbol(0))
  /\ ip \notin Covers[FrameSymbol(0)]
  /\ IF levels > 0 /\ branchReason # "Call" THEN ReturnEvent(levels, NoSymbol)
     ELSE CallEvent(m, Resolve[ip])

\* the block is inside the current frame
StayInFrame(ip, m) ==
  /\ ~IsUnknown(FrameSymbol(0))
  /\ ip \in Covers[FrameSymbol(0)]
  /\ IF branchReason = "Call" THEN CallEvent(m, Resolve[ip]) ELSE Stay

\* process_block
ProcessBlock(ip, m) ==
  \/ /\ mode = "in_progress"
     /\ LeaveUnknown(ip) \/ LeaveFrame(ip, m) \/ StayInFrame(ip, m)
     /\ lastIp' = ip
  \/ mode = "paused" /\ Stay /\ UNCHANGED lastIp
  \/ /\ mode = "none"
     /\ Resolve[ip] \in Target \ {Unknown}
     /\ NewBuilder(m, Resolve[ip])
     /\ lastIp' = ip
     /\ UNCHANGED job
  \/ mode = "none" /\ Resolve[ip] \notin Target \ {Unknown} /\ Stay /\ UNCHANGED lastIp

-----------------------------------------------------------------------------
(***************************************************************************)
(* DecoderState::ReadBlock                                                 *)
(***************************************************************************)
ReadBlock(ip, class, insns, tsc, status) ==
  /\ Looping
  /\ decoderState = "ReadBlock"
  /\ UseInput
  /\ UpdateState(status)
  /\ LET m == Advance(tsc, insns) IN
       /\ curMetrics' = m
       /\ ProcessBlock(ip, m)
  /\ branchReason' = class
  /\ jumped' = FALSE
  /\ NoFailure
  /\ UNCHANGED tracesLeft

\* the block is lost when the decoder cannot tell the time
ReadBlockWithoutTime(status) ==
  /\ Looping
  /\ decoderState = "ReadBlock"
  /\ UseInput
  /\ UpdateState(status)
  /\ Fail("NoTime")
  /\ UNCHANGED <<builderVars, branchReason, curMetrics, tracesLeft, job,
                 lastIp, jumped>>

ReadBlockFails ==
  /\ Looping
  /\ decoderState = "ReadBlock"
  /\ jumped' = TRUE
  /\ \/ decoderState' = "Finished" /\ Fail("Corrupt")         \* BadPacket, BadOpc, ...
     \/ decoderState' = "SyncForward" /\ NoFailure            \* Nosync, RetstackEmpty
     \/ decoderState' = "Finished" /\ NoFailure               \* Eos
     \/ decoderState' = "Resync" /\ NoFailure                 \* Nomap, BadInsn, ...
  /\ UNCHANGED <<builderVars, branchReason, curMetrics, tracesLeft, job,
                 inputLeft, lastIp>>

-----------------------------------------------------------------------------
(***************************************************************************)
(* DecoderState::ReadEvent                                                 *)
(***************************************************************************)

\* disable_tracing: an ongoing trace is paused
DisableTracing(m) ==
  /\ curMetrics' = m
  /\ IF mode = "in_progress" THEN Pause(m) ELSE UNCHANGED builderVars

\* enable_tracing: a paused trace is resumed
EnableTracing(m) ==
  /\ curMetrics' = m
  /\ IF mode = "paused" THEN Resume(m) ELSE UNCHANGED builderVars

\* an event of the trace happens, if one is in progress
Record(event, m) ==
  IF mode = "in_progress" THEN EventOccured(event, m) ELSE UNCHANGED builderVars

\* mutated form: overflows are forgotten
ClearsBranchButOverflow(type) ==
  type \in {"AsyncBranch", "AsyncPaging", "Paging", "Enabled"}

\* the last part of process_event
ClearsBranch(type) ==
  type \in {"AsyncBranch", "AsyncPaging", "Paging", "Enabled", "Overflow"}

\* process_event.  AsyncDisabled makes two calls, event_occured and pause; the
\* second is left to the next step.
ProcessEvent(type, m) ==
  /\ \/ /\ type = "AsyncDisabled"
        /\ Record(TraceInterrupted, m)
        /\ curMetrics' = m
        /\ job' = [NoJob EXCEPT !.pause = (mode = "in_progress")]
     \/ /\ type \in {"AsyncBranch", "AsyncPaging"}
        /\ Record(TraceInterrupted, m)
        /\ UNCHANGED <<curMetrics, job>>
     \/ type = "Overflow" /\ Record(DataCollectionError, m) /\ UNCHANGED <<curMetrics, job>>
     \/ type = "Disabled" /\ DisableTracing(m) /\ UNCHANGED job
     \/ type = "Enabled" /\ EnableTracing(m) /\ UNCHANGED job
     \/ type \in {"Paging", "Other"} /\ UNCHANGED <<builderVars, curMetrics, job>>
  /\ branchReason' = IF ClearsBranch(type) THEN "Unknown" ELSE branchReason

\* The time of an event; without one it is taken to happen now.
EventTime(tsc) ==
  IF tsc = NoTsc THEN curMetrics
  ELSE [ts |-> Convert(tsc), cycles |-> tsc, insn_count |-> curMetrics.insn_count]

EventTsc == {t \in Tsc : EventsInOrder => t >= curMetrics.cycles} \cup {NoTsc}

Jumps(type) == type \in {"Enabled", "AsyncBranch", "AsyncPaging", "Paging", "Overflow"}

ReadEvent(type, tsc, status) ==
  /\ Looping
  /\ decoderState \in {"ReadEvent", "ReadEventResync"}
  /\ UseInput
  /\ IF status = "eos"
     THEN /\ UpdateState(status)
          /\ UNCHANGED <<builderVars, branchReason, curMetrics, job, jumped>>
     ELSE /\ IF decoderState = "ReadEventResync" THEN decoderState' = "Resync"
             ELSE UpdateState(status)
          /\ ProcessEvent(type, EventTime(tsc))
          /\ jumped' = (jumped \/ Jumps(type))
  /\ NoFailure
  /\ UNCHANGED <<tracesLeft, lastIp>>

ReadEventFails ==
  /\ Looping
  /\ decoderState \in {"ReadEvent", "ReadEventResync"}
  /\ \/ decoderState' = "ReadBlock" /\ NoFailure              \* BadQuery
     \/ decoderState' = "Finished" /\ Fail("Corrupt")
  /\ UNCHANGED <<builderVars, branchReason, curMetrics, tracesLeft, job,
                 inputLeft, lastIp, jumped>>

-----------------------------------------------------------------------------
(***************************************************************************)
(* DecoderState::Resync and DecoderState::SyncForward                      *)
(***************************************************************************)

\* tsc is NoTsc when time() fails, which is ignored here
Resync(tsc, suppressed, status) ==
  /\ Looping
  /\ decoderState = "Resync"
  /\ UseInput
  /\ branchReason' = "Unknown"
  /\ jumped' = TRUE
  /\ LET m == IF tsc = NoTsc THEN curMetrics ELSE Advance(tsc, 0) IN
       IF suppressed THEN DisableTracing(m)
       ELSE curMetrics' = m /\ UNCHANGED builderVars
  /\ UpdateState(status)
  /\ NoFailure
  /\ UNCHANGED <<tracesLeft, job, lastIp>>

ResyncIgnoresEvent ==
  /\ Looping
  /\ decoderState = "Resync"
  /\ UseInput
  /\ branchReason' = "Unknown"
  /\ decoderState' = "ReadEventResync"
  /\ NoFailure
  /\ UNCHANGED <<builderVars, curMetrics, tracesLeft, job, lastIp, jumped>>

\* mutated form: the end of the stream is taken for a place to go on from
ResyncFailsRetries ==
  /\ Looping
  /\ decoderState = "Resync"
  /\ branchReason' = "Unknown"
  /\ \/ decoderState' = "ReadBlock" /\ NoFailure
     \/ decoderState' = "Finished" /\ Fail("Corrupt")
  /\ UNCHANGED <<builderVars, curMetrics, tracesLeft, job, inputLeft,
                 lastIp, jumped>>

ResyncFails ==
  /\ Looping
  /\ decoderState = "Resync"
  /\ branchReason' = "Unknown"
  /\ decoderState' = "Finished"
  /\ NoFailure \/ Fail("Corrupt")                             \* Eos, or any other
  /\ UNCHANGED <<builderVars, curMetrics, tracesLeft, job, inputLeft,
                 lastIp, jumped>>

\* the trace under construction is lost on every sync to the next PSB
DiscardTrace == IF mode = "none" THEN UNCHANGED builderVars ELSE DropBuilder

SyncForward(status) ==
  /\ Looping
  /\ decoderState = "SyncForward"
  /\ UseInput
  /\ DiscardTrace
  /\ branchReason' = "Unknown"
  /\ UpdateState(status)
  /\ jumped' = TRUE
  /\ lastIp' = NoIp
  /\ NoFailure
  /\ UNCHANGED <<curMetrics, tracesLeft, job>>

\* sync_forward()?: any error, end of stream included, goes to the caller
SyncForwardFails ==
  /\ Looping
  /\ decoderState = "SyncForward"
  /\ DiscardTrace
  /\ branchReason' = "Unknown"
  /\ lastIp' = NoIp
  /\ Fail("Corrupt") \/ Fail("Eos")
  /\ UNCHANGED <<decoderState, curMetrics, tracesLeft, job, inputLeft, jumped>>

-----------------------------------------------------------------------------
(***************************************************************************)
(* The rest of an iteration: what the builder still has to do.             *)
(***************************************************************************)
PauseAfterEvent ==
  /\ job.pause
  /\ Pause(curMetrics)
  /\ job' = NoJob
  /\ UNCHANGED driverVars

\* one level of process_return_event
ReturnOneLevel ==
  /\ job.levels > 0
  /\ CompleteFrame(curMetrics)
  /\ job' = [job EXCEPT !.levels = @ - 1]
  /\ UNCHANGED driverVars

\* the call that follows the return from an unknown frame
CallAfterReturn ==
  /\ job.levels = 0
  /\ job.call # NoSymbol
  /\ mode = "in_progress"
  /\ CallEvent(curMetrics, job.call)
  /\ UNCHANGED driverVars

BuilderStep ==
  /\ Proceed
  /\ UNCHANGED <<driverVars, job>>

\* The iterator has ended or failed, or a panic has ended the program.
Stopped == /\ iter \in {"ended", "error"} \/ mode \in {"failed", "panicked"}
           /\ UNCHANGED vars

Loop ==
  \/ Finished
  \/ ReturnTrace
  \/ \E ip \in Ip, class \in Class, insns \in InsnCounts, tsc \in Tsc, status \in Status :
       ReadBlock(ip, class, insns, tsc, status)
  \/ \E status \in Status : ReadBlockWithoutTime(status)
  \/ ReadBlockFails
  \/ \E type \in EventType, tsc \in EventTsc, status \in Status : ReadEvent(type, tsc, status)
  \/ ReadEventFails
  \/ \E tsc \in Tsc \cup {NoTsc}, suppressed \in BOOLEAN, status \in Status :
       Resync(tsc, suppressed, status)
  \/ ResyncIgnoresEvent
  \/ ResyncFails
  \/ \E status \in Status : SyncForward(status)
  \/ SyncForwardFails
  \/ PauseAfterEvent
  \/ ReturnOneLevel
  \/ CallAfterReturn
  \/ BuilderStep

Next == CallNext \/ Loop \/ Stopped

Spec == Init /\ [][Next]_vars /\ WF_vars(CallNext) /\ WF_vars(Loop)

-----------------------------------------------------------------------------
(***************************************************************************)
(* Properties.                                                             *)
(***************************************************************************)

\* "INVARIANT: at most, there is a single unknown frame at the top of the
\* callstack" (the comment on unknown frames in process_block), in every state,
\* also half-way through a return of several levels.
UnknownOnlyOnTop ==
  \A k \in 1 .. Len(stack) - 1 : ~IsUnknown(stack[k].symbol)

\* A trace is rooted in one call of a target function: no second call of the
\* root's symbol is ever on the stack, neither from a direct call nor from the
\* call that follows the return from an unknown frame.
RootCalledOnce ==
  /\ \A k \in 2 .. Len(stack) : stack[k].symbol # stack[1].symbol
  /\ stack # <<>> => stack[1].symbol \in Target \ {Unknown}

\* After each block, whatever jump led there, the frame on top is one the block
\* belongs to: it covers the block's address or carries its symbol.
TopFrameFollowsBlocks ==
  (mode \in {"in_progress", "paused"} /\ job = NoJob) =>
    \/ lastIp \in Ip /\ lastIp \in Covers[FrameSymbol(0)]
    \/ lastIp \in Ip /\ FrameSymbol(0) = Resolve[lastIp]

\* When the decoder has lost track of control flow (a decoding error, a resync,
\* an overflow, an interrupt, tracing switched back on) the next block is not
\* taken for a call or a return because of how the last one ended.
JumpForgetsBranch ==
  (jumped /\ decoderState = "ReadBlock") => branchReason = "Unknown"

\* Whatever the decoder returns and in whichever state the input ends, every
\* call of next() comes back (or panics): no state of the driver waits for a
\* result that never comes or spins on an error.
NextReturns == (iter = "running") ~> (iter # "running" \/ ~NeverLost)

\* "Failed to complete stack frame" (the expect on complete_frame in
\* process_return_event): completing a frame never fails.
CompletionSucceeds == mode # "failed"

=============================================================================
