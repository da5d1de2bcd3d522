-------------------------------- MODULE Export --------------------------------
(***************************************************************************)
(* The main function of process-trace (process-trace/src/main.rs): decodes *)
(* the recorded threads one after the other and hands every trace it gets  *)
(* to a pool of workers, each of which writes the trace to a file of its   *)
(* own.  A trace is a pair of a thread and an index.                       *)
(*                                                                         *)
(* The iterator over a thread's traces is Transformer, of which only what  *)
(* next() returns matters here.  The pool (the threadpool crate) is        *)
(* external: a job that panics leaves the pool as large as before and is   *)
(* counted in panic_count before join takes it to be over, as the crate    *)
(* documents it (its two counters are changed one after the other, a       *)
(* window that is left out).                                               *)
(***************************************************************************)
EXTENDS Integers, Sequences, FiniteSets

CONSTANTS
  Tids,        \* the recorded threads
  Workers,     \* threads of the pool
  MaxTraces,   \* --max-traces, 0 for no limit
  MaxDecoded,  \* bound: traces in one thread's data
  NoTid, NoTrace

ASSUME ExportAssumption ==
  /\ IsFiniteSet(Tids) /\ NoTid \notin Tids
  /\ Workers # {}
  /\ MaxTraces \in Nat
  /\ MaxDecoded \in Nat
  /\ NoTrace \notin Tids \X Nat

VARIABLES
  main,        \* where the main function is
  threadsLeft, \* raw_data_vec
  tid,         \* the thread being decoded
  index,       \* traces its iterator has returned
  jobs,        \* the pool's queue of traces to export
  working,     \* the trace each worker is exporting
  opened,      \* the workers whose output file is open
  panicCount,
  files,       \* what is in each file that exists
  decoded,     \* history: traces decoded
  exitCode

mainVars == <<threadsLeft, tid, index, decoded>>
poolVars == <<jobs, working, opened, panicCount, files>>
vars == <<main, mainVars, poolVars, exitCode>>

Traces == Tids \X Nat

\* mutated form: traces are numbered within a thread only
FileNameByIndex(trace) == <<NoTid, trace[2]>>

\* trace-{tid}-{i}
FileName(trace) == trace

Partial(trace)  == [trace |-> trace, state |-> "partial"]
Complete(trace) == [trace |-> trace, state |-> "complete"]

Written(name, content) ==
  [n \in DOMAIN files \cup {name} |-> IF n = name THEN content ELSE files[n]]

NotExited == exitCode = "none"

Init ==
  /\ main = "threads"
  /\ threadsLeft = Tids
  /\ tid = NoTid
  /\ index = 0
  /\ jobs = <<>>
  /\ working = [w \in Workers |-> NoTrace]
  /\ opened = {}
  /\ panicCount = 0
  /\ files = [n \in {} |-> NoTrace]
  /\ decoded = {}
  /\ exitCode = "none"

-----------------------------------------------------------------------------
(***************************************************************************)
(* The main thread.                                                        *)
(***************************************************************************)

\* an expect on an error: the program ends, whatever the workers are doing
Panic ==
  /\ exitCode' = "panic"
  /\ main' = "exited"
  /\ UNCHANGED <<mainVars, poolVars>>

\* the next thread, in no particular order
NextThread ==
  /\ main = "threads"
  /\ \E t \in threadsLeft : tid' = t /\ threadsLeft' = threadsLeft \ {t}
  /\ index' = 0
  /\ main' = "decoding"
  /\ UNCHANGED <<decoded, poolVars, exitCode>>

\* "Failed to create Intel PT trace decoder"
NextThreadFails ==
  /\ main = "threads"
  /\ threadsLeft # {}
  /\ Panic

\* the limit is the iterator's
Exhausted == index = MaxDecoded \/ (MaxTraces # 0 /\ index = MaxTraces)

\* next() returns a trace, which becomes a job
Decode ==
  /\ main = "decoding"
  /\ ~Exhausted
  /\ decoded' = decoded \cup {<<tid, index>>}
  /\ jobs' = Append(jobs, <<tid, index>>)
  /\ index' = index + 1
  /\ UNCHANGED <<main, threadsLeft, tid, working, opened, panicCount, files, exitCode>>

\* next() returns no more traces
EndThread ==
  /\ main = "decoding"
  /\ main' = "threads"
  /\ tid' = NoTid
  /\ UNCHANGED <<threadsLeft, index, decoded, poolVars, exitCode>>

\* "Unrecoverable error while decoding trace"
DecodeFails ==
  /\ main = "decoding"
  /\ Panic

AllDecoded ==
  /\ main = "threads"
  /\ threadsLeft = {}
  /\ main' = "joining"
  /\ UNCHANGED <<mainVars, poolVars, exitCode>>

PoolIdle == jobs = <<>> /\ \A w \in Workers : working[w] = NoTrace

\* threadpool.join() and the end of main
Join ==
  /\ main = "joining"
  /\ PoolIdle
  /\ main' = "exited"
  /\ exitCode' = IF panicCount > 0 THEN "failure" ELSE "success"
  /\ UNCHANGED <<mainVars, poolVars>>

-----------------------------------------------------------------------------
(***************************************************************************)
(* A worker.                                                               *)
(***************************************************************************)
TakeJob(w) ==
  /\ NotExited
  /\ working[w] = NoTrace
  /\ jobs # <<>>
  /\ working' = [working EXCEPT ![w] = Head(jobs)]
  /\ jobs' = Tail(jobs)
  /\ UNCHANGED <<main, mainVars, opened, panicCount, files, exitCode>>

InJob(w) == NotExited /\ working[w] # NoTrace

\* File::create, which also empties a file that exists
CreateFile(w) ==
  /\ InJob(w)
  /\ w \notin opened
  /\ opened' = opened \cup {w}
  /\ files' = Written(FileName(working[w]), Partial(working[w]))
  /\ UNCHANGED <<main, mainVars, jobs, working, panicCount, exitCode>>

JobOver(w) ==
  /\ working' = [working EXCEPT ![w] = NoTrace]
  /\ opened' = opened \ {w}

\* mutated form: a job that fails is tried again
JobPanicsRetries(w) ==
  /\ JobOver(w)
  /\ jobs' = Append(jobs, working[w])
  /\ UNCHANGED <<panicCount, files>>

\* the job panics and leaves the file as it is
JobPanics(w) ==
  /\ JobOver(w)
  /\ panicCount' = panicCount + 1
  /\ UNCHANGED <<jobs, files>>

\* "Failed to create output file"
CreateFileFails(w) ==
  /\ InJob(w)
  /\ w \notin opened
  /\ JobPanics(w)
  /\ UNCHANGED <<main, mainVars, exitCode>>

\* "Failed to binary encode trace", flushing included
WriteFails(w) ==
  /\ InJob(w)
  /\ w \in opened
  /\ JobPanics(w)
  /\ UNCHANGED <<main, mainVars, exitCode>>

Finish(w) ==
  /\ InJob(w)
  /\ w \in opened
  /\ files' = Written(FileName(working[w]), Complete(working[w]))
  /\ JobOver(w)
  /\ UNCHANGED <<main, mainVars, jobs, panicCount, exitCode>>

Exited == exitCode # "none" /\ UNCHANGED vars

Main == NextThread \/ NextThreadFails \/ Decode \/ EndThread \/ DecodeFails \/ AllDecoded \/ Join

Worker(w) == TakeJob(w) \/ CreateFile(w) \/ CreateFileFails(w) \/ WriteFails(w) \/ Finish(w)

Next == Main \/ (\E w \in Workers : Worker(w)) \/ Exited

\* the main thread and every worker run; Transformer's next() always returns
Spec == Init /\ [][Next]_vars /\ WF_vars(Main) /\ \A w \in Workers : WF_vars(Worker(w))

-----------------------------------------------------------------------------
(***************************************************************************)
(* Properties.                                                             *)
(***************************************************************************)

Exported(trace) == \E n \in DOMAIN files : files[n] = Complete(trace)

\* "a panicking export job only kills its worker, so surface it in the exit
\* code": the program exits with success only when every trace it has decoded
\* is in a complete file, none overwritten by another's.
SuccessMeansExported ==
  exitCode = "success" => \A trace \in decoded : Exported(trace)

\* The program exits, also after jobs have failed.
Exits == <>(exitCode # "none")

\* "stops producing traces after N traces have been produced" (--max-traces).
TotalWithinLimit == MaxTraces # 0 => Cardinality(decoded) <= MaxTraces
=============================================================================
