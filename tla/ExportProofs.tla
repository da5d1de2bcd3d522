----------------------------- MODULE ExportProofs -----------------------------
(***************************************************************************)
(* What a normal exit of process-trace promises, for every number of       *)
(* threads, traces and workers: each decoded trace is in a complete file.  *)
(*                                                                         *)
(* A trace, once decoded, is in the queue, with a worker or in a file, or  *)
(* else a job has panicked (Accounted).  That a file stays complete needs  *)
(* that no second job ever opens it, which is why a trace must be in at    *)
(* most one place (AtMostOnce) and never decoded twice (Numbered).         *)
(***************************************************************************)
EXTENDS Export, TLAPS

\* trace is in the queue js
Queued(js, trace) == \E i \in 1 .. Len(js) : js[i] = trace

Types ==
  /\ threadsLeft \subseteq Tids
  /\ main = "decoding" => tid \in Tids
  /\ index \in Nat
  /\ jobs \in Seq(Traces)
  /\ working \in [Workers -> Traces \cup {NoTrace}]
  /\ opened \subseteq Workers
  /\ panicCount \in Nat
  /\ decoded \subseteq Traces

\* the traces of a thread are numbered from 0 and each thread is decoded once
Numbered ==
  /\ \A t \in threadsLeft : \A trace \in decoded : trace[1] # t
  /\ main = "decoding" =>
       /\ tid \notin threadsLeft
       /\ \A trace \in decoded : trace[1] = tid => trace[2] < index

OneJobEach ==
  /\ \A i \in 1 .. Len(jobs) : jobs[i] \in decoded
  /\ \A i, j \in 1 .. Len(jobs) : jobs[i] = jobs[j] => i = j
  /\ \A w \in Workers :
       working[w] # NoTrace => working[w] \in decoded /\ ~Queued(jobs, working[w])
  /\ \A v, w \in Workers : working[v] = working[w] /\ working[v] # NoTrace => v = w

\* a file is opened by the one job there is for its trace
OneFileEach ==
  /\ \A w \in opened : working[w] # NoTrace
  /\ \A trace \in DOMAIN files :
       /\ trace \in decoded
       /\ ~Queued(jobs, trace)
       /\ \A w \in Workers : working[w] = trace => w \in opened

Accounted ==
  /\ panicCount = 0 =>
       \A trace \in decoded :
         \/ Queued(jobs, trace)
         \/ \E w \in Workers : working[w] = trace
         \/ trace \in DOMAIN files /\ files[trace] = Complete(trace)
  /\ exitCode # "none" => main = "exited"
  /\ exitCode = "success" => panicCount = 0 /\ PoolIdle

IInv == Types /\ Numbered /\ OneJobEach /\ OneFileEach /\ Accounted

-----------------------------------------------------------------------------
LEMMA IInvInit == Init => IInv
<1> SUFFICES ASSUME Init PROVE IInv
  OBVIOUS
<1>1. \A w \in Workers : working[w] = NoTrace
  BY DEF Init
<1>2. Types
  BY DEF Init, Types
<1>3. Numbered /\ OneJobEach /\ OneFileEach /\ Accounted
  BY <1>1 DEF Init, Numbered, OneJobEach, OneFileEach, Accounted
<1> QED
  BY <1>2, <1>3 DEF IInv

\* Steps of the main thread that neither decode a trace nor end with success.
LEMMA MainSteps ==
  ASSUME IInv, UNCHANGED <<decoded, poolVars>>, index' \in Nat,
         threadsLeft' \subseteq threadsLeft,
         main' = "decoding" =>
           \/ main = "decoding" /\ UNCHANGED <<tid, threadsLeft, index>>
           \/ tid' \in threadsLeft /\ tid' \notin threadsLeft',
         exitCode' # "none" => main' = "exited",
         exitCode' = "success" => panicCount = 0 /\ PoolIdle
  PROVE  IInv'
<1>1. Types'
  BY DEF IInv, Types, poolVars
<1>2. Numbered'
  BY DEF IInv, Numbered
<1>3. OneJobEach' /\ OneFileEach'
  BY DEF IInv, OneJobEach, OneFileEach, Queued, poolVars
<1>4. PoolIdle' = PoolIdle
  BY DEF PoolIdle, poolVars
<1>5. Accounted'
  BY <1>4 DEF IInv, Accounted, Queued, poolVars, Complete
<1> QED
  BY <1>1, <1>2, <1>3, <1>5 DEF IInv

LEMMA DecodeStep == IInv /\ Decode => IInv'
<1> SUFFICES ASSUME IInv, Decode PROVE IInv'
  OBVIOUS
<1> DEFINE new == <<tid, index>>
<1>1. tid \in Tids /\ index \in Nat /\ new \in Traces /\ new # NoTrace
  BY ExportAssumption DEF Decode, IInv, Types, Traces
<1>2. new[1] = tid /\ new[2] = index
  OBVIOUS
<1>3. decoded' = decoded \cup {new} /\ jobs' = Append(jobs, new)
  BY DEF Decode
<1> HIDE DEF new
<1>4. new \notin decoded
  BY <1>1, <1>2 DEF Decode, IInv, Numbered
<1>5. /\ jobs \in Seq(Traces) /\ jobs' \in Seq(Traces)
      /\ Len(jobs) \in Nat /\ Len(jobs') = Len(jobs) + 1
      /\ \A i \in 1 .. Len(jobs) : jobs'[i] = jobs[i]
      /\ jobs'[Len(jobs) + 1] = new
  BY <1>1, <1>3 DEF IInv, Types
<1>6. 1 .. Len(jobs') = (1 .. Len(jobs)) \cup {Len(jobs) + 1}
  BY <1>5
<1>7. \A trace : Queued(jobs', trace) <=> Queued(jobs, trace) \/ trace = new
  BY <1>5, <1>6 DEF Queued
<1>8. Types'
  <2>1. decoded' \subseteq Traces
    BY <1>1, <1>3 DEF IInv, Types
  <2> QED
    BY <1>1, <1>5, <2>1 DEF Decode, IInv, Types
<1>9. Numbered'
  <2>1. /\ threadsLeft' = threadsLeft /\ tid' = tid /\ index' = index + 1
        /\ tid \notin threadsLeft
        /\ \A t \in threadsLeft : \A trace \in decoded : trace[1] # t
        /\ \A trace \in decoded : trace[1] = tid => trace[2] < index
    BY DEF Decode, IInv, Numbered
  <2>2. \A trace \in decoded : trace[2] \in Nat
    BY DEF IInv, Types, Traces
  <2>3. \A trace \in decoded' : trace[1] = tid => trace[2] < index + 1
    BY <1>1, <1>2, <1>3, <2>1, <2>2
  <2>4. \A t \in threadsLeft : \A trace \in decoded' : trace[1] # t
    BY <1>2, <1>3, <2>1
  <2> QED
    BY <2>1, <2>3, <2>4 DEF Numbered
<1>10. OneJobEach'
  <2>1. \A i \in 1 .. Len(jobs') : jobs'[i] \in decoded'
    BY <1>3, <1>5, <1>6 DEF IInv, OneJobEach
  <2>2. \A i, j \in 1 .. Len(jobs') : jobs'[i] = jobs'[j] => i = j
    BY <1>4, <1>5, <1>6 DEF IInv, OneJobEach
  <2> QED
    BY <1>3, <1>4, <1>7, <2>1, <2>2 DEF Decode, IInv, OneJobEach
<1>11. OneFileEach'
  BY <1>3, <1>4, <1>7 DEF Decode, IInv, OneFileEach
<1>12. Accounted'
  BY <1>3, <1>7 DEF Decode, IInv, Accounted, Complete
<1> QED
  BY <1>8, <1>9, <1>10, <1>11, <1>12 DEF IInv

LEMMA TakeJobStep == ASSUME IInv, NEW w \in Workers, TakeJob(w) PROVE IInv'
<1> DEFINE trace == Head(jobs)
<1>1. /\ jobs \in Seq(Traces) /\ jobs # <<>> /\ Len(jobs) \in Nat /\ Len(jobs) >= 1
      /\ jobs' \in Seq(Traces) /\ Len(jobs') = Len(jobs) - 1
      /\ \A i \in 1 .. Len(jobs') : jobs'[i] = jobs[i + 1]
      /\ trace = jobs[1] /\ trace \in Traces /\ trace # NoTrace
  BY ExportAssumption DEF TakeJob, IInv, Types, Traces
<1>2. \A other : Queued(jobs', other) <=> Queued(jobs, other) /\ other # trace
  <2>1. ASSUME NEW other, Queued(jobs', other)
        PROVE  Queued(jobs, other) /\ other # trace
    <3>1. PICK i \in 1 .. Len(jobs') : jobs'[i] = other
      BY <2>1 DEF Queued
    <3>2. i + 1 \in 1 .. Len(jobs) /\ i + 1 # 1 /\ jobs[i + 1] = other
      BY <1>1, <3>1
    <3> QED
      BY <1>1, <3>2 DEF IInv, OneJobEach, Queued
  <2>2. ASSUME NEW other, Queued(jobs, other), other # trace
        PROVE  Queued(jobs', other)
    <3>1. PICK i \in 1 .. Len(jobs) : jobs[i] = other
      BY <2>2 DEF Queued
    <3>2. i - 1 \in 1 .. Len(jobs') /\ jobs'[i - 1] = other
      BY <1>1, <2>2, <3>1
    <3> QED
      BY <3>2 DEF Queued
  <2> QED
    BY <2>1, <2>2
<1>3. Queued(jobs, trace) /\ trace \in decoded
  BY <1>1 DEF IInv, OneJobEach, Queued
<1>4. /\ working \in [Workers -> Traces \cup {NoTrace}]
      /\ working[w] = NoTrace
      /\ working' = [working EXCEPT ![w] = trace]
  BY DEF TakeJob, IInv, Types
<1>5. working'[w] = trace /\ \A v \in Workers : v # w => working'[v] = working[v]
  BY <1>4
<1>6. \A v \in Workers : working[v] # trace
  BY <1>1, <1>3 DEF IInv, OneJobEach
<1>7. Types'
  BY <1>1, <1>4 DEF TakeJob, mainVars, IInv, Types
<1>8. Numbered'
  BY DEF TakeJob, mainVars, IInv, Numbered
<1>9. OneJobEach'
  <2>1. \A i \in 1 .. Len(jobs') : jobs'[i] \in decoded'
    BY <1>1 DEF TakeJob, mainVars, IInv, OneJobEach
  <2>2. \A i, j \in 1 .. Len(jobs') : jobs'[i] = jobs'[j] => i = j
    <3>1. \A i \in 1 .. Len(jobs') : i + 1 \in 1 .. Len(jobs)
      BY <1>1
    <3>2. \A i, j \in 1 .. Len(jobs') : jobs'[i] = jobs'[j] => i + 1 = j + 1
      BY <1>1, <3>1 DEF IInv, OneJobEach
    <3> QED
      BY <1>1, <3>2
  <2>3. \A v \in Workers : working'[v] # NoTrace => working'[v] \in decoded' /\ ~Queued(jobs', working'[v])
    BY <1>2, <1>3, <1>5 DEF TakeJob, mainVars, IInv, OneJobEach
  <2>4. \A u, v \in Workers : working'[u] = working'[v] /\ working'[u] # NoTrace => u = v
    BY <1>5, <1>6 DEF IInv, OneJobEach
  <2> QED
    BY <2>1, <2>2, <2>3, <2>4 DEF OneJobEach, Queued
<1>10. OneFileEach'
  <2>1. \A v \in opened' : working'[v] # NoTrace
    BY <1>1, <1>5 DEF TakeJob, IInv, OneFileEach, Types
  <2>2. trace \notin DOMAIN files
    BY <1>3 DEF IInv, OneFileEach
  <2> QED
    BY <1>2, <1>5, <2>1, <2>2 DEF TakeJob, mainVars, IInv, OneFileEach
<1>11. Accounted'
  <2>1. ASSUME panicCount = 0, NEW t \in decoded
        PROVE  \/ Queued(jobs', t)
               \/ \E v \in Workers : working'[v] = t
               \/ t \in DOMAIN files /\ files[t] = Complete(t)
    <3>1. CASE Queued(jobs, t)
      BY <1>2, <1>5, <3>1
    <3>2. CASE \E v \in Workers : working[v] = t
      <4>1. PICK v \in Workers : working[v] = t
        BY <3>2
      <4>2. t # NoTrace
        BY ExportAssumption DEF IInv, Types, Traces
      <4> QED
        BY <1>4, <1>5, <4>1, <4>2
    <3> QED
      BY <2>1, <3>1, <3>2 DEF IInv, Accounted
  <2>2. exitCode' = "none"
    BY DEF TakeJob, NotExited
  <2> QED
    BY <2>1, <2>2 DEF TakeJob, mainVars, Accounted, Complete
<1> QED
  BY <1>7, <1>8, <1>9, <1>10, <1>11 DEF IInv

\* A worker opens the file of its trace, or writes it to the end.
LEMMA WriteStep ==
  ASSUME IInv, NEW w \in Workers, working[w] # NoTrace, NotExited,
         NEW content,
         files' = Written(working[w], content),
         \/ w \notin opened /\ opened' = opened \cup {w} /\ UNCHANGED working
         \/ /\ content = Complete(working[w])
            /\ opened' = opened \ {w}
            /\ working' = [working EXCEPT ![w] = NoTrace],
         UNCHANGED <<main, mainVars, jobs, panicCount, exitCode>>
  PROVE  IInv'
<1> DEFINE trace == working[w]
<1>1. working \in [Workers -> Traces \cup {NoTrace}] /\ trace \in decoded /\ trace # NoTrace
  BY DEF IInv, Types, OneJobEach
<1>2. \A v \in Workers : v # w => working'[v] = working[v] /\ working[v] # trace
  BY <1>1 DEF IInv, OneJobEach
<1>3. working'[w] \in {trace, NoTrace}
  BY <1>1
<1>4. /\ DOMAIN files' = DOMAIN files \cup {trace}
      /\ files'[trace] = content
      /\ \A t \in DOMAIN files : t # trace => files'[t] = files[t]
  BY DEF Written
<1>5. Types'
  BY <1>1 DEF mainVars, IInv, Types
<1>6. Numbered'
  BY DEF mainVars, IInv, Numbered
<1>7. OneJobEach'
  <2>1. \A v \in Workers :
          working'[v] # NoTrace => working'[v] \in decoded /\ ~Queued(jobs, working'[v])
    BY <1>2, <1>3 DEF IInv, OneJobEach
  <2>2. \A u, v \in Workers : working'[u] = working'[v] /\ working'[u] # NoTrace => u = v
    BY <1>2, <1>3 DEF IInv, OneJobEach
  <2> QED
    BY <2>1, <2>2 DEF mainVars, IInv, OneJobEach
<1>8. OneFileEach'
  <2>1. \A v \in opened' : working'[v] # NoTrace
    BY <1>1, <1>2 DEF IInv, OneFileEach, Types
  <2>2. \A t \in DOMAIN files' : t \in decoded /\ ~Queued(jobs, t)
    BY <1>1, <1>4 DEF IInv, OneFileEach, OneJobEach
  <2>3. ASSUME NEW t \in DOMAIN files', NEW v \in Workers, working'[v] = t
        PROVE  v \in opened'
    <3>1. t # NoTrace
      BY <2>2, ExportAssumption DEF IInv, Types, Traces
    <3>2. CASE v = w
      BY <1>1, <2>3, <3>1, <3>2
    <3>3. CASE v # w
      BY <1>2, <1>4, <2>3, <3>3 DEF IInv, OneFileEach
    <3> QED
      BY <3>2, <3>3
  <2> QED
    BY <2>1, <2>2, <2>3 DEF mainVars, OneFileEach
<1>9. Accounted'
  <2>1. ASSUME panicCount = 0, NEW t \in decoded
        PROVE  \/ Queued(jobs, t)
               \/ \E v \in Workers : working'[v] = t
               \/ t \in DOMAIN files' /\ files'[t] = Complete(t)
    <3>1. CASE t = trace
      BY <1>1, <1>4, <3>1
    <3>2. CASE t # trace
      <4>1. CASE \E v \in Workers : working[v] = t
        BY <1>2, <3>2, <4>1
      <4> QED
        BY <1>4, <2>1, <3>2, <4>1 DEF IInv, Accounted
    <3> QED
      BY <3>1, <3>2
  <2>2. exitCode' = "none"
    BY DEF NotExited
  <2> QED
    BY <2>1, <2>2 DEF mainVars, Accounted, Complete
<1> QED
  BY <1>5, <1>6, <1>7, <1>8, <1>9 DEF IInv

\* After a panic nothing is promised of the trace, but the count tells.
LEMMA PanicStep ==
  ASSUME IInv, NEW w \in Workers, NotExited, JobPanics(w), UNCHANGED <<main, mainVars, exitCode>>
  PROVE  IInv'
<1>1. /\ working \in [Workers -> Traces \cup {NoTrace}]
      /\ working' = [working EXCEPT ![w] = NoTrace]
      /\ opened' = opened \ {w}
      /\ jobs' = jobs /\ files' = files
      /\ panicCount \in Nat /\ panicCount' = panicCount + 1
  BY DEF JobPanics, JobOver, IInv, Types
<1>2. working'[w] = NoTrace /\ \A v \in Workers : v # w => working'[v] = working[v]
  BY <1>1
<1>3. Types' /\ Numbered'
  BY <1>1 DEF mainVars, IInv, Types, Numbered
<1>4. OneJobEach'
  BY <1>1, <1>2 DEF mainVars, IInv, OneJobEach
<1>5. OneFileEach'
  <2>1. \A v \in opened' : working'[v] # NoTrace
    BY <1>1, <1>2 DEF IInv, OneFileEach, Types
  <2>2. ASSUME NEW t \in DOMAIN files, NEW v \in Workers, working'[v] = t
        PROVE  v \in opened'
    <3>1. t # NoTrace
      BY ExportAssumption DEF IInv, Types, Traces, OneFileEach
    <3> QED
      BY <1>1, <1>2, <2>2, <3>1 DEF IInv, OneFileEach
  <2> QED
    BY <1>1, <2>1, <2>2 DEF mainVars, IInv, OneFileEach
<1>6. Accounted'
  BY <1>1 DEF NotExited, Accounted
<1> QED
  BY <1>3, <1>4, <1>5, <1>6 DEF IInv

LEMMA IInvStep == IInv /\ [Next]_vars => IInv'
<1> SUFFICES ASSUME IInv, [Next]_vars PROVE IInv'
  OBVIOUS
<1> USE DEF IInv, Types, Accounted, mainVars
<1>1. CASE NextThread
  BY <1>1, MainSteps DEF NextThread
<1>2. CASE NextThreadFails \/ DecodeFails
  BY <1>2, MainSteps DEF NextThreadFails, DecodeFails, Panic
<1>3. CASE Decode
  BY <1>3, DecodeStep
<1>4. CASE EndThread
  BY <1>4, MainSteps DEF EndThread
<1>5. CASE AllDecoded
  BY <1>5, MainSteps DEF AllDecoded
<1>6. CASE Join
  BY <1>6, MainSteps DEF Join
<1>7. ASSUME NEW w \in Workers, Worker(w)
      PROVE  IInv'
  <2>1. CASE TakeJob(w)
    BY <2>1, TakeJobStep
  <2>2. CASE CreateFile(w)
    BY <2>2, WriteStep DEF CreateFile, InJob, FileName
  <2>3. CASE CreateFileFails(w)
    BY <2>3, PanicStep DEF CreateFileFails, InJob
  <2>4. CASE WriteFails(w)
    BY <2>4, PanicStep DEF WriteFails, InJob
  <2>5. CASE Finish(w)
    BY <2>5, WriteStep DEF Finish, InJob, JobOver, FileName
  <2> QED
    BY <1>7, <2>1, <2>2, <2>3, <2>4, <2>5 DEF Worker
<1>8. CASE Exited \/ UNCHANGED vars
  BY <1>8, MainSteps DEF Exited, vars
<1> QED
  BY <1>1, <1>2, <1>3, <1>4, <1>5, <1>6, <1>7, <1>8 DEF Next, Main

(***************************************************************************)
(* The theorem.                                                            *)
(***************************************************************************)

\* A normal exit means that every decoded trace is in a complete file (the
\* comment on panicking export jobs at the end of main).
THEOREM SuccessMeansExportedAlways == Spec => []SuccessMeansExported
<1>1. IInv => SuccessMeansExported
  <2> SUFFICES ASSUME IInv, exitCode = "success", NEW trace \in decoded
               PROVE  Exported(trace)
    BY DEF SuccessMeansExported
  <2>1. jobs = <<>> /\ panicCount = 0 /\ \A w \in Workers : working[w] = NoTrace
    BY DEF IInv, Accounted, PoolIdle
  <2>2. ~Queued(jobs, trace)
    BY <2>1 DEF Queued
  <2>3. trace # NoTrace
    BY ExportAssumption DEF IInv, Types, Traces
  <2>4. trace \in DOMAIN files /\ files[trace] = Complete(trace)
    BY <2>1, <2>2, <2>3 DEF IInv, Accounted
  <2> QED
    BY <2>4 DEF Exported
<1> QED
  BY <1>1, IInvInit, IInvStep, PTL DEF Spec
=============================================================================
